-------------------------------- MODULE Persist --------------------------------
(***************************************************************************)
(* persist of services/normalizer/main.go: which statements a normalized   *)
(* result makes the transaction of its delivery execute, and in which      *)
(* order.  Pure; WriteModel executes them.                                 *)
(*                                                                         *)
(* A statement is [op, key, ...].  key is the unique key of the row it is  *)
(* about; the tenant, which leads every key, is left out: transactions of  *)
(* two tenants share no key.                                               *)
(***************************************************************************)
EXTENDS GithubNormalize, SequencesExt

ItemKey(wi) == <<"work_item", wi.repo, wi.type, wi.node>>
ReviewKey(rv) == <<"review", rv.source>>
CheckKey(cr) == <<"check_run", cr.source>>
CommentKey(cm) == <<"comment", cm.source>>
LinkKey(login) == <<"identity_link", login>>

(* What upsertWorkItem refreshes of a row and workItemPayload tells of it.   *)
(* merged_at and closed_at, which no event tells, are left out, as is what   *)
(* never changes at GitHub, and what only an event holds (commits, files).   *)
Columns(wi) == [status |-> wi.status, size |-> wi.size]

Emit(key, type, occurredAt, data) ==
  [op |-> "emit", key |-> key, type |-> type, occurredAt |-> occurredAt, data |-> data]

ItemStatements(wi) ==
  IF wi.event = NoEvent
  THEN << [op |-> "ensure", key |-> ItemKey(wi), data |-> Columns(wi)] >>
  ELSE << [op |-> "upsert", key |-> ItemKey(wi), data |-> Columns(wi)],
          Emit(ItemKey(wi), wi.event, wi.occurredAt, Columns(wi)) >>

(* A review links to a work item of its own delivery, or is rejected for     *)
(* good; one without a reviewer is passed over.                              *)
Parents(rv, items) == { wi \in { items[i] : i \in DOMAIN items } : wi.node = rv.pr }

ReviewStatements(rv, items) ==
  IF Parents(rv, items) = {} THEN << [op |-> "reject", key |-> ReviewKey(rv)] >>
  ELSE IF rv.reviewer = "" THEN <<>>
  ELSE << [op |-> "resolve", key |-> LinkKey(rv.reviewer)],
          [ op |-> "review", key |-> ReviewKey(rv), data |-> rv.state,
            item |-> ItemKey(CHOOSE wi \in Parents(rv, items) : TRUE),
            login |-> LinkKey(rv.reviewer) ],
          Emit(ReviewKey(rv), "review.submitted", rv.submittedAt, rv.state) >>

CheckStatements(cr) ==
  << [op |-> "upsert", key |-> CheckKey(cr), data |-> cr.conclusion],
     Emit(CheckKey(cr), "check.completed",
          IF cr.completedAt = Never THEN cr.startedAt ELSE cr.completedAt, cr.conclusion) >>

(* Comments have no table. *)
CommentStatements(cm) ==
  << Emit(CommentKey(cm), "comment.added", cm.createdAt, cm.parentType) >>

ForEach(entities, Statements(_)) ==
  FlattenSeq([i \in DOMAIN entities |-> Statements(entities[i])])

ProgramOf(res) ==
  LET Review(rv) == ReviewStatements(rv, res.workItems) IN
  ForEach(res.workItems, ItemStatements)
    \o ForEach(res.reviews, Review)
    \o ForEach(res.checkRuns, CheckStatements)
    \o ForEach(res.comments, CommentStatements)

(* process opens a transaction only for a result with entities in it. *)
IsEmpty(res) ==
  res.workItems = <<>> /\ res.reviews = <<>> /\ res.checkRuns = <<>> /\ res.comments = <<>>

Persisted(raw) ==
  LET res == Normalize(raw) IN res.outcome = "entities" /\ ~IsEmpty(res)
================================================================================
