--------------------------- MODULE GithubNormalize -----------------------------
(***************************************************************************)
(* libs/go/connector/github/github.go: Normalize maps one raw webhook to   *)
(* canonical entities (libs/go/connector/connector.go).  It is pure: an    *)
(* operator here, and this module has no variables.                        *)
(*                                                                         *)
(* A webhook is [event, decodes, body]: decodes is FALSE when              *)
(* json.Unmarshal rejects the body.  Of the payload's data are kept:       *)
(* identities, what decides a branch, states and timestamps.  Times count  *)
(* from 1, and Never is Go's nil or zero time; a PR's additions, deletions *)
(* and changed files are one size class; titles, bodies and file lists are *)
(* left out.                                                               *)
(***************************************************************************)
EXTENDS Naturals, Sequences

Never == 0
Absent == "absent"     \* an enrichment count that is not there
Zero == "zero"         \* the size of what has none
NoEvent == ""          \* WorkItem.Event of an ensure-only item

--------------------------------------------------------------------------------
(* What Normalize returns. *)

Failure == [outcome |-> "error"]
Skip == [outcome |-> "skip"]

Empty(installation) ==
  [ outcome |-> "entities", installation |-> installation,
    workItems |-> <<>>, reviews |-> <<>>, checkRuns |-> <<>>, comments |-> <<>> ]

Pick(condition, result) == IF condition THEN result ELSE Skip

--------------------------------------------------------------------------------
(* Helpers on work items. *)

StateChanges == {"closed", "reopened", "ready_for_review", "converted_to_draft"}

workItemEvent(action) ==
  CASE action = "opened" -> "work_item.created"
    [] action \in StateChanges -> "work_item.state_changed"
    [] OTHER -> "work_item.updated"

(* The close or merge time of an item that has one, else its creation time. *)
workItemOccurredAt(wi) ==
  CASE wi.mergedAt # Never -> wi.mergedAt
    [] wi.mergedAt = Never /\ wi.closedAt # Never -> wi.closedAt
    [] OTHER -> wi.createdAt

Dated(wi) == [wi EXCEPT !.occurredAt = workItemOccurredAt(wi)]

--------------------------------------------------------------------------------
(* Pull requests and their reviews. *)

prStatus(pr) ==
  CASE pr.merged -> "merged"
    [] ~pr.merged /\ pr.state = "closed" -> "closed"
    [] OTHER -> "open"

(* Ensure-only: the caller sets the event of a PR the webhook is about. *)
prWorkItem(pr, repo) ==
  [ type |-> "pr", repo |-> repo, node |-> pr.node, number |-> pr.number,
    status |-> prStatus(pr), author |-> pr.user, size |-> pr.size, commits |-> <<>>,
    createdAt |-> pr.createdAt, mergedAt |-> pr.mergedAt, closedAt |-> pr.closedAt,
    occurredAt |-> Never, event |-> NoEvent ]

(* The enricher's counts override the webhook's; absent ones do not. *)
applyEnrichment(wi, enrichments) ==
  IF enrichments = <<>> THEN wi
  ELSE LET enr == enrichments[1] IN
       [wi EXCEPT !.size = IF enr.size = Absent THEN @ ELSE enr.size, !.commits = enr.commits]

normalizePullRequest(p) ==
  LET pr == [p.pullRequest EXCEPT !.number = IF @ = 0 THEN p.number ELSE @]
      wi == applyEnrichment(prWorkItem(pr, p.repo), p.enrichment)
  IN [Empty(p.installation) EXCEPT
        !.workItems = << Dated([wi EXCEPT !.event = workItemEvent(p.action)]) >>]

(* Faulty variant of normalizeReview: it relies on the PR's own webhook. *)
normalizeReviewAlone(p) ==
  Pick(p.action = "submitted",
    [Empty(p.installation) EXCEPT
       !.reviews = << [ source |-> p.review.node, pr |-> p.pullRequest.node,
                        reviewer |-> p.review.user, state |-> p.review.state,
                        submittedAt |-> p.review.submittedAt ] >>])

(* Only submissions count; the review's PR goes along to be linked to. *)
normalizeReview(p) ==
  Pick(p.action = "submitted",
    [Empty(p.installation) EXCEPT
       !.workItems = << prWorkItem(p.pullRequest, p.repo) >>,
       !.reviews = << [ source |-> p.review.node, pr |-> p.pullRequest.node,
                        reviewer |-> p.review.user, state |-> p.review.state,
                        submittedAt |-> p.review.submittedAt ] >>])

--------------------------------------------------------------------------------
(* Comments. *)

Comment(c, parentType, parentNumber) ==
  [ source |-> c.node, parentType |-> parentType, parentNumber |-> parentNumber,
    author |-> c.user, createdAt |-> c.createdAt ]

normalizeReviewComment(p) ==
  Pick(p.action = "created",
    [Empty(p.installation) EXCEPT !.comments = << Comment(p.comment, "pr", p.number) >>])

normalizeIssueComment(p) ==
  Pick(p.action = "created",
    [Empty(p.installation) EXCEPT
       !.comments = << Comment(p.comment, IF p.onPullRequest THEN "pr" ELSE "issue", p.number) >>])

--------------------------------------------------------------------------------
(* Issues and pushes. *)

normalizeIssue(p) ==
  [Empty(p.installation) EXCEPT
     !.workItems = <<
       Dated([ type |-> "issue", repo |-> p.repo, node |-> p.issue.node, number |-> p.issue.number,
               status |-> IF p.issue.state = "closed" THEN "closed" ELSE "open",
               author |-> p.issue.user, size |-> Zero, commits |-> <<>>,
               createdAt |-> p.issue.createdAt, mergedAt |-> Never, closedAt |-> p.issue.closedAt,
               occurredAt |-> Never, event |-> workItemEvent(p.action) ]) >>]

(* A commit's node is its sha. *)
Observed(c, repo) ==
  [ type |-> "commit", repo |-> repo, node |-> c.sha, number |-> 0,
    status |-> "observed", author |-> c.user, size |-> Zero, commits |-> <<>>,
    createdAt |-> c.at, mergedAt |-> Never, closedAt |-> Never,
    occurredAt |-> c.at, event |-> "commit.observed" ]

normalizePush(p) ==
  Pick(p.commits # <<>>,
    [Empty(p.installation) EXCEPT
       !.workItems = [i \in 1 .. Len(p.commits) |-> Observed(p.commits[i], p.repo)]])

--------------------------------------------------------------------------------
(* CI: check runs, and legacy commit statuses as check runs. *)

normalizeCheckRun(p) ==
  Pick(p.checkRun.status = "completed",
    [Empty(p.installation) EXCEPT
       !.checkRuns = << [ source |-> <<"check_run", p.checkRun.node>>, sha |-> p.checkRun.sha,
                          conclusion |-> p.checkRun.conclusion,
                          startedAt |-> p.checkRun.startedAt,
                          completedAt |-> p.checkRun.completedAt ] >>])

statusConclusion(state) == IF state = "error" THEN "failure" ELSE state

(* The source id is "status:" and the number: never that of a check run. *)
normalizeStatus(p) ==
  Pick(p.state # "pending",
    [Empty(p.installation) EXCEPT
       !.checkRuns = << [ source |-> <<"status", p.id>>, sha |-> p.sha,
                          conclusion |-> statusConclusion(p.state),
                          startedAt |-> Never, completedAt |-> p.updatedAt ] >>])

--------------------------------------------------------------------------------
(* The dispatch on X-GitHub-Event.  check_suite and all other events are      *)
(* skipped before their body is looked at.                                    *)
Handler(event, p) ==
  CASE event = "pull_request" -> normalizePullRequest(p)
    [] event = "pull_request_review" -> normalizeReview(p)
    [] event = "pull_request_review_comment" -> normalizeReviewComment(p)
    [] event = "issue_comment" -> normalizeIssueComment(p)
    [] event = "issues" -> normalizeIssue(p)
    [] event = "push" -> normalizePush(p)
    [] event = "check_run" -> normalizeCheckRun(p)
    [] event = "status" -> normalizeStatus(p)

Handled == { "pull_request", "pull_request_review", "pull_request_review_comment",
             "issue_comment", "issues", "push", "check_run", "status" }

(* Every handler starts with the same two checks. *)
Normalize(raw) ==
  CASE raw.event \notin Handled -> Skip
    [] raw.event \in Handled /\ (~raw.decodes \/ raw.body.installation = 0) -> Failure
    [] OTHER -> Handler(raw.event, raw.body)
================================================================================
