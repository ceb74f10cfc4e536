----------------------------- MODULE MCWriteModel ------------------------------
(* A small instance of WriteModel: its programs are what the connector and   *)
(* persist make of the webhooks below.                                       *)
EXTENDS WriteModel, TLC
LOCAL P == INSTANCE Persist

CONSTANTS w1, w2

(* PR p at two moments, and the PR of the second review. *)
PullRequest(node, state, merged, mergedAt) ==
  [ node |-> node, number |-> 0, user |-> "bob", state |-> state, merged |-> merged,
    size |-> "small", createdAt |-> 1, mergedAt |-> mergedAt, closedAt |-> mergedAt ]
Opened(node) == PullRequest(node, "open", FALSE, P!Never)
Merged(node) == PullRequest(node, "closed", TRUE, 4)

PullRequestHook(action, pr, enrichment) ==
  [ event |-> "pull_request", decodes |-> TRUE,
    body |-> [ installation |-> 1, repo |-> "r", action |-> action, number |-> 7,
               pullRequest |-> pr, enrichment |-> enrichment ] ]
ReviewHook(action, pr, node, user) ==
  [ event |-> "pull_request_review", decodes |-> TRUE,
    body |-> [ installation |-> 1, repo |-> "r", action |-> action, pullRequest |-> pr,
               review |-> [node |-> node, user |-> user, state |-> "approved", submittedAt |-> 2] ] ]
PushHook(shas) ==
  [ event |-> "push", decodes |-> TRUE,
    body |-> [ installation |-> 1, repo |-> "r",
               commits |-> [i \in DOMAIN shas |-> [sha |-> shas[i], user |-> "bob", at |-> 1]] ] ]
StatusHook(state, at) ==
  [ event |-> "status", decodes |-> TRUE,
    body |-> [installation |-> 1, state |-> state, id |-> 5, sha |-> "c1", updatedAt |-> at] ]
CommentHook(installation) ==
  [ event |-> "issue_comment", decodes |-> TRUE,
    body |-> [ installation |-> installation, action |-> "created", number |-> 7, onPullRequest |-> TRUE,
               comment |-> [node |-> "m", user |-> "alice", createdAt |-> 3] ] ]

(* dismissed and pending are skipped, detached and garbled fail, and unnamed *)
(* has a review without a reviewer: its PR is persisted alone.               *)
Hook ==
  [ opened    |-> PullRequestHook("opened", Opened("p"), <<>>),
    merged    |-> PullRequestHook("closed", Merged("p"), <<[size |-> "large", commits |-> <<"c1", "c2">>]>>),
    reviewP   |-> ReviewHook("submitted", Opened("p"), "v1", "alice"),
    reviewQ   |-> ReviewHook("submitted", Opened("q"), "v2", "alice"),
    unnamed   |-> ReviewHook("submitted", Merged("p"), "v3", ""),
    dismissed |-> ReviewHook("dismissed", Opened("p"), "v1", "alice"),
    push      |-> PushHook(<<"c1", "c2">>),
    pushBack  |-> PushHook(<<"c2", "c1">>),
    failed    |-> StatusHook("error", 2),
    passed    |-> StatusHook("success", 3),
    pending   |-> StatusHook("pending", 1),
    comment   |-> CommentHook(1),
    detached  |-> CommentHook(0),
    garbled   |-> [event |-> "push", decodes |-> FALSE],
    suite     |-> [event |-> "check_suite", decodes |-> TRUE] ]

MCDeliveries == { d \in DOMAIN Hook : P!Persisted(Hook[d]) }
Table == [d \in MCDeliveries |-> P!ProgramOf(P!Normalize(Hook[d]))]
MCProgram == Table @@ <<>>   \* @@ makes TLC compute the table once
MCSourceTime ==
  [d \in MCDeliveries |-> CASE d = "merged" -> 4 [] d = "passed" -> 3 [] d = "failed" -> 2 [] OTHER -> 1]
================================================================================
