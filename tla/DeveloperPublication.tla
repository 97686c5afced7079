------------------------ MODULE DeveloperPublication ------------------------
(***************************************************************************)
(* The publication of one reviewed feature to GitHub: Runtime::publish and *)
(* what resumes, completes or abandons it.  DeveloperRunner treats all of  *)
(* this as a few effects; here every intent, command and receipt is a step *)
(* of its own, a command may fail before or after it took effect, or take  *)
(* effect after the runner has given up on it, and the owner, other        *)
(* developers and the checks act on GitHub in between.                     *)
(*                                                                         *)
(* Source: developer_publication.rs, and the callers in developer_main.rs. *)
(* A commit is named by the base it is built on, since its tree, author    *)
(* and date are frozen; Other is any commit of somebody else.  The base    *)
(* branch is a counter of its commits.                                     *)
(***************************************************************************)
EXTENDS Naturals, Sequences, FiniteSets

CONSTANTS
  None,
  Other,         \* a commit that is not the candidate's
  EventLimit,    \* EVENT_LIMIT
  MaxBase,       \* bound: commits of the base branch
  MaxPulls       \* bound: pull requests of the feature branch

ASSUME PublicationAssumption ==
  /\ {EventLimit, MaxBase, MaxPulls} \subseteq Nat
  /\ None \notin 0 .. MaxBase /\ Other \notin 0 .. MaxBase /\ None # Other
  /\ None \notin 1 .. MaxPulls

VARIABLES
  record,     \* PublicationRecord of the database
  feature,    \* status of the feature, and "reverify" at publication_completion_reverify
  task,       \* the publication task, with what its copy of the record has not saved yet
  cancelled,  \* publication_cancellation
  checkout,   \* the private checkout
  github,     \* the repository
  requests    \* effects that were asked for and are not decided yet

vars == <<record, feature, task, cancelled, checkout, github, requests>>

Base == 0 .. MaxBase
Commit == Base \cup {Other}
EffectStage == {"push_branch", "open_pull_request", "merge_pull_request"}
Stage ==
  {"prepare_candidate", "wait_required_checks", "verify_remote_base", "complete", "abandoned"}
    \cup EffectStage

\* base stands for base_sha, candidate_tree_sha, commit_sha and the author, which
\* are saved together; of the events the record keeps their number, the stages
\* with an intent, and whether a receipt of an effect came without one (orphan).
Record ==
  [status : {"pending", "running", "attention", "succeeded", "abandoned"}, stage : Stage,
   base : Base \cup {None}, pr : 1 .. MaxPulls \cup {None}, merged : BOOLEAN,
   events : 0 .. EventLimit, intents : SUBSET Stage, orphan : BOOLEAN]

\* merge: what the base branch became by the merge.
Pull ==
  [state : {"open", "closed", "merged"}, head : Commit, by : {"runner", "owner"}, merge : Base \cup {None}]
GitHub ==
  [base : Base, branch : Commit \cup {None}, pulls : UNION {[1 .. n -> Pull] : n \in 0 .. MaxPulls},
   checks : {"pending", "passed", "failed"}]
Request == [effect : EffectStage, pr : 1 .. MaxPulls \cup {None}, head : Commit \cup {None}]

At ==
  {"view", "prepare", "overlay", "commit", "committed", "push", "pushing", "pushed", "open",
   "opening", "opened", "bound", "checks", "waiting", "merge", "merging", "merged", "verify", "finish"}

Task == [at : At, base : Base \cup {None}, pr : 1 .. MaxPulls \cup {None}]

\* A task that runs is not the empty Option.
ASSUME TaskAssumption == None \notin Task

\* One type invariant for the module.
TypeOK ==
  /\ record \in Record
  /\ feature \in {"running", "failed", "reverify", "succeeded", "removed"}
  /\ task \in {None} \cup Task
  /\ cancelled \in BOOLEAN
  /\ checkout \in {"absent", "clean", "dirty"}
  /\ github \in GitHub
  /\ requests \subseteq Request

\* The runner has just recorded the approved candidate.
Init ==
  /\ record = [status |-> "pending", stage |-> "prepare_candidate", base |-> None, pr |-> None,
               merged |-> FALSE, events |-> 0, intents |-> {}, orphan |-> FALSE]
  /\ feature = "running"
  /\ task = [at |-> "view", base |-> None, pr |-> None]
  /\ cancelled = FALSE
  /\ checkout = "absent"
  /\ github = [base |-> 0, branch |-> None, pulls |-> <<>>, checks |-> "pending"]
  /\ requests = {}

-----------------------------------------------------------------------------
(* The record *)

\* PublicationRecord::event
Event(r, kind, stage) ==
  [r EXCEPT !.status = "running", !.stage = stage, !.events = @ + 1,
            !.intents = IF kind = "intent" THEN @ \cup {stage} ELSE @,
            !.orphan = @ \/ (kind = "receipt" /\ stage \in EffectStage /\ stage \notin r.intents)]

\* PublicationRecord::validate: a receipt of an effect has an intent before it.
Validates(r) == ~r.orphan

\* Bug: the limit is checked after the event was added.
RoomForOneMore(n) == record.events + n <= EventLimit + 1

\* EVENT_LIMIT is checked when an event is added.
Room(n) == record.events + n <= EventLimit

\* The closure persist: the copy of the task is saved as a whole.
Persists(r) == record' = [r EXCEPT !.base = task.base, !.pr = task.pr] /\ feature' = "running"

TaskAt(stage) == task # None /\ task.at = stage
\* A command is not started after a cancellation, and its success is not used.
Commands(stage) == TaskAt(stage) /\ ~cancelled
Goes(stage) == task' = [task EXCEPT !.at = stage]

\* can_abandon_before_remote_effects: the first intent is the only event.
AbandonableBeforeEffects ==
  /\ Validates(record) /\ record.stage = "prepare_candidate"
  /\ record.base = None /\ record.pr = None /\ ~record.merged
  /\ record.events = 1 /\ record.intents = {"prepare_candidate"}

\* observe_closed_unmerged and bind_closed_unmerged_pr
AbandonableAfterClosing ==
  /\ Validates(record) /\ record.base # None /\ record.pr # None /\ ~record.merged
  /\ github.pulls[record.pr].state = "closed" /\ github.pulls[record.pr].head = record.base

-----------------------------------------------------------------------------
(* Runtime::publish *)

\* bind_pr: an open pull request onto the frozen base, or a merged one, whose
\* head is the candidate, and which is the recorded one if there is one.
Binds(n) ==
  /\ github.pulls[n].state \in {"open", "merged"}
  /\ github.pulls[n].state = "open" => github.base = task.base
  /\ github.pulls[n].head = task.base
  /\ task.pr # None => task.pr = n

Merged(n) == github.pulls[n].state = "merged"

\* Bug: the tree of the merge is not compared with the candidate's.
MergeStandsUnverified(n) == github.base = github.pulls[n].merge

\* The base branch is at the merge, and verify_merged_tree: nothing but the
\* candidate came onto its base.
MergeStands(n) == github.base = github.pulls[n].merge /\ github.pulls[n].merge = task.base + 1

\* record.merged_sha, the complete receipt and the status are saved at once.
Completes(n) ==
  /\ Room(1) /\ Merged(n) /\ MergeStands(n)
  /\ Persists([Event(record, "receipt", "complete") EXCEPT !.status = "succeeded", !.merged = TRUE])
  /\ Goes("finish")

\* reconcile_if_merged: only the head of the base branch is accepted.
ReconcileIfMerged ==
  /\ Commands("view") /\ Validates(record)
  /\ \/ /\ record.pr = None
        /\ Goes("prepare")
        /\ UNCHANGED <<record, feature>>
     \/ /\ record.pr # None /\ Binds(record.pr) /\ ~Merged(record.pr)
        /\ Goes("prepare")
        /\ UNCHANGED <<record, feature>>
     \/ record.pr # None /\ Binds(record.pr) /\ Completes(record.pr)
  /\ UNCHANGED <<cancelled, checkout, github, requests>>

\* An intent is saved, and then the next stage begins.
Intends(from, stage, to) ==
  /\ Commands(from) /\ Room(1)
  /\ Persists(Event(record, "intent", stage))
  /\ Goes(to)
  /\ UNCHANGED <<cancelled, checkout, github, requests>>

PrepareIntent == Intends("prepare", "prepare_candidate", "overlay")

\* The base is fetched and checked out, which keeps files that an earlier
\* attempt left behind; every file is then compared with the reviewed original
\* and overwritten.
Overlay ==
  /\ Commands("overlay")
  /\ task.base # None => task.base = github.base
  /\ checkout # "dirty"
  /\ checkout' = "dirty"
  /\ task' = [task EXCEPT !.at = "commit", !.base = github.base]
  /\ UNCHANGED <<record, feature, cancelled, github, requests>>

\* The commit is made and compared with the recorded one.
CommitCandidate ==
  /\ Commands("commit")
  /\ checkout' = "clean"
  /\ Goes("committed")
  /\ UNCHANGED <<record, feature, cancelled, github, requests>>

\* A receipt is saved, and then the next stage begins.
Verifies(from, stage, to) ==
  /\ Commands(from) /\ Room(1)
  /\ Persists(Event(record, "receipt", stage))
  /\ Goes(to)
  /\ UNCHANGED <<cancelled, checkout, github, requests>>

PrepareReceipt == Verifies("committed", "prepare_candidate", "push")

\* A command that is to have an effect on GitHub is started.
Sends(r, to) ==
  /\ requests' = requests \cup {r}
  /\ Goes(to)
  /\ UNCHANGED <<record, feature, cancelled, checkout, github>>

\* Bug: the push is started before its intent is saved.
PushBranchUnrecorded ==
  /\ Commands("push")
  /\ github.branch = None
  /\ Goes("pushing")
  /\ UNCHANGED <<record, feature, cancelled, checkout, github, requests>>

\* push_branch: a branch that is there already is taken over.
PushBranch ==
  /\ TaskAt("push")
  /\ \/ github.branch = task.base /\ Verifies("push", "push_branch", "open")
     \/ github.branch = None /\ Intends("push", "push_branch", "pushing")

PushRequest == [effect |-> "push_branch", pr |-> None, head |-> task.base]
SendPush == Commands("pushing") /\ Sends(PushRequest, "pushed")
PushVerified ==
  /\ TaskAt("pushed") /\ PushRequest \notin requests /\ github.branch = task.base
  /\ Verifies("pushed", "push_branch", "open")

\* open_or_reconcile_pr: a pull request that is there already is taken over.
OpenPullRequest ==
  \/ /\ Commands("open")
     /\ \/ task.pr # None /\ Goes("bound")
        \/ /\ task.pr = None /\ Len(github.pulls) = 1 /\ Binds(1)
           /\ task' = [task EXCEPT !.at = "bound", !.pr = 1]
     /\ UNCHANGED <<record, feature, cancelled, checkout, github, requests>>
  \/ /\ TaskAt("open") /\ task.pr = None /\ github.pulls = <<>>
     /\ Intends("open", "open_pull_request", "opening")

OpenRequest == [effect |-> "open_pull_request", pr |-> None, head |-> task.base]
SendOpen == Commands("opening") /\ Sends(OpenRequest, "opened")

\* pr_view by the branch finds the newest pull request.
PullRequestOpened ==
  /\ Commands("opened") /\ OpenRequest \notin requests
  /\ github.pulls # <<>> /\ Binds(Len(github.pulls))
  /\ task' = [task EXCEPT !.at = "bound", !.pr = Len(github.pulls)]
  /\ UNCHANGED <<record, feature, cancelled, checkout, github, requests>>

PullRequestVerified == TaskAt("bound") /\ Binds(task.pr) /\ Verifies("bound", "open_pull_request", "checks")

ChecksIntent == Intends("checks", "wait_required_checks", "waiting")

\* wait_for_checks: another round is a stutter.
ChecksPass ==
  /\ TaskAt("waiting") /\ Binds(task.pr) /\ github.checks = "passed"
  /\ Verifies("waiting", "wait_required_checks", "merge")

\* merge_and_verify: the pull request, the policy and the live base are looked
\* at again.  (One that is merged already has moved the base.)
MergeIntent ==
  /\ TaskAt("merge") /\ Binds(task.pr) /\ ~Merged(task.pr) /\ github.base = task.base
  /\ Intends("merge", "merge_pull_request", "merging")

\* Bug: the merge is asked for without the expected head.
MergeRequestUnguarded == [effect |-> "merge_pull_request", pr |-> task.pr, head |-> None]

\* --match-head-commit
MergeRequest == [effect |-> "merge_pull_request", pr |-> task.pr, head |-> task.base]
SendMerge == Commands("merging") /\ Sends(MergeRequest, "merged")

MergeAnswered ==
  /\ TaskAt("merged") /\ MergeRequest \notin requests
  /\ Intends("merged", "verify_remote_base", "verify")

\* Until the deadline; another round is a stutter.
VerifyMerge ==
  /\ Commands("verify") /\ Binds(task.pr)
  /\ Completes(task.pr)
  /\ UNCHANGED <<cancelled, checkout, github, requests>>

\* publication_attention, on the record that was saved last: a command, a
\* comparison or a deadline failed, or a cancellation was seen.
PublicationAttention(r) ==
  [r EXCEPT !.status = "attention", !.stage = IF @ = "complete" THEN "verify_remote_base" ELSE @]

PublishFails ==
  /\ task # None /\ task.at # "finish"
  /\ record' = PublicationAttention(record)
  /\ feature' = "failed"
  /\ task' = None
  /\ UNCHANGED <<cancelled, checkout, github, requests>>

\* finish_publication: a record that does not validate stays
\* as it is, and the run that published it marks the feature as failed.
FinishPublication ==
  /\ TaskAt("finish")
  /\ \/ ~Validates(record) /\ feature' \in {feature, "failed"} /\ UNCHANGED record
     \/ /\ Validates(record) /\ cancelled
        /\ record' = [record EXCEPT !.status = "attention", !.stage = "verify_remote_base"]
        /\ feature' = "failed"
     \/ /\ Validates(record) /\ ~cancelled
        /\ feature' = "succeeded"
        /\ UNCHANGED record
  /\ task' = None
  /\ UNCHANGED <<cancelled, checkout, github, requests>>

-----------------------------------------------------------------------------
(* The owner and the process *)

\* Stop and Emergency Pause
StopPublication ==
  /\ task # None /\ ~cancelled
  /\ cancelled' = TRUE
  /\ UNCHANGED <<record, feature, task, checkout, github, requests>>

\* reconcile_publication
Reconcile ==
  /\ task = None /\ feature = "failed" /\ record.status = "attention"
  /\ record' = [record EXCEPT !.status = "pending"]
  /\ feature' = "running"
  /\ task' = [at |-> "view", base |-> record.base, pr |-> record.pr]
  /\ cancelled' = FALSE
  /\ UNCHANGED <<checkout, github, requests>>

\* abandon_publication: mark_abandoned or mark_abandoned_before_remote_effects
Abandon ==
  /\ task = None /\ feature = "failed" /\ record.status = "attention"
  /\ AbandonableBeforeEffects \/ AbandonableAfterClosing
  /\ Room(1)
  /\ record' = [Event(record, "receipt", "abandoned") EXCEPT !.status = "abandoned"]
  /\ feature' = "removed"
  /\ cancelled' = FALSE
  /\ UNCHANGED <<task, checkout, github, requests>>

\* reverify_completed: the merge is observed below the present base.
ReverifyCompleted ==
  /\ task = None /\ feature = "reverify" /\ Validates(record)
  /\ Merged(record.pr)
  /\ Room(2)
  /\ record' = [record EXCEPT !.events = @ + 2]
  /\ feature' = "succeeded"
  /\ UNCHANGED <<task, cancelled, checkout, github, requests>>

\* recover_publication_checkpoint_after_restart
RecoveredRecord(r) == IF r.status \in {"pending", "running"} THEN [r EXCEPT !.status = "attention"] ELSE r
RecoveredFeature(r) ==
  IF feature \in {"removed", "succeeded"} THEN feature
  ELSE IF r.status = "attention" THEN "failed" ELSE "reverify"

\* main validates the record before it recovers it, and does not start otherwise.
Restart ==
  /\ Validates(record)
  /\ record' = RecoveredRecord(record)
  /\ feature' = RecoveredFeature(RecoveredRecord(record))
  /\ task' = None
  /\ cancelled' = FALSE
  /\ UNCHANGED <<checkout, github, requests>>

-----------------------------------------------------------------------------
(* GitHub, and others who use it *)

NewPull(who) == [state |-> "open", head |-> github.branch, by |-> who, merge |-> None]
Opened(who) == [github EXCEPT !.pulls = Append(@, NewPull(who))]
MayOpen ==
  /\ github.branch # None /\ Len(github.pulls) < MaxPulls
  /\ \A n \in DOMAIN github.pulls : github.pulls[n].state = "closed"
MayMerge(n) == github.pulls[n].state = "open" /\ github.checks = "passed" /\ github.base < MaxBase
Merges(n) == [github EXCEPT !.pulls[n].state = "merged", !.pulls[n].merge = github.base + 1, !.base = @ + 1]

\* What GitHub does when it accepts a request: a merge needs the checks, the
\* latest base (strict checks) and the expected head.
Accepts(r) ==
  \/ r.effect = "push_branch" /\ github.branch = None /\ github' = [github EXCEPT !.branch = r.head]
  \/ r.effect = "open_pull_request" /\ MayOpen /\ github' = Opened("runner")
  \/ /\ r.effect = "merge_pull_request" /\ MayMerge(r.pr)
     /\ github.pulls[r.pr].head \in {Other, github.base}
     /\ r.head \in {None, github.pulls[r.pr].head}
     /\ github' = Merges(r.pr)

\* It decides while the command waits, or after the command was given up.
RequestDecided(r) ==
  /\ Accepts(r) \/ UNCHANGED github
  /\ requests' = requests \ {r}
  /\ UNCHANGED <<record, feature, task, cancelled, checkout>>

Elsewhere(g) == github' = g /\ UNCHANGED <<record, feature, task, cancelled, checkout, requests>>

\* The required checks of the head end, the base moves, the branch is pushed to.
ChecksEnd(outcome) ==
  /\ github.branch # None /\ github.checks = "pending"
  /\ Elsewhere([github EXCEPT !.checks = outcome])
BaseMoves == github.base < MaxBase /\ Elsewhere([github EXCEPT !.base = @ + 1])
BranchDrifts ==
  /\ github.branch \notin {None, Other}
  /\ Elsewhere([github EXCEPT !.branch = Other, !.checks = "pending",
       !.pulls = [n \in DOMAIN @ |-> IF @[n].state = "open" THEN [@[n] EXCEPT !.head = Other] ELSE @[n]]])

\* The owner opens, closes or merges the pull request of the branch by hand; as
\* an administrator also onto a later base.
OwnerOpens == MayOpen /\ Elsewhere(Opened("owner"))
OwnerCloses(n) == github.pulls[n].state = "open" /\ Elsewhere([github EXCEPT !.pulls[n].state = "closed"])
OwnerMerges(n) == MayMerge(n) /\ Elsewhere(Merges(n))

-----------------------------------------------------------------------------
PublishStep ==
  \/ ReconcileIfMerged \/ PrepareIntent \/ Overlay \/ CommitCandidate \/ PrepareReceipt
  \/ PushBranch \/ SendPush \/ PushVerified
  \/ OpenPullRequest \/ SendOpen \/ PullRequestOpened \/ PullRequestVerified
  \/ ChecksIntent \/ ChecksPass
  \/ MergeIntent \/ SendMerge \/ MergeAnswered \/ VerifyMerge
  \/ PublishFails \/ FinishPublication

OwnerStep == StopPublication \/ Reconcile \/ Abandon \/ ReverifyCompleted

OutsideStep ==
  \/ (\E r \in requests : RequestDecided(r)) \/ BaseMoves \/ BranchDrifts \/ OwnerOpens
  \/ (\E o \in {"passed", "failed"} : ChecksEnd(o))
  \/ \E n \in DOMAIN github.pulls : OwnerCloses(n) \/ OwnerMerges(n)

Next == PublishStep \/ OwnerStep \/ Restart \/ OutsideStep

Spec == Init /\ [][Next]_vars

-----------------------------------------------------------------------------
(* Properties *)

\* What is on GitHub by the runner's doing, or may still come there, has an
\* intent in the record, whatever was lost: a crash never finds an effect it
\* has no note of (persist before every command of push_branch,
\* open_or_reconcile_pr and merge_and_verify).
EffectsAreIntended ==
  /\ \A r \in requests : r.effect \in record.intents
  /\ github.branch # None => "push_branch" \in record.intents
  /\ (\E n \in DOMAIN github.pulls : github.pulls[n].by = "runner") =>
       "open_pull_request" \in record.intents

\* The runner's merge request, even one that takes effect after the runner gave
\* up on it, never merges anything but the reviewed commit
\* (--match-head-commit).
OnlyReviewedMerges ==
  [][ \A n \in DOMAIN github.pulls :
        requests' # requests /\ ~Merged(n) /\ github'.pulls[n].state = "merged" =>
          github.pulls[n].head = record.base ]_vars

\* The phase that the record and the feature show to the owner.
PhaseOf ==
  CASE record.status = "abandoned" -> "abandoned"
    [] record.status = "attention" -> "attention"
    [] record.status = "succeeded" -> IF feature = "succeeded" THEN "finished" ELSE "done"
    [] OTHER                       -> "active"

\* Merged: the recorded pull request brought the candidate, and nothing but it,
\* onto the base branch.
CandidateMerged ==
  /\ record.pr # None /\ Merged(record.pr)
  /\ github.pulls[record.pr].head = record.base
  /\ github.pulls[record.pr].merge = record.base + 1

RepoOf ==
  IF CandidateMerged THEN "merged" ELSE IF github.branch # None THEN "written" ELSE "untouched"

Promise == INSTANCE PublicationPromise WITH phase <- PhaseOf, repo <- RepoOf

\* A publication keeps its promise at every step, whoever takes it.
KeepsPromise == Promise!Spec
=============================================================================
