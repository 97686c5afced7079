-------------------- MODULE DeveloperPublication_proofs ---------------------
(***************************************************************************)
(* Proofs about DeveloperPublication, for every length of the base branch, *)
(* every number of pull requests and every event limit.                    *)
(***************************************************************************)
EXTENDS DeveloperPublication, SequenceTheorems, TLAPS

\* What the database, the task and a request say about GitHub exists there, and
\* what the runner asked for is in the record.
NumbersExist ==
  /\ record.pr # None => record.pr \in DOMAIN github.pulls /\ record.base # None
  /\ task # None /\ task.pr # None => task.pr \in DOMAIN github.pulls /\ task.base # None
  /\ github.pulls # <<>> => github.branch # None
  /\ \A r \in requests : r.effect = "merge_pull_request" =>
       r.pr \in DOMAIN github.pulls /\ r.head = record.base /\ record.base # None

\* The copy of the record that the task works on is ahead of the saved one, never
\* at odds with it, and each stage has what the stages before it have saved.
TaskExtendsRecord ==
  task # None =>
    /\ record.base # None => task.base = record.base
    /\ record.pr # None => task.pr = record.pr
    /\ task.at \notin {"view", "prepare", "overlay"} => task.base # None
    /\ task.at \notin {"view", "prepare", "overlay", "commit", "committed"} => record.base = task.base
    /\ task.at \in {"bound", "checks", "waiting", "merge", "merging", "merged", "verify"} => task.pr # None
    /\ task.at \in {"checks", "waiting", "merge", "merging", "merged", "verify"} => record.pr = task.pr
    /\ task.at \in {"pushing", "pushed"} => "push_branch" \in record.intents
    /\ task.at \in {"opening", "opened"} => "open_pull_request" \in record.intents
    /\ task.at \in {"merging", "merged"} => "merge_pull_request" \in record.intents

\* The status of the record, the task and the feature belong together.
StatusFits ==
  /\ task = None => record.status \in {"attention", "succeeded", "abandoned"}
  /\ task # None /\ task.at = "finish" => record.status = "succeeded"
  /\ task # None /\ task.at # "finish" => record.status \in {"pending", "running"}
  /\ feature \in {"reverify", "succeeded"} => record.status = "succeeded" /\ task = None
  /\ feature = "removed" <=> record.status = "abandoned"

\* A verified publication is merged, an abandoned one can never be.
OutcomeStands ==
  /\ record.status = "succeeded" => CandidateMerged
  /\ record.status = "abandoned" =>
       \/ record.pr # None /\ github.pulls[record.pr].state = "closed" /\ github.branch # None
       \/ record.pr = None /\ github.branch = None /\ requests = {}

\* The inductive invariant.
IInv ==
  TypeOK /\ EffectsAreIntended /\ NumbersExist /\ TaskExtendsRecord /\ StatusFits /\ OutcomeStands

USE PublicationAssumption, TaskAssumption

-----------------------------------------------------------------------------
(* GitHub *)

\* The bounded lists of TypeOK are the sequences of at most MaxPulls pull requests.
LEMMA PullsAreSequences ==
  ASSUME NEW q
  PROVE  q \in UNION {[1 .. n -> Pull] : n \in 0 .. MaxPulls}
           <=> q \in Seq(Pull) /\ Len(q) \in 0 .. MaxPulls
<1>1. ASSUME NEW n \in 0 .. MaxPulls, q \in [1 .. n -> Pull]
      PROVE  q \in Seq(Pull) /\ Len(q) \in 0 .. MaxPulls
  BY <1>1
<1>2. ASSUME q \in Seq(Pull), Len(q) \in 0 .. MaxPulls
      PROVE  q \in [1 .. Len(q) -> Pull]
  BY <1>2, LenProperties
<1> QED
  BY <1>1, <1>2

\* What TypeOK says of the repository, field by field.
LEMMA GitHubFacts ==
  ASSUME TypeOK
  PROVE  /\ github.base \in Base /\ github.branch \in Commit \cup {None}
         /\ github.checks \in {"pending", "passed", "failed"}
         /\ github.pulls \in Seq(Pull) /\ Len(github.pulls) \in 0 .. MaxPulls
         /\ DOMAIN github.pulls = 1 .. Len(github.pulls)
         /\ \A n \in DOMAIN github.pulls : github.pulls[n] \in Pull
         /\ github = [base |-> github.base, branch |-> github.branch,
                      pulls |-> github.pulls, checks |-> github.checks]
<1>1. github \in GitHub
  BY DEF TypeOK
<1>2. github.pulls \in UNION {[1 .. n -> Pull] : n \in 0 .. MaxPulls}
  BY <1>1 DEF GitHub
<1>3. github.pulls \in Seq(Pull) /\ Len(github.pulls) \in 0 .. MaxPulls
  BY <1>2, PullsAreSequences
<1>4. DOMAIN github.pulls = 1 .. Len(github.pulls) /\ \A n \in DOMAIN github.pulls : github.pulls[n] \in Pull
  BY <1>3, LenProperties, ElementOfSeq
<1> QED
  BY <1>1, <1>3, <1>4 DEF GitHub

\* A repository put together from typed fields is typed.
LEMMA GitHubBuilt ==
  ASSUME NEW b \in Base, NEW h \in Commit \cup {None}, NEW q \in Seq(Pull), Len(q) \in 0 .. MaxPulls,
         NEW c \in {"pending", "passed", "failed"}
  PROVE  [base |-> b, branch |-> h, pulls |-> q, checks |-> c] \in GitHub
<1>1. q \in UNION {[1 .. n -> Pull] : n \in 0 .. MaxPulls}
  BY PullsAreSequences
<1> QED
  BY <1>1 DEF GitHub

-----------------------------------------------------------------------------
(* Saving the record *)

\* Recording an event moves the stage and the counter and keeps the bindings.
LEMMA EventFacts ==
  ASSUME NEW r \in Record, NEW kind \in {"intent", "receipt"}, NEW stage \in Stage,
         r.events + 1 <= EventLimit
  PROVE  /\ Event(r, kind, stage) \in Record
         /\ Event(r, kind, stage).status = "running" /\ Event(r, kind, stage).stage = stage
         /\ Event(r, kind, stage).base = r.base /\ Event(r, kind, stage).pr = r.pr
         /\ Event(r, kind, stage).merged = r.merged
         /\ r.intents \subseteq Event(r, kind, stage).intents
         /\ kind = "intent" => stage \in Event(r, kind, stage).intents
<1> DEFINE i == IF kind = "intent" THEN r.intents \cup {stage} ELSE r.intents
           o == r.orphan \/ (kind = "receipt" /\ stage \in EffectStage /\ stage \notin r.intents)
<1>1. i \in SUBSET Stage /\ o \in BOOLEAN /\ r.events + 1 \in 0 .. EventLimit
  BY DEF Record
<1> DEFINE e1 == [r EXCEPT !.status = "running"]
           e2 == [e1 EXCEPT !.stage = stage]
           e3 == [e2 EXCEPT !.events = @ + 1]
           e4 == [e3 EXCEPT !.intents = i]
           e5 == [e4 EXCEPT !.orphan = o]
<1>2. Event(r, kind, stage) = e5
  BY DEF Event
<1> HIDE DEF i, o
<1>3. /\ e1 \in Record /\ e1.status = "running" /\ e1.base = r.base /\ e1.pr = r.pr
      /\ e1.merged = r.merged /\ e1.events = r.events /\ e1.intents = r.intents
  BY DEF Record
<1> HIDE DEF e1
<1>4. /\ e2 \in Record /\ e2.status = "running" /\ e2.base = r.base /\ e2.pr = r.pr /\ e2.stage = stage
      /\ e2.merged = r.merged /\ e2.events = r.events /\ e2.intents = r.intents
  BY <1>3 DEF Record
<1> HIDE DEF e2
<1>5. /\ e3 \in Record /\ e3.status = "running" /\ e3.base = r.base /\ e3.pr = r.pr /\ e3.stage = stage
      /\ e3.merged = r.merged
  BY <1>1, <1>4 DEF Record
<1> HIDE DEF e3
<1>6. /\ e4 \in Record /\ e4.status = "running" /\ e4.base = r.base /\ e4.pr = r.pr /\ e4.stage = stage
      /\ e4.merged = r.merged /\ e4.intents = i
  BY <1>1, <1>5 DEF Record
<1> HIDE DEF e4
<1>7. /\ e5 \in Record /\ e5.status = "running" /\ e5.base = r.base /\ e5.pr = r.pr /\ e5.stage = stage
      /\ e5.merged = r.merged /\ e5.intents = i
  BY <1>1, <1>6 DEF Record
<1> HIDE DEF e5
<1>8. r.intents \subseteq i /\ (kind = "intent" => stage \in i)
  BY DEF i
<1> QED
  BY <1>2, <1>7, <1>8

\* What persist writes for an event, and that it forgets nothing.
LEMMA SavedFacts ==
  ASSUME TypeOK, task # None, NEW kind \in {"intent", "receipt"}, NEW stage \in Stage, Room(1),
         Persists(Event(record, kind, stage))
  PROVE  /\ record' \in Record /\ record'.status = "running"
         /\ record'.base = task.base /\ record'.pr = task.pr
         /\ record.intents \subseteq record'.intents
         /\ kind = "intent" => stage \in record'.intents
         /\ feature' = "running"
<1> DEFINE e == Event(record, kind, stage)
           e1 == [e EXCEPT !.base = task.base]
           e2 == [e1 EXCEPT !.pr = task.pr]
<1>1. /\ e \in Record /\ e.status = "running" /\ record.intents \subseteq e.intents
      /\ kind = "intent" => stage \in e.intents
  BY EventFacts DEF TypeOK, Room
<1>2. task.base \in Base \cup {None} /\ task.pr \in 1 .. MaxPulls \cup {None}
  BY DEF TypeOK, Task
<1>3. record' = e2 /\ feature' = "running"
  BY DEF Persists
<1> HIDE DEF e
<1>4. e1 \in Record /\ e1.status = "running" /\ e1.base = task.base /\ e1.intents = e.intents
  BY <1>1, <1>2 DEF Record
<1> HIDE DEF e1
<1>5. /\ e2 \in Record /\ e2.status = "running" /\ e2.base = task.base /\ e2.pr = task.pr
      /\ e2.intents = e.intents
  BY <1>2, <1>4 DEF Record
<1> HIDE DEF e2
<1> QED
  BY <1>1, <1>3, <1>5

\* Moving the runner to its next place keeps what the runner has read.
LEMMA GoesFacts ==
  ASSUME TypeOK, task # None, NEW to \in At, Goes(to)
  PROVE  /\ task' \in Task /\ task' # None /\ task'.at = to
         /\ task'.base = task.base /\ task'.pr = task.pr
  BY DEF TypeOK, Task, Goes

\* A step that saves an event and goes to the next stage.
Saves(kind, stage, to) ==
  /\ task # None /\ task.at # "finish"
  /\ Room(1) /\ Persists(Event(record, kind, stage))
  /\ Goes(to)
  /\ UNCHANGED <<cancelled, checkout, github, requests>>

\* A record saved by the runner with one event more keeps the invariant.
LEMMA SavesKeeps ==
  ASSUME IInv, NEW kind \in {"intent", "receipt"}, NEW stage \in Stage, NEW to \in At \ {"finish"},
         Saves(kind, stage, to),
         to \notin {"view", "prepare", "overlay"} => task.base # None,
         to \in {"bound", "checks", "waiting", "merge", "merging", "merged", "verify"} => task.pr # None,
         to \in {"pushing", "pushed"} => "push_branch" \in record'.intents,
         to \in {"opening", "opened"} => "open_pull_request" \in record'.intents,
         to \in {"merging", "merged"} => "merge_pull_request" \in record'.intents
  PROVE  IInv'
<1>1. /\ task # None /\ task.at # "finish" /\ TypeOK
      /\ UNCHANGED <<cancelled, checkout, github, requests>>
  BY DEF Saves, IInv
<1>2. /\ record' \in Record /\ record'.status = "running"
      /\ record'.base = task.base /\ record'.pr = task.pr
      /\ record.intents \subseteq record'.intents
      /\ feature' = "running"
  BY <1>1, SavedFacts DEF Saves
<1>3. /\ task' \in Task /\ task' # None /\ task'.at = to
      /\ task'.base = task.base /\ task'.pr = task.pr
  BY <1>1, GoesFacts DEF Saves
<1>4. TypeOK'
  BY <1>1, <1>2, <1>3 DEF TypeOK
<1>5. EffectsAreIntended'
  BY <1>1, <1>2 DEF IInv, EffectsAreIntended
<1>6. NumbersExist'
  <2>1. record.base # None => task.base = record.base
    BY <1>1 DEF IInv, TaskExtendsRecord
  <2> QED
    BY <1>1, <1>2, <1>3, <2>1 DEF IInv, NumbersExist
<1>7. TaskExtendsRecord'
  BY <1>2, <1>3 DEF TaskExtendsRecord
<1>8. StatusFits' /\ OutcomeStands'
  BY <1>2, <1>3 DEF StatusFits, OutcomeStands
<1> QED
  BY <1>4, <1>5, <1>6, <1>7, <1>8 DEF IInv

\* A step that only moves the task, or changes the checkout with it.
LEMMA TaskMoves ==
  ASSUME IInv, task # None, task.at # "finish", task' \in Task, task'.at # "finish",
         UNCHANGED <<record, feature, cancelled, github>>,
         checkout' \in {"absent", "clean", "dirty"},
         requests' \subseteq Request,
         \A r \in requests' : r \in requests \/ (r.effect \in record.intents /\
            (r.effect = "merge_pull_request" =>
               r.pr \in DOMAIN github.pulls /\ r.head = record.base /\ record.base # None)),
         task'.pr # None => task'.pr \in DOMAIN github.pulls /\ task'.base # None,
         TaskExtendsRecord'
  PROVE  IInv'
<1>1. TypeOK'
  BY DEF IInv, TypeOK
<1>2. EffectsAreIntended'
  BY DEF IInv, EffectsAreIntended
<1>3. NumbersExist'
  BY DEF IInv, NumbersExist
<1>4. task' # None
  OBVIOUS
<1>5. StatusFits' /\ OutcomeStands'
  BY <1>4 DEF IInv, StatusFits, OutcomeStands
<1> QED
  BY <1>1, <1>2, <1>3, <1>5 DEF IInv

-----------------------------------------------------------------------------
(* The steps of Runtime::publish *)

\* A publication that was just approved satisfies the invariant.
LEMMA InitHolds == Init => IInv
<1> SUFFICES ASSUME Init PROVE IInv
  OBVIOUS
<1> USE DEF Init
<1>1. github \in GitHub
  <2>1. <<>> \in Seq(Pull) /\ Len(<<>>) \in 0 .. MaxPulls
    BY EmptySeq
  <2>2. 0 \in Base /\ None \in Commit \cup {None} /\ "pending" \in {"pending", "passed", "failed"}
    BY DEF Base
  <2>3. [base |-> 0, branch |-> None, pulls |-> <<>>, checks |-> "pending"] \in GitHub
    BY <2>1, <2>2, GitHubBuilt
  <2> QED
    BY <2>3
<1>2. task \in Task /\ task # None /\ task.at = "view" /\ task.pr = None
  BY DEF Task, At
<1>3. record \in Record
  BY DEF Record, Stage
<1>4. TypeOK
  BY <1>1, <1>2, <1>3 DEF TypeOK
<1>5. github.pulls = <<>> /\ github.branch = None /\ DOMAIN <<>> = {}
  OBVIOUS
<1>6. EffectsAreIntended
  BY <1>5 DEF EffectsAreIntended
<1>7. NumbersExist /\ TaskExtendsRecord /\ StatusFits /\ OutcomeStands
  BY <1>2, <1>5 DEF NumbersExist, TaskExtendsRecord, StatusFits, OutcomeStands
<1> QED
  BY <1>4, <1>6, <1>7 DEF IInv

\* The completion receipt is saved only for the candidate's own merge.
LEMMA CompletesKeeps ==
  ASSUME IInv, task # None, task.at # "finish", NEW n, n = record.pr, n # None,
         Binds(n), Completes(n), UNCHANGED <<cancelled, checkout, github, requests>>
  PROVE  IInv' /\ CandidateMerged /\ CandidateMerged' /\ record'.status = "succeeded" /\ feature' = "running"
<1> DEFINE e == Event(record, "receipt", "complete")
           e1 == [e EXCEPT !.status = "succeeded"]
           e2 == [e1 EXCEPT !.merged = TRUE]
           e3 == [e2 EXCEPT !.base = task.base]
           e4 == [e3 EXCEPT !.pr = task.pr]
<1>1. TypeOK /\ record.base # None /\ task.base = record.base /\ task.pr = record.pr
  BY DEF IInv, NumbersExist, TaskExtendsRecord
<1>2. e \in Record /\ record.intents \subseteq e.intents
  BY <1>1, EventFacts DEF TypeOK, Completes, Room, Stage
<1>3. record' = e4 /\ feature' = "running" /\ Goes("finish")
  BY DEF Completes, Persists
<1> HIDE DEF e
<1>4. e1 \in Record /\ e1.status = "succeeded" /\ e1.intents = e.intents
  BY <1>2 DEF Record
<1> HIDE DEF e1
<1>5. e2 \in Record /\ e2.status = "succeeded" /\ e2.intents = e.intents
  BY <1>4 DEF Record
<1> HIDE DEF e2
<1>6. e3 \in Record /\ e3.status = "succeeded" /\ e3.intents = e.intents /\ e3.base = task.base
  BY <1>1, <1>5 DEF Record, TypeOK, Task
<1> HIDE DEF e3
<1>7. /\ e4 \in Record /\ e4.status = "succeeded" /\ e4.intents = e.intents /\ e4.base = task.base
      /\ e4.pr = task.pr
  BY <1>1, <1>6 DEF Record, TypeOK, Task
<1> HIDE DEF e4
<1>8. /\ record' \in Record /\ record'.status = "succeeded" /\ record.intents \subseteq record'.intents
      /\ record'.base = record.base /\ record'.pr = record.pr
  BY <1>1, <1>2, <1>3, <1>7
<1>9. /\ task' \in Task /\ task' # None /\ task'.at = "finish"
      /\ task'.base = task.base /\ task'.pr = task.pr
  BY <1>1, <1>3, GoesFacts DEF At
<1>10. CandidateMerged /\ CandidateMerged'
  <2>1. CandidateMerged
    BY <1>1 DEF CandidateMerged, Binds, Completes, Merged, MergeStands
  <2> QED
    BY <1>8, <2>1 DEF CandidateMerged, Merged
<1>11. TypeOK'
  BY <1>1, <1>3, <1>8, <1>9 DEF TypeOK
<1>12. EffectsAreIntended'
  BY <1>8 DEF IInv, EffectsAreIntended
<1>13. NumbersExist'
  BY <1>1, <1>8, <1>9 DEF IInv, NumbersExist
<1>14. TaskExtendsRecord'
  BY <1>1, <1>8, <1>9 DEF TaskExtendsRecord
<1>15. StatusFits' /\ OutcomeStands'
  BY <1>3, <1>8, <1>9, <1>10 DEF StatusFits, OutcomeStands
<1> QED
  BY <1>3, <1>8, <1>10, <1>11, <1>12, <1>13, <1>14, <1>15 DEF IInv

\* Saving an intent or a receipt, as Runtime::publish does.
LEMMA IntendsSaves ==
  ASSUME NEW from, from # "finish", NEW stage, NEW to, Intends(from, stage, to)
  PROVE  Saves("intent", stage, to) /\ task.at = from
  BY DEF Intends, Saves, Commands, TaskAt

\* A verification outside the last stage is a saved receipt.
LEMMA VerifiesSaves ==
  ASSUME NEW from, from # "finish", NEW stage, NEW to, Verifies(from, stage, to)
  PROVE  Saves("receipt", stage, to) /\ task.at = from
  BY DEF Verifies, Saves, Commands, TaskAt

\* ReconcileIfMerged keeps the invariant.
LEMMA ReconcileIfMergedKeeps ==
  ASSUME IInv, ReconcileIfMerged
  PROVE  IInv'
<1> USE DEF ReconcileIfMerged
<1>1. task # None /\ task.at = "view" /\ TypeOK
  BY DEF Commands, TaskAt, IInv
<1>2. CASE Goes("prepare") /\ UNCHANGED <<record, feature>>
  <2>1. /\ task' \in Task /\ task' # None /\ task'.at = "prepare"
        /\ task'.base = task.base /\ task'.pr = task.pr
    BY <1>1, <1>2, GoesFacts DEF At
  <2>2. TaskExtendsRecord'
    BY <1>1, <1>2, <2>1 DEF IInv, TaskExtendsRecord
  <2> QED
    BY <1>1, <1>2, <2>1, <2>2, TaskMoves DEF IInv, TypeOK, NumbersExist
<1>3. CASE record.pr # None /\ Binds(record.pr) /\ Completes(record.pr)
  BY <1>1, <1>3, CompletesKeeps
<1> QED
  BY <1>2, <1>3

\* Overlay keeps the invariant.
LEMMA OverlayKeeps ==
  ASSUME IInv, Overlay
  PROVE  IInv'
<1> USE DEF Overlay
<1>1. task # None /\ task.at = "overlay" /\ TypeOK /\ github.base \in Base /\ task \in Task
  BY GitHubFacts DEF Commands, TaskAt, IInv, TypeOK
<1> DEFINE t1 == [task EXCEPT !.at = "commit"]
           t2 == [t1 EXCEPT !.base = github.base]
<1>2. t1 \in Task /\ t1.at = "commit" /\ t1.pr = task.pr /\ task' = t2
  BY <1>1 DEF Task, At
<1> HIDE DEF t1
<1>3. t2 \in Task /\ t2.at = "commit" /\ t2.pr = task.pr /\ t2.base = github.base
  BY <1>1, <1>2 DEF Task
<1> HIDE DEF t2
<1>4. github.base # None
  BY <1>1 DEF Base
<1>5. TaskExtendsRecord'
  BY <1>1, <1>2, <1>3, <1>4 DEF IInv, TaskExtendsRecord, NumbersExist
<1> QED
  BY <1>1, <1>2, <1>3, <1>4, <1>5, TaskMoves DEF IInv, TypeOK, NumbersExist

\* CommitCandidate keeps the invariant.
LEMMA CommitCandidateKeeps ==
  ASSUME IInv, CommitCandidate
  PROVE  IInv'
<1> USE DEF CommitCandidate
<1>1. task # None /\ task.at = "commit" /\ TypeOK
  BY DEF Commands, TaskAt, IInv
<1>2. /\ task' \in Task /\ task' # None /\ task'.at = "committed"
      /\ task'.base = task.base /\ task'.pr = task.pr
  BY <1>1, GoesFacts DEF At
<1>3. TaskExtendsRecord'
  BY <1>1, <1>2 DEF IInv, TaskExtendsRecord
<1> QED
  BY <1>1, <1>2, <1>3, TaskMoves DEF IInv, TypeOK, NumbersExist

\* The stages that only save something.
LEMMA SavingStagesKeep ==
  ASSUME IInv,
         PrepareIntent \/ PrepareReceipt \/ PushBranch \/ PushVerified \/ PullRequestVerified
           \/ ChecksIntent \/ ChecksPass \/ MergeIntent \/ MergeAnswered
  PROVE  IInv'
<1>1. {"prepare_candidate", "push_branch", "open_pull_request", "wait_required_checks",
       "merge_pull_request", "verify_remote_base"} \subseteq Stage
  BY DEF Stage, EffectStage
<1>2. {"overlay", "push", "pushing", "open", "checks", "waiting", "merge", "merging", "verify"}
        \subseteq At \ {"finish"}
  BY DEF At
<1>3. ASSUME task # None
      PROVE  /\ task.at \notin {"view", "prepare", "overlay"} => task.base # None
             /\ task.at \in {"bound", "checks", "waiting", "merge", "merging", "merged", "verify"} => task.pr # None
  BY <1>3 DEF IInv, TaskExtendsRecord
<1>4. ASSUME NEW kind \in {"intent", "receipt"}, NEW stage \in Stage, NEW to \in At \ {"finish"},
             Saves(kind, stage, to)
      PROVE  /\ task # None
             /\ kind = "intent" => stage \in record'.intents
             /\ record.intents \subseteq record'.intents
  BY <1>4, SavedFacts DEF Saves, IInv
<1>5. CASE PrepareIntent
  <2>1. Saves("intent", "prepare_candidate", "overlay")
    BY <1>5, IntendsSaves DEF PrepareIntent
  <2> QED
    BY <1>1, <1>2, <2>1, SavesKeeps
<1>6. CASE PrepareReceipt
  <2>1. Saves("receipt", "prepare_candidate", "push") /\ task.at = "committed"
    BY <1>6, VerifiesSaves DEF PrepareReceipt
  <2> QED
    BY <1>1, <1>2, <1>3, <1>4, <2>1, SavesKeeps
<1>7. CASE PushBranch
  <2>1. CASE Verifies("push", "push_branch", "open")
    <3>1. Saves("receipt", "push_branch", "open") /\ task.at = "push"
      BY <2>1, VerifiesSaves
    <3> QED
      BY <1>1, <1>2, <1>3, <1>4, <3>1, SavesKeeps
  <2>2. CASE Intends("push", "push_branch", "pushing")
    <3>1. Saves("intent", "push_branch", "pushing") /\ task.at = "push"
      BY <2>2, IntendsSaves
    <3> QED
      BY <1>1, <1>2, <1>3, <1>4, <3>1, SavesKeeps
  <2> QED
    BY <1>7, <2>1, <2>2 DEF PushBranch
<1>8. CASE PushVerified
  <2>1. Saves("receipt", "push_branch", "open") /\ task.at = "pushed"
    BY <1>8, VerifiesSaves DEF PushVerified
  <2> QED
    BY <1>1, <1>2, <1>3, <1>4, <2>1, SavesKeeps
<1>9. CASE PullRequestVerified
  <2>1. Saves("receipt", "open_pull_request", "checks") /\ task.at = "bound"
    BY <1>9, VerifiesSaves DEF PullRequestVerified
  <2> QED
    BY <1>1, <1>2, <1>3, <1>4, <2>1, SavesKeeps
<1>10. CASE ChecksIntent
  <2>1. Saves("intent", "wait_required_checks", "waiting") /\ task.at = "checks"
    BY <1>10, IntendsSaves DEF ChecksIntent
  <2> QED
    BY <1>1, <1>2, <1>3, <1>4, <2>1, SavesKeeps
<1>11. CASE ChecksPass
  <2>1. Saves("receipt", "wait_required_checks", "merge") /\ task.at = "waiting"
    BY <1>11, VerifiesSaves DEF ChecksPass
  <2> QED
    BY <1>1, <1>2, <1>3, <1>4, <2>1, SavesKeeps
<1>12. CASE MergeIntent
  <2>1. Saves("intent", "merge_pull_request", "merging") /\ task.at = "merge"
    BY <1>12, IntendsSaves DEF MergeIntent
  <2> QED
    BY <1>1, <1>2, <1>3, <1>4, <2>1, SavesKeeps
<1>13. CASE MergeAnswered
  <2>1. Saves("intent", "verify_remote_base", "verify") /\ task.at = "merged"
    BY <1>13, IntendsSaves DEF MergeAnswered
  <2> QED
    BY <1>1, <1>2, <1>3, <1>4, <2>1, SavesKeeps
<1> QED
  BY <1>5, <1>6, <1>7, <1>8, <1>9, <1>10, <1>11, <1>12, <1>13

\* A command that may have an effect on GitHub is sent only with its intent saved,
\* and a merge only with the saved candidate as the expected head.
LEMMA SendsKeep ==
  ASSUME IInv, SendPush \/ SendOpen \/ SendMerge
  PROVE  IInv'
<1> DEFINE Sent(r, from, to) ==
             /\ task # None /\ task.at = from
             /\ requests' = requests \cup {r} /\ Goes(to)
             /\ UNCHANGED <<record, feature, cancelled, checkout, github>>
<1>0. TypeOK
  BY DEF IInv
<1>1. ASSUME task # None
      PROVE  task.base \in Base \cup {None} /\ task.pr \in 1 .. MaxPulls \cup {None}
  BY <1>0, <1>1 DEF TypeOK, Task
<1>2. ASSUME NEW r \in Request, NEW from \in {"pushing", "opening", "merging"}, NEW to \in At \ {"finish"},
             Sent(r, from, to), r.effect \in record.intents,
             r.effect = "merge_pull_request" =>
               r.pr \in DOMAIN github.pulls /\ r.head = record.base /\ record.base # None,
             \/ from = "pushing" /\ to = "pushed"
             \/ from = "opening" /\ to = "opened"
             \/ from = "merging" /\ to = "merged"
      PROVE  IInv'
  <2>1. /\ task' \in Task /\ task' # None /\ task'.at = to
        /\ task'.base = task.base /\ task'.pr = task.pr
    BY <1>0, <1>2, GoesFacts
  <2>2. TaskExtendsRecord'
    BY <1>2, <2>1 DEF IInv, TaskExtendsRecord
  <2>3. requests' \subseteq Request
    BY <1>0, <1>2 DEF TypeOK
  <2>4. task'.pr # None => task'.pr \in DOMAIN github.pulls /\ task'.base # None
    BY <1>2, <2>1 DEF IInv, NumbersExist
  <2>5. checkout' \in {"absent", "clean", "dirty"}
    BY <1>0, <1>2 DEF TypeOK
  <2> QED
    BY <1>2, <2>1, <2>2, <2>3, <2>4, <2>5, TaskMoves
<1>3. CASE SendPush
  <2>1. Sent(PushRequest, "pushing", "pushed")
    BY <1>3 DEF SendPush, Sends, Commands, TaskAt
  <2>2. PushRequest \in Request /\ PushRequest.effect = "push_branch"
    BY <1>1, <2>1 DEF PushRequest, Request, EffectStage, Commit
  <2>3. "push_branch" \in record.intents
    BY <2>1 DEF IInv, TaskExtendsRecord
  <2> QED
    BY <1>2, <2>1, <2>2, <2>3 DEF At
<1>4. CASE SendOpen
  <2>1. Sent(OpenRequest, "opening", "opened")
    BY <1>4 DEF SendOpen, Sends, Commands, TaskAt
  <2>2. OpenRequest \in Request /\ OpenRequest.effect = "open_pull_request"
    BY <1>1, <2>1 DEF OpenRequest, Request, EffectStage, Commit
  <2>3. "open_pull_request" \in record.intents
    BY <2>1 DEF IInv, TaskExtendsRecord
  <2> QED
    BY <1>2, <2>1, <2>2, <2>3 DEF At
<1>5. CASE SendMerge
  <2>1. Sent(MergeRequest, "merging", "merged")
    BY <1>5 DEF SendMerge, Sends, Commands, TaskAt
  <2>2. /\ MergeRequest \in Request /\ MergeRequest.effect = "merge_pull_request"
        /\ MergeRequest.pr = task.pr /\ MergeRequest.head = task.base
    BY <1>1, <2>1 DEF MergeRequest, Request, EffectStage, Commit
  <2>3. /\ "merge_pull_request" \in record.intents
        /\ record.base = task.base /\ record.base # None /\ task.pr \in DOMAIN github.pulls
    BY <2>1 DEF IInv, TaskExtendsRecord, NumbersExist
  <2> QED
    BY <1>2, <2>1, <2>2, <2>3 DEF At
<1> QED
  BY <1>3, <1>4, <1>5

\* Binding the pull request that was found or opened keeps the invariant.
LEMMA BindingKeeps ==
  ASSUME IInv, task # None, task.at \in {"open", "opened"}, NEW n \in DOMAIN github.pulls,
         task.pr = None, task' = [task EXCEPT !.at = "bound", !.pr = n],
         UNCHANGED <<record, feature, cancelled, checkout, github, requests>>
  PROVE  IInv'
<1> DEFINE t1 == [task EXCEPT !.at = "bound"]
           t2 == [t1 EXCEPT !.pr = n]
<1>1. TypeOK /\ task \in Task /\ n \in 1 .. MaxPulls /\ n # None
  <2>1. TypeOK
    BY DEF IInv
  <2>2. n \in 1 .. MaxPulls
    BY <2>1, GitHubFacts
  <2> QED
    BY <2>1, <2>2 DEF TypeOK
<1>2. t1 \in Task /\ t1.at = "bound" /\ t1.base = task.base /\ task' = t2
  BY <1>1 DEF Task, At
<1> HIDE DEF t1
<1>3. t2 \in Task /\ t2.at = "bound" /\ t2.base = task.base /\ t2.pr = n
  BY <1>1, <1>2 DEF Task
<1> HIDE DEF t2
<1>4. task.base # None /\ record.base = task.base /\ record.pr = None
  BY DEF IInv, TaskExtendsRecord
<1>5. TaskExtendsRecord'
  BY <1>1, <1>2, <1>3, <1>4 DEF TaskExtendsRecord
<1> QED
  BY <1>1, <1>2, <1>3, <1>4, <1>5, TaskMoves DEF IInv, TypeOK

\* PullRequestOpened keeps the invariant.
LEMMA PullRequestOpenedKeeps ==
  ASSUME IInv, PullRequestOpened
  PROVE  IInv'
<1> USE DEF PullRequestOpened
<1>1. task # None /\ task.at = "opened" /\ github.pulls # <<>> /\ Binds(Len(github.pulls)) /\ TypeOK
  BY DEF Commands, TaskAt, IInv
<1>2. Len(github.pulls) \in DOMAIN github.pulls
  BY <1>1, GitHubFacts, EmptySeq
<1>3. CASE task.pr = None
  BY <1>1, <1>2, <1>3, BindingKeeps
<1>4. CASE task.pr # None
  <2> DEFINE n == Len(github.pulls)
             t1 == [task EXCEPT !.at = "bound"]
             t2 == [t1 EXCEPT !.pr = n]
  <2>1. task \in Task /\ task.pr = n /\ n \in 1 .. MaxPulls
    BY <1>1, <1>2, <1>4, GitHubFacts DEF Binds, TypeOK
  <2>2. t1 \in Task /\ t1.at = "bound" /\ t1.base = task.base /\ task' = t2
    BY <2>1 DEF Task, At
  <2> HIDE DEF t1, n
  <2>3. t2 \in Task /\ t2.at = "bound" /\ t2.base = task.base /\ t2.pr = task.pr
    BY <2>1, <2>2 DEF Task
  <2> HIDE DEF t2
  <2>4. TaskExtendsRecord'
    BY <1>1, <1>4, <2>2, <2>3 DEF IInv, TaskExtendsRecord
  <2> QED
    BY <1>1, <2>2, <2>3, <2>4, TaskMoves DEF IInv, TypeOK, NumbersExist
<1> QED
  BY <1>3, <1>4

\* OpenPullRequest keeps the invariant.
LEMMA OpenPullRequestKeeps ==
  ASSUME IInv, OpenPullRequest
  PROVE  IInv'
<1>1. task # None /\ task.at = "open" /\ TypeOK
  BY DEF OpenPullRequest, Commands, TaskAt, IInv
<1>2. task.base # None
  BY <1>1 DEF IInv, TaskExtendsRecord
<1>3. CASE /\ task.pr # None /\ Goes("bound")
           /\ UNCHANGED <<record, feature, cancelled, checkout, github, requests>>
  <2>1. /\ task' \in Task /\ task' # None /\ task'.at = "bound"
        /\ task'.base = task.base /\ task'.pr = task.pr
    BY <1>1, <1>3, GoesFacts DEF At
  <2>2. TaskExtendsRecord'
    BY <1>1, <1>3, <2>1 DEF IInv, TaskExtendsRecord
  <2> QED
    BY <1>1, <1>3, <2>1, <2>2, TaskMoves DEF IInv, TypeOK, NumbersExist
<1>4. CASE /\ task.pr = None /\ Len(github.pulls) = 1
           /\ task' = [task EXCEPT !.at = "bound", !.pr = 1]
           /\ UNCHANGED <<record, feature, cancelled, checkout, github, requests>>
  <2>1. 1 \in DOMAIN github.pulls
    BY <1>1, <1>4, GitHubFacts
  <2> QED
    BY <1>1, <1>4, <2>1, BindingKeeps
<1>5. CASE Intends("open", "open_pull_request", "opening")
  <2>1. Saves("intent", "open_pull_request", "opening")
    BY <1>5, IntendsSaves
  <2>2. "open_pull_request" \in Stage /\ "opening" \in At \ {"finish"}
    BY DEF Stage, EffectStage, At
  <2>3. "open_pull_request" \in record'.intents
    BY <1>1, <2>1, <2>2, SavedFacts DEF Saves
  <2> QED
    BY <1>2, <2>1, <2>2, <2>3, SavesKeeps
<1> QED
  BY <1>3, <1>4, <1>5 DEF OpenPullRequest

\* VerifyMerge keeps the invariant.
LEMMA VerifyMergeKeeps ==
  ASSUME IInv, VerifyMerge
  PROVE  IInv'
<1>1. task # None /\ task.at = "verify"
  BY DEF VerifyMerge, Commands, TaskAt
<1>2. record.pr = task.pr /\ task.pr # None
  BY <1>1 DEF IInv, TaskExtendsRecord
<1> QED
  BY <1>1, <1>2, CompletesKeeps DEF VerifyMerge

-----------------------------------------------------------------------------
(* Ends, the owner and the process *)

\* A step after which no task runs and that keeps the saved candidate.
LEMMA Rests ==
  ASSUME IInv, record' \in Record, record'.base = record.base, record'.pr = record.pr,
         record.intents \subseteq record'.intents, task' = None,
         feature' \in {"running", "failed", "reverify", "succeeded", "removed"},
         cancelled' \in BOOLEAN, UNCHANGED <<checkout, github, requests>>,
         StatusFits', OutcomeStands'
  PROVE  IInv'
<1>1. TypeOK'
  BY DEF IInv, TypeOK
<1>2. EffectsAreIntended'
  BY DEF IInv, EffectsAreIntended
<1>3. NumbersExist' /\ TaskExtendsRecord'
  BY DEF IInv, NumbersExist, TaskExtendsRecord
<1> QED
  BY <1>1, <1>2, <1>3 DEF IInv

\* Saving another status changes nothing else of the record.
LEMMA StatusSaved ==
  ASSUME NEW r \in Record, NEW s \in {"pending", "running", "attention", "succeeded", "abandoned"}
  PROVE  /\ [r EXCEPT !.status = s] \in Record /\ [r EXCEPT !.status = s].status = s
         /\ [r EXCEPT !.status = s].base = r.base /\ [r EXCEPT !.status = s].pr = r.pr
         /\ [r EXCEPT !.status = s].intents = r.intents
  BY DEF Record

\* Attention with a stage of the same record.
LEMMA AttentionSaved ==
  ASSUME NEW r \in Record, NEW g \in Stage
  PROVE  LET a == [r EXCEPT !.status = "attention", !.stage = g]
         IN /\ a \in Record /\ a.status = "attention"
            /\ a.base = r.base /\ a.pr = r.pr /\ a.intents = r.intents
<1> DEFINE a1 == [r EXCEPT !.status = "attention"]
<1>1. a1 \in Record /\ a1.status = "attention" /\ a1.base = r.base /\ a1.pr = r.pr /\ a1.intents = r.intents
  BY StatusSaved
<1> HIDE DEF a1
<1>2. /\ [a1 EXCEPT !.stage = g] \in Record /\ [a1 EXCEPT !.stage = g].status = "attention"
      /\ [a1 EXCEPT !.stage = g].base = r.base /\ [a1 EXCEPT !.stage = g].pr = r.pr
      /\ [a1 EXCEPT !.stage = g].intents = r.intents
  BY <1>1 DEF Record
<1> QED
  BY <1>2 DEF a1

\* PublishFails keeps the invariant.
LEMMA PublishFailsKeeps ==
  ASSUME IInv, PublishFails
  PROVE  IInv'
<1>1. record \in Record
  BY DEF IInv, TypeOK
<1>2. PICK g \in Stage : record' = [record EXCEPT !.status = "attention", !.stage = g]
  <2>1. record.stage \in Stage /\ "verify_remote_base" \in Stage
    BY <1>1 DEF Record, Stage
  <2> QED
    BY <1>1, <2>1 DEF PublishFails, PublicationAttention
<1>3. /\ record' \in Record /\ record'.status = "attention"
      /\ record'.base = record.base /\ record'.pr = record.pr /\ record'.intents = record.intents
  BY <1>1, <1>2, AttentionSaved
<1>4. StatusFits' /\ OutcomeStands'
  BY <1>3 DEF PublishFails, StatusFits, OutcomeStands
<1> QED
  BY <1>3, <1>4, Rests DEF PublishFails, IInv, TypeOK

\* FinishPublication keeps the invariant.
LEMMA FinishPublicationKeeps ==
  ASSUME IInv, FinishPublication
  PROVE  IInv'
<1>1. /\ record \in Record /\ task # None /\ task.at = "finish" /\ record.status = "succeeded"
      /\ feature \notin {"reverify", "succeeded", "removed"} /\ feature \in {"running", "failed"}
  BY DEF IInv, TypeOK, FinishPublication, TaskAt, StatusFits
<1>2. task' = None /\ UNCHANGED <<cancelled, checkout, github, requests>>
  BY DEF FinishPublication
<1>3. CASE UNCHANGED record /\ feature' \in {feature, "failed", "succeeded"}
  <2>1. StatusFits'
    BY <1>1, <1>2, <1>3 DEF StatusFits
  <2>2. OutcomeStands'
    BY <1>1, <1>2, <1>3 DEF IInv, OutcomeStands, CandidateMerged, Merged
  <2> QED
    BY <1>1, <1>2, <1>3, <2>1, <2>2, Rests DEF IInv, TypeOK
<1>4. CASE /\ record' = [record EXCEPT !.status = "attention", !.stage = "verify_remote_base"]
           /\ feature' = "failed"
  <2>1. "verify_remote_base" \in Stage
    BY DEF Stage
  <2>2. /\ record' \in Record /\ record'.status = "attention"
        /\ record'.base = record.base /\ record'.pr = record.pr /\ record'.intents = record.intents
    BY <1>1, <1>4, <2>1, AttentionSaved
  <2>3. StatusFits' /\ OutcomeStands'
    BY <1>2, <1>4, <2>2 DEF StatusFits, OutcomeStands
  <2> QED
    BY <1>2, <1>4, <2>2, <2>3, Rests DEF IInv, TypeOK
<1> QED
  BY <1>3, <1>4 DEF FinishPublication

\* StopPublication keeps the invariant.
LEMMA StopPublicationKeeps ==
  ASSUME IInv, StopPublication
  PROVE  IInv'
  BY DEF StopPublication, IInv, TypeOK, EffectsAreIntended, NumbersExist, TaskExtendsRecord,
         StatusFits, OutcomeStands, CandidateMerged, Merged

\* Reconcile keeps the invariant.
LEMMA ReconcileKeeps ==
  ASSUME IInv, Reconcile
  PROVE  IInv'
<1> USE DEF Reconcile
<1>1. /\ record \in Record /\ record.status = "attention" /\ feature' = "running"
      /\ UNCHANGED <<checkout, github, requests>>
  BY DEF IInv, TypeOK
<1>2. /\ record' \in Record /\ record'.status = "pending"
      /\ record'.base = record.base /\ record'.pr = record.pr /\ record'.intents = record.intents
  BY <1>1, StatusSaved
<1>3. /\ task' \in Task /\ task' # None /\ task'.at = "view"
      /\ task'.base = record.base /\ task'.pr = record.pr
  BY <1>1 DEF Task, At, Record
<1>4. TypeOK'
  BY <1>1, <1>2, <1>3 DEF IInv, TypeOK
<1>5. EffectsAreIntended'
  BY <1>1, <1>2 DEF IInv, EffectsAreIntended
<1>6. NumbersExist' /\ TaskExtendsRecord'
  BY <1>1, <1>2, <1>3 DEF IInv, NumbersExist, TaskExtendsRecord
<1>7. StatusFits' /\ OutcomeStands'
  BY <1>1, <1>2, <1>3 DEF StatusFits, OutcomeStands
<1> QED
  BY <1>4, <1>5, <1>6, <1>7 DEF IInv

\* Nothing was asked of GitHub, or the recorded pull request is closed.
LEMMA AbandonKeeps ==
  ASSUME IInv, Abandon
  PROVE  IInv' /\ record'.status = "abandoned" /\ ~CandidateMerged
<1> USE DEF Abandon
<1>1. /\ TypeOK /\ record \in Record /\ task' = None /\ feature' = "removed" /\ cancelled' = FALSE
      /\ UNCHANGED <<checkout, github, requests>>
  BY DEF IInv, TypeOK
<1> DEFINE e == Event(record, "receipt", "abandoned")
<1>2. e \in Record /\ e.base = record.base /\ e.pr = record.pr /\ record.intents \subseteq e.intents
  BY <1>1, EventFacts DEF Room, Stage
<1>3. record' = [e EXCEPT !.status = "abandoned"]
  OBVIOUS
<1> HIDE DEF e
<1>4. /\ record' \in Record /\ record'.status = "abandoned"
      /\ record'.base = record.base /\ record'.pr = record.pr /\ record.intents \subseteq record'.intents
  BY <1>2, <1>3 DEF Record
<1>5. StatusFits'
  BY <1>1, <1>4 DEF StatusFits
<1>6. CASE AbandonableBeforeEffects
  <2>1. record.pr = None /\ record.intents = {"prepare_candidate"}
    BY <1>6 DEF AbandonableBeforeEffects
  <2>2. requests = {}
    <3>1. \A r \in requests : r.effect = "prepare_candidate"
      BY <2>1 DEF IInv, EffectsAreIntended
    <3>2. \A r \in requests : r.effect # "prepare_candidate"
      BY <1>1 DEF TypeOK, Request, EffectStage
    <3> QED
      BY <3>1, <3>2
  <2>3. github.branch = None
    BY <2>1 DEF IInv, EffectsAreIntended
  <2>4. OutcomeStands' /\ ~CandidateMerged
    BY <1>1, <1>4, <2>1, <2>2, <2>3 DEF OutcomeStands, CandidateMerged
  <2> QED
    BY <1>1, <1>4, <1>5, <2>4, Rests DEF IInv, TypeOK
<1>7. CASE AbandonableAfterClosing
  <2>1. record.pr # None /\ github.pulls[record.pr].state = "closed"
    BY <1>7 DEF AbandonableAfterClosing
  <2>2. github.branch # None
    <3>1. record.pr \in DOMAIN github.pulls
      BY <2>1 DEF IInv, NumbersExist
    <3>2. github.pulls # <<>>
      BY <3>1
    <3> QED
      BY <3>2 DEF IInv, NumbersExist
  <2>3. OutcomeStands' /\ ~CandidateMerged
    BY <1>1, <1>4, <2>1, <2>2 DEF OutcomeStands, CandidateMerged, Merged
  <2> QED
    BY <1>1, <1>4, <1>5, <2>3, Rests DEF IInv, TypeOK
<1> QED
  BY <1>6, <1>7

\* ReverifyCompleted keeps the invariant.
LEMMA ReverifyCompletedKeeps ==
  ASSUME IInv, ReverifyCompleted
  PROVE  IInv' /\ record.status = "succeeded" /\ record'.status = "succeeded"
         /\ record'.base = record.base /\ record'.pr = record.pr
<1> USE DEF ReverifyCompleted
<1>1. record \in Record /\ record.status = "succeeded" /\ record.events + 2 \in 0 .. EventLimit
  BY DEF IInv, TypeOK, StatusFits, Room, Record
<1>2. /\ record' \in Record /\ record'.status = "succeeded"
      /\ record'.base = record.base /\ record'.pr = record.pr /\ record'.intents = record.intents
  BY <1>1 DEF Record
<1>3. StatusFits'
  BY <1>2 DEF StatusFits
<1>4. OutcomeStands'
  BY <1>1, <1>2 DEF IInv, OutcomeStands, CandidateMerged, Merged
<1> QED
  BY <1>1, <1>2, <1>3, <1>4, Rests DEF IInv, TypeOK

\* Restart keeps the invariant.
LEMMA RestartKeeps ==
  ASSUME IInv, Restart
  PROVE  IInv'
<1> USE DEF Restart
<1>1. record \in Record /\ task' = None /\ cancelled' = FALSE /\ UNCHANGED <<checkout, github, requests>>
  BY DEF IInv, TypeOK
<1>2. CASE record.status \in {"pending", "running"}
  <2>1. record' = [record EXCEPT !.status = "attention"]
    BY <1>2 DEF RecoveredRecord
  <2>2. /\ record' \in Record /\ record'.status = "attention"
        /\ record'.base = record.base /\ record'.pr = record.pr /\ record'.intents = record.intents
    BY <1>1, <2>1 DEF Record
  <2>3. feature' = "failed"
    BY <1>2, <2>2 DEF RecoveredFeature, IInv, StatusFits
  <2>4. StatusFits' /\ OutcomeStands'
    BY <1>1, <2>2, <2>3 DEF StatusFits, OutcomeStands
  <2> QED
    BY <1>1, <2>2, <2>3, <2>4, Rests
<1>3. CASE record.status \notin {"pending", "running"}
  <2>1. record' = record
    BY <1>3 DEF RecoveredRecord
  <2>2. feature' = IF feature \in {"removed", "succeeded"} THEN feature
                   ELSE IF record.status = "attention" THEN "failed" ELSE "reverify"
    BY <2>1 DEF RecoveredFeature
  <2>3. record.status \in {"attention", "succeeded", "abandoned"}
    BY <1>1, <1>3 DEF Record
  <2>4. StatusFits'
    BY <1>1, <2>1, <2>2, <2>3 DEF IInv, StatusFits
  <2>5. OutcomeStands'
    BY <1>1, <2>1 DEF IInv, OutcomeStands, CandidateMerged, Merged
  <2>6. feature' \in {"running", "failed", "reverify", "succeeded", "removed"}
    BY <2>2
  <2> QED
    BY <1>1, <2>1, <2>4, <2>5, <2>6, Rests
<1> QED
  BY <1>2, <1>3

-----------------------------------------------------------------------------
(* GitHub, and others who use it *)

\* What a change of the pull requests of the same length keeps.
LEMMA PullsReplaced ==
  ASSUME TypeOK, NEW q, q \in [DOMAIN github.pulls -> Pull]
  PROVE  q \in Seq(Pull) /\ Len(q) = Len(github.pulls) /\ DOMAIN q = DOMAIN github.pulls
<1>1. DOMAIN github.pulls = 1 .. Len(github.pulls) /\ Len(github.pulls) \in Nat
  BY GitHubFacts
<1> QED
  BY <1>1

\* Replacing the list of pull requests keeps the repository typed.
LEMMA PullsSet ==
  ASSUME NEW g \in GitHub, NEW q \in Seq(Pull), Len(q) \in 0 .. MaxPulls
  PROVE  /\ [g EXCEPT !.pulls = q] \in GitHub /\ [g EXCEPT !.pulls = q].pulls = q
         /\ [g EXCEPT !.pulls = q].branch = g.branch /\ [g EXCEPT !.pulls = q].base = g.base
<1>1. q \in UNION {[1 .. n -> Pull] : n \in 0 .. MaxPulls}
  BY PullsAreSequences
<1> QED
  BY <1>1 DEF GitHub

\* A merge changes the state of one pull request and the base.
LEMMA MergesFacts ==
  ASSUME TypeOK, NEW n \in DOMAIN github.pulls, github.base < MaxBase
  PROVE  /\ Merges(n) \in GitHub /\ Merges(n).branch = github.branch
         /\ DOMAIN Merges(n).pulls = DOMAIN github.pulls
         /\ \A m \in DOMAIN github.pulls :
              /\ m # n => Merges(n).pulls[m] = github.pulls[m]
              /\ Merges(n).pulls[m].by = github.pulls[m].by
              /\ Merges(n).pulls[m].head = github.pulls[m].head
<1> DEFINE p1 == [github.pulls[n] EXCEPT !.state = "merged"]
           q1 == [github.pulls EXCEPT ![n] = p1]
           g1 == [github EXCEPT !.pulls = q1]
           p2 == [p1 EXCEPT !.merge = github.base + 1]
           q2 == [q1 EXCEPT ![n] = p2]
           g2 == [g1 EXCEPT !.pulls = q2]
<1>1. github.pulls[n] \in Pull /\ github.base + 1 \in Base /\ github \in GitHub
  BY GitHubFacts DEF Base, TypeOK
<1>2. p1 \in Pull /\ p1.by = github.pulls[n].by /\ p1.head = github.pulls[n].head
  BY <1>1 DEF Pull
<1>3. p2 \in Pull /\ p2.by = github.pulls[n].by /\ p2.head = github.pulls[n].head
  BY <1>1, <1>2 DEF Pull
<1>4. q1 \in [DOMAIN github.pulls -> Pull] /\ q1[n] = p1
  BY <1>2, GitHubFacts
<1>5. /\ q2 \in [DOMAIN github.pulls -> Pull] /\ q2[n] = p2
      /\ \A m \in DOMAIN github.pulls : m # n => q2[m] = github.pulls[m]
  BY <1>3, <1>4, GitHubFacts
<1>6. g1 \in GitHub /\ g1.pulls = q1 /\ g1.branch = github.branch /\ g1.base = github.base
  BY <1>1, <1>4, PullsReplaced, PullsSet, GitHubFacts
<1>7. g2 \in GitHub /\ g2.pulls = q2 /\ g2.branch = github.branch /\ g2.base = github.base
  BY <1>5, <1>6, PullsReplaced, PullsSet, GitHubFacts
<1>8. Merges(n) = [g2 EXCEPT !.base = github.base + 1]
  BY <1>4, <1>6, <1>7 DEF Merges
<1> HIDE DEF g2, q2, p2
<1>9. /\ Merges(n) \in GitHub /\ Merges(n).pulls = q2 /\ Merges(n).branch = github.branch
  BY <1>1, <1>7, <1>8 DEF GitHub
<1> QED
  BY <1>3, <1>5, <1>9

\* Opening a pull request appends one and keeps the others.
LEMMA OpenedFacts ==
  ASSUME TypeOK, MayOpen, NEW who \in {"runner", "owner"}
  PROVE  /\ Opened(who) \in GitHub /\ Opened(who).branch = github.branch
         /\ DOMAIN github.pulls \subseteq DOMAIN Opened(who).pulls
         /\ \A m \in DOMAIN github.pulls : Opened(who).pulls[m] = github.pulls[m]
         /\ \A m \in DOMAIN Opened(who).pulls :
              m \in DOMAIN github.pulls \/ Opened(who).pulls[m].by = who
<1> DEFINE x == NewPull(who)
           q == Append(github.pulls, x)
<1>1. x \in Pull /\ x.by = who
  BY GitHubFacts DEF MayOpen, NewPull, Pull
<1> HIDE DEF x
<1>2. /\ q \in Seq(Pull) /\ Len(q) = Len(github.pulls) + 1
      /\ DOMAIN q = 1 .. Len(github.pulls) + 1 /\ q[Len(github.pulls) + 1] = x
      /\ \A m \in 1 .. Len(github.pulls) : q[m] = github.pulls[m]
  BY <1>1, GitHubFacts, AppendProperties, LenProperties
<1>3. Opened(who) = [github EXCEPT !.pulls = q]
  BY DEF Opened, x
<1>4. Len(q) \in 0 .. MaxPulls /\ github \in GitHub
  BY <1>2, GitHubFacts DEF MayOpen, TypeOK
<1> HIDE DEF q
<1>5. Opened(who) \in GitHub /\ Opened(who).pulls = q /\ Opened(who).branch = github.branch
  BY <1>2, <1>3, <1>4, PullsSet
<1>6. \A m \in DOMAIN q : m \in DOMAIN github.pulls \/ m = Len(github.pulls) + 1
  BY <1>2, GitHubFacts
<1>7. DOMAIN github.pulls = 1 .. Len(github.pulls) /\ Len(github.pulls) \in Nat
  BY GitHubFacts
<1> QED
  BY <1>1, <1>2, <1>3, <1>5, <1>6, <1>7

\* GitHub forgets nothing, and a pull request that is not open never changes.
Grows ==
  /\ github' \in GitHub
  /\ \A n \in DOMAIN github.pulls :
       n \in DOMAIN github'.pulls /\ (github.pulls[n].state # "open" => github'.pulls[n] = github.pulls[n])
  /\ github.branch # None => github'.branch # None

\* A step of GitHub that only adds what has its intent.
LEMMA GrowsKeeps ==
  ASSUME IInv, Grows, requests' \subseteq requests, UNCHANGED <<record, feature, task, cancelled, checkout>>,
         github'.pulls # <<>> => github'.branch # None,
         github'.branch # None => "push_branch" \in record.intents,
         (\E n \in DOMAIN github'.pulls : github'.pulls[n].by = "runner") => "open_pull_request" \in record.intents,
         record.status = "abandoned" /\ github.branch = None => github'.branch = None
  PROVE  /\ IInv'
         /\ CandidateMerged => CandidateMerged'
         /\ record.status = "abandoned" => ~CandidateMerged' /\ ~CandidateMerged
<1>1. TypeOK'
  BY DEF IInv, TypeOK, Grows
<1>2. EffectsAreIntended'
  BY DEF IInv, EffectsAreIntended
<1>3. NumbersExist'
  BY DEF IInv, NumbersExist, Grows
<1>4. TaskExtendsRecord' /\ StatusFits'
  BY DEF IInv, TaskExtendsRecord, StatusFits
<1>5. CandidateMerged => CandidateMerged'
  BY DEF CandidateMerged, Merged, IInv, NumbersExist, Grows
<1>6. OutcomeStands'
  BY <1>5 DEF OutcomeStands, IInv, NumbersExist, Grows
<1>7. record.status = "abandoned" => ~CandidateMerged' /\ ~CandidateMerged
  <2>1. OutcomeStands /\ OutcomeStands'
    BY <1>6 DEF IInv
  <2> QED
    BY <2>1 DEF OutcomeStands, CandidateMerged, Merged
<1> QED
  BY <1>1, <1>2, <1>3, <1>4, <1>5, <1>6, <1>7 DEF IInv

\* What an outside step does for the invariant and for the promise.
OutsideOk ==
  /\ IInv'
  /\ CandidateMerged => CandidateMerged'
  /\ record.status = "abandoned" => ~CandidateMerged' /\ ~CandidateMerged
  /\ github.branch # None => github'.branch # None
  /\ record.status = "abandoned" => (github'.branch = None <=> github.branch = None)
  /\ UNCHANGED <<record, feature, task>>

\* A merge on GitHub is a permitted outside step.
LEMMA MergedGrows ==
  ASSUME IInv, NEW n \in DOMAIN github.pulls, MayMerge(n), github' = Merges(n),
         requests' \subseteq requests, UNCHANGED <<record, feature, task, cancelled, checkout>>
  PROVE  OutsideOk
<1>1. TypeOK
  BY DEF IInv
<1>2. /\ github' \in GitHub /\ github'.branch = github.branch
      /\ DOMAIN github'.pulls = DOMAIN github.pulls
      /\ \A m \in DOMAIN github.pulls :
           /\ m # n => github'.pulls[m] = github.pulls[m]
           /\ github'.pulls[m].by = github.pulls[m].by
  BY <1>1, MergesFacts DEF MayMerge
<1>3. Grows
  BY <1>2 DEF Grows, MayMerge
<1>4. github.pulls # <<>>
  OBVIOUS
<1> QED
  BY <1>2, <1>3, <1>4, GrowsKeeps DEF OutsideOk, IInv, EffectsAreIntended, NumbersExist

\* A pull request that is opened is a permitted outside step.
LEMMA OpenedGrows ==
  ASSUME IInv, NEW who \in {"runner", "owner"}, MayOpen, github' = Opened(who),
         who = "runner" => "open_pull_request" \in record.intents,
         requests' \subseteq requests, UNCHANGED <<record, feature, task, cancelled, checkout>>
  PROVE  OutsideOk
<1>1. TypeOK /\ github.branch # None
  BY DEF IInv, MayOpen
<1>2. /\ github' \in GitHub /\ github'.branch = github.branch
      /\ DOMAIN github.pulls \subseteq DOMAIN github'.pulls
      /\ \A m \in DOMAIN github.pulls : github'.pulls[m] = github.pulls[m]
      /\ \A m \in DOMAIN github'.pulls : m \in DOMAIN github.pulls \/ github'.pulls[m].by = who
  BY <1>1, OpenedFacts
<1>3. Grows
  BY <1>2 DEF Grows
<1> QED
  BY <1>1, <1>2, <1>3, GrowsKeeps DEF OutsideOk, IInv, EffectsAreIntended

\* A decided request of the runner is a permitted outside step.
LEMMA RequestDecidedOk ==
  ASSUME IInv, NEW r \in requests, RequestDecided(r)
  PROVE  OutsideOk
<1>1. /\ requests' \subseteq requests /\ UNCHANGED <<record, feature, task, cancelled, checkout>>
      /\ r.effect \in record.intents /\ r \in Request
  BY DEF RequestDecided, IInv, EffectsAreIntended, TypeOK
<1>2. CASE UNCHANGED github
  <2>1. Grows
    BY <1>2 DEF Grows, IInv, TypeOK
  <2> QED
    BY <1>1, <1>2, <2>1, GrowsKeeps DEF OutsideOk, IInv, EffectsAreIntended, NumbersExist
<1>3. CASE r.effect = "push_branch" /\ github.branch = None /\ github' = [github EXCEPT !.branch = r.head]
  <2>1. r.head \in Commit \cup {None} /\ github \in GitHub
    BY <1>1 DEF Request, IInv, TypeOK
  <2>2. github' \in GitHub /\ github'.pulls = github.pulls
    BY <1>3, <2>1 DEF GitHub
  <2>3. github.pulls = <<>>
    BY <1>3 DEF IInv, NumbersExist
  <2>4. Grows
    BY <1>3, <2>2, <2>3 DEF Grows
  <2>5. record.status # "abandoned"
    BY <1>3 DEF IInv, OutcomeStands
  <2> QED
    BY <1>1, <1>3, <2>2, <2>3, <2>4, <2>5, GrowsKeeps DEF OutsideOk, IInv, EffectsAreIntended
<1>4. CASE r.effect = "open_pull_request" /\ MayOpen /\ github' = Opened("runner")
  BY <1>1, <1>4, OpenedGrows
<1>5. CASE r.effect = "merge_pull_request" /\ MayMerge(r.pr) /\ github' = Merges(r.pr)
  <2>1. r.pr \in DOMAIN github.pulls
    BY <1>5 DEF IInv, NumbersExist
  <2> QED
    BY <1>1, <1>5, <2>1, MergedGrows
<1> QED
  BY <1>2, <1>3, <1>4, <1>5 DEF RequestDecided, Accepts

\* The steps of others that keep the pull requests' number and the branch's existence.
LEMMA ElsewhereOk ==
  ASSUME IInv, NEW g \in GitHub, Elsewhere(g),
         DOMAIN g.pulls = DOMAIN github.pulls, g.pulls # <<>> => github.pulls # <<>>,
         \A n \in DOMAIN github.pulls :
           /\ github.pulls[n].state # "open" => g.pulls[n] = github.pulls[n]
           /\ g.pulls[n].by = github.pulls[n].by,
         g.branch = None <=> github.branch = None
  PROVE  OutsideOk
<1>1. github' = g /\ UNCHANGED <<record, feature, task, cancelled, checkout, requests>>
  BY DEF Elsewhere
<1>2. Grows
  BY <1>1 DEF Grows
<1>3. /\ github'.pulls # <<>> => github'.branch # None
      /\ github'.branch # None => "push_branch" \in record.intents
      /\ (\E n \in DOMAIN github'.pulls : github'.pulls[n].by = "runner") =>
           "open_pull_request" \in record.intents
  BY <1>1 DEF IInv, EffectsAreIntended, NumbersExist
<1> QED
  BY <1>1, <1>2, <1>3, GrowsKeeps DEF OutsideOk

\* Everything that others do on GitHub is a permitted outside step.
LEMMA OutsideStepOk ==
  ASSUME IInv, OutsideStep
  PROVE  OutsideOk
<1>1. TypeOK /\ github \in GitHub
  BY DEF IInv, TypeOK
<1>2. ASSUME NEW r \in requests, RequestDecided(r) PROVE OutsideOk
  BY <1>2, RequestDecidedOk
<1>3. CASE BaseMoves
  <2> DEFINE g == [github EXCEPT !.base = @ + 1]
  <2>1. g \in GitHub /\ g.pulls = github.pulls /\ g.branch = github.branch /\ Elsewhere(g)
    BY <1>1, <1>3 DEF BaseMoves, GitHub, Base
  <2> HIDE DEF g
  <2> QED
    BY <2>1, ElsewhereOk
<1>4. CASE BranchDrifts
  <2> DEFINE q == [n \in DOMAIN github.pulls |->
                     IF github.pulls[n].state = "open" THEN [github.pulls[n] EXCEPT !.head = Other]
                     ELSE github.pulls[n]]
             g1 == [github EXCEPT !.branch = Other]
             g2 == [g1 EXCEPT !.checks = "pending"]
             g3 == [g2 EXCEPT !.pulls = q]
  <2>1. g1 \in GitHub /\ g1.pulls = github.pulls /\ g1.branch = Other
    BY <1>1 DEF GitHub, Commit
  <2>2. g2 \in GitHub /\ g2.pulls = github.pulls /\ g2.branch = Other
    BY <2>1 DEF GitHub
  <2>3. Elsewhere(g3)
    BY <1>4, <2>1, <2>2 DEF BranchDrifts
  <2> HIDE DEF g1, g2
  <2>4. q \in [DOMAIN github.pulls -> Pull]
    <3> SUFFICES ASSUME NEW n \in DOMAIN github.pulls PROVE q[n] \in Pull
      OBVIOUS
    <3>1. github.pulls[n] \in Pull
      BY <1>1, GitHubFacts
    <3>2. [github.pulls[n] EXCEPT !.head = Other] \in Pull
      BY <3>1 DEF Pull, Commit
    <3> QED
      BY <3>1, <3>2
  <2>5. \A n \in DOMAIN github.pulls :
          /\ github.pulls[n].state # "open" => q[n] = github.pulls[n]
          /\ q[n].by = github.pulls[n].by
    <3> SUFFICES ASSUME NEW n \in DOMAIN github.pulls
                 PROVE  /\ github.pulls[n].state # "open" => q[n] = github.pulls[n]
                        /\ q[n].by = github.pulls[n].by
      OBVIOUS
    <3>1. github.pulls[n] \in Pull
      BY <1>1, GitHubFacts
    <3>2. [github.pulls[n] EXCEPT !.head = Other].by = github.pulls[n].by
      BY <3>1 DEF Pull
    <3> QED
      BY <3>2
  <2> HIDE DEF q
  <2>6. /\ q \in Seq(Pull) /\ Len(q) = Len(github.pulls) /\ Len(q) \in 0 .. MaxPulls
        /\ DOMAIN q = DOMAIN github.pulls
    BY <1>1, <2>4, PullsReplaced, GitHubFacts
  <2>7. g3 \in GitHub /\ g3.pulls = q /\ g3.branch = Other
    BY <2>2, <2>6, PullsSet
  <2>8. q # <<>> => github.pulls # <<>>
    BY <1>1, <2>6, GitHubFacts, EmptySeq
  <2>9. github.branch # None
    BY <1>4 DEF BranchDrifts
  <2> HIDE DEF g3
  <2> QED
    BY <2>3, <2>5, <2>6, <2>7, <2>8, <2>9, ElsewhereOk
<1>5. CASE OwnerOpens
  BY <1>5, OpenedGrows DEF OwnerOpens, Elsewhere
<1>6. ASSUME NEW o \in {"passed", "failed"}, ChecksEnd(o) PROVE OutsideOk
  <2> DEFINE g == [github EXCEPT !.checks = o]
  <2>1. g \in GitHub /\ g.pulls = github.pulls /\ g.branch = github.branch /\ Elsewhere(g)
    BY <1>1, <1>6 DEF ChecksEnd, GitHub
  <2> HIDE DEF g
  <2> QED
    BY <2>1, ElsewhereOk
<1>7. ASSUME NEW n \in DOMAIN github.pulls, OwnerCloses(n) PROVE OutsideOk
  <2> DEFINE x == [github.pulls[n] EXCEPT !.state = "closed"]
             q == [github.pulls EXCEPT ![n] = x]
             g == [github EXCEPT !.pulls = q]
  <2>1. github.pulls[n] \in Pull
    BY <1>1, GitHubFacts
  <2>2. x \in Pull /\ x.by = github.pulls[n].by
    BY <2>1 DEF Pull
  <2>3. /\ q \in [DOMAIN github.pulls -> Pull] /\ q[n] = x
        /\ \A m \in DOMAIN github.pulls : m # n => q[m] = github.pulls[m]
    BY <1>1, <2>2, GitHubFacts
  <2>4. Elsewhere(g) /\ github.pulls[n].state = "open"
    BY <1>7 DEF OwnerCloses
  <2> HIDE DEF q, x
  <2>5. /\ q \in Seq(Pull) /\ Len(q) = Len(github.pulls) /\ Len(q) \in 0 .. MaxPulls
        /\ DOMAIN q = DOMAIN github.pulls
    BY <1>1, <2>3, PullsReplaced, GitHubFacts
  <2>6. g \in GitHub /\ g.pulls = q /\ g.branch = github.branch
    BY <1>1, <2>5, PullsSet
  <2> HIDE DEF g
  <2>7. github.pulls # <<>>
    OBVIOUS
  <2> QED
    BY <2>2, <2>3, <2>4, <2>5, <2>6, <2>7, ElsewhereOk
<1>8. ASSUME NEW n \in DOMAIN github.pulls, OwnerMerges(n) PROVE OutsideOk
  BY <1>8, MergedGrows DEF OwnerMerges, Elsewhere
<1> QED
  BY <1>2, <1>3, <1>4, <1>5, <1>6, <1>7, <1>8 DEF OutsideStep

-----------------------------------------------------------------------------
(* The theorems *)

\* Every step keeps the invariant.
LEMMA NextKeeps == IInv /\ [Next]_vars => IInv'
<1> SUFFICES ASSUME IInv, [Next]_vars PROVE IInv'
  OBVIOUS
<1>1. CASE PublishStep
  BY <1>1, ReconcileIfMergedKeeps, OverlayKeeps, CommitCandidateKeeps, SavingStagesKeep, SendsKeep,
     OpenPullRequestKeeps, PullRequestOpenedKeeps, VerifyMergeKeeps, PublishFailsKeeps,
     FinishPublicationKeeps DEF PublishStep
<1>2. CASE OwnerStep
  BY <1>2, StopPublicationKeeps, ReconcileKeeps, AbandonKeeps, ReverifyCompletedKeeps DEF OwnerStep
<1>3. CASE Restart
  BY <1>3, RestartKeeps
<1>4. CASE OutsideStep
  BY <1>4, OutsideStepOk DEF OutsideOk
<1>5. CASE UNCHANGED vars
  BY <1>5 DEF vars, IInv, TypeOK, EffectsAreIntended, NumbersExist, TaskExtendsRecord,
              StatusFits, OutcomeStands, CandidateMerged, Merged
<1> QED
  BY <1>1, <1>2, <1>3, <1>4, <1>5 DEF Next

\* The inductive invariant holds of every reachable state.
LEMMA Invariant == Spec => []IInv
  BY InitHolds, NextKeeps, PTL DEF Spec

\* The record, the task and GitHub stay inside their types: in particular the
\* record never holds more than EVENT_LIMIT events, however often a publication
\* fails, restarts and is reconciled.
THEOREM TypeCorrect == Spec => []TypeOK
<1>1. IInv => TypeOK
  BY DEF IInv
<1> QED
  BY <1>1, Invariant, PTL

\* Whatever the runner did on GitHub, or what it asked for and may still happen,
\* has its intent in the saved record: the process may die at any point and the
\* next one finds a note of every effect.
THEOREM EffectsIntended == Spec => []EffectsAreIntended
<1>1. IInv => EffectsAreIntended
  BY DEF IInv
<1> QED
  BY <1>1, Invariant, PTL

\* A merge that the runner asked for merges the recorded candidate and nothing
\* else, also when it takes effect after the runner gave up on it and others have
\* pushed to the branch.
THEOREM OnlyReviewed == Spec => OnlyReviewedMerges
<1> DEFINE Only == \A n \in DOMAIN github.pulls :
             requests' # requests /\ ~Merged(n) /\ github'.pulls[n].state = "merged" =>
               github.pulls[n].head = record.base
<1>1. IInv /\ [Next]_vars => [Only]_vars
  <2> SUFFICES ASSUME IInv, [Next]_vars, NEW n \in DOMAIN github.pulls, requests' # requests,
                      ~Merged(n), github'.pulls[n].state = "merged"
               PROVE  github.pulls[n].head = record.base
    OBVIOUS
  <2>0. TypeOK /\ github \in GitHub
    BY DEF IInv, TypeOK
  <2>1. github' # github
    BY DEF Merged
  <2>2. PICK r \in requests : RequestDecided(r)
    <3>1. CASE PublishStep
      BY <3>1, <2>1 DEF PublishStep, ReconcileIfMerged, PrepareIntent, Overlay, CommitCandidate,
         PrepareReceipt, PushBranch, SendPush, PushVerified, OpenPullRequest, SendOpen,
         PullRequestOpened, PullRequestVerified, ChecksIntent, ChecksPass, MergeIntent, SendMerge,
         MergeAnswered, VerifyMerge, PublishFails, FinishPublication, Intends, Verifies, Sends
    <3>2. CASE OwnerStep \/ Restart \/ UNCHANGED vars
      BY <3>2, <2>1 DEF OwnerStep, StopPublication, Reconcile, Abandon, ReverifyCompleted, Restart, vars
    <3>3. CASE OutsideStep
      BY <3>3 DEF OutsideStep, BaseMoves, BranchDrifts, OwnerOpens, ChecksEnd, OwnerCloses,
         OwnerMerges, Elsewhere
    <3> QED
      BY <3>1, <3>2, <3>3 DEF Next
  <2>3. Accepts(r)
    BY <2>1, <2>2 DEF RequestDecided
  <2>4. r.effect # "push_branch"
    BY <2>0, <2>3 DEF Accepts, GitHub, Merged
  <2>5. ASSUME MayOpen, github' = Opened("runner") PROVE FALSE
    BY <2>0, <2>5, OpenedFacts DEF Merged
  <2>6. /\ r.effect = "merge_pull_request" /\ MayMerge(r.pr) /\ github' = Merges(r.pr)
        /\ r.head \in {None, github.pulls[r.pr].head}
    BY <2>3, <2>4, <2>5 DEF Accepts
  <2>7. r.pr \in DOMAIN github.pulls /\ r.head = record.base /\ record.base # None
    BY <2>6 DEF IInv, NumbersExist
  <2>8. n = r.pr
    BY <2>0, <2>6, <2>7, MergesFacts DEF Merged, MayMerge
  <2> QED
    BY <2>6, <2>7, <2>8
<1> QED
  BY <1>1, Invariant, PTL DEF Spec, OnlyReviewedMerges

-----------------------------------------------------------------------------
(* The promise *)

\* The phase of each status, and what is behind it.
LEMMA PhaseFacts ==
  ASSUME IInv
  PROVE  /\ record.status \in {"pending", "running"} <=> PhaseOf = "active"
         /\ record.status = "attention" <=> PhaseOf = "attention"
         /\ record.status = "abandoned" <=> PhaseOf = "abandoned"
         /\ record.status = "succeeded" /\ feature # "succeeded" <=> PhaseOf = "done"
         /\ record.status = "succeeded" /\ feature = "succeeded" <=> PhaseOf = "finished"
         /\ PhaseOf \in {"done", "finished"} => CandidateMerged
         /\ CandidateMerged <=> RepoOf = "merged"
         /\ CandidateMerged => github.branch # None
         /\ ~CandidateMerged /\ github.branch # None <=> RepoOf = "written"
         /\ ~CandidateMerged /\ github.branch = None <=> RepoOf = "untouched"
<1>1. record.status \in {"pending", "running", "attention", "succeeded", "abandoned"}
  BY DEF IInv, TypeOK, Record
<1>2. /\ record.status \in {"pending", "running"} <=> PhaseOf = "active"
      /\ record.status = "attention" <=> PhaseOf = "attention"
      /\ record.status = "abandoned" <=> PhaseOf = "abandoned"
      /\ record.status = "succeeded" /\ feature # "succeeded" <=> PhaseOf = "done"
      /\ record.status = "succeeded" /\ feature = "succeeded" <=> PhaseOf = "finished"
  BY <1>1 DEF PhaseOf
<1>3. PhaseOf \in {"done", "finished"} => CandidateMerged
  BY <1>2 DEF IInv, OutcomeStands
<1>4. CandidateMerged => github.branch # None
  <2> SUFFICES ASSUME CandidateMerged PROVE github.branch # None
    OBVIOUS
  <2>1. record.pr \in DOMAIN github.pulls
    BY DEF CandidateMerged, IInv, NumbersExist
  <2>2. github.pulls # <<>>
    BY <2>1
  <2> QED
    BY <2>2 DEF IInv, NumbersExist
<1> QED
  BY <1>2, <1>3, <1>4 DEF RepoOf

\* The phases of the promise in terms of the next record and feature.
LEMMA PhaseFactsNext ==
  ASSUME IInv'
  PROVE  /\ record'.status \in {"pending", "running"} <=> PhaseOf' = "active"
         /\ record'.status = "attention" <=> PhaseOf' = "attention"
         /\ record'.status = "abandoned" <=> PhaseOf' = "abandoned"
         /\ record'.status = "succeeded" /\ feature' # "succeeded" <=> PhaseOf' = "done"
         /\ record'.status = "succeeded" /\ feature' = "succeeded" <=> PhaseOf' = "finished"
         /\ CandidateMerged' <=> RepoOf' = "merged"
         /\ ~CandidateMerged' /\ github'.branch # None <=> RepoOf' = "written"
         /\ ~CandidateMerged' /\ github'.branch = None <=> RepoOf' = "untouched"
<1>1. record'.status \in {"pending", "running", "attention", "succeeded", "abandoned"}
  BY DEF IInv, TypeOK, Record
<1>2. /\ record'.status \in {"pending", "running"} <=> PhaseOf' = "active"
      /\ record'.status = "attention" <=> PhaseOf' = "attention"
      /\ record'.status = "abandoned" <=> PhaseOf' = "abandoned"
      /\ record'.status = "succeeded" /\ feature' # "succeeded" <=> PhaseOf' = "done"
      /\ record'.status = "succeeded" /\ feature' = "succeeded" <=> PhaseOf' = "finished"
  BY <1>1 DEF PhaseOf
<1>3. /\ CandidateMerged' <=> RepoOf' = "merged"
      /\ ~CandidateMerged' /\ github'.branch # None <=> RepoOf' = "written"
      /\ ~CandidateMerged' /\ github'.branch = None <=> RepoOf' = "untouched"
  <2>1. CandidateMerged' => github'.branch # None
    <3> SUFFICES ASSUME CandidateMerged' PROVE github'.branch # None
      OBVIOUS
    <3>1. record'.pr \in DOMAIN github'.pulls
      BY DEF CandidateMerged, IInv, NumbersExist
    <3>2. github'.pulls # <<>>
      BY <3>1
    <3> QED
      BY <3>2 DEF IInv, NumbersExist
  <2> QED
    BY <2>1 DEF RepoOf
<1> QED
  BY <1>2, <1>3

\* The repository the promise sees depends on bindings and pull requests only.
LEMMA RepoKept ==
  ASSUME record'.pr = record.pr, record'.base = record.base, github' = github
  PROVE  RepoOf' = RepoOf /\ (CandidateMerged' <=> CandidateMerged)
  BY DEF RepoOf, CandidateMerged, Merged

\* A step of the promise, or none.
PromiseStep == [Promise!Next]_<<PhaseOf, RepoOf>>

\* A step that leaves record, feature and GitHub alone stutters.
LEMMA UnchangedKeepsPromise ==
  ASSUME UNCHANGED <<record, feature, github>>
  PROVE  PromiseStep
  BY RepoKept DEF PromiseStep, PhaseOf

\* Saving a pull request that was merged by hand is how the promise learns of it.
LEMMA SavesKeepsPromise ==
  ASSUME IInv, IInv', task # None, task.at # "finish", record'.status = "running",
         record'.base = task.base, record'.pr = task.pr, github' = github
  PROVE  PromiseStep
<1>1. PhaseOf = "active" /\ PhaseOf' = "active"
  BY PhaseFacts, PhaseFactsNext DEF IInv, StatusFits
<1>2. CASE record.pr # None
  <2>1. record'.pr = record.pr /\ record'.base = record.base
    BY <1>2 DEF IInv, TaskExtendsRecord, NumbersExist
  <2> QED
    BY <1>1, <2>1, RepoKept DEF PromiseStep
<1>3. CASE record.pr = None
  <2>1. ~CandidateMerged
    BY <1>3 DEF CandidateMerged
  <2>2. RepoOf' = RepoOf \/ (RepoOf = "written" /\ RepoOf' = "merged")
    <3>1. CandidateMerged' => github.branch # None
      <4> SUFFICES ASSUME CandidateMerged' PROVE github.branch # None
        OBVIOUS
      <4>1. task.pr # None
        BY DEF CandidateMerged
      <4>2. task.pr \in DOMAIN github.pulls
        BY <4>1 DEF IInv, NumbersExist
      <4>3. github.pulls # <<>>
        BY <4>2
      <4> QED
        BY <4>3 DEF IInv, NumbersExist
    <3> QED
      BY <2>1, <3>1, PhaseFacts, PhaseFactsNext
  <2> QED
    BY <1>1, <2>2 DEF PromiseStep, Promise!Next, Promise!Merge
<1> QED
  BY <1>2, <1>3

\* Completing a verified merge is a completion of the promise.
LEMMA CompletesKeepsPromise ==
  ASSUME IInv, task # None, task.at # "finish", NEW n, n = record.pr, n # None,
         Binds(n), Completes(n), UNCHANGED <<cancelled, checkout, github, requests>>
  PROVE  PromiseStep
<1>1. IInv' /\ CandidateMerged /\ CandidateMerged' /\ record'.status = "succeeded" /\ feature' = "running"
  BY CompletesKeeps
<1>2. PhaseOf = "active" /\ RepoOf = "merged" /\ RepoOf' = "merged" /\ PhaseOf' = "done"
  BY <1>1, PhaseFacts, PhaseFactsNext DEF IInv, StatusFits
<1> QED
  BY <1>2 DEF PromiseStep, Promise!Next, Promise!Verify

\* What others do on GitHub is a step of the promised repository.
LEMMA OutsideKeepsPromise ==
  ASSUME IInv, OutsideOk
  PROVE  PromiseStep
<1>1. IInv' /\ PhaseOf' = PhaseOf
  BY DEF OutsideOk, PhaseOf
<1>2. record.status \in {"pending", "running", "attention", "succeeded", "abandoned"}
  BY DEF IInv, TypeOK, Record
<1>3. CASE PhaseOf \in {"active", "attention"}
  <2>1. \/ RepoOf' = RepoOf
        \/ RepoOf = "untouched" /\ RepoOf' = "written"
        \/ RepoOf = "written" /\ RepoOf' = "merged"
    <3>1. CandidateMerged' => github.branch # None
      <4> SUFFICES ASSUME CandidateMerged' PROVE github.branch # None
        OBVIOUS
      <4>1. record.pr # None
        BY DEF CandidateMerged, OutsideOk
      <4>2. record.pr \in DOMAIN github.pulls
        BY <4>1 DEF IInv, NumbersExist
      <4>3. github.pulls # <<>>
        BY <4>2
      <4> QED
        BY <4>3 DEF IInv, NumbersExist
    <3> QED
      BY <1>1, <3>1, PhaseFacts, PhaseFactsNext DEF OutsideOk
  <2> QED
    BY <1>1, <1>3, <2>1 DEF PromiseStep, Promise!Next, Promise!Write, Promise!Merge
<1>4. CASE PhaseOf \in {"done", "finished"}
  <2>1. RepoOf = "merged" /\ RepoOf' = "merged"
    BY <1>1, <1>4, PhaseFacts, PhaseFactsNext DEF OutsideOk
  <2> QED
    BY <1>1, <2>1 DEF PromiseStep
<1>5. CASE PhaseOf = "abandoned"
  <2>1. RepoOf' = RepoOf
    BY <1>1, <1>5, PhaseFacts, PhaseFactsNext DEF OutsideOk
  <2> QED
    BY <1>1, <2>1 DEF PromiseStep
<1> QED
  BY <1>2, <1>3, <1>4, <1>5, PhaseFacts

\* Every stage that saves an event without completing.
LEMMA StagesKeepPromise ==
  ASSUME IInv, IInv',
         \/ PrepareIntent \/ PrepareReceipt \/ PushBranch \/ PushVerified \/ PullRequestVerified
         \/ ChecksIntent \/ ChecksPass \/ MergeIntent \/ MergeAnswered
         \/ Intends("open", "open_pull_request", "opening")
  PROVE  PromiseStep
<1>1. ASSUME NEW kind \in {"intent", "receipt"}, NEW stage \in Stage, NEW to, Saves(kind, stage, to)
      PROVE  PromiseStep
  <2>1. task # None /\ task.at # "finish" /\ github' = github /\ TypeOK
    BY <1>1 DEF Saves, IInv
  <2>2. record'.status = "running" /\ record'.base = task.base /\ record'.pr = task.pr
    BY <1>1, <2>1, SavedFacts DEF Saves
  <2> QED
    BY <2>1, <2>2, SavesKeepsPromise
<1>2. {"prepare_candidate", "push_branch", "open_pull_request", "wait_required_checks",
       "merge_pull_request", "verify_remote_base"} \subseteq Stage
  BY DEF Stage, EffectStage
<1>3. ASSUME NEW from \in {"prepare", "push", "open", "checks", "merge", "merged"}, NEW stage \in Stage, NEW to,
             Intends(from, stage, to)
      PROVE  PromiseStep
  BY <1>1, <1>3, IntendsSaves
<1>4. ASSUME NEW from \in {"committed", "push", "pushed", "bound", "waiting"}, NEW stage \in Stage, NEW to,
             Verifies(from, stage, to)
      PROVE  PromiseStep
  BY <1>1, <1>4, VerifiesSaves
<1> QED
  BY <1>2, <1>3, <1>4 DEF PrepareIntent, PrepareReceipt, PushBranch, PushVerified, PullRequestVerified,
     ChecksIntent, ChecksPass, MergeIntent, MergeAnswered

\* Every step of the publishing task is a step of the promise.
LEMMA PublishStepKeepsPromise ==
  ASSUME IInv, IInv', PublishStep
  PROVE  PromiseStep
<1>1. CASE ReconcileIfMerged
  <2>1. task # None /\ task.at = "view" /\ UNCHANGED <<cancelled, checkout, github, requests>>
    BY <1>1 DEF ReconcileIfMerged, Commands, TaskAt
  <2>2. CASE UNCHANGED <<record, feature>>
    BY <2>1, <2>2, UnchangedKeepsPromise
  <2>3. CASE record.pr # None /\ Binds(record.pr) /\ Completes(record.pr)
    BY <2>1, <2>3, CompletesKeepsPromise
  <2> QED
    BY <1>1, <2>2, <2>3 DEF ReconcileIfMerged
<1>2. CASE Overlay \/ CommitCandidate \/ SendPush \/ SendOpen \/ SendMerge \/ PullRequestOpened
  BY <1>2, UnchangedKeepsPromise
     DEF Overlay, CommitCandidate, SendPush, SendOpen, SendMerge, PullRequestOpened, Sends
<1>3. CASE OpenPullRequest
  <2>1. CASE UNCHANGED <<record, feature, cancelled, checkout, github, requests>>
    BY <2>1, UnchangedKeepsPromise
  <2>2. CASE Intends("open", "open_pull_request", "opening")
    BY <2>2, StagesKeepPromise
  <2> QED
    BY <1>3, <2>1, <2>2 DEF OpenPullRequest
<1>4. CASE VerifyMerge
  <2>1. task # None /\ task.at = "verify"
    BY <1>4 DEF VerifyMerge, Commands, TaskAt
  <2>2. record.pr = task.pr /\ task.pr # None
    BY <2>1 DEF IInv, TaskExtendsRecord
  <2> QED
    BY <1>4, <2>1, <2>2, CompletesKeepsPromise DEF VerifyMerge
<1>5. CASE PublishFails
  <2>1. /\ task # None /\ task.at # "finish" /\ github' = github /\ record \in Record
        /\ record'.status = "attention" /\ record'.pr = record.pr /\ record'.base = record.base
    BY <1>5 DEF PublishFails, PublicationAttention, IInv, TypeOK, Record
  <2>2. PhaseOf = "active" /\ PhaseOf' = "attention" /\ RepoOf' = RepoOf
    BY <2>1, PhaseFacts, PhaseFactsNext, RepoKept DEF IInv, StatusFits
  <2> QED
    BY <2>2 DEF PromiseStep, Promise!Next, Promise!Fail
<1>6. CASE FinishPublication
  <2>1. /\ record.status = "succeeded" /\ github' = github /\ record \in Record
        /\ feature # "succeeded"
    BY <1>6 DEF FinishPublication, TaskAt, IInv, StatusFits, TypeOK
  <2>2. PhaseOf = "done"
    BY <2>1, PhaseFacts
  <2>3. CASE UNCHANGED record
    <3>1. PhaseOf' \in {"done", "finished"} /\ RepoOf' = RepoOf
      BY <2>1, <2>3, PhaseFactsNext, RepoKept
    <3> QED
      BY <2>2, <3>1 DEF PromiseStep, Promise!Next, Promise!Finish
  <2>4. CASE record' = [record EXCEPT !.status = "attention", !.stage = "verify_remote_base"]
    <3>1. record'.status = "attention" /\ record'.pr = record.pr /\ record'.base = record.base
      BY <2>1, <2>4 DEF Record
    <3>2. PhaseOf' = "attention" /\ RepoOf' = RepoOf
      BY <2>1, <3>1, PhaseFactsNext, RepoKept
    <3> QED
      BY <2>2, <3>2 DEF PromiseStep, Promise!Next, Promise!Fail
  <2> QED
    BY <1>6, <2>3, <2>4 DEF FinishPublication
<1> QED
  BY <1>1, <1>2, <1>3, <1>4, <1>5, <1>6, StagesKeepPromise DEF PublishStep

\* Owner requests and restarts are steps of the promise.
LEMMA OwnerAndRestartKeepPromise ==
  ASSUME IInv, IInv', OwnerStep \/ Restart
  PROVE  PromiseStep
<1>0. record \in Record
  BY DEF IInv, TypeOK
<1>1. CASE StopPublication
  BY <1>1, UnchangedKeepsPromise DEF StopPublication
<1>2. CASE Reconcile
  <2>1. /\ record.status = "attention" /\ record'.status = "pending" /\ github' = github
        /\ record'.pr = record.pr /\ record'.base = record.base
    BY <1>0, <1>2 DEF Reconcile, Record
  <2>2. PhaseOf = "attention" /\ PhaseOf' = "active" /\ RepoOf' = RepoOf
    BY <2>1, PhaseFacts, PhaseFactsNext, RepoKept
  <2> QED
    BY <2>2 DEF PromiseStep, Promise!Next, Promise!Reconcile
<1>3. CASE Abandon
  <2>1. record.status = "attention" /\ github' = github /\ record'.status = "abandoned" /\ ~CandidateMerged
    BY <1>3, AbandonKeeps DEF Abandon
  <2>2. record'.pr = record.pr /\ record'.base = record.base
    <3> DEFINE e == Event(record, "receipt", "abandoned")
    <3>1. e \in Record /\ e.base = record.base /\ e.pr = record.pr
      BY <1>0, <1>3, EventFacts DEF Abandon, Room, Stage
    <3>2. record' = [e EXCEPT !.status = "abandoned"]
      BY <1>3 DEF Abandon
    <3> HIDE DEF e
    <3> QED
      BY <3>1, <3>2 DEF Record
  <2>3. PhaseOf = "attention" /\ PhaseOf' = "abandoned" /\ RepoOf' = RepoOf /\ RepoOf # "merged"
    BY <2>1, <2>2, PhaseFacts, PhaseFactsNext, RepoKept
  <2> QED
    BY <2>3 DEF PromiseStep, Promise!Next, Promise!Abandon
<1>4. CASE ReverifyCompleted
  <2>1. /\ record.status = "succeeded" /\ record'.status = "succeeded" /\ github' = github
        /\ record'.pr = record.pr /\ record'.base = record.base
        /\ feature # "succeeded" /\ feature' = "succeeded"
    BY <1>4, ReverifyCompletedKeeps DEF ReverifyCompleted
  <2>2. PhaseOf = "done" /\ PhaseOf' = "finished" /\ RepoOf' = RepoOf
    BY <2>1, PhaseFacts, PhaseFactsNext, RepoKept
  <2> QED
    BY <2>2 DEF PromiseStep, Promise!Next, Promise!Finish
<1>5. CASE Restart
  <2>0. github' = github /\ record' = RecoveredRecord(record)
          /\ feature' = RecoveredFeature(RecoveredRecord(record))
    BY <1>5 DEF Restart
  <2>1. CASE record.status \in {"pending", "running"}
    <3>1. record'.status = "attention" /\ record'.pr = record.pr /\ record'.base = record.base
      BY <1>0, <2>0, <2>1 DEF RecoveredRecord, Record
    <3>2. PhaseOf = "active" /\ PhaseOf' = "attention" /\ RepoOf' = RepoOf
      BY <2>0, <2>1, <3>1, PhaseFacts, PhaseFactsNext, RepoKept
    <3> QED
      BY <3>2 DEF PromiseStep, Promise!Next, Promise!Fail
  <2>2. CASE record.status \notin {"pending", "running"}
    <3>1. record' = record
      BY <2>0, <2>2 DEF RecoveredRecord
    <3>2. record.status = "succeeded" => (feature' = "succeeded" <=> feature = "succeeded")
      BY <2>0, <3>1 DEF RecoveredFeature
    <3>3. PhaseOf' = PhaseOf /\ RepoOf' = RepoOf
      BY <2>0, <3>1, <3>2, RepoKept DEF PhaseOf
    <3> QED
      BY <3>3 DEF PromiseStep
  <2> QED
    BY <2>1, <2>2
<1> QED
  BY <1>1, <1>2, <1>3, <1>4, <1>5 DEF OwnerStep

\* A publication keeps its promise, whoever takes the next step and whatever is lost
\* in between: it is recorded as done only when the reviewed candidate alone was
\* merged, abandoned only when it was not and never will be, and both are final
\* except for a completion that was stopped before the feature was finished.
THEOREM PromiseKept == Spec => KeepsPromise
<1>1. Init => Promise!Init
  BY DEF Init, Promise!Init, PhaseOf, RepoOf, CandidateMerged
<1>2. IInv /\ [Next]_vars => [Promise!Next]_<<PhaseOf, RepoOf>>
  <2> SUFFICES ASSUME IInv, [Next]_vars PROVE PromiseStep
    BY DEF PromiseStep
  <2>1. IInv'
    BY NextKeeps
  <2>2. CASE PublishStep
    BY <2>1, <2>2, PublishStepKeepsPromise
  <2>3. CASE OwnerStep \/ Restart
    BY <2>1, <2>3, OwnerAndRestartKeepPromise
  <2>4. CASE OutsideStep
    BY <2>4, OutsideStepOk, OutsideKeepsPromise
  <2>5. CASE UNCHANGED vars
    BY <2>5, UnchangedKeepsPromise DEF vars
  <2> QED
    BY <2>2, <2>3, <2>4, <2>5 DEF Next
<1> QED
  BY <1>1, <1>2, Invariant, PTL DEF Spec, KeepsPromise, Promise!Spec, Promise!vars
=============================================================================
