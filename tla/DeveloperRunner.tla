--------------------------- MODULE DeveloperRunner ---------------------------
(***************************************************************************)
(* The Developer runner: one process that works through a queue of         *)
(* features on one machine.  A runner task asks a local model for changes, *)
(* writes them to the project, validates them, has them reviewed and       *)
(* publishes them; the owner's requests (Start, Repair, Stop, Emergency    *)
(* Pause, Clear, Remove, reconciliation, abandonment, shutdown) are served *)
(* by other threads at the same time.                                      *)
(*                                                                         *)
(* Source: developer_main.rs.  Modelled with Auto AI repair switched off   *)
(* and without an OpenCode executable, so a feature is built from direct   *)
(* model answers and repaired by the bounded local repair loop.  A step of *)
(* the model is one database transaction, one access to a lock-free latch, *)
(* one file write, or one outside call; the database mutex is a variable   *)
(* only where Start and Repair hold it across latch accesses.              *)
(*                                                                         *)
(* recovery_scan_epoch is only ever increased and compared with the value  *)
(* Start read, so the model keeps the answer of that comparison (moved).   *)
(***************************************************************************)
EXTENDS Naturals, Sequences, FiniteSets, FiniteSetsExt

CONSTANTS
  Feature,       \* feature identifiers
  Queue,         \* the features in queue order
  Connected,     \* the features whose project has a GitHub connection
  Path,          \* the files a candidate of the local model writes
  RepairLimit,   \* REPAIR_LIMIT
  ReviewLimit,   \* REVIEW_HISTORY_LIMIT
  Asks,          \* the kinds of requests the owner makes
  None,
  MaxVersion,    \* bound: file versions
  MaxRestarts,   \* bound: crashes
  MaxStops,      \* bound: Stops and Emergency Pauses
  MaxOutside     \* bound: edits of project files by somebody else

Request ==
  {"start", "repair", "stop", "emergency", "clear", "enqueue", "remove", "auto_run", "shutdown",
   "reconcile", "abandon", "refused_claim"}

ASSUME RunnerAssumption ==
  /\ IsFiniteSet(Feature) /\ Connected \subseteq Feature
  /\ Queue \in Seq(Feature) /\ Range(Queue) = Feature
  /\ Asks \subseteq Request
  /\ None \notin Feature \cup {"runner", "stop", "rejected"} /\ "rejected" \notin Feature
  /\ {RepairLimit, ReviewLimit, MaxVersion, MaxRestarts, MaxStops, MaxOutside} \subseteq Nat

VARIABLES
  feat,      \* the queue entries of the database
  paused,    \* emergency_paused of the database
  autoRun,   \* auto_run of the database
  disk,      \* the version of each project file
  remote,    \* what GitHub holds of each feature: nothing, a branch or pull
             \* request, or a merge
  flag,      \* the atomics of Engine
  gate,      \* the holder of effect_gate
  lock,      \* TRUE while Start or Repair holds the database mutex
  run,       \* the runner task
  publish,   \* the task that talks to GitHub
  req,       \* requests in flight
  stopped,   \* history: what answered Stops the run, and the publication, met
  used       \* versions, restarts, Stops and outside edits used up

durable == <<feat, paused, autoRun>>
world == <<disk, remote>>
vars == <<feat, paused, autoRun, disk, remote, flag, gate, lock, run, publish, req, stopped, used>>

Version == 0 .. MaxVersion
Bytes == [Path -> Version]
Edits == [to : Bytes, before : Bytes]

Status == {"absent", "queued", "running", "paused", "failed", "succeeded", "removed"}

\* Checkpoints without their attempt number, which is always that of the last
\* repair or review attempt.
ReviewCheckpoint ==
  {"review_pending", "review_approved", "review_rejected", "review_unavailable",
   "review_interrupted", "review_completion_interrupted", "review_binding_changed"}
PublicationCheckpoint ==
  {"publication_pending", "publication_reconciling", "publication_attention",
   "publication_merged", "publication_completion_reverify", "publication_abandoned"}
Checkpoint ==
  {"not_started", "prepared", "applied", "repair_reserved", "repair_prepared",
   "repair_applied", "validation_cleanup_unconfirmed"}
    \cup ReviewCheckpoint \cup PublicationCheckpoint

Review == [outcome : {"approved", "rejected", "unavailable", "interrupted"}, packet : Bytes]

\* A publication record: its candidate is the frozen copy of the reviewed bytes.
Publication ==
  [status : {"pending", "running", "attention", "succeeded", "abandoned"}, candidate : Bytes]

\* Feature: last is the newest entry of review_history, prior the candidate
\* that reserve_repair_attempt saved, candidates (history) counts the answers
\* of the model that were saved.
FeatureRecord ==
  [status : Status, checkpoint : Checkpoint, edits : Edits \cup {None},
   prior : Bytes \cup {None}, repairs : 0 .. RepairLimit, repairPending : BOOLEAN,
   reviewStatus : {"pending", "reviewing", "approved", "rejected", "unavailable", "interrupted"},
   pending : Bytes \cup {None}, reviews : 0 .. ReviewLimit, last : Review \cup {None},
   publication : Publication \cup {None}, quarantined : BOOLEAN,
   candidates : 0 .. RepairLimit + 1]

Flags ==
  [running : BOOLEAN, cancellation : 0 .. 2, publicationCancellation : 0 .. 2,
   authorized : BOOLEAN, publicationRunning : BOOLEAN, shutdown : BOOLEAN]

\* History: no Stop was answered; one was that had been asked for before the
\* Start or Repair it was answered during; one was while a Clear was under way;
\* or one was that nobody raced.
StopSeen == {"no", "earlier", "raced", "met"}

\* moved says that the epoch is no longer the one Start read, or (history, for
\* Repair does not look) the one at which Repair was reserved.
StartRequest ==
  [at : {"serve", "epoch", "cancellation", "publication", "confirm"}, moved : BOOLEAN,
   stopped : StopSeen, expected : 0 .. 2, expectedPublication : 0 .. 2]
RepairRequest ==
  [at : {"cancellation", "authorize", "launch"}, moved : BOOLEAN, stopped : StopSeen]
StopRequest ==
  [at : {"cancellation", "publication", "gate", "persist", "latch"}, severity : 1 .. 2]
Requests ==
  [start : StartRequest \cup {None}, repair : RepairRequest \cup {None},
   stop : StopRequest \cup {None}, clear : {None, "commit", "cancellation", "publication"},
   enqueue : Feature \cup {None},
   owner : {None, "rejected"} \cup Feature]

Stage ==
  {"select", "route", "begin", "refresh", "model", "answer", "preflight", "apply", "write",
   "validate", "spawn", "validating", "review", "reviewing", "result", "failing", "complete",
   "publication", "reverification", "publishing", "completion_failed", "next", "finish"}
Result == {"ok", "validation", "rejected", "operational"}

\* The runner task: what it captured of the entry (checkpoint, repairPending),
\* whether it only reverifies a publication, the digests its application
\* expects (before) and the files still to write (left), the bytes it last
\* read (the baseline of a repair, then what validation ran on), and how
\* run_feature or the completion ended.
Run ==
  [at : Stage, id : Feature \cup {None}, checkpoint : Checkpoint, repairPending : BOOLEAN,
   recovery : BOOLEAN, before : Bytes \cup {None}, left : SUBSET Path,
   observed : Bytes \cup {None}, result : Result]

PublishTask ==
  [id : Feature, at : {"intent", "check", "command", "reverify", "finish"}, by : {"runner", "owner"}]

\* The mark for what is not there is none of the values that may be.
ASSUME OptionAssumption ==
  /\ None \notin Bytes \cup Edits \cup Review \cup Publication
  /\ None \notin StartRequest \cup RepairRequest \cup StopRequest \cup Run \cup PublishTask
  /\ None \notin {"commit", "cancellation", "publication"}

\* One type invariant for the module.
TypeOK ==
  /\ feat \in [Feature -> FeatureRecord]
  /\ paused \in BOOLEAN /\ autoRun \in BOOLEAN
  /\ disk \in Bytes
  /\ remote \in [Feature -> {"none", "written", "merged"}]
  /\ flag \in Flags
  /\ gate \in {None, "runner", "stop"} /\ lock \in BOOLEAN
  /\ run \in Run \cup {None}
  /\ publish \in PublishTask \cup {None}
  /\ req \in Requests
  /\ stopped \in [run : StopSeen, publication : StopSeen]
  /\ used \in [versions : 0 .. MaxVersion, restarts : 0 .. MaxRestarts, stops : 0 .. MaxStops,
              outside : 0 .. MaxOutside]

NewFeature ==
  [status |-> "absent", checkpoint |-> "not_started", edits |-> None, prior |-> None,
   repairs |-> 0, repairPending |-> FALSE, reviewStatus |-> "pending", pending |-> None,
   reviews |-> 0, last |-> None, publication |-> None, quarantined |-> FALSE, candidates |-> 0]

NoRequest ==
  [start |-> None, repair |-> None, stop |-> None, clear |-> None, enqueue |-> None, owner |-> None]

IdleFlags ==
  [running |-> FALSE, cancellation |-> 0, publicationCancellation |-> 0, authorized |-> FALSE,
   publicationRunning |-> FALSE, shutdown |-> FALSE]

\* A task that has just been launched.
NewRun ==
  [at |-> "select", id |-> None, checkpoint |-> "not_started", repairPending |-> FALSE,
   recovery |-> FALSE, before |-> None, left |-> {}, observed |-> None, result |-> "ok"]

\* A fresh runner: the first feature of the queue is enqueued, Auto-run is on.
Init ==
  /\ feat = [f \in Feature |-> [NewFeature EXCEPT !.status = IF f = Queue[1] THEN "queued" ELSE "absent"]]
  /\ paused = FALSE /\ autoRun = TRUE
  /\ disk = [p \in Path |-> 0]
  /\ remote = [f \in Feature |-> "none"]
  /\ flag = IdleFlags
  /\ gate = None /\ lock = FALSE
  /\ run = None /\ publish = None
  /\ req = NoRequest
  /\ stopped = [run |-> "no", publication |-> "no"]
  /\ used = [versions |-> 0, restarts |-> 0, stops |-> 0, outside |-> 0]

-----------------------------------------------------------------------------
(* Shared conditions *)

Max2(a, b) == IF a > b THEN a ELSE b
cancelled == flag.cancellation # 0
emergencyPaused == paused \/ flag.cancellation = 2
Unfinished(f) == feat[f].status \notin {"absent", "succeeded", "removed"}

\* The first unfinished entry of the queue.
FirstUnfinished ==
  IF \E f \in Feature : Unfinished(f)
  THEN Queue[Min({i \in DOMAIN Queue : Unfinished(Queue[i])})] ELSE None

\* publication_unresolved
Unresolved(f) ==
  feat[f].publication # None /\ feat[f].publication.status \in {"pending", "running", "attention"}

\* Bug: only a publication that is active counts, not one that is recorded.
BarrierClearUnrecorded == ~flag.publicationRunning

\* ensure_publication_barrier_clear
BarrierClear == ~flag.publicationRunning /\ ~ \E f \in Feature : Unresolved(f)

\* A record is complete exactly when it has succeeded.
CompletedPublication(e) == e.publication # None /\ e.publication.status = "succeeded"

\* completed_publication_requires_reverification
RequiresReverification(e) ==
  /\ e.status # "removed"
  /\ CompletedPublication(e)
  /\ ~(e.status = "succeeded" /\ e.checkpoint = "publication_merged")

\* checkpoint_reuses_retained_edits
ReusesRetainedEdits(c) == c \in {"applied", "repair_applied"} \cup ReviewCheckpoint

\* Bug: a repair that was interrupted in its review counts as not prepared.
HasPreparedCandidateUnreviewed(repairPending, c) ==
  repairPending /\ c \in {"repair_prepared", "repair_applied"}

\* repair_checkpoint_has_prepared_candidate
HasPreparedCandidate(repairPending, c) ==
  repairPending /\ c \in {"repair_prepared", "repair_applied"} \cup ReviewCheckpoint

\* reserve_repair_attempt
Reserved(e) ==
  [e EXCEPT !.prior = IF e.edits = None THEN None ELSE e.edits.to, !.repairs = @ + 1,
            !.repairPending = TRUE, !.reviewStatus = "pending", !.pending = None,
            !.status = "queued", !.checkpoint = "repair_reserved"]

\* interrupt_pending_review
Interrupted(e) ==
  [e EXCEPT !.last = [outcome |-> "interrupted", packet |-> e.pending], !.pending = None,
            !.reviewStatus = "interrupted", !.checkpoint = "review_interrupted"]

\* approved_review_binding_evidence: the newest review approved, and nothing
\* but a completed publication outlives an interruption after it.
ApprovedEvidence(e) ==
  /\ e.pending = None
  /\ e.last # None /\ e.last.outcome = "approved"
  /\ \/ e.reviewStatus = "approved"
     \/ /\ e.reviewStatus = "interrupted"
        /\ CompletedPublication(e)
        /\ RequiresReverification(e) \/ e.status = "removed"
        /\ e.checkpoint \in {"review_binding_changed", "publication_completion_reverify",
                             "publication_reconciling"}

-----------------------------------------------------------------------------
(* The owner's requests *)

\* The epoch moves for every Start and Repair in flight.
Moved(r) == IF r = None THEN None ELSE [r EXCEPT !.moved = TRUE]
EpochMoves(r) == [r EXCEPT !.start = Moved(@), !.repair = Moved(@)]

\* Stop and Emergency Pause: the latches are set before the request waits for
\* the effect gate, and again after the state is saved.
StopBegins(severity) ==
  /\ req.stop = None /\ used.stops < MaxStops
  /\ used' = [used EXCEPT !.stops = @ + 1]
  /\ flag' = [flag EXCEPT !.authorized = FALSE]
  /\ req' = EpochMoves([req EXCEPT !.stop = [at |-> "cancellation", severity |-> severity]])
  /\ UNCHANGED <<durable, world, gate, lock, run, publish, stopped>>

StopAt(stage) == req.stop # None /\ req.stop.at = stage
StopGoes(stage) == req' = [req EXCEPT !.stop.at = stage]

StopLatchesCancellation ==
  /\ StopAt("cancellation")
  /\ flag' = [flag EXCEPT !.cancellation = Max2(@, req.stop.severity)]
  /\ StopGoes("publication")
  /\ UNCHANGED <<durable, world, gate, lock, run, publish, stopped, used>>

StopLatchesPublication ==
  /\ StopAt("publication")
  /\ flag' = [flag EXCEPT !.publicationCancellation = Max2(@, req.stop.severity)]
  /\ StopGoes("gate")
  /\ UNCHANGED <<durable, world, gate, lock, run, publish, stopped, used>>

StopTakesGate ==
  /\ StopAt("gate") /\ gate = None
  /\ gate' = "stop"
  /\ StopGoes("persist")
  /\ UNCHANGED <<durable, world, flag, lock, run, publish, stopped, used>>

LatchedTo(severity) ==
  [flag EXCEPT !.cancellation = Max2(@, severity), !.publicationCancellation = Max2(@, severity)]

\* What the history keeps of a Stop that is answered now, for work that is
\* active and for a Start or Repair under way.
SeenBy(active) ==
  IF ~active THEN "no" ELSE IF req.clear = None THEN "met" ELSE "raced"
SeenByRequest(r) ==
  IF r = None THEN None ELSE [r EXCEPT !.stopped = IF r.moved THEN "met" ELSE "earlier"]

\* The request is over.
StopEnds ==
  /\ req' = [req EXCEPT !.stop = None, !.start = SeenByRequest(@),
                        !.repair = SeenByRequest(@)]
  /\ stopped' = [run |-> SeenBy(run # None), publication |-> SeenBy(publish # None)]
  /\ gate' = None

\* Bug: the error path of a Stop does not give the effect gate back.
StopPersistsKeepsGate ==
  /\ StopAt("persist") /\ ~lock
  /\ paused' = (paused \/ req.stop.severity = 2)
  /\ \/ StopGoes("latch") \/ req' = [req EXCEPT !.stop = None]
  /\ UNCHANGED <<feat, autoRun, world, flag, gate, lock, run, publish, stopped, used>>

\* The write may fail: a Stop is then answered with an error and nothing more,
\* an Emergency Pause sets its latches again.
StopPersists ==
  /\ StopAt("persist") /\ ~lock
  /\ \/ /\ paused' = (paused \/ req.stop.severity = 2)
        /\ StopGoes("latch")
        /\ UNCHANGED <<flag, gate, stopped>>
     \/ /\ req.stop.severity = 1
        /\ req' = [req EXCEPT !.stop = None]
        /\ gate' = None
        /\ UNCHANGED <<paused, flag, stopped>>
     \/ /\ req.stop.severity = 2
        /\ flag' = LatchedTo(2)
        /\ StopEnds
        /\ UNCHANGED paused
  /\ UNCHANGED <<feat, autoRun, world, lock, run, publish, used>>

\* Bug: the latches are not set again after the state was saved.
StopAnsweredWithoutLatch ==
  /\ StopAt("latch")
  /\ StopEnds
  /\ UNCHANGED <<durable, world, flag, lock, run, publish, used>>

StopAnswered ==
  /\ StopAt("latch")
  /\ flag' = [LatchedTo(req.stop.severity) EXCEPT !.authorized = FALSE]
  /\ StopEnds
  /\ UNCHANGED <<durable, world, lock, run, publish, used>>

\* Bug: a publication that the owner asked for does not count as active work.
ClearChecksRunOnly ==
  /\ req.clear = None
  /\ ~flag.running
  /\ req' = [req EXCEPT !.clear = "commit"]
  /\ UNCHANGED <<durable, world, flag, gate, lock, run, publish, stopped, used>>

\* clear_emergency: whether work is active is looked at without a lock, the
\* pause is taken back under the database mutex (or the write fails), and the
\* latches are cleared one by one after the mutex was given back.
ClearChecks ==
  /\ req.clear = None
  /\ ~flag.running /\ ~flag.publicationRunning
  /\ req' = [req EXCEPT !.clear = "commit"]
  /\ UNCHANGED <<durable, world, flag, gate, lock, run, publish, stopped, used>>

ClearCommits ==
  /\ req.clear = "commit" /\ ~lock
  /\ \/ paused' = FALSE /\ req' = [req EXCEPT !.clear = "cancellation"]
     \/ req' = [req EXCEPT !.clear = None] /\ UNCHANGED paused
  /\ UNCHANGED <<feat, autoRun, world, flag, gate, lock, run, publish, stopped, used>>

ClearStoresCancellation ==
  /\ req.clear = "cancellation"
  /\ flag' = [flag EXCEPT !.cancellation = 0]
  /\ req' = [req EXCEPT !.clear = "publication"]
  /\ UNCHANGED <<durable, world, gate, lock, run, publish, stopped, used>>

ClearStoresPublication ==
  /\ req.clear = "publication"
  /\ flag' = [flag EXCEPT !.publicationCancellation = 0]
  /\ req' = [req EXCEPT !.clear = None]
  /\ UNCHANGED <<durable, world, gate, lock, run, publish, stopped, used>>

\* approve_and_enqueue of a planning session: the checks are repeated at the commit.
EnqueueChecks(f) ==
  /\ feat[f].status = "absent"
  /\ req.enqueue = None
  /\ BarrierClear /\ ~flag.running
  /\ req' = [req EXCEPT !.enqueue = f]
  /\ UNCHANGED <<durable, world, flag, gate, lock, run, publish, stopped, used>>

EnqueueCommits ==
  /\ req.enqueue # None /\ ~lock
  /\ feat' = IF BarrierClear /\ ~emergencyPaused
             THEN [feat EXCEPT ![req.enqueue].status = "queued"] ELSE feat
  /\ req' = [req EXCEPT !.enqueue = None]
  /\ UNCHANGED <<paused, autoRun, world, flag, gate, lock, run, publish, stopped, used>>

\* remove
RemoveFeature(f) ==
  /\ ~lock
  /\ BarrierClear /\ ~flag.running
  /\ feat[f].status \in {"queued", "failed", "paused"}
  /\ feat' = [feat EXCEPT ![f].status = "removed"]
  /\ UNCHANGED <<paused, autoRun, world, flag, gate, lock, run, publish, req, stopped, used>>

SetAutoRun(enabled) ==
  /\ ~lock
  /\ BarrierClear /\ autoRun # enabled
  /\ autoRun' = enabled
  /\ UNCHANGED <<feat, paused, world, flag, gate, lock, run, publish, req, stopped, used>>

\* begin_shutdown
BeginShutdown ==
  /\ ~lock
  /\ ~flag.running /\ ~flag.publicationRunning /\ ~flag.shutdown
  /\ flag' = [flag EXCEPT !.shutdown = TRUE, !.publicationCancellation = Max2(@, 1)]
  /\ req' = EpochMoves(req)
  /\ UNCHANGED <<durable, world, gate, lock, run, publish, stopped, used>>

\* Start and Resume: the epoch is read before the database is locked.
StartAsked ==
  /\ req.start = None
  /\ req' = [req EXCEPT !.start = [at |-> "serve", moved |-> FALSE, stopped |-> "no",
                                   expected |-> 0, expectedPublication |-> 0]]
  /\ UNCHANGED <<durable, world, flag, gate, lock, run, publish, stopped, used>>

StartAt(stage) == req.start # None /\ req.start.at = stage

\* The checks under the database mutex.  A request bound to a stale picture of
\* the first feature is refused too.
StartAdmits ==
  LET f == FirstUnfinished IN
  /\ BarrierClear /\ ~flag.shutdown /\ ~emergencyPaused
  /\ f # None => /\ ~feat[f].quarantined
                 /\ \/ RequiresReverification(feat[f])
                    \/ ReusesRetainedEdits(feat[f].checkpoint)
                    \/ ~(feat[f].status = "failed" /\ feat[f].repairs > 0 /\ ~feat[f].repairPending)

\* Refused, or answered without effect because a run is active.
StartDeclined ==
  /\ StartAt("serve") /\ ~lock
  /\ req' = [req EXCEPT !.start = None]
  /\ UNCHANGED <<durable, world, flag, gate, lock, run, publish, stopped, used>>

StartServed ==
  /\ StartAt("serve") /\ ~lock
  /\ StartAdmits /\ ~flag.running
  /\ flag' = [flag EXCEPT !.running = TRUE]
  /\ lock' = TRUE
  /\ req' = [req EXCEPT !.start.at = "epoch"]
  /\ UNCHANGED <<durable, world, gate, run, publish, stopped, used>>

\* relatch_start_cancellation, and the guard that takes running back.
StartSuperseded(severity) ==
  LET high == Max2(Max2(flag.cancellation, flag.publicationCancellation), Max2(severity, 1)) IN
  /\ flag' = [LatchedTo(high) EXCEPT !.running = FALSE]
  /\ lock' = FALSE
  /\ req' = [req EXCEPT !.start = None]
  /\ UNCHANGED <<durable, world, gate, run, publish, stopped, used>>

StartContinues(stage) ==
  /\ req' = [req EXCEPT !.start.at = stage]
  /\ UNCHANGED <<durable, world, gate, lock, run, publish, stopped, used>>

\* clear_cancellation_for_start: the first epoch check, and the two loads.
StartChecksEpoch ==
  /\ StartAt("epoch")
  /\ \/ req.start.moved /\ StartSuperseded(1)
     \/ /\ ~req.start.moved
        /\ req' = [req EXCEPT !.start = [@ EXCEPT !.at = "cancellation", !.expected = flag.cancellation,
                                                  !.expectedPublication = flag.publicationCancellation]]
        /\ UNCHANGED <<durable, world, flag, gate, lock, run, publish, stopped, used>>

StartSeverity == Max2(req.start.expected, req.start.expectedPublication)

StartClearsCancellation ==
  /\ StartAt("cancellation")
  /\ \/ /\ flag.cancellation # req.start.expected
        /\ StartSuperseded(StartSeverity)
     \/ /\ flag.cancellation = req.start.expected
        /\ flag' = [flag EXCEPT !.cancellation = 0]
        /\ StartContinues("publication")

StartClearsPublication ==
  /\ StartAt("publication")
  /\ \/ /\ flag.publicationCancellation # req.start.expectedPublication
        /\ StartSuperseded(StartSeverity)
     \/ /\ flag.publicationCancellation = req.start.expectedPublication
        /\ flag' = [flag EXCEPT !.publicationCancellation = 0]
        /\ StartContinues("confirm")

\* The run is launched with what the history knows of Stops answered meanwhile.
StartLaunches ==
  /\ flag' = [flag EXCEPT !.authorized = FALSE]
  /\ run' = NewRun
  /\ stopped' = [stopped EXCEPT !.run = req.start.stopped]
  /\ lock' = FALSE
  /\ req' = [req EXCEPT !.start = None]
  /\ UNCHANGED <<durable, world, gate, publish, used>>

StartConfirms ==
  /\ StartAt("confirm")
  /\ \/ req.start.moved /\ StartSuperseded(StartSeverity)
     \/ ~req.start.moved /\ StartLaunches

\* Repair and retry: the checks, the reservation and the commit under the
\* database mutex, which is held until the latch has been cleared.
RepairReserves(f) ==
  /\ ~lock
  /\ BarrierClear /\ ~flag.shutdown /\ ~flag.running /\ ~emergencyPaused
  /\ f = FirstUnfinished
  /\ feat[f].status = "failed"
  /\ feat[f].repairs < RepairLimit
  /\ feat[f].reviewStatus \notin {"unavailable", "interrupted", "reviewing"}
  /\ feat' = [feat EXCEPT ![f] = Reserved(@)]
  /\ lock' = TRUE
  /\ req' = [req EXCEPT !.repair = [at |-> "cancellation", moved |-> FALSE, stopped |-> "no"]]
  /\ UNCHANGED <<paused, autoRun, world, flag, gate, run, publish, stopped, used>>

RepairAt(stage) == req.repair # None /\ req.repair.at = stage

\* The stores that follow: no epoch is looked at, and Stop does not wait for
\* them.  The last one comes just before the mutex is given back.
RepairClearsCancellation ==
  /\ RepairAt("cancellation")
  /\ flag' = [flag EXCEPT !.cancellation = 0]
  /\ req' = [req EXCEPT !.repair.at = "authorize"]
  /\ UNCHANGED <<durable, world, gate, lock, run, publish, stopped, used>>

RepairAuthorizes ==
  /\ RepairAt("authorize")
  /\ flag' = [flag EXCEPT !.authorized = TRUE]
  /\ req' = [req EXCEPT !.repair.at = "launch"]
  /\ UNCHANGED <<durable, world, gate, lock, run, publish, stopped, used>>

\* The run is launched with what the history knows of Stops answered meanwhile.
RepairLaunches ==
  /\ RepairAt("launch")
  /\ flag' = [flag EXCEPT !.running = TRUE]
  /\ run' = NewRun
  /\ stopped' = [stopped EXCEPT !.run = req.repair.stopped]
  /\ lock' = FALSE
  /\ req' = [req EXCEPT !.repair = None]
  /\ UNCHANGED <<durable, world, gate, publish, used>>

-----------------------------------------------------------------------------
(* run_queue *)

RunAt(stage) == run # None /\ run.at = stage
entry == feat[run.id]
Goes(stage) == run' = [run EXCEPT !.at = stage]
Stops == run' = [NewRun EXCEPT !.at = "finish"]
\* run_feature returns: what it knew locally is gone.
Ends(result) ==
  run' = [run EXCEPT !.at = "result", !.result = result, !.before = None, !.left = {}, !.observed = None]
Saves(e) == feat' = [feat EXCEPT ![run.id] = e]

\* Nothing to do, or a new feature may not be admitted while stopped.
NothingToSelect ==
  LET f == FirstUnfinished IN
  f # None => /\ feat[f].status = "queued" /\ feat[f].checkpoint = "not_started"
              /\ paused \/ cancelled

\* The first transaction of the loop.
Select ==
  /\ RunAt("select")
  /\ LET f == FirstUnfinished IN
     run' = IF NothingToSelect THEN [NewRun EXCEPT !.at = "finish"]
            ELSE [NewRun EXCEPT !.at = "route", !.id = f, !.checkpoint = feat[f].checkpoint,
                                !.repairPending = feat[f].repairPending,
                                !.recovery = RequiresReverification(feat[f])]
  /\ UNCHANGED <<durable, world, flag, gate, lock, publish, req, stopped, used>>

\* The local model may be busy with a project chat: the run then ends.
Route ==
  /\ RunAt("route")
  /\ \/ cancelled /\ Stops
     \/ ~cancelled /\ run.recovery /\ Goes("complete")
     \/ ~cancelled /\ ~run.recovery /\ (Goes("begin") \/ Stops)
  /\ UNCHANGED <<durable, world, flag, gate, lock, publish, req, stopped, used>>

\* The two branches of run_feature: a retained candidate, or a new one.
Retains ==
  entry.edits # None /\ (~run.repairPending \/ HasPreparedCandidate(run.repairPending, run.checkpoint))

Begin ==
  /\ RunAt("begin")
  /\ Saves([entry EXCEPT !.status = "running",
                         !.reviewStatus = IF entry.pending = None THEN "pending" ELSE @])
  /\ Goes(IF ~Retains THEN "model"
          ELSE IF run.checkpoint \in ReviewCheckpoint THEN "refresh"
          ELSE IF ReusesRetainedEdits(run.checkpoint) THEN "validate" ELSE "preflight")
  /\ UNCHANGED <<paused, autoRun, world, flag, gate, lock, publish, req, stopped, used>>

\* A candidate that was under review is taken as it is on disk now.
Refresh ==
  /\ RunAt("refresh")
  /\ Saves([entry EXCEPT !.edits.to = disk])
  /\ Goes("validate")
  /\ UNCHANGED <<paused, autoRun, world, flag, gate, lock, publish, req, stopped, used>>

\* The project is read, and the model is asked.
ModelReads ==
  /\ RunAt("model")
  /\ run' = [run EXCEPT !.at = "answer", !.observed = disk]
  /\ UNCHANGED <<durable, world, flag, gate, lock, publish, req, stopped, used>>

\* No usable answer: an error of the model, a cancelled request, a protected
\* file, or a file that changed under a repair.
ModelFails ==
  /\ RunAt("answer")
  /\ Ends("operational")
  /\ UNCHANGED <<durable, world, flag, gate, lock, publish, req, stopped, used>>

\* A candidate: every file gets a new version.  The cumulative edits of a
\* repair keep the digests the first candidate found (merge_review_edits).
Candidate(e) ==
  [to |-> [p \in Path |-> used.versions + 1],
   before |-> IF run.repairPending /\ e.edits # None THEN e.edits.before ELSE disk]

ModelAnswers ==
  /\ RunAt("answer") /\ ~cancelled
  /\ used.versions < MaxVersion
  /\ run.repairPending => disk = run.observed
  /\ Saves([entry EXCEPT !.edits = Candidate(entry), !.candidates = @ + 1,
                         !.checkpoint = IF run.repairPending THEN "repair_prepared" ELSE "prepared"])
  /\ used' = [used EXCEPT !.versions = @ + 1]
  /\ run' = [run EXCEPT !.at = "apply", !.before = disk, !.left = Path]
  /\ UNCHANGED <<paused, autoRun, world, flag, gate, lock, publish, req, stopped>>

\* prepared_repair_application_edits and validate_prepared_repair_application_state:
\* what a resumed application still has to write, and whether it may.
ResumedApplication ==
  IF run.repairPending /\ entry.prior # None
  THEN [before |-> entry.prior, left |-> {p \in Path : entry.edits.to[p] # entry.prior[p]}]
  ELSE [before |-> entry.edits.before, left |-> Path]

Applicable(a) ==
  run.repairPending =>
    /\ a.left # {}
    /\ \A p \in a.left : disk[p] \in {a.before[p], entry.edits.to[p]}

Preflight ==
  /\ RunAt("preflight")
  /\ LET a == ResumedApplication IN
     \/ Applicable(a) /\ run' = [run EXCEPT !.at = "apply", !.before = a.before, !.left = a.left]
     \/ ~Applicable(a) /\ Ends("operational")
  /\ UNCHANGED <<durable, world, flag, gate, lock, publish, req, stopped, used>>

\* Bug: the cancellation is looked at without holding the effect gate.
ApplyChecksUngated ==
  /\ RunAt("apply") /\ run.left # {}
  /\ IF cancelled THEN Ends("operational") ELSE Goes("write")
  /\ UNCHANGED <<durable, world, flag, gate, lock, publish, req, stopped, used>>

\* The application loop: each file under the effect gate.
ApplyChecks ==
  /\ RunAt("apply") /\ run.left # {} /\ gate = None
  /\ \/ cancelled /\ Ends("operational") /\ UNCHANGED gate
     \/ ~cancelled /\ Goes("write") /\ gate' = "runner"
  /\ UNCHANGED <<durable, world, flag, lock, publish, req, stopped, used>>

\* apply_edit: a file that has its final bytes is left alone, one that has
\* neither those nor the expected ones is a conflict.
ApplyEdit(p) ==
  /\ RunAt("write") /\ p \in run.left
  /\ gate' = None
  /\ \/ /\ disk[p] \in {entry.edits.to[p], run.before[p]}
        /\ disk' = [disk EXCEPT ![p] = entry.edits.to[p]]
        /\ run' = [run EXCEPT !.at = "apply", !.left = @ \ {p}]
     \/ /\ disk[p] \notin {entry.edits.to[p], run.before[p]}
        /\ Ends("operational")
        /\ UNCHANGED disk
  /\ UNCHANGED <<durable, remote, flag, lock, publish, req, stopped, used>>

Applied ==
  /\ RunAt("apply") /\ run.left = {}
  /\ Saves([entry EXCEPT !.status = "running",
                         !.checkpoint = IF run.repairPending THEN "repair_applied" ELSE "applied"])
  /\ Goes("validate")
  /\ UNCHANGED <<paused, autoRun, world, flag, gate, lock, publish, req, stopped, used>>

\* validate_command: the process is created under the effect gate.
ValidationChecks ==
  /\ RunAt("validate") /\ gate = None
  /\ \/ (cancelled \/ paused) /\ Ends("operational") /\ UNCHANGED gate
     \/ ~cancelled /\ ~paused /\ Goes("spawn") /\ gate' = "runner"
  /\ UNCHANGED <<durable, world, flag, lock, publish, req, stopped, used>>

ValidationSpawns ==
  /\ RunAt("spawn")
  /\ gate' = None
  /\ Goes("validating")
  /\ UNCHANGED <<durable, world, flag, lock, publish, req, stopped, used>>

\* The command exited with success, or failed, or was stopped: by a
\* cancellation, or by its time and output limits.
ValidationEnds ==
  /\ RunAt("validating")
  /\ \/ run' = [run EXCEPT !.at = "review", !.observed = disk]
     \/ Ends("validation")
     \/ Ends("operational")
  /\ UNCHANGED <<durable, world, flag, gate, lock, publish, req, stopped, used>>

\* quarantine_unconfirmed_validation_cleanup: the process tree may still live.
ValidationUnconfirmed ==
  /\ RunAt("validating") /\ gate = None /\ ~lock
  /\ flag' = [LatchedTo(2) EXCEPT !.authorized = FALSE]
  /\ req' = EpochMoves(req)
  /\ paused' = TRUE
  /\ Saves([entry EXCEPT !.status = "failed", !.checkpoint = "validation_cleanup_unconfirmed",
                         !.repairPending = FALSE, !.quarantined = TRUE])
  /\ Stops
  /\ UNCHANGED <<autoRun, world, gate, lock, publish, stopped, used>>

\* review_feature: the packet holds the bytes on disk now.
ReviewBegins ==
  /\ RunAt("review")
  /\ \/ /\ entry.reviews < ReviewLimit
        /\ Saves([entry EXCEPT !.pending = disk, !.reviews = @ + 1, !.reviewStatus = "reviewing",
                               !.checkpoint = "review_pending"])
        /\ Goes("reviewing")
     \/ /\ entry.reviews >= ReviewLimit
        /\ Ends("operational")
        /\ UNCHANGED feat
  /\ UNCHANGED <<paused, autoRun, world, flag, gate, lock, publish, req, stopped, used>>

ReviewUnavailable ==
  /\ RunAt("reviewing")
  /\ Saves([entry EXCEPT !.last = [outcome |-> "unavailable", packet |-> entry.pending],
                         !.pending = None, !.reviewStatus = "unavailable",
                         !.checkpoint = "review_unavailable"])
  /\ Ends("operational")
  /\ UNCHANGED <<paused, autoRun, world, flag, gate, lock, publish, req, stopped, used>>

\* The call was cancelled, or its answer came after a cancellation or after
\* the files changed.
ReviewInterrupted ==
  /\ RunAt("reviewing")
  /\ cancelled \/ disk # entry.pending
  /\ Saves(Interrupted(entry))
  /\ Ends("operational")
  /\ UNCHANGED <<paused, autoRun, world, flag, gate, lock, publish, req, stopped, used>>

\* A decision about the bytes that are still on disk.
ReviewDecides(outcome) ==
  /\ RunAt("reviewing") /\ ~cancelled /\ disk = entry.pending
  /\ Saves([entry EXCEPT !.last = [outcome |-> outcome, packet |-> entry.pending],
                         !.pending = None, !.reviewStatus = outcome,
                         !.checkpoint = IF outcome = "approved" THEN "review_approved" ELSE "review_rejected"])
  /\ Ends(IF outcome = "approved" THEN "ok" ELSE "rejected")
  /\ UNCHANGED <<paused, autoRun, world, flag, gate, lock, publish, req, stopped, used>>

\* How run_queue goes on when run_feature, or the recovery of a publication,
\* has returned.
AfterRun ==
  /\ RunAt("result")
  /\ \/ /\ cancelled
        /\ Saves(IF entry.publication # None /\ entry.publication.status = "attention"
                 THEN [entry EXCEPT !.status = "failed", !.checkpoint = "publication_attention"]
                 ELSE IF entry.status = "succeeded" THEN entry
                 ELSE [entry EXCEPT !.status = "paused"])
        /\ Stops
     \/ /\ ~cancelled
        /\ Goes(IF run.result # "ok" THEN "failing" ELSE IF run.recovery THEN "next" ELSE "complete")
        /\ UNCHANGED feat
  /\ UNCHANGED <<paused, autoRun, world, flag, gate, lock, publish, req, stopped, used>>

\* Bug: an attempt that was made is not counted against the limit.
RepairsAgainUncounted ==
  run.result \in {"validation", "rejected"} /\ ~cancelled /\ flag.authorized

\* The failure is a code failure, the owner authorized a repair loop (a
\* rejected review authorizes it by itself) and an attempt is left.
RepairsAgain ==
  /\ run.result \in {"validation", "rejected"}
  /\ ~cancelled
  /\ flag.authorized \/ run.result = "rejected"
  /\ entry.repairs < RepairLimit

Failing ==
  /\ RunAt("failing")
  /\ flag' = [flag EXCEPT !.authorized = IF run.result = "rejected" THEN ~cancelled ELSE @]
  /\ LET failed == [entry EXCEPT !.status = "failed", !.repairPending = FALSE] IN
     \/ RepairsAgain /\ Saves(Reserved(failed)) /\ run' = NewRun
     \/ ~RepairsAgain /\ Saves(failed) /\ Stops
  /\ UNCHANGED <<paused, autoRun, world, gate, lock, publish, req, stopped, used>>

-----------------------------------------------------------------------------
(* complete_reviewed_feature *)

\* Where an error of the completion is handled.
CompletionFails ==
  run' = [run EXCEPT !.at = IF run.recovery THEN "result" ELSE "completion_failed",
                     !.result = "operational"]

\* prepare_reviewed_completion: stopped before it, the files changed since the
\* approval, or success, publication or reverification.
CompletionStopped ==
  /\ RunAt("complete") /\ (cancelled \/ paused)
  /\ Saves(IF CompletedPublication(entry)
           THEN [entry EXCEPT !.status = "paused", !.checkpoint = "publication_completion_reverify"]
           ELSE [entry EXCEPT !.status = "paused", !.reviewStatus = "interrupted",
                              !.checkpoint = "review_completion_interrupted"])
  /\ CompletionFails
  /\ UNCHANGED <<paused, autoRun, world, flag, gate, lock, publish, req, stopped, used>>

\* Bug: the files are not compared with the approved packet once more.
StillApprovedUnbound == ApprovedEvidence(entry)

\* verify_approved_review_binding, or the frozen candidate of a completed
\* publication.
StillApproved ==
  /\ ApprovedEvidence(entry)
  /\ CompletedPublication(entry) \/ disk = entry.last.packet

CompletionRejected ==
  /\ RunAt("complete") /\ ~cancelled /\ ~paused
  /\ ~StillApproved
  /\ Saves([entry EXCEPT !.status = "failed", !.reviewStatus = "interrupted",
                         !.checkpoint = "review_binding_changed"])
  /\ CompletionFails
  /\ UNCHANGED <<paused, autoRun, world, flag, gate, lock, publish, req, stopped, used>>

CompletionProceeds ==
  /\ RunAt("complete") /\ ~cancelled /\ ~paused
  /\ StillApproved
  /\ \/ /\ run.id \notin Connected
        /\ Saves([entry EXCEPT !.status = "succeeded", !.checkpoint = "review_approved",
                               !.repairPending = FALSE, !.quarantined = FALSE])
        /\ Goes("next")
     \/ /\ run.id \in Connected /\ entry.publication # None
        /\ Saves([entry EXCEPT !.status = "running", !.checkpoint = "publication_reconciling",
                               !.reviewStatus = "approved"])
        /\ Goes("reverification")
     \/ /\ run.id \in Connected /\ entry.publication = None
        /\ Saves([entry EXCEPT !.status = "running", !.checkpoint = "publication_pending",
                               !.publication = [status |-> "pending", candidate |-> disk],
                               !.repairPending = FALSE, !.quarantined = FALSE])
        /\ Goes("publication")
  /\ UNCHANGED <<paused, autoRun, world, flag, gate, lock, publish, req, stopped, used>>

\* Bug: the failure of a completion is not saved.
CompletionFailedUnsaved ==
  /\ RunAt("completion_failed")
  /\ Stops
  /\ UNCHANGED <<durable, world, flag, gate, lock, publish, req, stopped, used>>

\* The last transaction of a completion that failed.
CompletionFailed ==
  /\ RunAt("completion_failed")
  /\ Saves(IF entry.checkpoint = "publication_attention" THEN entry ELSE [entry EXCEPT !.status = "failed"])
  /\ Stops
  /\ UNCHANGED <<paused, autoRun, world, flag, gate, lock, publish, req, stopped, used>>

\* execute_publication: the cancellation of publications is cleared.
ExecutePublication ==
  /\ RunAt("publication")
  /\ \/ /\ flag.publicationRunning
        /\ CompletionFails
        /\ UNCHANGED <<flag, publish, stopped>>
     \/ /\ ~flag.publicationRunning
        /\ flag' = [flag EXCEPT !.publicationRunning = TRUE, !.publicationCancellation = 0]
        /\ publish' = [id |-> run.id, at |-> "intent", by |-> "runner"]
        /\ stopped' = [stopped EXCEPT !.publication = "no"]
        /\ Goes("publishing")
  /\ UNCHANGED <<durable, world, gate, lock, req, used>>

\* reverify_completed_publication: admitted only when nothing was stopped.
ReverifyPublication ==
  /\ RunAt("reverification")
  /\ \/ /\ cancelled \/ flag.shutdown \/ emergencyPaused \/ flag.publicationRunning
        /\ CompletionFails
        /\ UNCHANGED <<flag, publish, stopped>>
     \/ /\ ~cancelled /\ ~flag.shutdown /\ ~emergencyPaused /\ ~flag.publicationRunning
        /\ flag' = [flag EXCEPT !.publicationRunning = TRUE]
        /\ publish' = [id |-> run.id, at |-> "reverify", by |-> "runner"]
        /\ stopped' = [stopped EXCEPT !.publication = "no"]
        /\ Goes("publishing")
  /\ UNCHANGED <<durable, world, gate, lock, req, used>>

NextFeature ==
  /\ RunAt("next")
  /\ flag' = IF run.repairPending THEN [flag EXCEPT !.authorized = FALSE] ELSE flag
  /\ run' = [NewRun EXCEPT !.at = IF autoRun THEN "select" ELSE "finish"]
  /\ UNCHANGED <<durable, world, gate, lock, publish, req, stopped, used>>

\* The end of the task that launch spawned.
Finish ==
  /\ RunAt("finish")
  /\ flag' = [flag EXCEPT !.authorized = FALSE, !.running = FALSE]
  /\ run' = None
  /\ stopped' = [stopped EXCEPT !.run = "no"]
  /\ UNCHANGED <<durable, world, gate, lock, publish, req, used>>

-----------------------------------------------------------------------------
(* Publication *)

PublishAt(stage) == publish # None /\ publish.at = stage
published == feat[publish.id]
Records(e) == feat' = [feat EXCEPT ![publish.id] = e]

\* The publication task is over: its guard is dropped, and a run goes on.
PublishEnds(ok) ==
  /\ flag' = [flag EXCEPT !.publicationRunning = FALSE]
  /\ publish' = None
  /\ stopped' = [stopped EXCEPT !.publication = "no"]
  /\ \/ publish.by = "owner" /\ UNCHANGED run
     \/ publish.by = "runner" /\ ok /\ Goes("next")
     \/ publish.by = "runner" /\ ~ok /\ CompletionFails

\* Runtime::publish: one command after the other writes the branch and its
\* pull request, merges it, and reads the merge back; an interrupted
\* publication takes up where the remote is.  The intent of a command is saved
\* first, then the command looks at the cancellation.
PublishIntends ==
  /\ PublishAt("intent")
  /\ Records([published EXCEPT !.status = "running", !.publication.status = "running"])
  /\ publish' = [publish EXCEPT !.at = "check"]
  /\ UNCHANGED <<paused, autoRun, world, flag, gate, lock, run, req, stopped, used>>

PublishBegins ==
  PublishAt("check") /\ publish' # None /\ publish'.at = "command"

\* Bug: the cancellation is not looked at before a command begins.
PublishChecksUncancelled ==
  /\ PublishAt("check")
  /\ publish' = [publish EXCEPT !.at = "command"]
  /\ UNCHANGED <<durable, world, flag, gate, lock, run, req, stopped, used>>

PublishChecks ==
  /\ PublishAt("check") /\ flag.publicationCancellation = 0
  /\ publish' = [publish EXCEPT !.at = "command"]
  /\ UNCHANGED <<durable, world, flag, gate, lock, run, req, stopped, used>>

\* The process is created after that check and looked after every 50 ms, under
\* no gate: what it does on GitHub may come after a Stop.
PublishLands ==
  /\ PublishAt("command")
  /\ \/ remote[publish.id] = "none" /\ remote' = [remote EXCEPT ![publish.id] = "written"]
     \/ remote[publish.id] = "written" /\ remote' = [remote EXCEPT ![publish.id] = "merged"]
  /\ publish' = [publish EXCEPT !.at = "intent"]
  /\ UNCHANGED <<durable, disk, flag, gate, lock, run, req, stopped, used>>

\* The merge was verified, and the complete record is saved.
PublishVerified ==
  /\ PublishAt("command")
  /\ remote[publish.id] = "merged"
  /\ Records([published EXCEPT !.publication.status = "succeeded"])
  /\ publish' = [publish EXCEPT !.at = "finish"]
  /\ UNCHANGED <<paused, autoRun, world, flag, gate, lock, run, req, stopped, used>>

\* publication_attention
Attention(e) ==
  [e EXCEPT !.publication.status = "attention", !.status = "failed",
            !.checkpoint = "publication_attention", !.repairPending = FALSE]

\* An error of a command, a check, or the cancellation, which also terminates
\* a command that is running.
PublishFails ==
  /\ PublishAt("intent") \/ PublishAt("check") \/ PublishAt("command")
  /\ Records(Attention(published))
  /\ PublishEnds(FALSE)
  /\ UNCHANGED <<paused, autoRun, world, gate, lock, req, used>>

\* Runtime::reverify_completed only observes: an error leaves the record.
Reverifies ==
  /\ PublishAt("reverify")
  /\ \/ /\ flag.publicationCancellation = 0
        /\ publish' = [publish EXCEPT !.at = "finish"]
        /\ UNCHANGED <<flag, run, stopped>>
     \/ PublishEnds(FALSE)
  /\ UNCHANGED <<durable, world, gate, lock, req, used>>

\* finish_publication
PublishFinishes ==
  /\ PublishAt("finish")
  /\ LET halted == flag.publicationCancellation # 0 \/ paused IN
     \/ /\ halted
        /\ Records([published EXCEPT !.publication.status = "attention", !.status = "failed",
                                     !.checkpoint = "publication_attention"])
        /\ PublishEnds(FALSE)
     \/ /\ ~halted
        /\ Records([published EXCEPT !.status = "succeeded", !.checkpoint = "publication_merged",
                                     !.repairPending = FALSE, !.quarantined = FALSE])
        /\ PublishEnds(TRUE)
  /\ UNCHANGED <<paused, autoRun, world, gate, lock, req, used>>

\* reconcile_publication and abandon_publication first claim the publication
\* and clear its cancellation, and only then look at the state: a request that
\* is refused holds the claim for a moment.
ClaimRefused ==
  /\ req.owner = None /\ ~lock /\ ~flag.publicationRunning
  /\ flag' = [flag EXCEPT !.publicationRunning = TRUE, !.publicationCancellation = 0]
  /\ req' = [req EXCEPT !.owner = "rejected"]
  /\ UNCHANGED <<durable, world, gate, lock, run, publish, stopped, used>>

ClaimReleased ==
  /\ req.owner = "rejected"
  /\ flag' = [flag EXCEPT !.publicationRunning = FALSE]
  /\ req' = [req EXCEPT !.owner = None]
  /\ UNCHANGED <<durable, world, gate, lock, run, publish, stopped, used>>

OwnerMayResolve(f) ==
  /\ req.owner = None /\ ~lock /\ ~flag.publicationRunning
  /\ ~flag.shutdown /\ ~emergencyPaused /\ ~flag.running
  /\ feat[f].checkpoint = "publication_attention"
  /\ feat[f].publication # None /\ feat[f].publication.status = "attention"
  /\ ApprovedEvidence(feat[f])

Reconcile(f) ==
  /\ OwnerMayResolve(f)
  /\ flag' = [flag EXCEPT !.publicationRunning = TRUE, !.publicationCancellation = 0]
  /\ feat' = [feat EXCEPT ![f].publication.status = "pending", ![f].status = "running",
                          ![f].checkpoint = "publication_reconciling"]
  /\ publish' = [id |-> f, at |-> "intent", by |-> "owner"]
  /\ stopped' = [stopped EXCEPT !.publication = "no"]
  /\ UNCHANGED <<paused, autoRun, world, gate, lock, run, req, used>>

AbandonClaims(f) ==
  /\ OwnerMayResolve(f) /\ feat[f].status = "failed"
  /\ flag' = [flag EXCEPT !.publicationRunning = TRUE, !.publicationCancellation = 0]
  /\ req' = [req EXCEPT !.owner = f]
  /\ UNCHANGED <<durable, world, gate, lock, run, publish, stopped, used>>

\* Nothing was written to GitHub, or the pull request was seen closed.
AbandonStands(f) ==
  /\ remote[f] # "merged"
  /\ ~flag.shutdown /\ ~emergencyPaused /\ flag.publicationCancellation = 0
  /\ feat[f].status = "failed" /\ feat[f].checkpoint = "publication_attention"

AbandonCommits ==
  /\ req.owner \in Feature /\ ~lock
  /\ LET f == req.owner IN
     \/ /\ AbandonStands(f)
        /\ feat' = [feat EXCEPT ![f].publication.status = "abandoned", ![f].status = "removed",
                                ![f].checkpoint = "publication_abandoned", ![f].repairPending = FALSE]
     \/ UNCHANGED feat
  /\ flag' = [flag EXCEPT !.publicationRunning = FALSE]
  /\ req' = [req EXCEPT !.owner = None]
  /\ UNCHANGED <<paused, autoRun, world, gate, lock, run, publish, stopped, used>>

-----------------------------------------------------------------------------
(* Crashes and the outside *)

\* validate_and_recover_persisted_publication refuses to start on a
\* publication whose approval evidence it cannot rebuild.
Loads(e) == e.publication # None => ApprovedEvidence(e)

\* recover_publication_checkpoint_after_restart
RecoveredPublication(e) ==
  IF e.status = "removed" \/ e.publication = None THEN e
  ELSE IF e.publication.status \in {"pending", "running", "attention"}
  THEN [e EXCEPT !.publication.status = "attention", !.status = "failed",
                 !.checkpoint = "publication_attention"]
  ELSE IF e.status = "succeeded" /\ e.checkpoint = "publication_merged" THEN e
  ELSE [e EXCEPT !.status = "failed", !.checkpoint = "publication_completion_reverify"]

\* Bug: a review that was running when the process died is left pending.
RecoveredKeepsPending(e) ==
  LET r == RecoveredPublication(e) IN
  IF r.status # "running" THEN r ELSE [r EXCEPT !.status = "paused"]

\* What main makes of a persisted feature.
Recovered(e) ==
  LET r == RecoveredPublication(e) IN
  IF r.status # "running" THEN r
  ELSE [(IF r.pending = None THEN r ELSE Interrupted(r)) EXCEPT !.status = "paused"]

\* The process dies, and a new one comes up with fresh atomics.
Restart ==
  /\ used.restarts < MaxRestarts
  /\ \A f \in Feature : Loads(feat[f])
  /\ feat' = [f \in Feature |-> Recovered(feat[f])]
  /\ flag' = IdleFlags
  /\ gate' = None /\ lock' = FALSE
  /\ run' = None /\ publish' = None
  /\ req' = NoRequest
  /\ stopped' = [run |-> "no", publication |-> "no"]
  /\ used' = [used EXCEPT !.restarts = @ + 1]
  /\ UNCHANGED <<paused, autoRun, world>>

\* Somebody else writes a project file.
OutsideEdit(p) ==
  /\ used.outside < MaxOutside /\ used.versions < MaxVersion
  /\ disk' = [disk EXCEPT ![p] = used.versions + 1]
  /\ used' = [used EXCEPT !.versions = @ + 1, !.outside = @ + 1]
  /\ UNCHANGED <<durable, remote, flag, gate, lock, run, publish, req, stopped>>

-----------------------------------------------------------------------------
RunnerStep ==
  \/ Select \/ Route \/ Begin \/ Refresh \/ ModelReads \/ ModelFails \/ ModelAnswers
  \/ Preflight \/ ApplyChecks \/ (\E p \in Path : ApplyEdit(p)) \/ Applied
  \/ ValidationChecks \/ ValidationSpawns \/ ValidationEnds \/ ValidationUnconfirmed
  \/ ReviewBegins \/ ReviewUnavailable \/ ReviewInterrupted
  \/ (\E o \in {"approved", "rejected"} : ReviewDecides(o))
  \/ AfterRun \/ Failing
  \/ CompletionStopped \/ CompletionRejected \/ CompletionProceeds \/ CompletionFailed
  \/ ExecutePublication \/ ReverifyPublication \/ NextFeature \/ Finish

PublishStep ==
  \/ PublishIntends \/ PublishChecks \/ PublishLands \/ PublishVerified \/ PublishFails
  \/ Reverifies \/ PublishFinishes

\* Steps of a request that has been taken up.
StopStep ==
  \/ StopLatchesCancellation \/ StopLatchesPublication \/ StopTakesGate \/ StopPersists \/ StopAnswered
StartStep ==
  \/ StartDeclined \/ StartServed \/ StartChecksEpoch \/ StartClearsCancellation
  \/ StartClearsPublication \/ StartConfirms
RepairStep == RepairClearsCancellation \/ RepairAuthorizes \/ RepairLaunches
ClearStep == ClearCommits \/ ClearStoresCancellation \/ ClearStoresPublication
OtherStep == EnqueueCommits \/ AbandonCommits \/ ClaimReleased
RequestStep == StopStep \/ StartStep \/ RepairStep \/ ClearStep \/ OtherStep

OwnerAsks ==
  \/ "start" \in Asks /\ StartAsked
  \/ "stop" \in Asks /\ StopBegins(1)
  \/ "emergency" \in Asks /\ StopBegins(2)
  \/ "clear" \in Asks /\ ClearChecks
  \/ "auto_run" \in Asks /\ (\E b \in BOOLEAN : SetAutoRun(b))
  \/ "shutdown" \in Asks /\ BeginShutdown
  \/ "refused_claim" \in Asks /\ ClaimRefused
  \/ \E f \in Feature :
       \/ "enqueue" \in Asks /\ EnqueueChecks(f)
       \/ "remove" \in Asks /\ RemoveFeature(f)
       \/ "repair" \in Asks /\ RepairReserves(f)
       \/ "reconcile" \in Asks /\ Reconcile(f)
       \/ "abandon" \in Asks /\ AbandonClaims(f)

Next ==
  \/ RunnerStep \/ PublishStep \/ RequestStep \/ OwnerAsks
  \/ Restart \/ (\E p \in Path : OutsideEdit(p))

Spec == Init /\ [][Next]_vars

\* Each task and each request has a thread of its own that goes on.  Who waits
\* for a mutex that is given back again and again (the effect gate for the
\* runner, the database for Stop) gets it.
FairSpec ==
  /\ Spec
  /\ SF_vars(RunnerStep) /\ WF_vars(PublishStep)
  /\ SF_vars(StopStep) /\ WF_vars(StartStep) /\ WF_vars(RepairStep)

-----------------------------------------------------------------------------
(* Properties *)

\* A Stop or Emergency Pause that was answered is not lost: as long as the run,
\* or the publication, that it met is active, its latch is set, although Start,
\* Repair, Clear and new publications clear the latches without taking the
\* effect gate (epoch checks in clear_cancellation_for_start, second latch of
\* the stop handler, Repair's hold on the database mutex, the claims of running
\* and publication_running).  Met are all Stops but those asked for before the
\* Start or Repair that launched the run, which come first, and those a Clear
\* races (ClearLeavesWorkStopped).
StopIsNotLost ==
  /\ run # None /\ stopped.run = "met" => cancelled
  /\ publish # None /\ stopped.publication = "met" => flag.publicationCancellation # 0

\* After such a Stop the run writes no project file and creates no validation
\* process (effect_gate in the application loop and in validate_command_inner),
\* and the publication begins no further command: at most the one that had
\* passed its cancellation check still takes effect on GitHub.
NoEffectAfterStop ==
  [][ /\ RunAt("write") /\ used'.outside = used.outside /\ disk' # disk => stopped.run # "met"
      /\ RunAt("spawn") /\ run' # None /\ run'.at = "validating" => stopped.run # "met"
      /\ PublishBegins => stopped.publication # "met" ]_vars

\* A feature succeeds only on an approved review of the very bytes that are on
\* disk, or, with a connection, of the candidate that was merged
\* (prepare_reviewed_completion, finish_publication), whatever was edited,
\* resumed, repaired or restarted in between.
SuccessIsReviewed ==
  [][ \A f \in Feature :
        feat[f].status # "succeeded" /\ feat'[f].status = "succeeded" =>
          /\ feat[f].last # None /\ feat[f].last.outcome = "approved"
          /\ \/ f \notin Connected /\ disk = feat[f].last.packet
             \/ /\ f \in Connected /\ remote[f] = "merged"
                /\ feat[f].publication.candidate = feat[f].last.packet ]_vars

\* The local model gets one answer saved per feature and one per reserved
\* repair: no Resume, crash or retried review asks it again for an answer it
\* has given (run_feature's retained branch).
ModelBudget == \A f \in Feature : feat[f].candidates <= feat[f].repairs + 1

\* An unresolved publication is the only one, and nobody works on another
\* feature meanwhile (ensure_publication_barrier_clear).
BarrierHolds ==
  \A f \in Feature : Unresolved(f) =>
    /\ run # None /\ run.id # None => run.id = f
    /\ publish # None => publish.id = f
    /\ \A g \in Feature : Unresolved(g) => g = f

\* A feature shown as running has somebody working on it, so that no ending of
\* a run, a publication or the process leaves it running for ever.
RunningIsAttended ==
  \A f \in Feature : feat[f].status = "running" =>
    \/ run # None /\ run.id = f
    \/ publish # None /\ publish.id = f

\* A review that was begun is decided or interrupted before anything else is
\* done with the feature (review_pending is None outside review_feature).
PendingIsReviewing ==
  \A f \in Feature : feat[f].pending # None => RunAt("reviewing") /\ run.id = f

\* Every run comes to an end: the owner's Stop, a conflict, a cleanup, a failed
\* publication or the repair limit leave it nowhere to wait for ever.
RunEnds == (run # None) ~> (run = None)

-----------------------------------------------------------------------------
(* What the documents or messages say, and the code does not do *)

\* "Stop and Emergency Pause remain available throughout publication.  They
\* prevent new effects": no command of the publication of a run begins after a
\* Stop that the run met.
PublicationHonoursStop ==
  [][ PublishBegins /\ run # None => stopped.run # "met" ]_vars

\* "Clear Emergency Pause only clears that latch; Resume remains a separate
\* action": a Clear does not set a run free again that a Stop was answered for.
ClearLeavesWorkStopped ==
  [][ run # None /\ stopped.run = "raced" /\ cancelled
        => run' = None \/ flag'.cancellation # 0 ]_vars

\* "Only the exact validated, independently approved candidate may enter its
\* commit and PR": what is reviewed is what validation ran on.
ReviewedWasValidated == RunAt("reviewing") => entry.pending = run.observed

\* "Restart preserves that contradiction and Resume bypasses model execution":
\* the persisted state can always be loaded again.
StateLoads == \A f \in Feature : Loads(feat[f])

\* "Resume continues from the saved checkpoint": a stopped feature can be
\* resumed when nothing else is in the way.
PausedCanResume ==
  \A f \in Feature : feat[f].status = "paused" => ~feat[f].quarantined
=============================================================================
