------------------------ MODULE DeveloperRunner_proofs ------------------------
(***************************************************************************)
(* The threads of the Developer runner: who is at work, who holds the      *)
(* effect gate and the database, what each knows of the feature in its     *)
(* hand, and what follows for features, reviews and publications, for every*)
(* queue, every limit and every mix of requests.                           *)
(***************************************************************************)
EXTENDS DeveloperRunner, WellFoundedInduction, TLAPS

\* Start holds the database from its admission to its launch.
Held == req.start # None /\ req.start.at # "serve"

\* running is set exactly while a Start is being admitted or a run exists, and
\* the database is held across steps exactly by a Start or a Repair.
Admission ==
  /\ flag.running <=> Held \/ run # None
  /\ lock <=> Held \/ req.repair # None
  /\ Held => run = None /\ req.repair = None
  /\ req.repair # None => run = None

\* The claim of publications has one holder, and none while the database is
\* held; an owner's publication or abandonment meets no run.
Claim ==
  /\ flag.publicationRunning <=> publish # None \/ req.owner # None
  /\ publish # None => req.owner = None
  /\ lock => ~flag.publicationRunning
  /\ publish # None /\ publish.by = "owner" => ~flag.running
  /\ req.owner \in Feature => ~flag.running

\* A run that waits for its publication, and that publication, know each other.
Partners ==
  /\ run # None /\ run.at = "publishing" =>
       publish # None /\ publish.by = "runner" /\ publish.id = run.id
  /\ publish # None /\ publish.by = "runner" => run # None /\ run.at = "publishing"

\* The effect gate is held across steps by a write or a spawn, or by a Stop.
GateHeld ==
  /\ gate = "runner" <=> run # None /\ run.at \in {"write", "spawn"}
  /\ gate = "stop" <=> req.stop # None /\ req.stop.at \in {"persist", "latch"}

\* A run has a feature in hand except before selection and at its end.
RunHasFeature ==
  run # None => (run.id = None <=> run.at \in {"select", "finish"})

\* What the threads know of each other.
Threads == Admission /\ Claim /\ Partners /\ GateHeld /\ RunHasFeature

-----------------------------------------------------------------------------
(* Features *)

\* Where run_feature is at work.
Working ==
  {"begin", "refresh", "model", "answer", "preflight", "apply", "write", "validate", "spawn",
   "validating", "review", "reviewing"}

\* Where a publication of the run may be unresolved.
Publishing == {"publication", "publishing", "completion_failed", "result", "failing", "finish"}

\* The model's answers are counted against the repairs.
Counted(e) ==
  /\ e.edits = None => e.candidates = 0
  /\ e.candidates <= e.repairs + 1
  /\ e.repairPending /\ e.checkpoint = "repair_reserved" => e.candidates <= e.repairs
  /\ e.repairPending =>
       \/ e.checkpoint \in {"repair_reserved", "repair_prepared", "repair_applied"} \cup ReviewCheckpoint
       \/ e.publication # None

\* A publication is of the approved candidate, and how it stands shows.
PublicationFits(e) ==
  /\ e.publication # None =>
       /\ e.pending = None
       /\ e.last # None /\ e.last.outcome = "approved"
       /\ e.publication.candidate = e.last.packet
       /\ e.publication.status = "abandoned" => e.status = "removed"
       /\ e.publication.status = "attention" => e.status = "failed"
  /\ e.checkpoint = "publication_attention" =>
       e.publication # None /\ e.publication.status = "attention"
  /\ e.pending # None => e.status = "running"

\* Only a project with a connection publishes, and only a merge completes.
RemoteFits(f, e, r) ==
  e.publication # None =>
    /\ f \in Connected
    /\ e.publication.status = "succeeded" => r = "merged"

FeatureInv(f) == Counted(feat[f]) /\ PublicationFits(feat[f]) /\ RemoteFits(f, feat[f], remote[f])

Standing(e) == e.publication # None /\ e.publication.status \in {"pending", "running", "attention"}
Captured(r, e) == r.checkpoint = e.checkpoint /\ r.repairPending = e.repairPending

\* What a run r knows about the entry e in its hand, stage by stage.
RunFits(r, e) ==
  /\ e.status # "absent"
  /\ e.publication # None => e.publication.status # "abandoned"
  /\ r.at = "route" =>
       /\ Captured(r, e) /\ e.status \notin {"running", "removed", "succeeded"}
       /\ IF r.recovery THEN CompletedPublication(e) ELSE e.publication = None
  /\ r.at = "begin" => Captured(r, e)
  /\ r.at \in Working =>
       ~r.recovery /\ e.publication = None /\ r.repairPending = e.repairPending
  /\ r.at \in {"refresh", "preflight", "apply", "write"} => e.edits # None
  /\ r.at \in {"apply", "write"} => r.before # None
  /\ r.at \in {"model", "answer"} => e.candidates <= e.repairs
  /\ r.at \in Working \ {"begin"} => e.status = "running"
  /\ r.at = "reviewing" => e.pending # None
  /\ r.at \in {"result", "failing"} =>
       /\ ~r.recovery => e.publication = None
       /\ r.recovery => e.publication # None /\ r.result = "operational"
  /\ r.at = "failing" => r.result # "ok"
  /\ r.at = "complete" => IF r.recovery THEN CompletedPublication(e) ELSE e.publication = None
  /\ r.at = "publication" =>
       /\ e.publication # None /\ e.publication.status = "pending"
       /\ e.checkpoint = "publication_pending" /\ ~r.recovery
  /\ r.at = "reverification" => CompletedPublication(e) /\ r.recovery
  /\ r.at = "next" =>
       e.status = "succeeded" /\ (e.publication # None => e.publication.status = "succeeded")

RunInv == run # None /\ run.id # None => RunFits(run, feat[run.id])

\* What a publication t knows about its entry e.
PublishFits(t, e) ==
  /\ e.publication # None /\ e.status # "absent"
  /\ t.at \in {"intent", "check", "command"} =>
       /\ e.publication.status \in {"pending", "running"}
       /\ e.checkpoint \in {"publication_pending", "publication_reconciling"}
  /\ t.at = "reverify" => t.by = "runner"
  /\ t.at \in {"reverify", "finish"} => e.publication.status = "succeeded"

PublishInv ==
  /\ publish # None => PublishFits(publish, feat[publish.id])
  /\ publish # None /\ publish.by = "runner" /\ run.recovery => publish.at \notin {"intent", "check", "command"}

\* Nobody starts on a feature while a publication is unresolved.
NoneUnresolved == \A f \in Feature : ~Standing(feat[f])
Clear ==
  /\ lock => NoneUnresolved
  /\ run # None /\ run.at \notin Publishing => NoneUnresolved

EnqueueInv == req.enqueue # None => feat[req.enqueue].status = "absent"

Work ==
  /\ \A f \in Feature : FeatureInv(f)
  /\ RunInv /\ PublishInv /\ Clear /\ EnqueueInv
  /\ BarrierHolds /\ RunningIsAttended /\ PendingIsReviewing

Inv == TypeOK /\ Threads /\ Work

USE RunnerAssumption, OptionAssumption

-----------------------------------------------------------------------------
(* The queue *)

\* A set of numbers that is not empty has a least one.
LEMMA MinExists ==
  ASSUME NEW S \in SUBSET Nat, S # {}
  PROVE  Min(S) \in S
<1>1. PICK x \in S : \A y \in S : ~(<<y, x>> \in OpToRel(<, Nat))
  BY NatLessThanWellFounded, WFMin, Zenon
<1>2. \A y \in S : x <= y
  <2> SUFFICES ASSUME NEW y \in S PROVE x <= y
    OBVIOUS
  <2>1. <<y, x>> \in Nat \X Nat
    OBVIOUS
  <2>2. ~(y < x)
    BY <1>1, <2>1 DEF OpToRel
  <2> QED
    BY <2>2
<1> QED
  BY <1>2 DEF Min

\* The first unfinished entry is one.
LEMMA FirstFacts ==
  /\ FirstUnfinished \in Feature \cup {None}
  /\ FirstUnfinished # None => Unfinished(FirstUnfinished)
<1> DEFINE S == {i \in DOMAIN Queue : Unfinished(Queue[i])}
<1>1. CASE \E f \in Feature : Unfinished(f)
  <2>1. PICK f \in Feature : Unfinished(f)
    BY <1>1
  <2>2. PICK i \in DOMAIN Queue : Queue[i] = f
    BY RunnerAssumption DEF Range
  <2>3. S \in SUBSET Nat /\ S # {}
    BY <2>1, <2>2, RunnerAssumption
  <2>4. Min(S) \in S
    BY <2>3, MinExists
  <2> QED
    BY <1>1, <2>4, RunnerAssumption DEF FirstUnfinished
<1>2. CASE ~ \E f \in Feature : Unfinished(f)
  BY <1>2 DEF FirstUnfinished
<1> QED
  BY <1>1, <1>2
-----------------------------------------------------------------------------
(* Records *)

\* A run that goes on to another stage keeps all it knows.
LEMMA GoesFacts ==
  ASSUME run \in Run, NEW s \in Stage, Goes(s)
  PROVE  /\ run' \in Run /\ run' # None /\ run'.at = s /\ run'.id = run.id
         /\ run'.checkpoint = run.checkpoint /\ run'.repairPending = run.repairPending
         /\ run'.recovery = run.recovery /\ run'.before = run.before /\ run'.left = run.left
         /\ run'.result = run.result
  BY Zenon DEF Goes, Run

\* A run whose run_feature returned keeps the feature and the result.
LEMMA EndsFacts ==
  ASSUME run \in Run, NEW r \in Result, Ends(r)
  PROVE  /\ run' \in Run /\ run' # None /\ run'.at = "result" /\ run'.id = run.id
         /\ run'.checkpoint = run.checkpoint /\ run'.repairPending = run.repairPending
         /\ run'.recovery = run.recovery /\ run'.result = r
<1>1. "result" \in Stage /\ None \in Bytes \cup {None} /\ {} \in SUBSET Path
  BY DEF Stage
<1> QED
  BY <1>1, Zenon DEF Ends, Run

\* A run that is about to end, or was just launched, has no feature.
LEMMA NewRunFacts ==
  /\ NewRun \in Run /\ NewRun # None /\ NewRun.at = "select" /\ NewRun.id = None
  /\ [NewRun EXCEPT !.at = "finish"] \in Run
  /\ [NewRun EXCEPT !.at = "finish"] # None
  /\ [NewRun EXCEPT !.at = "finish"].at = "finish"
  /\ [NewRun EXCEPT !.at = "finish"].id = None
<1>1. NewRun \in Run
  BY DEF NewRun, Run, Stage, Result, Checkpoint
<1>2. "finish" \in Stage
  BY DEF Stage
<1>3. NewRun.at = "select" /\ NewRun.id = None /\ NewRun # None
  BY <1>1 DEF NewRun
<1>4. /\ [NewRun EXCEPT !.at = "finish"] \in Run
      /\ [NewRun EXCEPT !.at = "finish"].at = "finish"
      /\ [NewRun EXCEPT !.at = "finish"].id = NewRun.id
  BY <1>1, <1>2, Zenon DEF Run
<1> QED
  BY <1>1, <1>3, <1>4

\* A failed completion is handled by the run that asked for it.
LEMMA CompletionFailsFacts ==
  ASSUME run \in Run, CompletionFails
  PROVE  /\ run' \in Run /\ run' # None /\ run'.id = run.id
         /\ run'.at = IF run.recovery THEN "result" ELSE "completion_failed"
         /\ run'.checkpoint = run.checkpoint /\ run'.repairPending = run.repairPending
         /\ run'.recovery = run.recovery /\ run'.result = "operational"
<1> DEFINE to == IF run.recovery THEN "result" ELSE "completion_failed"
<1>1. to \in Stage /\ "operational" \in Result
  BY DEF Stage, Result
<1>2. run' = [run EXCEPT !.at = to, !.result = "operational"]
  BY DEF CompletionFails
<1> HIDE DEF to
<1>3. /\ run' \in Run /\ run' # None /\ run'.id = run.id /\ run'.at = to
      /\ run'.checkpoint = run.checkpoint /\ run'.repairPending = run.repairPending
      /\ run'.recovery = run.recovery /\ run'.result = "operational"
  BY <1>1, <1>2, Zenon DEF Run
<1> QED
  BY <1>3 DEF to

\* A Start or Repair whose epoch moved.
LEMMA MovedFacts ==
  /\ \A r \in StartRequest \cup {None} :
       /\ Moved(r) \in StartRequest \cup {None}
       /\ r = None <=> Moved(r) = None
       /\ r # None => Moved(r).at = r.at /\ Moved(r).moved /\ Moved(r).stopped = r.stopped
  /\ \A r \in RepairRequest \cup {None} :
       /\ Moved(r) \in RepairRequest \cup {None}
       /\ r = None <=> Moved(r) = None
       /\ r # None => Moved(r).at = r.at /\ Moved(r).moved /\ Moved(r).stopped = r.stopped
<1>1. \A r \in StartRequest : LET x == [r EXCEPT !.moved = TRUE] IN
        x \in StartRequest /\ x.at = r.at /\ x.moved /\ x.stopped = r.stopped
  BY DEF StartRequest
<1>2. \A r \in RepairRequest : LET x == [r EXCEPT !.moved = TRUE] IN
        x \in RepairRequest /\ x.at = r.at /\ x.moved /\ x.stopped = r.stopped
  BY DEF RepairRequest
<1> QED
  BY <1>1, <1>2 DEF Moved

\* The requests after the epoch moved.
LEMMA EpochFacts ==
  ASSUME NEW r \in Requests
  PROVE  /\ EpochMoves(r) \in Requests
         /\ EpochMoves(r).stop = r.stop
         /\ EpochMoves(r).clear = r.clear /\ EpochMoves(r).enqueue = r.enqueue
         /\ EpochMoves(r).owner = r.owner
         /\ r.start = None <=> EpochMoves(r).start = None
         /\ r.start # None => /\ EpochMoves(r).start # None
                              /\ EpochMoves(r).start.at = r.start.at
                              /\ EpochMoves(r).start.moved
                              /\ EpochMoves(r).start.stopped = r.start.stopped
         /\ r.repair = None <=> EpochMoves(r).repair = None
         /\ r.repair # None => EpochMoves(r).repair.stopped = r.repair.stopped
<1> DEFINE x == Moved(r.start)
           y == Moved(r.repair)
<1>1. r.start \in StartRequest \cup {None} /\ r.repair \in RepairRequest \cup {None}
  BY DEF Requests
<1>2. /\ x \in StartRequest \cup {None}
      /\ r.start = None <=> x = None
      /\ r.start # None => x.at = r.start.at /\ x.moved /\ x.stopped = r.start.stopped
      /\ y \in RepairRequest \cup {None}
      /\ r.repair = None <=> y = None
      /\ r.repair # None => y.stopped = r.repair.stopped
  BY <1>1, MovedFacts
<1>3. EpochMoves(r) = [r EXCEPT !.start = x, !.repair = y]
  BY DEF EpochMoves
<1> HIDE DEF x, y
<1>4. /\ EpochMoves(r) \in Requests /\ EpochMoves(r).start = x /\ EpochMoves(r).repair = y
      /\ EpochMoves(r).stop = r.stop /\ EpochMoves(r).clear = r.clear
      /\ EpochMoves(r).enqueue = r.enqueue /\ EpochMoves(r).owner = r.owner
  BY <1>2, <1>3, Zenon DEF Requests
<1> QED
  BY <1>2, <1>4

\* The history of work that has just begun, or is over.
LEMMA NothingSeen == "no" \in StopSeen
  BY DEF StopSeen

-----------------------------------------------------------------------------
(* A step of the runner *)

\* What a step may leave behind as entry e of feature f when the run is r then.
EntryFits(f, e, r) ==
  /\ Counted(e) /\ PublicationFits(e) /\ RemoteFits(f, e, remote[f])
  /\ r.id \in {f, None} /\ (r.id = None <=> r.at \in {"select", "finish"})
  /\ r.id # None => RunFits(r, e)
  /\ e.status = "running" => r.id # None
  /\ e.pending # None => r.at = "reviewing"
  /\ Standing(e) => r.at \in Publishing

\* The requests in flight, but for what a Start knows of the epoch.
SameRequests(r, s) ==
  /\ r.stop = s.stop /\ r.enqueue = s.enqueue /\ r.owner = s.owner
  /\ r.repair = None <=> s.repair = None
  /\ r.start = None <=> s.start = None
  /\ s.start # None => r.start.at = s.start.at

\* Such a step of a run with a feature in hand, other than those that begin and
\* end its publication, keeps what the threads know of each other.
LEMMA RunnerThreads ==
  ASSUME TypeOK, Threads, run # None, run.id # None, run.at # "publishing",
         run' # None, run'.at # "publishing",
         run'.id = None <=> run'.at \in {"select", "finish"},
         gate' = IF run'.at \in {"write", "spawn"} THEN "runner"
                 ELSE IF gate = "runner" THEN None ELSE gate,
         run'.at \in {"write", "spawn"} => gate = None,
         flag'.running = flag.running, flag'.publicationRunning = flag.publicationRunning,
         SameRequests(req', req), lock' = lock, publish' = publish
  PROVE  Threads'
<1>1. Admission'
  BY DEF Threads, Admission, Held, SameRequests
<1>2. Claim'
  BY DEF Threads, Claim, SameRequests
<1>3. Partners'
  BY DEF Threads, Partners
<1>4. GateHeld'
  BY DEF Threads, GateHeld, SameRequests
<1>5. RunHasFeature'
  BY DEF RunHasFeature
<1> QED
  BY <1>1, <1>2, <1>3, <1>4, <1>5 DEF Threads

\* And what is known of the features.
LEMMA RunnerWork ==
  ASSUME TypeOK, Threads, Work, run # None, run.id # None, run.at # "publishing",
         NEW e \in FeatureRecord, feat' = [feat EXCEPT ![run.id] = e],
         run' # None, EntryFits(run.id, e, run'),
         req'.enqueue = req.enqueue, lock' = lock, publish' = publish, remote' = remote
  PROVE  Work'
<1>1. run.id \in Feature /\ feat \in [Feature -> FeatureRecord] /\ run \in Run
      /\ req.enqueue \in Feature \cup {None} /\ run.id # "rejected"
  BY DEF TypeOK, Run, Requests
<1>2. feat'[run.id] = e /\ \A g \in Feature : g # run.id => feat'[g] = feat[g]
  BY <1>1
<1>3. publish = None /\ ~lock
  <2>1. publish # None => publish.by \in {"runner", "owner"}
    BY DEF TypeOK, PublishTask
  <2> QED
    BY <2>1 DEF Threads, Admission, Claim, Partners
<1>4. \A g \in Feature : Standing(feat[g]) => g = run.id
  BY <1>1 DEF Work, BarrierHolds, Unresolved, Standing
<1>5. \A g \in Feature : Standing(feat'[g]) => g = run.id /\ Standing(e)
  BY <1>2, <1>4
<1>6. \A f \in Feature : FeatureInv(f)'
  BY <1>2 DEF Work, FeatureInv, EntryFits
<1>7. RunInv'
  BY <1>2 DEF RunInv, EntryFits
<1>8. PublishInv'
  BY <1>3 DEF PublishInv
<1>9. Clear'
  BY <1>3, <1>5 DEF Clear, NoneUnresolved, EntryFits
<1>10. EnqueueInv'
  <2>1. feat[run.id].status # "absent"
    BY DEF Work, RunInv, RunFits
  <2> QED
    BY <1>1, <1>2, <2>1 DEF Work, EnqueueInv
<1>11. BarrierHolds'
  BY <1>3, <1>5 DEF BarrierHolds, Unresolved, Standing, EntryFits
<1>12. RunningIsAttended'
  BY <1>2, <1>3 DEF Work, RunningIsAttended, EntryFits
<1>13. PendingIsReviewing'
  <2>1. \A g \in Feature : g # run.id => feat[g].pending = None
    BY DEF Work, PendingIsReviewing
  <2> QED
    BY <1>2, <2>1 DEF PendingIsReviewing, RunAt, EntryFits
<1> QED
  BY <1>6, <1>7, <1>8, <1>9, <1>10, <1>11, <1>12, <1>13 DEF Work

\* Together.
LEMMA RunnerKeeps ==
  ASSUME Inv, run # None, run.id # None, run.at # "publishing",
         NEW e \in FeatureRecord, Saves(e), run' \in Run, run'.at # "publishing",
         EntryFits(run.id, e, run'),
         gate' = IF run'.at \in {"write", "spawn"} THEN "runner"
                 ELSE IF gate = "runner" THEN None ELSE gate,
         run'.at \in {"write", "spawn"} => gate = None,
         flag' \in Flags, flag'.running = flag.running,
         flag'.publicationRunning = flag.publicationRunning,
         req' \in Requests, SameRequests(req', req), paused' \in BOOLEAN, disk' \in Bytes,
         used' \in [versions : 0 .. MaxVersion, restarts : 0 .. MaxRestarts, stops : 0 .. MaxStops,
               outside : 0 .. MaxOutside],
         UNCHANGED <<autoRun, remote, lock, publish, stopped>>
  PROVE  Inv'
<1>1. run' # None /\ TypeOK /\ Threads /\ Work
  BY DEF Inv
<1>2. feat' = [feat EXCEPT ![run.id] = e]
  BY DEF Saves
<1>3. lock' = lock /\ publish' = publish /\ remote' = remote
  OBVIOUS
<1>4. run'.id = None <=> run'.at \in {"select", "finish"}
  BY DEF EntryFits
<1>5. Threads'
  BY <1>1, <1>3, <1>4, RunnerThreads
<1>6. Work'
  BY <1>1, <1>2, <1>3, RunnerWork DEF SameRequests
<1>7. TypeOK'
  <2>1. feat' \in [Feature -> FeatureRecord]
    BY <1>1, <1>2 DEF TypeOK
  <2>2. gate' \in {None, "runner", "stop"}
    BY <1>1 DEF TypeOK
  <2> QED
    BY <1>1, <2>1, <2>2 DEF TypeOK
<1> QED
  BY <1>5, <1>6, <1>7 DEF Inv

\* A step that only saves the entry and goes on.
LEMMA RunnerSaves ==
  ASSUME Inv, run # None, run.id # None, run.at \notin {"publishing", "write", "spawn"},
         NEW e \in FeatureRecord, Saves(e), run' \in Run,
         run'.at \notin {"publishing", "write", "spawn"}, EntryFits(run.id, e, run'),
         UNCHANGED <<paused, autoRun, world, flag, gate, lock, publish, req, stopped, used>>
  PROVE  Inv'
<1>1. gate # "runner"
  BY DEF Inv, Threads, GateHeld
<1>2. SameRequests(req', req)
  BY DEF SameRequests
<1>3. /\ flag' \in Flags /\ req' \in Requests /\ paused' \in BOOLEAN /\ disk' \in Bytes
      /\ used' \in [versions : 0 .. MaxVersion, restarts : 0 .. MaxRestarts, stops : 0 .. MaxStops,
               outside : 0 .. MaxOutside]
  BY DEF Inv, TypeOK, world
<1>4. gate' = IF run'.at \in {"write", "spawn"} THEN "runner"
              ELSE IF gate = "runner" THEN None ELSE gate
  BY <1>1
<1>5. UNCHANGED <<autoRun, remote, lock, publish, stopped>> /\ flag'.running = flag.running
      /\ flag'.publicationRunning = flag.publicationRunning
  BY DEF world
<1> QED
  BY <1>2, <1>3, <1>4, <1>5, RunnerKeeps

\* A step that leaves the entry, and may take or give back the effect gate.
LEMMA RunnerMoves ==
  ASSUME Inv, run # None, run.id # None, run.at # "publishing",
         run' \in Run, run'.at # "publishing", EntryFits(run.id, entry, run'),
         gate' = IF run'.at \in {"write", "spawn"} THEN "runner"
                 ELSE IF gate = "runner" THEN None ELSE gate,
         run'.at \in {"write", "spawn"} => gate = None, disk' \in Bytes,
         flag' \in Flags, flag'.running = flag.running,
         flag'.publicationRunning = flag.publicationRunning,
         UNCHANGED <<durable, remote, lock, publish, req, stopped, used>>
  PROVE  Inv'
<1>1. run.id \in Feature /\ feat \in [Feature -> FeatureRecord]
  BY DEF Inv, TypeOK, Run
<1>2. entry \in FeatureRecord /\ Saves(entry)
  BY <1>1 DEF entry, Saves, durable
<1>3. SameRequests(req', req)
  BY DEF SameRequests
<1>4. /\ req' \in Requests /\ paused' \in BOOLEAN
      /\ used' \in [versions : 0 .. MaxVersion, restarts : 0 .. MaxRestarts, stops : 0 .. MaxStops,
               outside : 0 .. MaxOutside]
  BY DEF Inv, TypeOK, durable
<1>5. UNCHANGED <<autoRun, remote, lock, publish, stopped>>
  BY DEF durable
<1> QED
  BY <1>2, <1>3, <1>4, <1>5, RunnerKeeps

\* A step that changes nothing but the run.
LEMMA RunnerGoes ==
  ASSUME Inv, run # None, run.id # None, run.at \notin {"publishing", "write", "spawn"},
         run' \in Run, run'.at \notin {"publishing", "write", "spawn"},
         EntryFits(run.id, entry, run'),
         UNCHANGED <<durable, world, flag, gate, lock, publish, req, stopped, used>>
  PROVE  Inv'
<1>1. gate # "runner"
  BY DEF Inv, Threads, GateHeld
<1>2. flag' \in Flags /\ disk' \in Bytes
  BY DEF Inv, TypeOK, world
<1>3. UNCHANGED <<durable, remote, lock, publish, req, stopped, used>>
      /\ flag'.running = flag.running /\ flag'.publicationRunning = flag.publicationRunning
  BY DEF world
<1> QED
  BY <1>1, <1>2, <1>3, RunnerMoves

\* What is known when the run is at a stage with a feature in hand.
LEMMA AtFacts ==
  ASSUME Inv, run # None, run.at \notin {"select", "finish"}
  PROVE  /\ run \in Run /\ run.id \in Feature /\ run.id # None /\ entry \in FeatureRecord
         /\ Counted(entry) /\ PublicationFits(entry) /\ RemoteFits(run.id, entry, remote[run.id])
         /\ RunFits(run, entry)
         /\ entry.pending # None => run.at = "reviewing"
         /\ Standing(entry) => run.at \in Publishing
<1>1. run \in Run /\ feat \in [Feature -> FeatureRecord] /\ run.id # None
  BY DEF Inv, TypeOK, Threads, RunHasFeature
<1>2. run.id \in Feature
  BY <1>1 DEF Run
<1>3. entry \in FeatureRecord
  BY <1>1, <1>2 DEF entry
<1>4. FeatureInv(run.id) /\ RunInv
  BY <1>2 DEF Inv, Work
<1>5. entry.pending # None => run.at = "reviewing"
  BY <1>2 DEF Inv, Work, PendingIsReviewing, RunAt, entry
<1>6. Standing(entry) => run.at \in Publishing
  BY <1>2 DEF Inv, Work, Clear, NoneUnresolved, entry
<1> QED
  BY <1>1, <1>2, <1>3, <1>4, <1>5, <1>6 DEF FeatureInv, RunInv, entry

\* run_feature returns without a decision.
LEMMA EndsFits ==
  ASSUME Inv, run # None, run.at \in Working \ {"reviewing"}, NEW r \in Result, Ends(r)
  PROVE  run' \in Run /\ run'.at = "result" /\ EntryFits(run.id, entry, run')
<1>1. run.at \notin {"select", "finish"}
  BY DEF Working
<1>2. run \in Run /\ RunFits(run, entry) /\ Counted(entry) /\ PublicationFits(entry)
      /\ RemoteFits(run.id, entry, remote[run.id]) /\ run.id # None /\ entry.pending = None
  BY <1>1, AtFacts
<1>3. run' \in Run /\ run'.at = "result" /\ run'.id = run.id /\ run'.recovery = run.recovery
  BY <1>2, EndsFacts
<1>4. entry.publication = None /\ ~run.recovery /\ entry.status # "absent"
  BY <1>2 DEF RunFits
<1>5. RunFits(run', entry)
  BY <1>3, <1>4 DEF RunFits, Working
<1> QED
  BY <1>2, <1>3, <1>4, <1>5 DEF EntryFits, Standing

\* The run is about to end.
LEMMA StopsFits ==
  ASSUME NEW f, NEW e, Counted(e), PublicationFits(e), RemoteFits(f, e, remote[f]),
         e.status # "running", e.pending = None, Stops
  PROVE  run' \in Run /\ run' # None /\ run'.at = "finish" /\ run'.id = None
         /\ EntryFits(f, e, run')
<1>1. run' \in Run /\ run' # None /\ run'.at = "finish" /\ run'.id = None
  BY NewRunFacts DEF Stops
<1> QED
  BY <1>1 DEF EntryFits, Publishing

-----------------------------------------------------------------------------
(* Steps that leave the entries alone *)

\* Route.
LEMMA RouteKeeps == Inv /\ Route => Inv'
<1> SUFFICES ASSUME Inv, Route PROVE Inv'
  OBVIOUS
<1>1. run # None /\ run.at = "route"
  BY DEF Route, RunAt
<1>2. /\ run \in Run /\ run.id # None
      /\ Counted(entry) /\ PublicationFits(entry) /\ RemoteFits(run.id, entry, remote[run.id])
      /\ RunFits(run, entry) /\ entry.pending = None
      /\ ~Standing(entry)
  BY <1>1, AtFacts DEF Publishing
<1>3. run' \in Run /\ EntryFits(run.id, entry, run') /\ run'.at \notin {"publishing", "write", "spawn"}
  <2>1. CASE Stops
    <3>1. entry.status # "running"
      BY <1>1, <1>2 DEF RunFits
    <3> QED
      BY <2>1, <3>1, <1>2, StopsFits
  <2>2. CASE ~run.recovery /\ Goes("begin")
    <3>1. run' \in Run /\ run'.at = "begin" /\ run'.id = run.id /\ run'.recovery = run.recovery
          /\ run'.checkpoint = run.checkpoint /\ run'.repairPending = run.repairPending
      BY <1>2, <2>2, GoesFacts DEF Stage
    <3> QED
      BY <1>1, <1>2, <2>2, <3>1 DEF EntryFits, RunFits, Captured, Working
  <2>3. CASE run.recovery /\ Goes("complete")
    <3>1. run' \in Run /\ run'.at = "complete" /\ run'.id = run.id /\ run'.recovery = run.recovery
      BY <1>2, <2>3, GoesFacts DEF Stage
    <3> QED
      BY <1>1, <1>2, <2>3, <3>1 DEF EntryFits, RunFits, Working
  <2> QED
    BY <2>1, <2>2, <2>3 DEF Route
<1> QED
  BY <1>1, <1>2, <1>3, RunnerGoes DEF Route

\* ModelReads.
LEMMA ModelReadsKeeps == Inv /\ ModelReads => Inv'
<1> SUFFICES ASSUME Inv, ModelReads PROVE Inv'
  OBVIOUS
<1>1. run # None /\ run.at = "model"
  BY DEF ModelReads, RunAt
<1>2. /\ run \in Run /\ run.id # None
      /\ Counted(entry) /\ PublicationFits(entry) /\ RemoteFits(run.id, entry, remote[run.id])
      /\ RunFits(run, entry) /\ entry.pending = None /\ ~Standing(entry)
  BY <1>1, AtFacts DEF Publishing
<1>3. disk \in Bytes \cup {None} /\ "answer" \in Stage
  BY DEF Inv, TypeOK, Stage
<1>4. run' \in Run /\ run'.at = "answer" /\ run'.id = run.id /\ run'.recovery = run.recovery
      /\ run'.repairPending = run.repairPending
  BY <1>2, <1>3, Zenon DEF ModelReads, Run
<1>5. EntryFits(run.id, entry, run')
  BY <1>1, <1>2, <1>4 DEF EntryFits, RunFits, Working
<1> QED
  BY <1>1, <1>2, <1>4, <1>5, RunnerGoes DEF ModelReads

\* ModelFails.
LEMMA ModelFailsKeeps == Inv /\ ModelFails => Inv'
<1> SUFFICES ASSUME Inv, ModelFails PROVE Inv'
  OBVIOUS
<1>1. run # None /\ run.at = "answer" /\ Ends("operational")
  BY DEF ModelFails, RunAt
<1>2. run.id # None
  BY <1>1, AtFacts
<1>3. run' \in Run /\ run'.at = "result" /\ EntryFits(run.id, entry, run')
  BY <1>1, EndsFits DEF Working, Result
<1> QED
  BY <1>1, <1>2, <1>3, RunnerGoes DEF ModelFails

\* Preflight: what a resumed application expects is there.
LEMMA PreflightKeeps == Inv /\ Preflight => Inv'
<1> SUFFICES ASSUME Inv, Preflight PROVE Inv'
  OBVIOUS
<1>1. run # None /\ run.at = "preflight"
  BY DEF Preflight, RunAt
<1>2. /\ run \in Run /\ run.id # None /\ entry \in FeatureRecord
      /\ Counted(entry) /\ PublicationFits(entry) /\ RemoteFits(run.id, entry, remote[run.id])
      /\ RunFits(run, entry) /\ entry.pending = None /\ ~Standing(entry)
  BY <1>1, AtFacts DEF Publishing
<1>3. run' \in Run /\ EntryFits(run.id, entry, run') /\ run'.at \in {"apply", "result"}
  <2>1. CASE Ends("operational")
    BY <1>1, <2>1, EndsFits DEF Working, Result
  <2>2. CASE run' = [run EXCEPT !.at = "apply", !.before = ResumedApplication.before,
                                !.left = ResumedApplication.left]
    <3>1. entry.edits \in Edits /\ entry.prior \in Bytes \cup {None}
      BY <1>1, <1>2 DEF RunFits, FeatureRecord
    <3>2. ResumedApplication.before \in Bytes /\ ResumedApplication.left \in SUBSET Path
      BY <3>1 DEF ResumedApplication, Edits
    <3>3. ResumedApplication.before \in Bytes \cup {None} /\ "apply" \in Stage
      BY <3>2 DEF Stage
    <3>4. run' \in Run /\ run'.at = "apply" /\ run'.id = run.id /\ run'.recovery = run.recovery
          /\ run'.repairPending = run.repairPending /\ run'.before = ResumedApplication.before
      BY <1>2, <2>2, <3>2, <3>3, Zenon DEF Run
    <3>5. run'.before # None
      BY <3>2, <3>4
    <3> QED
      BY <1>1, <1>2, <3>4, <3>5 DEF EntryFits, RunFits, Working
  <2> QED
    BY <2>1, <2>2 DEF Preflight
<1> QED
  BY <1>1, <1>2, <1>3, RunnerGoes DEF Preflight

\* ApplyChecks.
LEMMA ApplyChecksKeeps == Inv /\ ApplyChecks => Inv'
<1> SUFFICES ASSUME Inv, ApplyChecks PROVE Inv'
  OBVIOUS
<1>1. run # None /\ run.at = "apply" /\ gate = None
  BY DEF ApplyChecks, RunAt
<1>2. /\ run \in Run /\ run.id # None
      /\ Counted(entry) /\ PublicationFits(entry) /\ RemoteFits(run.id, entry, remote[run.id])
      /\ RunFits(run, entry) /\ entry.pending = None /\ ~Standing(entry)
  BY <1>1, AtFacts DEF Publishing
<1>3. /\ run' \in Run /\ EntryFits(run.id, entry, run')
      /\ \/ run'.at = "result" /\ gate' = gate
         \/ run'.at = "write" /\ gate' = "runner"
  <2>1. CASE Ends("operational") /\ UNCHANGED gate
    BY <1>1, <2>1, EndsFits DEF Working, Result
  <2>2. CASE Goes("write") /\ gate' = "runner"
    <3>1. run' \in Run /\ run'.at = "write" /\ run'.id = run.id /\ run'.recovery = run.recovery
          /\ run'.repairPending = run.repairPending /\ run'.before = run.before
      BY <1>2, <2>2, GoesFacts DEF Stage
    <3> QED
      BY <1>1, <1>2, <2>2, <3>1 DEF EntryFits, RunFits, Working
  <2> QED
    BY <2>1, <2>2 DEF ApplyChecks
<1>4. flag' \in Flags /\ disk' \in Bytes
  BY DEF Inv, TypeOK, world, ApplyChecks
<1> QED
  BY <1>1, <1>2, <1>3, <1>4, RunnerMoves DEF ApplyChecks, world

\* ApplyEdit.
LEMMA ApplyEditKeeps == \A p \in Path : Inv /\ ApplyEdit(p) => Inv'
<1> SUFFICES ASSUME NEW p \in Path, Inv, ApplyEdit(p) PROVE Inv'
  OBVIOUS
<1>1. run # None /\ run.at = "write" /\ gate = "runner" /\ gate' = None
  BY DEF ApplyEdit, RunAt, Inv, Threads, GateHeld
<1>2. /\ run \in Run /\ run.id # None /\ entry \in FeatureRecord
      /\ Counted(entry) /\ PublicationFits(entry) /\ RemoteFits(run.id, entry, remote[run.id])
      /\ RunFits(run, entry) /\ entry.pending = None /\ ~Standing(entry)
  BY <1>1, AtFacts DEF Publishing
<1>3. run' \in Run /\ EntryFits(run.id, entry, run') /\ run'.at \in {"apply", "result"}
  <2>1. CASE Ends("operational")
    BY <1>1, <2>1, EndsFits DEF Working, Result
  <2>2. CASE run' = [run EXCEPT !.at = "apply", !.left = @ \ {p}]
    <3>1. run.left \ {p} \in SUBSET Path /\ "apply" \in Stage
      BY <1>2 DEF Run, Stage
    <3>2. run' \in Run /\ run'.at = "apply" /\ run'.id = run.id /\ run'.recovery = run.recovery
          /\ run'.repairPending = run.repairPending /\ run'.before = run.before
      BY <1>2, <2>2, <3>1, Zenon DEF Run
    <3> QED
      BY <1>1, <1>2, <3>2 DEF EntryFits, RunFits, Working
  <2> QED
    BY <2>1, <2>2 DEF ApplyEdit
<1>4. disk' \in Bytes
  <2>1. entry.edits \in Edits
    BY <1>1, <1>2 DEF RunFits, FeatureRecord
  <2>2. entry.edits.to[p] \in Version
    BY <2>1 DEF Edits, Bytes
  <2> QED
    BY <2>2 DEF Inv, TypeOK, ApplyEdit, Bytes
<1>5. flag' \in Flags
  BY DEF Inv, TypeOK, ApplyEdit
<1> QED
  BY <1>1, <1>2, <1>3, <1>4, <1>5, RunnerMoves DEF ApplyEdit

\* ValidationChecks.
LEMMA ValidationChecksKeeps == Inv /\ ValidationChecks => Inv'
<1> SUFFICES ASSUME Inv, ValidationChecks PROVE Inv'
  OBVIOUS
<1>1. run # None /\ run.at = "validate" /\ gate = None
  BY DEF ValidationChecks, RunAt
<1>2. /\ run \in Run /\ run.id # None
      /\ Counted(entry) /\ PublicationFits(entry) /\ RemoteFits(run.id, entry, remote[run.id])
      /\ RunFits(run, entry) /\ entry.pending = None /\ ~Standing(entry)
  BY <1>1, AtFacts DEF Publishing
<1>3. /\ run' \in Run /\ EntryFits(run.id, entry, run')
      /\ \/ run'.at = "result" /\ gate' = gate
         \/ run'.at = "spawn" /\ gate' = "runner"
  <2>1. CASE Ends("operational") /\ UNCHANGED gate
    BY <1>1, <2>1, EndsFits DEF Working, Result
  <2>2. CASE Goes("spawn") /\ gate' = "runner"
    <3>1. run' \in Run /\ run'.at = "spawn" /\ run'.id = run.id /\ run'.recovery = run.recovery
          /\ run'.repairPending = run.repairPending
      BY <1>2, <2>2, GoesFacts DEF Stage
    <3> QED
      BY <1>1, <1>2, <2>2, <3>1 DEF EntryFits, RunFits, Working
  <2> QED
    BY <2>1, <2>2 DEF ValidationChecks
<1>4. flag' \in Flags /\ disk' \in Bytes
  BY DEF Inv, TypeOK, world, ValidationChecks
<1> QED
  BY <1>1, <1>2, <1>3, <1>4, RunnerMoves DEF ValidationChecks, world

\* ValidationSpawns.
LEMMA ValidationSpawnsKeeps == Inv /\ ValidationSpawns => Inv'
<1> SUFFICES ASSUME Inv, ValidationSpawns PROVE Inv'
  OBVIOUS
<1>1. run # None /\ run.at = "spawn" /\ gate = "runner" /\ gate' = None
  BY DEF ValidationSpawns, RunAt, Inv, Threads, GateHeld
<1>2. /\ run \in Run /\ run.id # None
      /\ Counted(entry) /\ PublicationFits(entry) /\ RemoteFits(run.id, entry, remote[run.id])
      /\ RunFits(run, entry) /\ entry.pending = None /\ ~Standing(entry)
  BY <1>1, AtFacts DEF Publishing
<1>3. run' \in Run /\ run'.at = "validating" /\ run'.id = run.id /\ run'.recovery = run.recovery
      /\ run'.repairPending = run.repairPending
  BY <1>2, GoesFacts DEF Stage, ValidationSpawns
<1>4. EntryFits(run.id, entry, run')
  BY <1>1, <1>2, <1>3 DEF EntryFits, RunFits, Working
<1>5. flag' \in Flags /\ disk' \in Bytes
  BY DEF Inv, TypeOK, world, ValidationSpawns
<1> QED
  BY <1>1, <1>2, <1>3, <1>4, <1>5, RunnerMoves DEF ValidationSpawns, world

\* ValidationEnds.
LEMMA ValidationEndsKeeps == Inv /\ ValidationEnds => Inv'
<1> SUFFICES ASSUME Inv, ValidationEnds PROVE Inv'
  OBVIOUS
<1>1. run # None /\ run.at = "validating"
  BY DEF ValidationEnds, RunAt
<1>2. /\ run \in Run /\ run.id # None
      /\ Counted(entry) /\ PublicationFits(entry) /\ RemoteFits(run.id, entry, remote[run.id])
      /\ RunFits(run, entry) /\ entry.pending = None /\ ~Standing(entry)
  BY <1>1, AtFacts DEF Publishing
<1>3. run' \in Run /\ EntryFits(run.id, entry, run') /\ run'.at \in {"review", "result"}
  <2>1. CASE Ends("operational")
    BY <1>1, <2>1, EndsFits DEF Working, Result
  <2>2. CASE Ends("validation")
    BY <1>1, <2>2, EndsFits DEF Working, Result
  <2>3. CASE run' = [run EXCEPT !.at = "review", !.observed = disk]
    <3>1. disk \in Bytes \cup {None} /\ "review" \in Stage
      BY DEF Inv, TypeOK, Stage
    <3>2. run' \in Run /\ run'.at = "review" /\ run'.id = run.id /\ run'.recovery = run.recovery
          /\ run'.repairPending = run.repairPending
      BY <1>2, <2>3, <3>1, Zenon DEF Run
    <3> QED
      BY <1>1, <1>2, <3>2 DEF EntryFits, RunFits, Working
  <2> QED
    BY <2>1, <2>2, <2>3 DEF ValidationEnds
<1> QED
  BY <1>1, <1>2, <1>3, RunnerGoes DEF ValidationEnds

\* NextFeature.
LEMMA NextFeatureKeeps == Inv /\ NextFeature => Inv'
<1> SUFFICES ASSUME Inv, NextFeature PROVE Inv'
  OBVIOUS
<1>1. run # None /\ run.at = "next" /\ gate # "runner"
  BY DEF NextFeature, RunAt, Inv, Threads, GateHeld
<1>2. /\ run \in Run /\ run.id # None
      /\ Counted(entry) /\ PublicationFits(entry) /\ RemoteFits(run.id, entry, remote[run.id])
      /\ RunFits(run, entry) /\ entry.pending = None /\ ~Standing(entry)
  BY <1>1, AtFacts DEF Publishing
<1>3. run' \in Run /\ run'.at \in {"select", "finish"} /\ run'.id = None
  <2>1. CASE autoRun
    <3>1. "select" \in Stage
      BY DEF Stage
    <3>2. run' = [NewRun EXCEPT !.at = "select"]
      BY <2>1 DEF NextFeature
    <3>3. run' \in Run /\ run'.at = "select" /\ run'.id = NewRun.id
      BY <3>1, <3>2, NewRunFacts, Zenon DEF Run
    <3> QED
      BY <3>3, NewRunFacts
  <2>2. CASE ~autoRun
    BY <2>2, NewRunFacts DEF NextFeature
  <2> QED
    BY <2>1, <2>2
<1>4. EntryFits(run.id, entry, run')
  BY <1>1, <1>2, <1>3 DEF EntryFits, RunFits, Publishing
<1>5. flag' \in Flags /\ flag'.running = flag.running
      /\ flag'.publicationRunning = flag.publicationRunning
  <2>1. flag \in Flags /\ FALSE \in BOOLEAN
    BY DEF Inv, TypeOK
  <2>2. CASE run.repairPending
    BY <2>1, <2>2, Zenon DEF NextFeature, Flags
  <2> QED
    BY <2>1, <2>2 DEF NextFeature
<1>6. disk' \in Bytes
  BY DEF Inv, TypeOK, world, NextFeature
<1> QED
  BY <1>1, <1>2, <1>3, <1>4, <1>5, <1>6, RunnerMoves DEF NextFeature, world

\* Select: nothing is unresolved while the next feature is looked for.
LEMMA SelectKeeps == Inv /\ Select => Inv'
<1> SUFFICES ASSUME Inv, Select PROVE Inv'
  OBVIOUS
<1>1. run # None /\ run.at = "select" /\ run.id = None /\ run \in Run
  BY DEF Select, RunAt, Inv, Threads, RunHasFeature, TypeOK
<1> DEFINE f == FirstUnfinished
<1>2. /\ feat \in [Feature -> FeatureRecord] /\ f \in Feature \cup {None}
      /\ f # None => Unfinished(f)
  BY FirstFacts DEF Inv, TypeOK
<1> HIDE DEF f
<1>3. publish = None /\ ~lock
  <2>1. publish # None => publish.by \in {"runner", "owner"}
    BY DEF Inv, TypeOK, PublishTask
  <2> QED
    BY <1>1, <2>1 DEF Inv, Threads, Admission, Claim, Partners
<1>4. \A g \in Feature : ~Standing(feat[g]) /\ feat[g].status # "running" /\ feat[g].pending = None
  BY <1>1, <1>3 DEF Inv, Work, Clear, NoneUnresolved, Publishing, RunningIsAttended,
                   PendingIsReviewing, RunAt
<1>5. /\ run' \in Run /\ run'.at \in {"route", "finish"}
      /\ run'.id = None <=> run'.at = "finish"
      /\ run'.id # None => run'.id \in Feature /\ RunFits(run', feat[run'.id])
  <2>1. CASE NothingToSelect
    BY <2>1, NewRunFacts DEF Select
  <2>2. CASE ~NothingToSelect
    <3>1. f \in Feature /\ feat[f] \in FeatureRecord /\ Unfinished(f)
      BY <1>2, <2>2 DEF NothingToSelect, f
    <3>2. /\ RequiresReverification(feat[f]) \in BOOLEAN /\ feat[f].checkpoint \in Checkpoint
          /\ feat[f].repairPending \in BOOLEAN /\ "route" \in Stage /\ f \in Feature \cup {None}
      BY <3>1 DEF RequiresReverification, CompletedPublication, FeatureRecord, Stage
    <3>3. run' = [NewRun EXCEPT !.at = "route", !.id = f, !.checkpoint = feat[f].checkpoint,
                                !.repairPending = feat[f].repairPending,
                                !.recovery = RequiresReverification(feat[f])]
      BY <2>2 DEF Select, f
    <3>4. /\ run' \in Run /\ run'.at = "route" /\ run'.id = f
          /\ run'.checkpoint = feat[f].checkpoint /\ run'.repairPending = feat[f].repairPending
          /\ run'.recovery = RequiresReverification(feat[f])
      BY <3>2, <3>3, NewRunFacts, Zenon DEF Run
    <3>5. PublicationFits(feat[f]) /\ ~Standing(feat[f]) /\ feat[f].status # "running"
      BY <1>4, <3>1 DEF Inv, Work, FeatureInv
    <3>6. feat[f].publication = None \/ feat[f].publication \in Publication
      BY <3>1 DEF FeatureRecord
    <3>7. feat[f].publication # None => feat[f].publication.status = "succeeded"
      BY <3>1, <3>5, <3>6 DEF PublicationFits, Standing, Publication, Unfinished
    <3>8. RunFits(run', feat[f])
      BY <3>1, <3>4, <3>5, <3>7 DEF RunFits, Captured, RequiresReverification, CompletedPublication,
                                   Unfinished, Working
    <3> QED
      BY <3>1, <3>4, <3>8
  <2> QED
    BY <2>1, <2>2
<1>6. UNCHANGED <<feat, paused, autoRun, disk, remote, flag, gate, lock, publish, req, stopped, used>>
  BY DEF Select, durable, world
<1>7. TypeOK'
  BY <1>5, <1>6 DEF Inv, TypeOK
<1>8. Threads'
  <2>1. Admission' /\ Claim'
    BY <1>1, <1>5, <1>6 DEF Inv, Threads, Admission, Held, Claim
  <2>2. Partners' /\ GateHeld' /\ RunHasFeature'
    BY <1>1, <1>3, <1>5, <1>6 DEF Inv, Threads, Partners, GateHeld, RunHasFeature
  <2> QED
    BY <2>1, <2>2 DEF Threads
<1>9. Work'
  <2>1. (\A g \in Feature : FeatureInv(g)') /\ EnqueueInv'
    BY <1>6 DEF Inv, Work, FeatureInv, EnqueueInv
  <2>2. RunInv' /\ PublishInv'
    BY <1>3, <1>5, <1>6 DEF RunInv, PublishInv
  <2>3. Clear' /\ RunningIsAttended' /\ PendingIsReviewing'
    BY <1>4, <1>6 DEF Clear, NoneUnresolved, RunningIsAttended, PendingIsReviewing
  <2>4. BarrierHolds'
    BY <1>4, <1>6 DEF BarrierHolds, Unresolved, Standing
  <2> QED
    BY <2>1, <2>2, <2>3, <2>4 DEF Work
<1> QED
  BY <1>7, <1>8, <1>9 DEF Inv

-----------------------------------------------------------------------------
(* Steps that save the entry *)

\* Begin: the model is only asked when its answer is not there yet.
LEMMA BeginKeeps == Inv /\ Begin => Inv'
<1> SUFFICES ASSUME Inv, Begin PROVE Inv'
  OBVIOUS
<1>1. run # None /\ run.at = "begin"
  BY DEF Begin, RunAt
<1>2. /\ run \in Run /\ run.id # None /\ entry \in FeatureRecord
      /\ Counted(entry) /\ PublicationFits(entry) /\ RemoteFits(run.id, entry, remote[run.id])
      /\ RunFits(run, entry) /\ entry.pending = None /\ ~Standing(entry)
  BY <1>1, AtFacts DEF Publishing
<1> DEFINE s == IF entry.pending = None THEN "pending" ELSE entry.reviewStatus
           e == [entry EXCEPT !.status = "running", !.reviewStatus = s]
           to == IF ~Retains THEN "model"
                 ELSE IF run.checkpoint \in ReviewCheckpoint THEN "refresh"
                 ELSE IF ReusesRetainedEdits(run.checkpoint) THEN "validate" ELSE "preflight"
<1>3. Saves(e) /\ Goes(to)
  BY DEF Begin
<1>4. /\ s \in {"pending", "reviewing", "approved", "rejected", "unavailable", "interrupted"}
      /\ "running" \in Status
  BY <1>2 DEF Status
<1> HIDE DEF s
<1>5. /\ e \in FeatureRecord /\ e.status = "running" /\ e.checkpoint = entry.checkpoint
      /\ e.edits = entry.edits /\ e.repairs = entry.repairs /\ e.repairPending = entry.repairPending
      /\ e.pending = entry.pending /\ e.last = entry.last /\ e.publication = entry.publication
      /\ e.candidates = entry.candidates
  BY <1>2, <1>4, Zenon DEF FeatureRecord
<1>6. to \in {"model", "refresh", "validate", "preflight"} /\ to \in Stage
  BY DEF Stage
<1>7. to \in {"refresh", "preflight"} => entry.edits # None
  BY DEF Retains
<1>8. to = "model" => entry.candidates <= entry.repairs
  <2> SUFFICES ASSUME ~Retains PROVE entry.candidates <= entry.repairs
    OBVIOUS
  <2>1. entry.candidates \in Nat /\ entry.repairs \in Nat
    BY <1>2 DEF FeatureRecord
  <2>2. run.checkpoint = entry.checkpoint /\ run.repairPending = entry.repairPending
        /\ entry.publication = None
    BY <1>1, <1>2 DEF RunFits, Captured, Working
  <2> QED
    BY <1>2, <2>1, <2>2 DEF Retains, Counted, HasPreparedCandidate, ReviewCheckpoint
<1> HIDE DEF e, to
<1>9. run' \in Run /\ run'.at = to /\ run'.id = run.id /\ run'.recovery = run.recovery
      /\ run'.repairPending = run.repairPending
  BY <1>2, <1>3, <1>6, GoesFacts
<1>10. EntryFits(run.id, e, run')
  <2>1. Counted(e) /\ PublicationFits(e) /\ RemoteFits(run.id, e, remote[run.id]) /\ ~Standing(e)
    BY <1>1, <1>2, <1>5 DEF Counted, PublicationFits, RemoteFits, RunFits, Working, Standing
  <2>2. RunFits(run', e)
    BY <1>1, <1>2, <1>5, <1>6, <1>7, <1>8, <1>9 DEF RunFits, Working
  <2> QED
    BY <1>2, <1>5, <1>6, <1>9, <2>1, <2>2 DEF EntryFits
<1> QED
  BY <1>1, <1>2, <1>3, <1>5, <1>6, <1>9, <1>10, RunnerSaves DEF Begin

\* Refresh.
LEMMA RefreshKeeps == Inv /\ Refresh => Inv'
<1> SUFFICES ASSUME Inv, Refresh PROVE Inv'
  OBVIOUS
<1>1. run # None /\ run.at = "refresh"
  BY DEF Refresh, RunAt
<1>2. /\ run \in Run /\ run.id # None /\ entry \in FeatureRecord
      /\ Counted(entry) /\ PublicationFits(entry) /\ RemoteFits(run.id, entry, remote[run.id])
      /\ RunFits(run, entry) /\ entry.pending = None /\ ~Standing(entry)
  BY <1>1, AtFacts DEF Publishing
<1> DEFINE d == [entry.edits EXCEPT !.to = disk]
           e == [entry EXCEPT !.edits = d]
<1>3. entry.edits \in Edits /\ disk \in Bytes
  BY <1>1, <1>2 DEF RunFits, FeatureRecord, Inv, TypeOK
<1>4. d \in Edits
  BY <1>3 DEF Edits
<1>5. Saves(e)
  BY DEF Refresh
<1> HIDE DEF d
<1>6. d \in Edits \cup {None} /\ d # None
  BY <1>4
<1>7. /\ e \in FeatureRecord /\ e.status = entry.status /\ e.checkpoint = entry.checkpoint
      /\ e.edits = d /\ e.repairs = entry.repairs /\ e.repairPending = entry.repairPending
      /\ e.pending = entry.pending /\ e.last = entry.last /\ e.publication = entry.publication
      /\ e.candidates = entry.candidates
  BY <1>2, <1>6, Zenon DEF FeatureRecord
<1> HIDE DEF e
<1>8. run' \in Run /\ run'.at = "validate" /\ run'.id = run.id /\ run'.recovery = run.recovery
      /\ run'.repairPending = run.repairPending
  BY <1>2, GoesFacts DEF Stage, Refresh
<1>9. EntryFits(run.id, e, run')
  <2>1. Counted(e) /\ PublicationFits(e) /\ RemoteFits(run.id, e, remote[run.id]) /\ ~Standing(e)
    BY <1>2, <1>6, <1>7 DEF Counted, PublicationFits, RemoteFits, Standing
  <2>2. RunFits(run', e)
    BY <1>1, <1>2, <1>7, <1>8 DEF RunFits, Working
  <2> QED
    BY <1>2, <1>7, <1>8, <2>1, <2>2 DEF EntryFits
<1> QED
  BY <1>1, <1>2, <1>5, <1>7, <1>8, <1>9, RunnerSaves DEF Refresh

\* ModelAnswers: the answer is counted against the repair it was asked for.
LEMMA ModelAnswersKeeps == Inv /\ ModelAnswers => Inv'
<1> SUFFICES ASSUME Inv, ModelAnswers PROVE Inv'
  OBVIOUS
<1>1. run # None /\ run.at = "answer" /\ gate # "runner"
  BY DEF ModelAnswers, RunAt, Inv, Threads, GateHeld
<1>2. /\ run \in Run /\ run.id # None /\ entry \in FeatureRecord
      /\ Counted(entry) /\ PublicationFits(entry) /\ RemoteFits(run.id, entry, remote[run.id])
      /\ RunFits(run, entry) /\ entry.pending = None /\ ~Standing(entry)
  BY <1>1, AtFacts DEF Publishing
<1>3. /\ disk \in Bytes /\ used.versions < MaxVersion
      /\ used \in [versions : 0 .. MaxVersion, restarts : 0 .. MaxRestarts, stops : 0 .. MaxStops,
               outside : 0 .. MaxOutside]
  BY DEF Inv, TypeOK, ModelAnswers
<1> DEFINE d == Candidate(entry)
           n == entry.candidates + 1
           c == IF run.repairPending THEN "repair_prepared" ELSE "prepared"
           e == [entry EXCEPT !.edits = d, !.candidates = n, !.checkpoint = c]
<1>4. Saves(e)
  BY DEF ModelAnswers
<1>5. d \in Edits \cup {None} /\ d # None
  <2>1. [p \in Path |-> used.versions + 1] \in Bytes
    BY <1>3 DEF Bytes, Version
  <2>2. entry.edits # None => entry.edits.before \in Bytes
    BY <1>2 DEF FeatureRecord, Edits
  <2>3. d \in Edits
    BY <1>3, <2>1, <2>2 DEF Candidate, Edits
  <2> QED
    BY <2>3
<1>6. /\ entry.candidates \in Nat /\ entry.repairs \in 0 .. RepairLimit
      /\ entry.candidates <= entry.repairs
  BY <1>1, <1>2 DEF RunFits, FeatureRecord
<1>7. n \in 0 .. RepairLimit + 1 /\ n <= entry.repairs + 1 /\ c \in Checkpoint
  BY <1>6 DEF Checkpoint
<1> HIDE DEF d, n
<1>8. /\ e \in FeatureRecord /\ e.status = entry.status /\ e.checkpoint = c
      /\ e.edits = d /\ e.repairs = entry.repairs /\ e.repairPending = entry.repairPending
      /\ e.pending = entry.pending /\ e.last = entry.last /\ e.publication = entry.publication
      /\ e.candidates = n
  <2> HIDE DEF c
  <2> QED
    BY <1>2, <1>5, <1>7, Zenon DEF FeatureRecord
<1> HIDE DEF e
<1>9. /\ run' \in Run /\ run'.at = "apply" /\ run'.id = run.id /\ run'.recovery = run.recovery
      /\ run'.repairPending = run.repairPending /\ run'.before = disk
  <2>1. disk \in Bytes \cup {None} /\ Path \in SUBSET Path /\ "apply" \in Stage
    BY <1>3 DEF Stage
  <2> QED
    BY <1>2, <2>1, Zenon DEF ModelAnswers, Run
<1>10. run'.before # None
  BY <1>3, <1>9
<1>11. EntryFits(run.id, e, run')
  <2>1. run.repairPending = entry.repairPending /\ entry.publication = None
    BY <1>1, <1>2 DEF RunFits, Working
  <2>2. Counted(e)
    BY <1>2, <1>5, <1>7, <1>8, <2>1 DEF Counted
  <2>3. PublicationFits(e) /\ RemoteFits(run.id, e, remote[run.id]) /\ ~Standing(e)
    BY <1>2, <1>8, <2>1 DEF PublicationFits, RemoteFits, Standing
  <2>4. RunFits(run', e)
    BY <1>1, <1>2, <1>5, <1>8, <1>9, <1>10, <2>1 DEF RunFits, Working
  <2> QED
    BY <1>2, <1>8, <1>9, <2>2, <2>3, <2>4 DEF EntryFits
<1>12. used' \in [versions : 0 .. MaxVersion, restarts : 0 .. MaxRestarts, stops : 0 .. MaxStops,
               outside : 0 .. MaxOutside]
  BY <1>3 DEF ModelAnswers
<1>13. /\ flag' \in Flags /\ req' \in Requests /\ paused' \in BOOLEAN /\ disk' \in Bytes
       /\ SameRequests(req', req) /\ gate' = gate
       /\ flag'.running = flag.running /\ flag'.publicationRunning = flag.publicationRunning
  BY DEF ModelAnswers, Inv, TypeOK, world, SameRequests
<1> QED
  BY <1>1, <1>2, <1>4, <1>8, <1>9, <1>11, <1>12, <1>13, RunnerKeeps DEF ModelAnswers, world

\* Applied.
LEMMA AppliedKeeps == Inv /\ Applied => Inv'
<1> SUFFICES ASSUME Inv, Applied PROVE Inv'
  OBVIOUS
<1>1. run # None /\ run.at = "apply"
  BY DEF Applied, RunAt
<1>2. /\ run \in Run /\ run.id # None /\ entry \in FeatureRecord
      /\ Counted(entry) /\ PublicationFits(entry) /\ RemoteFits(run.id, entry, remote[run.id])
      /\ RunFits(run, entry) /\ entry.pending = None /\ ~Standing(entry)
  BY <1>1, AtFacts DEF Publishing
<1> DEFINE c == IF run.repairPending THEN "repair_applied" ELSE "applied"
           e == [entry EXCEPT !.status = "running", !.checkpoint = c]
<1>3. Saves(e) /\ Goes("validate")
  BY DEF Applied
<1>4. c \in Checkpoint /\ "running" \in Status
  BY DEF Checkpoint, Status
<1>5. /\ e \in FeatureRecord /\ e.status = "running" /\ e.checkpoint = c
      /\ e.edits = entry.edits /\ e.repairs = entry.repairs /\ e.repairPending = entry.repairPending
      /\ e.pending = entry.pending /\ e.last = entry.last /\ e.publication = entry.publication
      /\ e.candidates = entry.candidates
  <2> HIDE DEF c
  <2> QED
    BY <1>2, <1>4, Zenon DEF FeatureRecord
<1> HIDE DEF e
<1>6. run' \in Run /\ run'.at = "validate" /\ run'.id = run.id /\ run'.recovery = run.recovery
      /\ run'.repairPending = run.repairPending
  BY <1>2, <1>3, GoesFacts DEF Stage
<1>7. EntryFits(run.id, e, run')
  <2>1. run.repairPending = entry.repairPending /\ entry.publication = None
    BY <1>1, <1>2 DEF RunFits, Working
  <2>2. Counted(e) /\ PublicationFits(e) /\ RemoteFits(run.id, e, remote[run.id]) /\ ~Standing(e)
    BY <1>2, <1>5, <2>1 DEF Counted, PublicationFits, RemoteFits, Standing
  <2>3. RunFits(run', e)
    BY <1>1, <1>2, <1>5, <1>6, <2>1 DEF RunFits, Working
  <2> QED
    BY <1>2, <1>5, <1>6, <2>2, <2>3 DEF EntryFits
<1> QED
  BY <1>1, <1>2, <1>3, <1>5, <1>6, <1>7, RunnerSaves DEF Applied

\* Setting the latches leaves the other atomics alone.
LEMMA LatchedFacts ==
  ASSUME flag \in Flags, NEW n \in 0 .. 2
  PROVE  /\ LatchedTo(n) \in Flags
         /\ LatchedTo(n).cancellation = Max2(flag.cancellation, n)
         /\ LatchedTo(n).publicationCancellation = Max2(flag.publicationCancellation, n)
         /\ LatchedTo(n).running = flag.running /\ LatchedTo(n).authorized = flag.authorized
         /\ LatchedTo(n).publicationRunning = flag.publicationRunning
         /\ LatchedTo(n).shutdown = flag.shutdown
<1>1. /\ Max2(flag.cancellation, n) \in 0 .. 2
      /\ Max2(flag.publicationCancellation, n) \in 0 .. 2
  BY DEF Max2, Flags
<1> QED
  BY <1>1, Zenon DEF LatchedTo, Flags

\* ValidationUnconfirmed.
LEMMA ValidationUnconfirmedKeeps == Inv /\ ValidationUnconfirmed => Inv'
<1> SUFFICES ASSUME Inv, ValidationUnconfirmed PROVE Inv'
  OBVIOUS
<1>1. run # None /\ run.at = "validating" /\ gate = None
  BY DEF ValidationUnconfirmed, RunAt
<1>2. /\ run \in Run /\ run.id # None /\ entry \in FeatureRecord
      /\ Counted(entry) /\ PublicationFits(entry) /\ RemoteFits(run.id, entry, remote[run.id])
      /\ RunFits(run, entry) /\ entry.pending = None /\ ~Standing(entry)
  BY <1>1, AtFacts DEF Publishing
<1> DEFINE e == [entry EXCEPT !.status = "failed", !.checkpoint = "validation_cleanup_unconfirmed",
                              !.repairPending = FALSE, !.quarantined = TRUE]
<1>3. Saves(e) /\ Stops
  BY DEF ValidationUnconfirmed
<1>4. "validation_cleanup_unconfirmed" \in Checkpoint /\ "failed" \in Status
      /\ TRUE \in BOOLEAN /\ FALSE \in BOOLEAN
  BY DEF Checkpoint, Status
<1>5. /\ e \in FeatureRecord /\ e.status = "failed" /\ e.checkpoint = "validation_cleanup_unconfirmed"
      /\ e.edits = entry.edits /\ e.repairs = entry.repairs /\ e.repairPending = FALSE
      /\ e.pending = entry.pending /\ e.last = entry.last /\ e.publication = entry.publication
      /\ e.candidates = entry.candidates
  BY <1>2, <1>4, Zenon DEF FeatureRecord
<1> HIDE DEF e
<1>6. entry.publication = None
  BY <1>1, <1>2 DEF RunFits, Working
<1>7. Counted(e) /\ PublicationFits(e) /\ RemoteFits(run.id, e, remote[run.id])
      /\ e.status # "running" /\ e.pending = None
  BY <1>2, <1>5, <1>6 DEF Counted, PublicationFits, RemoteFits
<1>8. run' \in Run /\ run'.at = "finish" /\ EntryFits(run.id, e, run')
  BY <1>3, <1>7, StopsFits
<1>9. flag' \in Flags /\ flag'.running = flag.running
      /\ flag'.publicationRunning = flag.publicationRunning
  <2>1. flag \in Flags /\ FALSE \in BOOLEAN
    BY DEF Inv, TypeOK
  <2>2. /\ LatchedTo(2) \in Flags /\ LatchedTo(2).running = flag.running
        /\ LatchedTo(2).publicationRunning = flag.publicationRunning
    BY <2>1, LatchedFacts
  <2> QED
    BY <2>1, <2>2, Zenon DEF ValidationUnconfirmed, Flags
<1>10. req' \in Requests /\ SameRequests(req', req)
  <2>1. req \in Requests
    BY DEF Inv, TypeOK
  <2> QED
    BY <2>1, EpochFacts DEF ValidationUnconfirmed, SameRequests
<1>11. /\ disk' \in Bytes /\ paused' \in BOOLEAN
       /\ used' \in [versions : 0 .. MaxVersion, restarts : 0 .. MaxRestarts, stops : 0 .. MaxStops,
               outside : 0 .. MaxOutside]
       /\ UNCHANGED <<autoRun, remote, lock, publish, stopped>> /\ gate' = gate
  BY DEF ValidationUnconfirmed, world, Inv, TypeOK
<1> QED
  BY <1>1, <1>2, <1>3, <1>5, <1>8, <1>9, <1>10, <1>11, RunnerKeeps

\* ReviewBegins.
LEMMA ReviewBeginsKeeps == Inv /\ ReviewBegins => Inv'
<1> SUFFICES ASSUME Inv, ReviewBegins PROVE Inv'
  OBVIOUS
<1>1. run # None /\ run.at = "review"
  BY DEF ReviewBegins, RunAt
<1>2. /\ run \in Run /\ run.id # None /\ entry \in FeatureRecord
      /\ Counted(entry) /\ PublicationFits(entry) /\ RemoteFits(run.id, entry, remote[run.id])
      /\ RunFits(run, entry) /\ entry.pending = None /\ ~Standing(entry)
  BY <1>1, AtFacts DEF Publishing
<1>3. CASE Ends("operational") /\ UNCHANGED feat
  <2>1. run' \in Run /\ run'.at = "result" /\ EntryFits(run.id, entry, run')
    BY <1>1, <1>3, EndsFits DEF Working, Result
  <2> QED
    BY <1>1, <1>2, <1>3, <2>1, RunnerGoes DEF ReviewBegins, durable
<1>4. CASE entry.reviews < ReviewLimit /\ Goes("reviewing")
           /\ Saves([entry EXCEPT !.pending = disk, !.reviews = @ + 1, !.reviewStatus = "reviewing",
                                  !.checkpoint = "review_pending"])
  <2> DEFINE n == entry.reviews + 1
             e == [entry EXCEPT !.pending = disk, !.reviews = n, !.reviewStatus = "reviewing",
                                !.checkpoint = "review_pending"]
  <2>1. /\ disk \in Bytes \cup {None} /\ disk # None /\ n \in 0 .. ReviewLimit
        /\ "review_pending" \in Checkpoint /\ "reviewing" \in Stage
        /\ "reviewing" \in {"pending", "reviewing", "approved", "rejected", "unavailable", "interrupted"}
    BY <1>2, <1>4 DEF Inv, TypeOK, FeatureRecord, Checkpoint, ReviewCheckpoint, Stage
  <2>2. Saves(e)
    BY <1>4
  <2> HIDE DEF n
  <2>3. /\ e \in FeatureRecord /\ e.status = entry.status /\ e.checkpoint = "review_pending"
        /\ e.edits = entry.edits /\ e.repairs = entry.repairs /\ e.repairPending = entry.repairPending
        /\ e.pending = disk /\ e.last = entry.last /\ e.publication = entry.publication
        /\ e.candidates = entry.candidates
    BY <1>2, <2>1, Zenon DEF FeatureRecord
  <2> HIDE DEF e
  <2>4. run' \in Run /\ run'.at = "reviewing" /\ run'.id = run.id /\ run'.recovery = run.recovery
        /\ run'.repairPending = run.repairPending
    BY <1>2, <1>4, <2>1, GoesFacts
  <2>5. EntryFits(run.id, e, run')
    <3>1. run.repairPending = entry.repairPending /\ entry.publication = None /\ entry.status = "running"
      BY <1>1, <1>2 DEF RunFits, Working
    <3>2. Counted(e)
      BY <1>2, <2>3, <3>1 DEF Counted, ReviewCheckpoint
    <3>3. PublicationFits(e) /\ RemoteFits(run.id, e, remote[run.id]) /\ ~Standing(e)
      BY <1>2, <2>3, <3>1 DEF PublicationFits, RemoteFits, Standing
    <3>4. RunFits(run', e)
      BY <1>1, <1>2, <2>1, <2>3, <2>4, <3>1 DEF RunFits, Working
    <3> QED
      BY <1>2, <2>3, <2>4, <3>2, <3>3, <3>4 DEF EntryFits
  <2> QED
    BY <1>1, <1>2, <2>2, <2>3, <2>4, <2>5, RunnerSaves DEF ReviewBegins
<1> QED
  BY <1>3, <1>4 DEF ReviewBegins

\* A review that was begun comes to an end, whatever it says.
LEMMA ReviewEnds ==
  ASSUME Inv, run # None, run.at = "reviewing",
         NEW o \in {"approved", "rejected", "unavailable", "interrupted"},
         NEW c \in ReviewCheckpoint, NEW r \in Result,
         Saves([entry EXCEPT !.last = [outcome |-> o, packet |-> entry.pending], !.pending = None,
                             !.reviewStatus = o, !.checkpoint = c]),
         Ends(r),
         UNCHANGED <<paused, autoRun, world, flag, gate, lock, publish, req, stopped, used>>
  PROVE  Inv'
<1>1. /\ run \in Run /\ run.id # None /\ entry \in FeatureRecord
      /\ Counted(entry) /\ PublicationFits(entry) /\ RemoteFits(run.id, entry, remote[run.id])
      /\ RunFits(run, entry) /\ ~Standing(entry)
  BY AtFacts DEF Publishing
<1> DEFINE l == [outcome |-> o, packet |-> entry.pending]
           e == [entry EXCEPT !.last = l, !.pending = None, !.reviewStatus = o, !.checkpoint = c]
<1>2. entry.pending \in Bytes
  BY <1>1 DEF RunFits, FeatureRecord
<1>3. /\ l \in Review \cup {None} /\ c \in Checkpoint /\ None \in Bytes \cup {None}
      /\ o \in {"pending", "reviewing", "approved", "rejected", "unavailable", "interrupted"}
  BY <1>2 DEF Review, Checkpoint
<1>4. Saves(e)
  OBVIOUS
<1> HIDE DEF l
<1>5. /\ e \in FeatureRecord /\ e.status = entry.status /\ e.checkpoint = c
      /\ e.edits = entry.edits /\ e.repairs = entry.repairs /\ e.repairPending = entry.repairPending
      /\ e.pending = None /\ e.publication = entry.publication /\ e.candidates = entry.candidates
  BY <1>1, <1>3, Zenon DEF FeatureRecord
<1> HIDE DEF e
<1>6. run' \in Run /\ run'.at = "result" /\ run'.id = run.id /\ run'.recovery = run.recovery
  BY <1>1, EndsFacts
<1>7. entry.publication = None /\ ~run.recovery /\ entry.status # "absent"
  BY <1>1 DEF RunFits, Working
<1>8. EntryFits(run.id, e, run')
  <2>1. c # "repair_reserved" /\ c # "publication_attention"
    BY DEF ReviewCheckpoint
  <2>2. Counted(e) /\ PublicationFits(e) /\ RemoteFits(run.id, e, remote[run.id]) /\ ~Standing(e)
    BY <1>1, <1>5, <1>7, <2>1 DEF Counted, PublicationFits, RemoteFits, Standing
  <2>3. RunFits(run', e)
    BY <1>5, <1>6, <1>7 DEF RunFits, Working
  <2> QED
    BY <1>1, <1>5, <1>6, <2>2, <2>3 DEF EntryFits
<1> QED
  BY <1>1, <1>4, <1>5, <1>6, <1>8, RunnerSaves

\* ReviewUnavailable, ReviewInterrupted and ReviewDecides.
LEMMA ReviewKeeps ==
  /\ Inv /\ ReviewUnavailable => Inv'
  /\ Inv /\ ReviewInterrupted => Inv'
  /\ \A o \in {"approved", "rejected"} : Inv /\ ReviewDecides(o) => Inv'
<1>1. ASSUME Inv, ReviewUnavailable PROVE Inv'
  BY <1>1, ReviewEnds DEF ReviewUnavailable, RunAt, ReviewCheckpoint, Result
<1>2. ASSUME Inv, ReviewInterrupted PROVE Inv'
  BY <1>2, ReviewEnds DEF ReviewInterrupted, Interrupted, RunAt, ReviewCheckpoint, Result
<1>3. ASSUME NEW o \in {"approved", "rejected"}, Inv, ReviewDecides(o) PROVE Inv'
  <2> DEFINE c == IF o = "approved" THEN "review_approved" ELSE "review_rejected"
             r == IF o = "approved" THEN "ok" ELSE "rejected"
  <2>1. c \in ReviewCheckpoint /\ r \in Result
    BY DEF ReviewCheckpoint, Result
  <2>2. /\ run # None /\ run.at = "reviewing" /\ Ends(r)
        /\ Saves([entry EXCEPT !.last = [outcome |-> o, packet |-> entry.pending], !.pending = None,
                               !.reviewStatus = o, !.checkpoint = c])
        /\ UNCHANGED <<paused, autoRun, world, flag, gate, lock, publish, req, stopped, used>>
    BY <1>3 DEF ReviewDecides, RunAt
  <2> HIDE DEF c, r
  <2> QED
    BY <1>3, <2>1, <2>2, ReviewEnds
<1> QED
  BY <1>1, <1>2, <1>3

\* AfterRun.
LEMMA AfterRunKeeps == Inv /\ AfterRun => Inv'
<1> SUFFICES ASSUME Inv, AfterRun PROVE Inv'
  OBVIOUS
<1>1. run # None /\ run.at = "result"
  BY DEF AfterRun, RunAt
<1>2. /\ run \in Run /\ run.id # None /\ entry \in FeatureRecord
      /\ Counted(entry) /\ PublicationFits(entry) /\ RemoteFits(run.id, entry, remote[run.id])
      /\ RunFits(run, entry) /\ entry.pending = None
  BY <1>1, AtFacts
<1>3. CASE cancelled
  <2> DEFINE attention == entry.publication # None /\ entry.publication.status = "attention"
             e == IF attention
                  THEN [entry EXCEPT !.status = "failed", !.checkpoint = "publication_attention"]
                  ELSE IF entry.status = "succeeded" THEN entry ELSE [entry EXCEPT !.status = "paused"]
  <2>1. Saves(e) /\ Stops
    BY <1>3 DEF AfterRun
  <2>2. e \in FeatureRecord /\ Counted(e) /\ PublicationFits(e) /\ RemoteFits(run.id, e, remote[run.id])
        /\ e.status # "running" /\ e.pending = None
    <3>1. "failed" \in Status /\ "paused" \in Status /\ "publication_attention" \in Checkpoint
      BY DEF Status, Checkpoint, PublicationCheckpoint
    <3>2. CASE attention
      <4> DEFINE x == [entry EXCEPT !.status = "failed", !.checkpoint = "publication_attention"]
      <4>1. /\ x \in FeatureRecord /\ x.status = "failed" /\ x.checkpoint = "publication_attention"
            /\ x.edits = entry.edits /\ x.repairs = entry.repairs
            /\ x.repairPending = entry.repairPending /\ x.pending = entry.pending
            /\ x.last = entry.last /\ x.publication = entry.publication
            /\ x.candidates = entry.candidates
        BY <1>2, <3>1, Zenon DEF FeatureRecord
      <4>2. e = x
        BY <3>2
      <4> HIDE DEF x, e
      <4> QED
        BY <1>2, <3>2, <4>1, <4>2 DEF Counted, PublicationFits, RemoteFits
    <3>3. CASE ~attention /\ entry.status = "succeeded"
      BY <1>2, <3>3
    <3>4. CASE ~attention /\ entry.status # "succeeded"
      <4> DEFINE x == [entry EXCEPT !.status = "paused"]
      <4>1. /\ x \in FeatureRecord /\ x.status = "paused" /\ x.checkpoint = entry.checkpoint
            /\ x.edits = entry.edits /\ x.repairs = entry.repairs
            /\ x.repairPending = entry.repairPending /\ x.pending = entry.pending
            /\ x.last = entry.last /\ x.publication = entry.publication
            /\ x.candidates = entry.candidates
        BY <1>2, <3>1, Zenon DEF FeatureRecord
      <4>2. e = x
        BY <3>4
      <4>3. entry.publication # None => entry.publication.status # "abandoned"
        BY <1>2 DEF RunFits
      <4> HIDE DEF x, e
      <4> QED
        BY <1>2, <3>4, <4>1, <4>2, <4>3 DEF Counted, PublicationFits, RemoteFits
    <3> QED
      BY <3>2, <3>3, <3>4
  <2> HIDE DEF e
  <2>3. run' \in Run /\ run'.at = "finish" /\ EntryFits(run.id, e, run')
    BY <2>1, <2>2, StopsFits
  <2> QED
    BY <1>1, <1>2, <2>1, <2>2, <2>3, RunnerSaves DEF AfterRun
<1>4. CASE ~cancelled
  <2> DEFINE to == IF run.result # "ok" THEN "failing" ELSE IF run.recovery THEN "next" ELSE "complete"
  <2>1. Goes(to) /\ feat' = feat /\ to \in Stage /\ to \in {"failing", "next", "complete"}
    BY <1>4 DEF AfterRun, Stage
  <2>2. run' \in Run /\ run'.at = to /\ run'.id = run.id /\ run'.recovery = run.recovery
        /\ run'.result = run.result
    <3> HIDE DEF to
    <3> QED
      BY <1>2, <2>1, GoesFacts
  <2>3. EntryFits(run.id, entry, run')
    <3>1. RunFits(run', entry)
      BY <1>1, <1>2, <2>2 DEF RunFits, Working
    <3>2. Standing(entry) => to \in Publishing
      BY <1>1, <1>2 DEF RunFits, Publishing, Standing
    <3> QED
      BY <1>2, <2>1, <2>2, <3>1, <3>2 DEF EntryFits
  <2> QED
    BY <1>1, <1>2, <2>1, <2>2, <2>3, RunnerGoes DEF AfterRun, durable
<1> QED
  BY <1>3, <1>4

\* What reserve_repair_attempt leaves: one more repair that has no answer yet.
LEMMA ReservedFacts ==
  ASSUME NEW e \in FeatureRecord, Counted(e), e.repairs < RepairLimit
  PROVE  /\ Reserved(e) \in FeatureRecord /\ Counted(Reserved(e))
         /\ Reserved(e).status = "queued" /\ Reserved(e).checkpoint = "repair_reserved"
         /\ Reserved(e).pending = None /\ Reserved(e).last = e.last
         /\ Reserved(e).publication = e.publication
<1> DEFINE p == IF e.edits = None THEN None ELSE e.edits.to
           n == e.repairs + 1
           x == [e EXCEPT !.prior = p, !.repairs = n, !.repairPending = TRUE,
                          !.reviewStatus = "pending", !.pending = None,
                          !.status = "queued", !.checkpoint = "repair_reserved"]
<1>1. Reserved(e) = x
  BY DEF Reserved
<1>2. p \in Bytes \cup {None}
  BY DEF FeatureRecord, Edits
<1>3. n \in 0 .. RepairLimit /\ e.repairs \in Nat /\ e.candidates \in Nat
  BY DEF FeatureRecord
<1>4. /\ "queued" \in Status /\ "repair_reserved" \in Checkpoint /\ TRUE \in BOOLEAN
      /\ "pending" \in {"pending", "reviewing", "approved", "rejected", "unavailable", "interrupted"}
      /\ None \in Bytes \cup {None}
  BY DEF Status, Checkpoint
<1>5. /\ x \in FeatureRecord /\ x.status = "queued" /\ x.checkpoint = "repair_reserved"
      /\ x.pending = None /\ x.repairs = n /\ x.repairPending = TRUE
      /\ x.edits = e.edits /\ x.last = e.last /\ x.publication = e.publication
      /\ x.candidates = e.candidates
  <2> HIDE DEF p, n
  <2> QED
    BY <1>2, <1>3, <1>4, Zenon DEF FeatureRecord
<1>6. Counted(x)
  <2> HIDE DEF x
  <2> QED
    BY <1>3, <1>5 DEF Counted
<1> QED
  BY <1>1, <1>5, <1>6

\* Failing.
LEMMA FailingKeeps == Inv /\ Failing => Inv'
<1> SUFFICES ASSUME Inv, Failing PROVE Inv'
  OBVIOUS
<1>1. run # None /\ run.at = "failing" /\ gate # "runner"
  BY DEF Failing, RunAt, Inv, Threads, GateHeld
<1>2. /\ run \in Run /\ run.id # None /\ entry \in FeatureRecord
      /\ Counted(entry) /\ PublicationFits(entry) /\ RemoteFits(run.id, entry, remote[run.id])
      /\ RunFits(run, entry) /\ entry.pending = None
  BY <1>1, AtFacts
<1> DEFINE failed == [entry EXCEPT !.status = "failed", !.repairPending = FALSE]
<1>3. /\ failed \in FeatureRecord /\ failed.status = "failed" /\ failed.repairPending = FALSE
      /\ failed.checkpoint = entry.checkpoint /\ failed.edits = entry.edits
      /\ failed.repairs = entry.repairs /\ failed.pending = entry.pending
      /\ failed.last = entry.last /\ failed.publication = entry.publication
      /\ failed.candidates = entry.candidates
  <2>1. "failed" \in Status /\ FALSE \in BOOLEAN
    BY DEF Status
  <2> QED
    BY <1>2, <2>1, Zenon DEF FeatureRecord
<1>4. \/ RepairsAgain /\ Saves(Reserved(failed)) /\ run' = NewRun
      \/ Saves(failed) /\ Stops
  BY DEF Failing
<1> HIDE DEF failed
<1>5. Counted(failed) /\ PublicationFits(failed) /\ RemoteFits(run.id, failed, remote[run.id])
  <2>1. entry.publication # None => entry.publication.status # "abandoned"
    BY <1>2 DEF RunFits
  <2> QED
    BY <1>2, <1>3, <2>1 DEF Counted, PublicationFits, RemoteFits
<1>6. PICK e \in FeatureRecord : /\ Saves(e) /\ run' \in Run /\ run'.at \in {"select", "finish"}
                                 /\ EntryFits(run.id, e, run')
  <2>1. CASE RepairsAgain /\ Saves(Reserved(failed)) /\ run' = NewRun
    <3>1. entry.publication = None /\ failed.repairs < RepairLimit
      BY <1>1, <1>2, <1>3, <2>1 DEF RepairsAgain, RunFits
    <3>2. /\ Reserved(failed) \in FeatureRecord /\ Counted(Reserved(failed))
          /\ Reserved(failed).status = "queued" /\ Reserved(failed).checkpoint = "repair_reserved"
          /\ Reserved(failed).pending = None /\ Reserved(failed).publication = None
      BY <1>3, <1>5, <3>1, ReservedFacts
    <3>3. run' \in Run /\ run'.at = "select" /\ run'.id = None
      BY <2>1, NewRunFacts
    <3>4. EntryFits(run.id, Reserved(failed), run')
      BY <3>2, <3>3 DEF EntryFits, PublicationFits, RemoteFits, Standing
    <3> QED
      BY <2>1, <3>2, <3>3, <3>4
  <2>2. CASE Saves(failed) /\ Stops
    <3>1. run' \in Run /\ run'.at = "finish" /\ EntryFits(run.id, failed, run')
      BY <1>2, <1>3, <1>5, <2>2, StopsFits
    <3> QED
      BY <1>3, <2>2, <3>1
  <2> QED
    BY <1>4, <2>1, <2>2
<1>7. flag' \in Flags /\ flag'.running = flag.running
      /\ flag'.publicationRunning = flag.publicationRunning
  <2> DEFINE a == IF run.result = "rejected" THEN ~cancelled ELSE flag.authorized
  <2>1. flag \in Flags /\ a \in BOOLEAN
    BY DEF Inv, TypeOK, Flags
  <2>2. flag' = [flag EXCEPT !.authorized = a]
    BY DEF Failing
  <2> HIDE DEF a
  <2> QED
    BY <2>1, <2>2, Zenon DEF Flags
<1>8. /\ req' \in Requests /\ paused' \in BOOLEAN /\ disk' \in Bytes
      /\ used' \in [versions : 0 .. MaxVersion, restarts : 0 .. MaxRestarts, stops : 0 .. MaxStops,
               outside : 0 .. MaxOutside]
      /\ SameRequests(req', req) /\ gate' = gate
      /\ UNCHANGED <<autoRun, remote, lock, publish, stopped>>
  BY DEF Failing, Inv, TypeOK, world, SameRequests
<1> QED
  BY <1>1, <1>2, <1>6, <1>7, <1>8, RunnerKeeps

\* CompletionFailed.
LEMMA CompletionFailedKeeps == Inv /\ CompletionFailed => Inv'
<1> SUFFICES ASSUME Inv, CompletionFailed PROVE Inv'
  OBVIOUS
<1>1. run # None /\ run.at = "completion_failed"
  BY DEF CompletionFailed, RunAt
<1>2. /\ run \in Run /\ run.id # None /\ entry \in FeatureRecord
      /\ Counted(entry) /\ PublicationFits(entry) /\ RemoteFits(run.id, entry, remote[run.id])
      /\ RunFits(run, entry) /\ entry.pending = None
  BY <1>1, AtFacts
<1> DEFINE x == [entry EXCEPT !.status = "failed"]
           e == IF entry.checkpoint = "publication_attention" THEN entry ELSE x
<1>3. Saves(e) /\ Stops
  BY DEF CompletionFailed
<1>4. /\ x \in FeatureRecord /\ x.status = "failed" /\ x.checkpoint = entry.checkpoint
      /\ x.edits = entry.edits /\ x.repairs = entry.repairs
      /\ x.repairPending = entry.repairPending /\ x.pending = entry.pending
      /\ x.last = entry.last /\ x.publication = entry.publication
      /\ x.candidates = entry.candidates
  <2>1. "failed" \in Status
    BY DEF Status
  <2> QED
    BY <1>2, <2>1, Zenon DEF FeatureRecord
<1> HIDE DEF x
<1>5. e \in FeatureRecord /\ Counted(e) /\ PublicationFits(e) /\ RemoteFits(run.id, e, remote[run.id])
      /\ e.status # "running" /\ e.pending = None
  <2>1. entry.publication # None => entry.publication.status # "abandoned"
    BY <1>2 DEF RunFits
  <2>2. CASE entry.checkpoint = "publication_attention"
    BY <1>2, <2>2 DEF PublicationFits
  <2>3. CASE entry.checkpoint # "publication_attention"
    BY <1>2, <1>4, <2>1, <2>3 DEF Counted, PublicationFits, RemoteFits
  <2> QED
    BY <2>2, <2>3
<1> HIDE DEF e
<1>6. run' \in Run /\ run'.at = "finish" /\ EntryFits(run.id, e, run')
  BY <1>3, <1>5, StopsFits
<1> QED
  BY <1>1, <1>2, <1>3, <1>5, <1>6, RunnerSaves DEF CompletionFailed

\* A completion that could not be made good, with the entry saved as e.
LEMMA CompletionFailsKeeps ==
  ASSUME Inv, run # None, run.at = "complete", NEW e \in FeatureRecord, Saves(e), CompletionFails,
         e.status \in {"paused", "failed"},
         e.checkpoint \notin {"repair_reserved", "publication_attention"},
         e.repairPending => e.checkpoint \in ReviewCheckpoint \/ e.publication # None,
         e.edits = entry.edits, e.repairs = entry.repairs,
         e.candidates = entry.candidates, e.pending = entry.pending, e.last = entry.last,
         e.publication = entry.publication,
         UNCHANGED <<paused, autoRun, world, flag, gate, lock, publish, req, stopped, used>>
  PROVE  Inv'
<1>1. /\ run \in Run /\ run.id # None /\ entry \in FeatureRecord
      /\ Counted(entry) /\ PublicationFits(entry) /\ RemoteFits(run.id, entry, remote[run.id])
      /\ RunFits(run, entry) /\ entry.pending = None /\ ~Standing(entry)
  BY AtFacts DEF Publishing
<1>2. /\ run' \in Run /\ run'.id = run.id
      /\ run'.at = IF run.recovery THEN "result" ELSE "completion_failed"
      /\ run'.recovery = run.recovery /\ run'.result = "operational"
  BY <1>1, CompletionFailsFacts
<1>3. Counted(e)
  BY <1>1 DEF Counted
<1>4. PublicationFits(e) /\ RemoteFits(run.id, e, remote[run.id]) /\ ~Standing(e)
  BY <1>1 DEF PublicationFits, RemoteFits, RunFits, Standing
<1>5. RunFits(run', e)
  BY <1>1, <1>2 DEF RunFits, Working, CompletedPublication
<1>6. EntryFits(run.id, e, run')
  BY <1>1, <1>2, <1>3, <1>4, <1>5 DEF EntryFits
<1> QED
  BY <1>1, <1>2, <1>6, RunnerSaves

\* CompletionStopped.
LEMMA CompletionStoppedKeeps == Inv /\ CompletionStopped => Inv'
<1> SUFFICES ASSUME Inv, CompletionStopped PROVE Inv'
  OBVIOUS
<1>1. /\ run # None /\ run.at = "complete" /\ CompletionFails
      /\ UNCHANGED <<paused, autoRun, world, flag, gate, lock, publish, req, stopped, used>>
  BY DEF CompletionStopped, RunAt
<1>2. entry \in FeatureRecord
  BY <1>1, AtFacts
<1>3. /\ "paused" \in Status
      /\ {"publication_completion_reverify", "review_completion_interrupted"} \subseteq Checkpoint
      /\ "interrupted" \in {"pending", "reviewing", "approved", "rejected", "unavailable", "interrupted"}
  BY DEF Status, Checkpoint, PublicationCheckpoint, ReviewCheckpoint
<1>4. CASE CompletedPublication(entry)
  <2> DEFINE e == [entry EXCEPT !.status = "paused", !.checkpoint = "publication_completion_reverify"]
  <2>1. Saves(e)
    BY <1>4 DEF CompletionStopped
  <2>2. "publication_completion_reverify" \in Checkpoint
    BY <1>3
  <2>3. /\ e \in FeatureRecord /\ e.status = "paused" /\ e.checkpoint = "publication_completion_reverify"
        /\ e.edits = entry.edits /\ e.repairs = entry.repairs /\ e.pending = entry.pending
        /\ e.last = entry.last /\ e.publication = entry.publication /\ e.candidates = entry.candidates
    BY <1>2, <1>3, <2>2, Zenon DEF FeatureRecord
  <2> HIDE DEF e
  <2> QED
    BY <1>1, <1>4, <2>1, <2>3, CompletionFailsKeeps DEF CompletedPublication
<1>5. CASE ~CompletedPublication(entry)
  <2> DEFINE e == [entry EXCEPT !.status = "paused", !.reviewStatus = "interrupted",
                                !.checkpoint = "review_completion_interrupted"]
  <2>1. Saves(e)
    BY <1>5 DEF CompletionStopped
  <2>2. "review_completion_interrupted" \in Checkpoint
    BY <1>3
  <2>3. /\ e \in FeatureRecord /\ e.status = "paused" /\ e.checkpoint = "review_completion_interrupted"
        /\ e.edits = entry.edits /\ e.repairs = entry.repairs /\ e.pending = entry.pending
        /\ e.last = entry.last /\ e.publication = entry.publication /\ e.candidates = entry.candidates
    BY <1>2, <1>3, <2>2, Zenon DEF FeatureRecord
  <2> HIDE DEF e
  <2> QED
    BY <1>1, <2>1, <2>3, CompletionFailsKeeps DEF ReviewCheckpoint
<1> QED
  BY <1>4, <1>5

\* CompletionRejected.
LEMMA CompletionRejectedKeeps == Inv /\ CompletionRejected => Inv'
<1> SUFFICES ASSUME Inv, CompletionRejected PROVE Inv'
  OBVIOUS
<1>1. /\ run # None /\ run.at = "complete" /\ CompletionFails
      /\ UNCHANGED <<paused, autoRun, world, flag, gate, lock, publish, req, stopped, used>>
  BY DEF CompletionRejected, RunAt
<1>2. entry \in FeatureRecord
  BY <1>1, AtFacts
<1>3. /\ "failed" \in Status /\ "review_binding_changed" \in Checkpoint
      /\ "interrupted" \in {"pending", "reviewing", "approved", "rejected", "unavailable", "interrupted"}
  BY DEF Status, Checkpoint, ReviewCheckpoint
<1> DEFINE e == [entry EXCEPT !.status = "failed", !.reviewStatus = "interrupted",
                              !.checkpoint = "review_binding_changed"]
<1>4. Saves(e)
  BY DEF CompletionRejected
<1>5. /\ e \in FeatureRecord /\ e.status = "failed" /\ e.checkpoint = "review_binding_changed"
      /\ e.edits = entry.edits /\ e.repairs = entry.repairs /\ e.pending = entry.pending
      /\ e.last = entry.last /\ e.publication = entry.publication /\ e.candidates = entry.candidates
  BY <1>2, <1>3, Zenon DEF FeatureRecord
<1> HIDE DEF e
<1> QED
  BY <1>1, <1>4, <1>5, CompletionFailsKeeps DEF ReviewCheckpoint

\* CompletionProceeds: a publication is opened on the approved bytes.
LEMMA CompletionProceedsKeeps == Inv /\ CompletionProceeds => Inv'
<1> SUFFICES ASSUME Inv, CompletionProceeds PROVE Inv'
  OBVIOUS
<1>1. /\ run # None /\ run.at = "complete" /\ StillApproved
      /\ UNCHANGED <<paused, autoRun, world, flag, gate, lock, publish, req, stopped, used>>
  BY DEF CompletionProceeds, RunAt
<1>2. /\ run \in Run /\ run.id # None /\ entry \in FeatureRecord
      /\ Counted(entry) /\ PublicationFits(entry) /\ RemoteFits(run.id, entry, remote[run.id])
      /\ RunFits(run, entry) /\ entry.pending = None /\ ~Standing(entry)
  BY <1>1, AtFacts DEF Publishing
<1>3. {"review_approved", "publication_reconciling", "publication_pending"} \subseteq Checkpoint
  BY DEF Checkpoint, ReviewCheckpoint, PublicationCheckpoint
<1>4. /\ "succeeded" \in Status /\ "running" \in Status /\ FALSE \in BOOLEAN
      /\ "review_approved" \in Checkpoint /\ "publication_reconciling" \in Checkpoint
      /\ "publication_pending" \in Checkpoint
      /\ "approved" \in {"pending", "reviewing", "approved", "rejected", "unavailable", "interrupted"}
      /\ "next" \in Stage /\ "reverification" \in Stage /\ "publication" \in Stage
  BY <1>3 DEF Status, Stage
<1>5. CASE run.id \notin Connected
           /\ Saves([entry EXCEPT !.status = "succeeded", !.checkpoint = "review_approved",
                                  !.repairPending = FALSE, !.quarantined = FALSE])
           /\ Goes("next")
  <2> DEFINE e == [entry EXCEPT !.status = "succeeded", !.checkpoint = "review_approved",
                                !.repairPending = FALSE, !.quarantined = FALSE]
  <2>1. /\ e \in FeatureRecord /\ e.status = "succeeded" /\ e.checkpoint = "review_approved"
        /\ e.repairPending = FALSE
        /\ e.edits = entry.edits /\ e.repairs = entry.repairs /\ e.pending = entry.pending
        /\ e.last = entry.last /\ e.publication = entry.publication /\ e.candidates = entry.candidates
    BY <1>2, <1>4, Zenon DEF FeatureRecord
  <2>2. Saves(e)
    BY <1>5
  <2> HIDE DEF e
  <2>3. run' \in Run /\ run'.at = "next" /\ run'.id = run.id
    BY <1>2, <1>4, <1>5, GoesFacts
  <2>4. e.publication = None
    BY <1>2, <1>5, <2>1 DEF RemoteFits
  <2>5. EntryFits(run.id, e, run')
    <3>1. Counted(e) /\ PublicationFits(e) /\ RemoteFits(run.id, e, remote[run.id]) /\ ~Standing(e)
      BY <1>2, <2>1, <2>4 DEF Counted, PublicationFits, RemoteFits, Standing
    <3>2. RunFits(run', e)
      BY <2>1, <2>3, <2>4 DEF RunFits, Working
    <3> QED
      BY <1>2, <2>1, <2>3, <3>1, <3>2 DEF EntryFits
  <2> QED
    BY <1>1, <1>2, <2>1, <2>2, <2>3, <2>5, RunnerSaves
<1>6. CASE run.id \in Connected /\ entry.publication # None
           /\ Saves([entry EXCEPT !.status = "running", !.checkpoint = "publication_reconciling",
                                  !.reviewStatus = "approved"])
           /\ Goes("reverification")
  <2> DEFINE e == [entry EXCEPT !.status = "running", !.checkpoint = "publication_reconciling",
                                !.reviewStatus = "approved"]
  <2>1. /\ e \in FeatureRecord /\ e.status = "running" /\ e.checkpoint = "publication_reconciling"
        /\ e.repairPending = entry.repairPending
        /\ e.edits = entry.edits /\ e.repairs = entry.repairs /\ e.pending = entry.pending
        /\ e.last = entry.last /\ e.publication = entry.publication /\ e.candidates = entry.candidates
    BY <1>2, <1>4, Zenon DEF FeatureRecord
  <2>2. Saves(e)
    BY <1>6
  <2> HIDE DEF e
  <2>3. run' \in Run /\ run'.at = "reverification" /\ run'.id = run.id /\ run'.recovery = run.recovery
    BY <1>2, <1>4, <1>6, GoesFacts
  <2>4. run.recovery /\ CompletedPublication(entry)
    BY <1>1, <1>2, <1>6 DEF RunFits
  <2>5. EntryFits(run.id, e, run')
    <3>1. Counted(e) /\ PublicationFits(e) /\ RemoteFits(run.id, e, remote[run.id]) /\ ~Standing(e)
      BY <1>2, <2>1, <2>4 DEF Counted, PublicationFits, RemoteFits, Standing, CompletedPublication
    <3>2. RunFits(run', e)
      BY <2>1, <2>3, <2>4 DEF RunFits, Working, CompletedPublication
    <3> QED
      BY <1>2, <2>1, <2>3, <3>1, <3>2 DEF EntryFits
  <2> QED
    BY <1>1, <1>2, <2>1, <2>2, <2>3, <2>5, RunnerSaves
<1>7. CASE run.id \in Connected /\ entry.publication = None
           /\ Saves([entry EXCEPT !.status = "running", !.checkpoint = "publication_pending",
                                  !.publication = [status |-> "pending", candidate |-> disk],
                                  !.repairPending = FALSE, !.quarantined = FALSE])
           /\ Goes("publication")
  <2> DEFINE p == [status |-> "pending", candidate |-> disk]
             e == [entry EXCEPT !.status = "running", !.checkpoint = "publication_pending",
                                !.publication = p, !.repairPending = FALSE, !.quarantined = FALSE]
  <2>1. p \in Publication /\ p \in Publication \cup {None} /\ p # None
        /\ p.status = "pending" /\ p.candidate = disk
    BY DEF Publication, Inv, TypeOK
  <2>2. Saves(e)
    BY <1>7
  <2> HIDE DEF p
  <2>3. /\ e \in FeatureRecord /\ e.status = "running" /\ e.checkpoint = "publication_pending"
        /\ e.repairPending = FALSE
        /\ e.edits = entry.edits /\ e.repairs = entry.repairs /\ e.pending = entry.pending
        /\ e.last = entry.last /\ e.publication = p /\ e.candidates = entry.candidates
    BY <1>2, <1>4, <2>1, Zenon DEF FeatureRecord
  <2> HIDE DEF e
  <2>4. run' \in Run /\ run'.at = "publication" /\ run'.id = run.id /\ run'.recovery = run.recovery
    BY <1>2, <1>4, <1>7, GoesFacts
  <2>5. ~run.recovery
    BY <1>1, <1>2, <1>7 DEF RunFits, CompletedPublication
  <2>6. entry.last # None /\ entry.last.outcome = "approved" /\ disk = entry.last.packet
    BY <1>1, <1>7 DEF StillApproved, ApprovedEvidence, CompletedPublication
  <2>7. EntryFits(run.id, e, run')
    <3>1. Counted(e) /\ PublicationFits(e) /\ RemoteFits(run.id, e, remote[run.id])
      BY <1>2, <1>7, <2>1, <2>3, <2>6 DEF Counted, PublicationFits, RemoteFits
    <3>2. RunFits(run', e)
      BY <2>1, <2>3, <2>4, <2>5 DEF RunFits, Working
    <3> QED
      BY <1>2, <2>3, <2>4, <3>1, <3>2 DEF EntryFits, Publishing
  <2> QED
    BY <1>1, <1>2, <2>2, <2>3, <2>4, <2>7, RunnerSaves
<1> QED
  BY <1>5, <1>6, <1>7 DEF CompletionProceeds

-----------------------------------------------------------------------------
(* Beginning a publication, and the end of the run *)

\* The task of a publication.
LEMMA TaskFacts ==
  ASSUME NEW f \in Feature, NEW a \in {"intent", "reverify", "finish"}, NEW b \in {"runner", "owner"},
         publish' = [id |-> f, at |-> a, by |-> b]
  PROVE  publish' \in PublishTask /\ publish' # None
         /\ publish'.id = f /\ publish'.at = a /\ publish'.by = b
  BY DEF PublishTask

\* The run claims the publication and waits for it.
LEMMA PublicationClaimed ==
  ASSUME Inv, run # None, Goes("publishing"), ~flag.publicationRunning,
         NEW a \in {"intent", "reverify"},
         run.at = IF a = "intent" THEN "publication" ELSE "reverification",
         publish' = [id |-> run.id, at |-> a, by |-> "runner"],
         flag' \in Flags, flag'.running = flag.running, flag'.publicationRunning,
         stopped' \in [run : StopSeen, publication : StopSeen],
         UNCHANGED <<durable, world, gate, lock, req, used>>
  PROVE  Inv'
<1>1. /\ run \in Run /\ run.id # None /\ run.id \in Feature
      /\ RunFits(run, entry) /\ entry.pending = None /\ FeatureInv(run.id)
      /\ RemoteFits(run.id, entry, remote[run.id])
  BY AtFacts DEF Inv, Work
<1>2. run' \in Run /\ run' # None /\ run'.at = "publishing" /\ run'.id = run.id
      /\ run'.recovery = run.recovery
  BY <1>1, GoesFacts DEF Stage
<1>3. publish' \in PublishTask /\ publish' # None /\ publish'.id = run.id /\ publish'.at = a
      /\ publish'.by = "runner"
  BY <1>1, TaskFacts
<1>4. UNCHANGED <<feat, paused, autoRun, disk, remote, gate, lock, req, used>>
  BY DEF durable, world
<1>5. publish = None /\ req.owner = None /\ ~lock
  BY DEF Inv, Threads, Claim, Admission
<1>6. TypeOK'
  BY <1>2, <1>3, <1>4 DEF Inv, TypeOK
<1>7. Threads'
  <2>1. Admission' /\ Claim'
    BY <1>2, <1>3, <1>4, <1>5 DEF Inv, Threads, Admission, Held, Claim
  <2>2. Partners' /\ GateHeld' /\ RunHasFeature'
    BY <1>1, <1>2, <1>3, <1>4 DEF Inv, Threads, Partners, GateHeld, RunHasFeature
  <2> QED
    BY <2>1, <2>2 DEF Threads
<1>8. Work'
  <2>1. (\A g \in Feature : FeatureInv(g)') /\ EnqueueInv'
    BY <1>4 DEF Inv, Work, FeatureInv, EnqueueInv
  <2>2. RunFits(run', entry)
    BY <1>1, <1>2 DEF RunFits, Working
  <2>3. RunInv'
    BY <1>2, <1>4, <2>2 DEF RunInv, entry
  <2>4. PublishFits(publish', entry)
    BY <1>1, <1>3 DEF RunFits, PublishFits, CompletedPublication
  <2>5. PublishInv'
    BY <1>1, <1>2, <1>3, <1>4, <2>4 DEF PublishInv, entry, RunFits
  <2>6. Clear'
    BY <1>2, <1>4, <1>5 DEF Clear, Publishing
  <2>7. BarrierHolds'
    <3>1. \A g \in Feature : Unresolved(g) => g = run.id
      BY <1>1 DEF Inv, Work, BarrierHolds
    <3> QED
      BY <1>2, <1>3, <1>4, <3>1 DEF BarrierHolds, Unresolved
  <2>8. RunningIsAttended'
    BY <1>2, <1>4, <1>5 DEF Inv, Work, RunningIsAttended
  <2>9. PendingIsReviewing'
    BY <1>4 DEF Inv, Work, PendingIsReviewing, RunAt
  <2> QED
    BY <2>1, <2>3, <2>5, <2>6, <2>7, <2>8, <2>9 DEF Work
<1> QED
  BY <1>6, <1>7, <1>8 DEF Inv

\* The claim is refused.
LEMMA PublicationRefused ==
  ASSUME Inv, run # None, run.at \in {"publication", "reverification"}, CompletionFails,
         UNCHANGED <<durable, world, flag, gate, lock, publish, req, stopped, used>>
  PROVE  Inv'
<1>1. /\ run \in Run /\ run.id # None /\ entry \in FeatureRecord
      /\ Counted(entry) /\ PublicationFits(entry) /\ RemoteFits(run.id, entry, remote[run.id])
      /\ RunFits(run, entry) /\ entry.pending = None
      /\ Standing(entry) => run.at = "publication"
  BY AtFacts DEF Publishing
<1>2. /\ run' \in Run /\ run'.id = run.id
      /\ run'.at = IF run.recovery THEN "result" ELSE "completion_failed"
      /\ run'.recovery = run.recovery /\ run'.result = "operational"
  BY <1>1, CompletionFailsFacts
<1>3. RunFits(run', entry)
  BY <1>1, <1>2 DEF RunFits, Working, CompletedPublication
<1>4. EntryFits(run.id, entry, run')
  BY <1>1, <1>2, <1>3 DEF EntryFits, Publishing
<1> QED
  BY <1>1, <1>2, <1>4, RunnerGoes

\* ExecutePublication and ReverifyPublication.
LEMMA ClaimKeeps ==
  /\ Inv /\ ExecutePublication => Inv'
  /\ Inv /\ ReverifyPublication => Inv'
<1>1. ASSUME Inv PROVE flag \in Flags /\ stopped \in [run : StopSeen, publication : StopSeen]
                       /\ TRUE \in BOOLEAN /\ FALSE \in BOOLEAN /\ 0 \in 0 .. 2
  BY <1>1 DEF Inv, TypeOK
<1>2. ASSUME Inv, ExecutePublication PROVE Inv'
  <2>1. run # None /\ run.at = "publication"
    BY <1>2 DEF ExecutePublication, RunAt
  <2>2. CASE flag.publicationRunning
    BY <1>2, <2>1, <2>2, PublicationRefused DEF ExecutePublication
  <2>3. CASE ~flag.publicationRunning
    <3>1. /\ flag' = [flag EXCEPT !.publicationRunning = TRUE, !.publicationCancellation = 0]
          /\ publish' = [id |-> run.id, at |-> "intent", by |-> "runner"]
          /\ stopped' = [stopped EXCEPT !.publication = "no"]
          /\ Goes("publishing") /\ UNCHANGED <<durable, world, gate, lock, req, used>>
      BY <1>2, <2>3 DEF ExecutePublication
    <3>2. flag' \in Flags /\ flag'.running = flag.running /\ flag'.publicationRunning
      BY <1>1, <1>2, <3>1, Zenon DEF Flags
    <3>3. stopped' \in [run : StopSeen, publication : StopSeen]
      BY <1>1, <1>2, <3>1, NothingSeen, Zenon
    <3> QED
      BY <1>2, <2>1, <2>3, <3>1, <3>2, <3>3, PublicationClaimed
  <2> QED
    BY <2>2, <2>3
<1>3. ASSUME Inv, ReverifyPublication PROVE Inv'
  <2>1. run # None /\ run.at = "reverification"
    BY <1>3 DEF ReverifyPublication, RunAt
  <2>2. CASE CompletionFails /\ UNCHANGED <<flag, publish, stopped>>
    BY <1>3, <2>1, <2>2, PublicationRefused DEF ReverifyPublication
  <2>3. CASE ~flag.publicationRunning
             /\ flag' = [flag EXCEPT !.publicationRunning = TRUE]
             /\ publish' = [id |-> run.id, at |-> "reverify", by |-> "runner"]
             /\ stopped' = [stopped EXCEPT !.publication = "no"]
             /\ Goes("publishing")
    <3>1. flag' \in Flags /\ flag'.running = flag.running /\ flag'.publicationRunning
      BY <1>1, <1>3, <2>3, Zenon DEF Flags
    <3>2. stopped' \in [run : StopSeen, publication : StopSeen]
      BY <1>1, <1>3, <2>3, NothingSeen, Zenon
    <3> QED
      BY <1>3, <2>1, <2>3, <3>1, <3>2, PublicationClaimed DEF ReverifyPublication
  <2> QED
    BY <1>3, <2>2, <2>3 DEF ReverifyPublication
<1> QED
  BY <1>2, <1>3

\* Finish.
LEMMA FinishKeeps == Inv /\ Finish => Inv'
<1> SUFFICES ASSUME Inv, Finish PROVE Inv'
  OBVIOUS
<1>1. run # None /\ run.at = "finish" /\ run.id = None /\ run' = None
  BY DEF Finish, RunAt, Inv, Threads, RunHasFeature
<1>2. UNCHANGED <<feat, paused, autoRun, disk, remote, gate, lock, publish, req, used>>
  BY DEF Finish, durable, world
<1>3. publish = None /\ ~lock /\ ~Held /\ req.repair = None
  <2>1. publish # None => publish.by \in {"runner", "owner"}
    BY DEF Inv, TypeOK, PublishTask
  <2> QED
    BY <1>1, <2>1 DEF Inv, Threads, Admission, Claim, Partners
<1>4. flag' \in Flags /\ flag'.running = FALSE /\ flag'.publicationRunning = flag.publicationRunning
  <2>1. flag \in Flags /\ FALSE \in BOOLEAN
    BY DEF Inv, TypeOK
  <2> QED
    BY <2>1, Zenon DEF Finish, Flags
<1>5. stopped' \in [run : StopSeen, publication : StopSeen]
  <2>1. stopped \in [run : StopSeen, publication : StopSeen]
    BY DEF Inv, TypeOK
  <2> QED
    BY <2>1, NothingSeen, Zenon DEF Finish
<1>6. TypeOK'
  BY <1>1, <1>2, <1>4, <1>5 DEF Inv, TypeOK
<1>7. Threads'
  <2>1. Admission' /\ Claim'
    BY <1>1, <1>2, <1>3, <1>4 DEF Inv, Threads, Admission, Held, Claim
  <2>2. Partners' /\ GateHeld' /\ RunHasFeature'
    BY <1>1, <1>2, <1>3 DEF Inv, Threads, Partners, GateHeld, RunHasFeature
  <2> QED
    BY <2>1, <2>2 DEF Threads
<1>8. Work'
  <2>1. (\A g \in Feature : FeatureInv(g)') /\ EnqueueInv'
    BY <1>2 DEF Inv, Work, FeatureInv, EnqueueInv
  <2>2. RunInv' /\ PublishInv' /\ Clear'
    BY <1>1, <1>2, <1>3 DEF RunInv, PublishInv, Clear
  <2>3. BarrierHolds'
    BY <1>1, <1>2, <1>3 DEF Inv, Work, BarrierHolds, Unresolved
  <2>4. RunningIsAttended' /\ PendingIsReviewing'
    BY <1>1, <1>2, <1>3 DEF Inv, Work, RunningIsAttended, PendingIsReviewing, RunAt
  <2> QED
    BY <2>1, <2>2, <2>3, <2>4 DEF Work
<1> QED
  BY <1>6, <1>7, <1>8 DEF Inv

-----------------------------------------------------------------------------
\* Every step of the runner task.
LEMMA RunnerStepKeeps == Inv /\ RunnerStep => Inv'
  BY SelectKeeps, RouteKeeps, BeginKeeps, RefreshKeeps, ModelReadsKeeps, ModelFailsKeeps,
     ModelAnswersKeeps, PreflightKeeps, ApplyChecksKeeps, ApplyEditKeeps, AppliedKeeps,
     ValidationChecksKeeps, ValidationSpawnsKeeps, ValidationEndsKeeps, ValidationUnconfirmedKeeps,
     ReviewBeginsKeeps, ReviewKeeps, AfterRunKeeps, FailingKeeps, CompletionStoppedKeeps,
     CompletionRejectedKeeps, CompletionProceedsKeeps, CompletionFailedKeeps, ClaimKeeps,
     NextFeatureKeeps, FinishKeeps
     DEF RunnerStep

-----------------------------------------------------------------------------
(* Publication *)

\* What is known of the feature a publication works on.
LEMMA PublishFacts ==
  ASSUME Inv, publish # None
  PROVE  /\ publish \in PublishTask /\ publish.id \in Feature /\ publish.by \in {"runner", "owner"}
         /\ published \in FeatureRecord
         /\ Counted(published) /\ PublicationFits(published)
         /\ RemoteFits(publish.id, published, remote[publish.id])
         /\ PublishFits(publish, published) /\ published.publication \in Publication
         /\ ~lock /\ req.owner = None /\ flag.publicationRunning
         /\ publish.by = "owner" => run = None
         /\ publish.by = "runner" =>
              /\ run \in Run /\ run # None /\ run.at = "publishing" /\ run.id = publish.id
              /\ RunFits(run, published) /\ (run.recovery => publish.at \notin {"intent", "check", "command"})
<1>1. publish \in PublishTask /\ feat \in [Feature -> FeatureRecord] /\ run \in Run \cup {None}
  BY DEF Inv, TypeOK
<1>2. publish.id \in Feature /\ publish.by \in {"runner", "owner"}
  BY <1>1 DEF PublishTask
<1>3. published \in FeatureRecord /\ FeatureInv(publish.id) /\ PublishFits(publish, published)
  BY <1>1, <1>2 DEF published, Inv, Work, PublishInv
<1>4. published.publication \in Publication
  BY <1>3 DEF PublishFits, FeatureRecord
<1>5. ~lock /\ req.owner = None /\ flag.publicationRunning /\ (publish.by = "owner" => run = None)
  BY DEF Inv, Threads, Claim, Admission
<1>6. publish.by = "runner" => /\ run \in Run /\ run # None /\ run.at = "publishing" /\ run.id = publish.id
                               /\ (run.recovery => publish.at \notin {"intent", "check", "command"})
  BY <1>1 DEF Inv, Threads, Partners, Work, PublishInv
<1>7. publish.by = "runner" => RunFits(run, published)
  BY <1>2, <1>6 DEF Inv, Work, RunInv, published
<1> QED
  BY <1>1, <1>2, <1>3, <1>4, <1>5, <1>6, <1>7 DEF FeatureInv, published

\* A step of a publication that saves the entry e, goes on or ends.
LEMMA PublishWork ==
  ASSUME Inv, publish # None, NEW e \in FeatureRecord, Records(e),
         Counted(e), PublicationFits(e), e.publication # None,
         e.publication.status # "abandoned", e.status # "absent",
         RemoteFits(publish.id, e, remote'[publish.id]),
         \A g \in Feature : g # publish.id => remote'[g] = remote[g],
         IF publish.by = "owner" THEN run' = run
         ELSE /\ run' # None /\ run'.id = run.id /\ RunFits(run', e)
              /\ Standing(e) => run'.at \in Publishing,
         publish' = None => publish.by = "runner" \/ e.status # "running",
         publish' # None =>
           /\ publish'.id = publish.id /\ PublishFits(publish', e) /\ publish'.by = publish.by
           /\ publish.by = "runner" /\ run'.recovery => publish'.at \notin {"intent", "check", "command"},
         lock' = lock, req' = req
  PROVE  Work'
<1>1. /\ publish.id \in Feature /\ publish.by \in {"runner", "owner"} /\ ~lock
      /\ published.status # "absent"
      /\ publish.by = "owner" => run = None
      /\ publish.by = "runner" => run # None /\ run.at = "publishing" /\ run.id = publish.id
  BY PublishFacts DEF PublishFits
<1>2. feat'[publish.id] = e /\ \A g \in Feature : g # publish.id => feat'[g] = feat[g]
  BY <1>1 DEF Records, Inv, TypeOK
<1>3. \A g \in Feature : Standing(feat'[g]) => g = publish.id /\ Standing(e)
  BY <1>1, <1>2 DEF Inv, Work, BarrierHolds, Unresolved, Standing
<1>4. \A f \in Feature : FeatureInv(f)'
  BY <1>2 DEF Inv, Work, FeatureInv
<1>5. RunInv'
  BY <1>1, <1>2 DEF RunInv
<1>6. PublishInv'
  BY <1>1, <1>2 DEF PublishInv
<1>7. Clear'
  BY <1>1, <1>3 DEF Clear, NoneUnresolved
<1>8. EnqueueInv'
  <2>1. req.enqueue \in Feature \cup {None}
    BY DEF Inv, TypeOK, Requests
  <2> QED
    BY <1>1, <1>2, <2>1 DEF Inv, Work, EnqueueInv, published
<1>9. BarrierHolds'
  BY <1>1, <1>3 DEF BarrierHolds, Unresolved, Standing
<1>10. RunningIsAttended'
  BY <1>1, <1>2 DEF Inv, Work, RunningIsAttended
<1>11. PendingIsReviewing'
  <2>1. \A g \in Feature : feat[g].pending = None
    BY <1>1 DEF Inv, Work, PendingIsReviewing, RunAt
  <2>2. e.pending = None
    BY DEF PublicationFits
  <2> QED
    BY <1>2, <2>1, <2>2 DEF PendingIsReviewing
<1> QED
  BY <1>4, <1>5, <1>6, <1>7, <1>8, <1>9, <1>10, <1>11 DEF Work

\* It goes on.
LEMMA PublishGoesOn ==
  ASSUME Inv, publish # None, NEW e \in FeatureRecord, Records(e),
         Counted(e), PublicationFits(e), e.publication # None,
         e.publication.status # "abandoned", e.status # "absent",
         remote' \in [Feature -> {"none", "written", "merged"}],
         RemoteFits(publish.id, e, remote'[publish.id]),
         \A g \in Feature : g # publish.id => remote'[g] = remote[g],
         publish' \in PublishTask, publish'.id = publish.id, publish'.by = publish.by,
         publish'.at \in {"intent", "check", "command"} => publish.at \in {"intent", "check", "command"},
         PublishFits(publish', e),
         UNCHANGED <<paused, autoRun, disk, flag, gate, lock, run, req, stopped, used>>
  PROVE  Inv'
<1>1. /\ publish.by \in {"runner", "owner"}
      /\ publish.by = "runner" =>
           /\ run # None /\ run.at = "publishing" /\ RunFits(run, published)
           /\ run.recovery => publish.at \notin {"intent", "check", "command"}
  BY PublishFacts
<1>2. publish' # None
  OBVIOUS
<1>3. Work'
  <2>1. publish.by = "runner" => RunFits(run, e)
    BY <1>1 DEF RunFits, Working
  <2>2. IF publish.by = "owner" THEN run' = run
        ELSE /\ run' # None /\ run'.id = run.id /\ RunFits(run', e)
             /\ Standing(e) => run'.at \in Publishing
    BY <1>1, <2>1 DEF Publishing
  <2>3. publish.by = "runner" /\ run'.recovery => publish'.at \notin {"intent", "check", "command"}
    BY <1>1
  <2> QED
    BY <1>1, <1>2, <2>2, <2>3, PublishWork
<1>4. TypeOK'
  <2>1. feat' \in [Feature -> FeatureRecord]
    BY DEF Records, Inv, TypeOK
  <2> QED
    BY <2>1 DEF Inv, TypeOK
<1>5. Threads'
  <2>1. Admission' /\ Claim'
    BY <1>2 DEF Inv, Threads, Admission, Held, Claim
  <2>2. Partners' /\ GateHeld' /\ RunHasFeature'
    BY <1>2 DEF Inv, Threads, Partners, GateHeld, RunHasFeature
  <2> QED
    BY <2>1, <2>2 DEF Threads
<1> QED
  BY <1>3, <1>4, <1>5 DEF Inv

\* It ends.
LEMMA PublishOver ==
  ASSUME Inv, publish # None, NEW e \in FeatureRecord, Records(e), NEW ok \in BOOLEAN, PublishEnds(ok),
         Counted(e), PublicationFits(e), e.publication # None,
         e.publication.status # "abandoned", e.status # "absent",
         RemoteFits(publish.id, e, remote[publish.id]),
         ok => e.status = "succeeded" /\ e.publication.status = "succeeded",
         publish.by = "runner" \/ e.status # "running",
         UNCHANGED <<paused, autoRun, world, gate, lock, req, used>>
  PROVE  Inv'
<1>1. /\ publish.id \in Feature /\ publish.by \in {"runner", "owner"} /\ ~lock /\ req.owner = None
      /\ publish.by = "owner" => run = None
      /\ publish.by = "runner" =>
           /\ run \in Run /\ run # None /\ run.at = "publishing" /\ run.id = publish.id
           /\ RunFits(run, published)
  BY PublishFacts
<1>2. publish' = None /\ remote' = remote /\ UNCHANGED <<paused, autoRun, disk, gate, lock, req, used>>
  BY DEF PublishEnds, world
<1>3. publish.by = "owner" => run' = None
  BY <1>1 DEF PublishEnds
<1>4. publish.by = "runner" =>
        /\ run' \in Run /\ run' # None /\ run'.id = run.id /\ RunFits(run', e)
        /\ run'.at \in {"next", "result", "completion_failed"}
        /\ Standing(e) => run'.at \in Publishing
  <2> SUFFICES ASSUME publish.by = "runner"
               PROVE  /\ run' \in Run /\ run' # None /\ run'.id = run.id /\ RunFits(run', e)
                      /\ run'.at \in {"next", "result", "completion_failed"}
                      /\ Standing(e) => run'.at \in Publishing
    OBVIOUS
  <2>1. CASE ok /\ Goes("next")
    <3>1. run' \in Run /\ run' # None /\ run'.at = "next" /\ run'.id = run.id
      BY <1>1, <2>1, GoesFacts DEF Stage
    <3> QED
      BY <2>1, <3>1 DEF RunFits, Working, Standing
  <2>2. CASE ~ok /\ CompletionFails
    <3>1. /\ run' \in Run /\ run' # None /\ run'.id = run.id
          /\ run'.at = IF run.recovery THEN "result" ELSE "completion_failed"
          /\ run'.recovery = run.recovery /\ run'.result = "operational"
      BY <1>1, <2>2, CompletionFailsFacts
    <3> QED
      BY <3>1 DEF RunFits, Working, Publishing
  <2> QED
    BY <2>1, <2>2 DEF PublishEnds
<1>5. Work'
  BY <1>1, <1>2, <1>3, <1>4, PublishWork
<1>6. flag' \in Flags /\ flag'.running = flag.running /\ flag'.publicationRunning = FALSE
  <2>1. flag \in Flags /\ FALSE \in BOOLEAN
    BY DEF Inv, TypeOK
  <2> QED
    BY <2>1, Zenon DEF PublishEnds, Flags
<1>7. TypeOK'
  <2>1. feat' \in [Feature -> FeatureRecord]
    BY DEF Records, Inv, TypeOK
  <2>2. stopped' \in [run : StopSeen, publication : StopSeen]
    <3>1. stopped \in [run : StopSeen, publication : StopSeen]
      BY DEF Inv, TypeOK
    <3> QED
      BY <3>1, NothingSeen, Zenon DEF PublishEnds
  <2>3. run' \in Run \cup {None}
    BY <1>1, <1>3, <1>4
  <2> QED
    BY <1>2, <1>6, <2>1, <2>2, <2>3 DEF Inv, TypeOK
<1>8. Threads'
  <2>1. Admission' /\ Claim'
    BY <1>1, <1>2, <1>3, <1>4, <1>6 DEF Inv, Threads, Admission, Held, Claim
  <2>2. Partners' /\ GateHeld' /\ RunHasFeature'
    BY <1>1, <1>2, <1>3, <1>4 DEF Inv, Threads, Partners, GateHeld, RunHasFeature
  <2> QED
    BY <2>1, <2>2 DEF Threads
<1> QED
  BY <1>5, <1>7, <1>8 DEF Inv

\* A publication whose status changes keeps its candidate.
LEMMA StatusFacts ==
  ASSUME NEW p \in Publication, NEW s \in {"pending", "running", "attention", "succeeded", "abandoned"}
  PROVE  /\ [p EXCEPT !.status = s] \in Publication \cup {None} /\ [p EXCEPT !.status = s] # None
         /\ [p EXCEPT !.status = s].status = s /\ [p EXCEPT !.status = s].candidate = p.candidate
<1>1. /\ [p EXCEPT !.status = s] \in Publication
      /\ [p EXCEPT !.status = s].status = s /\ [p EXCEPT !.status = s].candidate = p.candidate
  BY DEF Publication
<1> QED
  BY <1>1

\* PublishIntends.
LEMMA PublishIntendsKeeps == Inv /\ PublishIntends => Inv'
<1> SUFFICES ASSUME Inv, PublishIntends PROVE Inv'
  OBVIOUS
<1>1. publish # None /\ publish.at = "intent"
  BY DEF PublishIntends, PublishAt
<1>2. /\ publish \in PublishTask /\ publish.id \in Feature /\ published \in FeatureRecord
      /\ Counted(published) /\ PublicationFits(published)
      /\ RemoteFits(publish.id, published, remote[publish.id])
      /\ PublishFits(publish, published) /\ published.publication \in Publication
  BY <1>1, PublishFacts
<1> DEFINE p == [published.publication EXCEPT !.status = "running"]
           e == [published EXCEPT !.status = "running", !.publication = p]
<1>3. Records(e)
  BY DEF PublishIntends
<1>4. p \in Publication \cup {None} /\ p # None /\ p.status = "running"
      /\ p.candidate = published.publication.candidate /\ "running" \in Status
  BY <1>2, StatusFacts DEF Status
<1> HIDE DEF p
<1>5. /\ e \in FeatureRecord /\ e.status = "running" /\ e.checkpoint = published.checkpoint
      /\ e.edits = published.edits /\ e.repairs = published.repairs
      /\ e.repairPending = published.repairPending /\ e.pending = published.pending
      /\ e.last = published.last /\ e.publication = p /\ e.candidates = published.candidates
  BY <1>2, <1>4, Zenon DEF FeatureRecord
<1> HIDE DEF e
<1>6. publish' \in PublishTask /\ publish'.id = publish.id /\ publish'.by = publish.by
      /\ publish'.at = "check"
  BY <1>2 DEF PublishIntends, PublishTask
<1>7. Counted(e) /\ PublicationFits(e) /\ PublishFits(publish', e)
  BY <1>1, <1>2, <1>4, <1>5, <1>6 DEF Counted, PublicationFits, PublishFits
<1>8. remote' = remote /\ remote \in [Feature -> {"none", "written", "merged"}]
  BY DEF PublishIntends, world, Inv, TypeOK
<1>9. RemoteFits(publish.id, e, remote'[publish.id])
  BY <1>2, <1>4, <1>5, <1>8 DEF RemoteFits, PublishFits
<1> QED
  BY <1>1, <1>3, <1>4, <1>5, <1>6, <1>7, <1>8, <1>9, PublishGoesOn DEF PublishIntends, world

\* A step between the records.
LEMMA PublishMoves ==
  ASSUME Inv, publish # None, publish.at \in {"check", "command"},
         NEW s \in {"intent", "command"}, publish' = [publish EXCEPT !.at = s],
         remote' \in [Feature -> {"none", "written", "merged"}],
         \A g \in Feature : g # publish.id => remote'[g] = remote[g],
         UNCHANGED <<feat, paused, autoRun, disk, flag, gate, lock, run, req, stopped, used>>
  PROVE  Inv'
<1>1. /\ publish \in PublishTask /\ publish.id \in Feature /\ published \in FeatureRecord
      /\ Counted(published) /\ PublicationFits(published)
      /\ RemoteFits(publish.id, published, remote[publish.id])
      /\ PublishFits(publish, published) /\ published.publication \in Publication
  BY PublishFacts
<1>2. Records(published)
  BY <1>1 DEF Records, published, Inv, TypeOK
<1>3. /\ publish' \in PublishTask /\ publish'.id = publish.id /\ publish'.by = publish.by
      /\ publish'.at = s
  BY <1>1 DEF PublishTask
<1>4. /\ published.publication # None /\ published.status # "absent"
      /\ published.publication.status \in {"pending", "running"}
      /\ PublishFits(publish', published)
  BY <1>1, <1>3 DEF PublishFits
<1>5. RemoteFits(publish.id, published, remote'[publish.id])
  BY <1>1, <1>4 DEF RemoteFits
<1> QED
  BY <1>1, <1>2, <1>3, <1>4, <1>5, PublishGoesOn

\* PublishChecks and PublishLands.
LEMMA PublishCommandKeeps ==
  /\ Inv /\ PublishChecks => Inv'
  /\ Inv /\ PublishLands => Inv'
<1>1. ASSUME Inv, PublishChecks PROVE Inv'
  <2>1. publish # None /\ publish.at = "check" /\ publish' = [publish EXCEPT !.at = "command"]
    BY <1>1 DEF PublishChecks, PublishAt
  <2>2. remote' = remote /\ remote \in [Feature -> {"none", "written", "merged"}]
    BY <1>1 DEF PublishChecks, world, Inv, TypeOK
  <2>3. UNCHANGED <<feat, paused, autoRun, disk, flag, gate, lock, run, req, stopped, used>>
    BY <1>1 DEF PublishChecks, durable, world
  <2> QED
    BY <1>1, <2>1, <2>2, <2>3, PublishMoves
<1>2. ASSUME Inv, PublishLands PROVE Inv'
  <2>1. publish # None /\ publish.at = "command" /\ publish' = [publish EXCEPT !.at = "intent"]
    BY <1>2 DEF PublishLands, PublishAt
  <2>2. /\ remote' \in [Feature -> {"none", "written", "merged"}]
        /\ \A g \in Feature : g # publish.id => remote'[g] = remote[g]
    BY <1>2 DEF PublishLands, Inv, TypeOK
  <2>3. UNCHANGED <<feat, paused, autoRun, disk, flag, gate, lock, run, req, stopped, used>>
    BY <1>2 DEF PublishLands, durable
  <2> QED
    BY <1>2, <2>1, <2>2, <2>3, PublishMoves
<1> QED
  BY <1>1, <1>2

\* PublishVerified.
LEMMA PublishVerifiedKeeps == Inv /\ PublishVerified => Inv'
<1> SUFFICES ASSUME Inv, PublishVerified PROVE Inv'
  OBVIOUS
<1>1. publish # None /\ publish.at = "command" /\ remote[publish.id] = "merged"
  BY DEF PublishVerified, PublishAt
<1>2. /\ publish \in PublishTask /\ publish.id \in Feature /\ published \in FeatureRecord
      /\ Counted(published) /\ PublicationFits(published)
      /\ RemoteFits(publish.id, published, remote[publish.id])
      /\ PublishFits(publish, published) /\ published.publication \in Publication
  BY <1>1, PublishFacts
<1> DEFINE p == [published.publication EXCEPT !.status = "succeeded"]
           e == [published EXCEPT !.publication = p]
<1>3. Records(e)
  BY DEF PublishVerified
<1>4. p \in Publication \cup {None} /\ p # None /\ p.status = "succeeded"
      /\ p.candidate = published.publication.candidate
  BY <1>2, StatusFacts
<1> HIDE DEF p
<1>5. /\ e \in FeatureRecord /\ e.status = published.status /\ e.checkpoint = published.checkpoint
      /\ e.edits = published.edits /\ e.repairs = published.repairs
      /\ e.repairPending = published.repairPending /\ e.pending = published.pending
      /\ e.last = published.last /\ e.publication = p /\ e.candidates = published.candidates
  BY <1>2, <1>4, Zenon DEF FeatureRecord
<1> HIDE DEF e
<1>6. publish' \in PublishTask /\ publish'.id = publish.id /\ publish'.by = publish.by
      /\ publish'.at = "finish"
  BY <1>2 DEF PublishVerified, PublishTask
<1>7. Counted(e) /\ PublicationFits(e) /\ PublishFits(publish', e)
  BY <1>1, <1>2, <1>4, <1>5, <1>6 DEF Counted, PublicationFits, PublishFits
<1>8. remote' = remote /\ remote \in [Feature -> {"none", "written", "merged"}]
  BY DEF PublishVerified, world, Inv, TypeOK
<1>9. RemoteFits(publish.id, e, remote'[publish.id])
  BY <1>1, <1>2, <1>4, <1>5, <1>8 DEF RemoteFits, PublishFits
<1>10. e.status # "absent"
  BY <1>2, <1>5 DEF PublishFits
<1> QED
  BY <1>1, <1>3, <1>4, <1>5, <1>6, <1>7, <1>8, <1>9, <1>10, PublishGoesOn DEF PublishVerified, world

\* A publication that needs the owner's attention is over.
LEMMA AttentionOver ==
  ASSUME Inv, publish # None, NEW b \in BOOLEAN,
         Records([published EXCEPT !.publication.status = "attention", !.status = "failed",
                                   !.checkpoint = "publication_attention", !.repairPending = b]),
         PublishEnds(FALSE), UNCHANGED <<paused, autoRun, world, gate, lock, req, used>>
  PROVE  Inv'
<1>1. /\ publish.id \in Feature /\ published \in FeatureRecord
      /\ Counted(published) /\ PublicationFits(published)
      /\ RemoteFits(publish.id, published, remote[publish.id])
      /\ PublishFits(publish, published) /\ published.publication \in Publication
  BY PublishFacts
<1> DEFINE p == [published.publication EXCEPT !.status = "attention"]
           e == [published EXCEPT !.publication = p, !.status = "failed",
                                  !.checkpoint = "publication_attention", !.repairPending = b]
<1>2. Records(e)
  OBVIOUS
<1>3. p \in Publication \cup {None} /\ p # None /\ p.status = "attention"
      /\ p.candidate = published.publication.candidate /\ "failed" \in Status
      /\ "publication_attention" \in Checkpoint
  BY <1>1, StatusFacts DEF Status, Checkpoint, PublicationCheckpoint
<1> HIDE DEF p
<1>4. /\ e \in FeatureRecord /\ e.status = "failed" /\ e.checkpoint = "publication_attention"
      /\ e.edits = published.edits /\ e.repairs = published.repairs
      /\ e.repairPending = b /\ e.pending = published.pending
      /\ e.last = published.last /\ e.publication = p /\ e.candidates = published.candidates
  BY <1>1, <1>3, Zenon DEF FeatureRecord
<1> HIDE DEF e
<1>5. Counted(e) /\ PublicationFits(e) /\ RemoteFits(publish.id, e, remote[publish.id])
  BY <1>1, <1>3, <1>4 DEF Counted, PublicationFits, RemoteFits, PublishFits
<1> QED
  BY <1>2, <1>3, <1>4, <1>5, PublishOver

\* PublishFails.
LEMMA PublishFailsKeeps == Inv /\ PublishFails => Inv'
  BY AttentionOver DEF PublishFails, PublishAt, Attention

\* Reverifies.
LEMMA ReverifiesKeeps == Inv /\ Reverifies => Inv'
<1> SUFFICES ASSUME Inv, Reverifies PROVE Inv'
  OBVIOUS
<1>1. publish # None /\ publish.at = "reverify"
  BY DEF Reverifies, PublishAt
<1>2. /\ publish \in PublishTask /\ publish.id \in Feature /\ published \in FeatureRecord
      /\ Counted(published) /\ PublicationFits(published)
      /\ RemoteFits(publish.id, published, remote[publish.id])
      /\ PublishFits(publish, published) /\ published.publication \in Publication
  BY <1>1, PublishFacts
<1>3. Records(published) /\ UNCHANGED <<paused, autoRun, disk, remote>>
      /\ remote \in [Feature -> {"none", "written", "merged"}]
  BY <1>2 DEF Reverifies, durable, world, Records, published, Inv, TypeOK
<1>4. /\ publish.by = "runner" /\ published.publication # None
      /\ published.publication.status = "succeeded" /\ published.status # "absent"
  BY <1>1, <1>2 DEF PublishFits
<1>5. CASE publish' = [publish EXCEPT !.at = "finish"] /\ UNCHANGED <<flag, run, stopped>>
  <2>1. publish' \in PublishTask /\ publish'.id = publish.id /\ publish'.by = publish.by
        /\ publish'.at = "finish"
    BY <1>2, <1>5 DEF PublishTask
  <2>2. PublishFits(publish', published)
    BY <1>2, <1>4, <2>1 DEF PublishFits
  <2> QED
    BY <1>1, <1>2, <1>3, <1>4, <1>5, <2>1, <2>2, PublishGoesOn DEF Reverifies
<1>6. CASE PublishEnds(FALSE)
  BY <1>1, <1>2, <1>3, <1>4, <1>6, PublishOver DEF Reverifies, world
<1> QED
  BY <1>5, <1>6 DEF Reverifies

\* PublishFinishes.
LEMMA PublishFinishesKeeps == Inv /\ PublishFinishes => Inv'
<1> SUFFICES ASSUME Inv, PublishFinishes PROVE Inv'
  OBVIOUS
<1>1. publish # None /\ publish.at = "finish"
      /\ UNCHANGED <<paused, autoRun, world, gate, lock, req, used>>
  BY DEF PublishFinishes, PublishAt
<1>2. /\ publish.id \in Feature /\ published \in FeatureRecord
      /\ Counted(published) /\ PublicationFits(published)
      /\ RemoteFits(publish.id, published, remote[publish.id])
      /\ PublishFits(publish, published) /\ published.publication \in Publication
  BY <1>1, PublishFacts
<1>3. CASE Records([published EXCEPT !.publication.status = "attention", !.status = "failed",
                                     !.checkpoint = "publication_attention"])
           /\ PublishEnds(FALSE)
  <2>1. published.repairPending \in BOOLEAN
    BY <1>2 DEF FeatureRecord
  <2>2. [published EXCEPT !.publication.status = "attention", !.status = "failed",
                          !.checkpoint = "publication_attention"]
        = [published EXCEPT !.publication.status = "attention", !.status = "failed",
                            !.checkpoint = "publication_attention",
                            !.repairPending = published.repairPending]
    BY <1>2, Zenon DEF FeatureRecord
  <2> QED
    BY <1>1, <1>3, <2>1, <2>2, AttentionOver
<1>4. CASE Records([published EXCEPT !.status = "succeeded", !.checkpoint = "publication_merged",
                                     !.repairPending = FALSE, !.quarantined = FALSE])
           /\ PublishEnds(TRUE)
  <2> DEFINE e == [published EXCEPT !.status = "succeeded", !.checkpoint = "publication_merged",
                                    !.repairPending = FALSE, !.quarantined = FALSE]
  <2>1. Records(e)
    BY <1>4
  <2>2. "succeeded" \in Status /\ "publication_merged" \in Checkpoint /\ FALSE \in BOOLEAN
    BY DEF Status, Checkpoint, PublicationCheckpoint
  <2>3. /\ e \in FeatureRecord /\ e.status = "succeeded" /\ e.checkpoint = "publication_merged"
        /\ e.edits = published.edits /\ e.repairs = published.repairs
        /\ e.repairPending = FALSE /\ e.pending = published.pending
        /\ e.last = published.last /\ e.publication = published.publication
        /\ e.candidates = published.candidates
    BY <1>2, <2>2, Zenon DEF FeatureRecord
  <2> HIDE DEF e
  <2>4. e.publication # None /\ e.publication.status = "succeeded"
    BY <1>1, <1>2, <2>3 DEF PublishFits
  <2>5. Counted(e) /\ PublicationFits(e) /\ RemoteFits(publish.id, e, remote[publish.id])
    BY <1>2, <2>3, <2>4 DEF Counted, PublicationFits, RemoteFits
  <2> QED
    BY <1>1, <1>4, <2>1, <2>3, <2>4, <2>5, PublishOver
<1> QED
  BY <1>3, <1>4 DEF PublishFinishes

\* Every step of the publication task.
LEMMA PublishStepKeeps == Inv /\ PublishStep => Inv'
  BY PublishIntendsKeeps, PublishCommandKeeps, PublishVerifiedKeeps, PublishFailsKeeps, ReverifiesKeeps, PublishFinishesKeeps
     DEF PublishStep

-----------------------------------------------------------------------------
(* Requests *)

\* A request that leaves the entries, the run and the publication alone keeps
\* what is known of the features.
LEMMA RequestKeeps ==
  ASSUME Inv, UNCHANGED <<feat, world, run, publish>>,
         used' \in [versions : 0 .. MaxVersion, restarts : 0 .. MaxRestarts, stops : 0 .. MaxStops,
                    outside : 0 .. MaxOutside],
         paused' \in BOOLEAN, autoRun' \in BOOLEAN, flag' \in Flags,
         gate' \in {None, "runner", "stop"}, lock' \in BOOLEAN, req' \in Requests,
         stopped' \in [run : StopSeen, publication : StopSeen],
         Threads', lock' => NoneUnresolved, EnqueueInv'
  PROVE  Inv'
<1>1. UNCHANGED <<feat, disk, remote, run, publish>>
  BY DEF world
<1>2. TypeOK'
  BY <1>1 DEF Inv, TypeOK
<1>3. Work'
  <2>1. \A g \in Feature : FeatureInv(g)'
    BY <1>1 DEF Inv, Work, FeatureInv
  <2>2. RunInv' /\ PublishInv' /\ Clear'
    BY <1>1 DEF Inv, Work, RunInv, PublishInv, Clear, NoneUnresolved
  <2>3. BarrierHolds' /\ RunningIsAttended' /\ PendingIsReviewing'
    BY <1>1 DEF Inv, Work, BarrierHolds, Unresolved, RunningIsAttended, PendingIsReviewing, RunAt
  <2> QED
    BY <2>1, <2>2, <2>3 DEF Work
<1> QED
  BY <1>2, <1>3 DEF Inv

\* A Stop in flight, and whoever else asks, changes no claim.
LEMMA StopThreads ==
  ASSUME Inv, UNCHANGED <<lock, run, publish>>,
         flag'.running = flag.running, flag'.publicationRunning = flag.publicationRunning,
         req'.repair = None <=> req.repair = None, req'.owner = req.owner,
         req'.start = None <=> req.start = None,
         req.start # None => req'.start.at = req.start.at,
         gate' = "runner" <=> gate = "runner",
         gate' = "stop" <=> req'.stop # None /\ req'.stop.at \in {"persist", "latch"}
  PROVE  Threads'
<1>1. Admission' /\ Claim'
  BY DEF Inv, Threads, Admission, Held, Claim
<1>2. Partners' /\ GateHeld' /\ RunHasFeature'
  BY DEF Inv, Threads, Partners, GateHeld, RunHasFeature
<1> QED
  BY <1>1, <1>2 DEF Threads

\* A Stop goes on.
LEMMA StopGoesFacts ==
  ASSUME req \in Requests, req.stop # None,
         NEW s \in {"cancellation", "publication", "gate", "persist", "latch"}, StopGoes(s)
  PROVE  /\ req' \in Requests /\ req'.stop # None /\ req'.stop.at = s
         /\ req'.stop.severity = req.stop.severity
         /\ req'.start = req.start /\ req'.repair = req.repair /\ req'.clear = req.clear
         /\ req'.enqueue = req.enqueue /\ req'.owner = req.owner
<1> DEFINE x == [req.stop EXCEPT !.at = s]
<1>1. req.stop \in StopRequest
  BY DEF Requests
<1>2. x \in StopRequest /\ x.at = s /\ x.severity = req.stop.severity
  BY <1>1 DEF StopRequest
<1>3. req' = [req EXCEPT !.stop = x]
  BY DEF StopGoes
<1> HIDE DEF x
<1>4. x \in StopRequest \cup {None} /\ x # None
  BY <1>2
<1>5. /\ req' \in Requests /\ req'.stop = x
      /\ req'.start = req.start /\ req'.repair = req.repair /\ req'.clear = req.clear
      /\ req'.enqueue = req.enqueue /\ req'.owner = req.owner
  BY <1>3, <1>4, Zenon DEF Requests
<1> QED
  BY <1>2, <1>4, <1>5

\* What a Start or Repair in flight keeps of an answered Stop.
LEMMA SeenFacts ==
  /\ \A r \in StartRequest \cup {None} :
       /\ SeenByRequest(r) \in StartRequest \cup {None}
       /\ r = None <=> SeenByRequest(r) = None
       /\ r # None => /\ SeenByRequest(r).at = r.at /\ SeenByRequest(r).moved = r.moved
                      /\ SeenByRequest(r).stopped = "met" => r.moved
  /\ \A r \in RepairRequest \cup {None} :
       /\ SeenByRequest(r) \in RepairRequest \cup {None}
       /\ r = None <=> SeenByRequest(r) = None
       /\ r # None => /\ SeenByRequest(r).at = r.at /\ SeenByRequest(r).moved = r.moved
                      /\ SeenByRequest(r).stopped = "met" => r.moved
<1> DEFINE n(r) == IF r.moved THEN "met" ELSE "earlier"
<1>1. \A r : n(r) \in StopSeen /\ (n(r) = "met" => r.moved)
  BY DEF StopSeen
<1>2. \A r : r # None => SeenByRequest(r) = [r EXCEPT !.stopped = n(r)]
  BY DEF SeenByRequest
<1>3. SeenByRequest(None) = None
  BY DEF SeenByRequest
<1> HIDE DEF n
<1>4. \A r \in StartRequest : LET x == [r EXCEPT !.stopped = n(r)] IN
        x \in StartRequest /\ x.at = r.at /\ x.moved = r.moved /\ x.stopped = n(r)
  BY <1>1, Zenon DEF StartRequest
<1>5. \A r \in RepairRequest : LET x == [r EXCEPT !.stopped = n(r)] IN
        x \in RepairRequest /\ x.at = r.at /\ x.moved = r.moved /\ x.stopped = n(r)
  BY <1>1, Zenon DEF RepairRequest
<1>6. None \notin StartRequest \cup RepairRequest
  OBVIOUS
<1>7. ASSUME NEW r \in StartRequest
      PROVE  /\ SeenByRequest(r) \in StartRequest /\ SeenByRequest(r).at = r.at
             /\ SeenByRequest(r).moved = r.moved
             /\ SeenByRequest(r).stopped = "met" => r.moved
  BY <1>1, <1>2, <1>4, <1>6
<1>8. ASSUME NEW r \in RepairRequest
      PROVE  /\ SeenByRequest(r) \in RepairRequest /\ SeenByRequest(r).at = r.at
             /\ SeenByRequest(r).moved = r.moved
             /\ SeenByRequest(r).stopped = "met" => r.moved
  BY <1>1, <1>2, <1>5, <1>6
<1> HIDE DEF n
<1>9. ASSUME NEW r \in StartRequest \cup {None}
      PROVE  /\ SeenByRequest(r) \in StartRequest \cup {None}
             /\ r = None <=> SeenByRequest(r) = None
             /\ r # None => /\ SeenByRequest(r).at = r.at /\ SeenByRequest(r).moved = r.moved
                            /\ SeenByRequest(r).stopped = "met" => r.moved
  BY <1>3, <1>6, <1>7, <1>9
<1>10. ASSUME NEW r \in RepairRequest \cup {None}
       PROVE  /\ SeenByRequest(r) \in RepairRequest \cup {None}
              /\ r = None <=> SeenByRequest(r) = None
              /\ r # None => /\ SeenByRequest(r).at = r.at /\ SeenByRequest(r).moved = r.moved
                             /\ SeenByRequest(r).stopped = "met" => r.moved
  BY <1>3, <1>6, <1>8, <1>10
<1> QED
  BY <1>9, <1>10

\* A Stop is over.
LEMMA StopEndsFacts ==
  ASSUME req \in Requests, StopEnds
  PROVE  /\ req' \in Requests /\ req'.stop = None /\ req'.clear = req.clear
         /\ req'.enqueue = req.enqueue /\ req'.owner = req.owner
         /\ req.start = None <=> req'.start = None
         /\ req.start # None => /\ req'.start.at = req.start.at
                                /\ req'.start.moved = req.start.moved
                                /\ req'.start.stopped = "met" => req.start.moved
         /\ req.repair = None <=> req'.repair = None
         /\ req.repair # None => /\ req'.repair.moved = req.repair.moved
                                 /\ req'.repair.stopped = "met" => req.repair.moved
         /\ stopped' \in [run : StopSeen, publication : StopSeen]
         /\ stopped'.run = SeenBy(run # None) /\ stopped'.publication = SeenBy(publish # None)
         /\ gate' = None
<1> DEFINE x == SeenByRequest(req.start)
           y == SeenByRequest(req.repair)
<1>1. req' = [req EXCEPT !.stop = None, !.start = x, !.repair = y] /\ gate' = None
      /\ stopped' = [run |-> SeenBy(run # None), publication |-> SeenBy(publish # None)]
  BY DEF StopEnds
<1>2. /\ x \in StartRequest \cup {None}
      /\ req.start = None <=> x = None
      /\ req.start # None => /\ x.at = req.start.at /\ x.moved = req.start.moved
                             /\ x.stopped = "met" => req.start.moved
      /\ y \in RepairRequest \cup {None}
      /\ req.repair = None <=> y = None
      /\ req.repair # None => /\ y.moved = req.repair.moved
                              /\ y.stopped = "met" => req.repair.moved
  <2>1. req.start \in StartRequest \cup {None} /\ req.repair \in RepairRequest \cup {None}
    BY DEF Requests
  <2> QED
    BY <2>1, SeenFacts
<1> HIDE DEF x, y
<1>3. None \in StopRequest \cup {None}
  OBVIOUS
<1>4. /\ req' \in Requests /\ req'.stop = None /\ req'.start = x /\ req'.repair = y
      /\ req'.clear = req.clear /\ req'.enqueue = req.enqueue /\ req'.owner = req.owner
  BY <1>1, <1>2, <1>3, Zenon DEF Requests
<1>5. SeenBy(run # None) \in StopSeen /\ SeenBy(publish # None) \in StopSeen
  BY DEF SeenBy, StopSeen
<1>6. /\ stopped' \in [run : StopSeen, publication : StopSeen]
      /\ stopped'.run = SeenBy(run # None) /\ stopped'.publication = SeenBy(publish # None)
  BY <1>1, <1>5
<1> QED
  BY <1>1, <1>2, <1>4, <1>6

\* A Stop is given up without having been answered.
LEMMA StopDropsFacts ==
  ASSUME req \in Requests, req' = [req EXCEPT !.stop = None]
  PROVE  /\ req' \in Requests /\ req'.stop = None /\ req'.start = req.start
         /\ req'.repair = req.repair /\ req'.clear = req.clear
         /\ req'.enqueue = req.enqueue /\ req'.owner = req.owner
<1>1. None \in StopRequest \cup {None}
  OBVIOUS
<1> QED
  BY <1>1, Zenon DEF Requests

\* StopBegins.
LEMMA StopBeginsKeeps == \A n \in 1 .. 2 : Inv /\ StopBegins(n) => Inv'
<1> SUFFICES ASSUME NEW n \in 1 .. 2, Inv, StopBegins(n) PROVE Inv'
  OBVIOUS
<1> DEFINE r == [req EXCEPT !.stop = [at |-> "cancellation", severity |-> n]]
<1>1. req \in Requests /\ flag \in Flags /\ FALSE \in BOOLEAN /\ req.stop = None
  BY DEF Inv, TypeOK, StopBegins
<1>2. /\ r \in Requests /\ r.stop = [at |-> "cancellation", severity |-> n] /\ r.start = req.start
      /\ r.repair = req.repair /\ r.enqueue = req.enqueue /\ r.owner = req.owner
  <2>1. [at |-> "cancellation", severity |-> n] \in StopRequest \cup {None}
    BY DEF StopRequest
  <2> QED
    BY <1>1, <2>1, Zenon DEF Requests
<1>3. req' = EpochMoves(r)
  BY DEF StopBegins
<1>4. r.stop.at = "cancellation"
  BY <1>2
<1> HIDE DEF r
<1>5. /\ req' \in Requests /\ req'.owner = req.owner
      /\ req'.repair = None <=> req.repair = None
      /\ req'.enqueue = req.enqueue /\ req'.stop.at = "cancellation"
      /\ req'.start = None <=> req.start = None
      /\ req.start # None => req'.start.at = req.start.at
  BY <1>2, <1>3, <1>4, EpochFacts
<1>6. flag' \in Flags /\ flag'.running = flag.running
      /\ flag'.publicationRunning = flag.publicationRunning
  BY <1>1, Zenon DEF StopBegins, Flags
<1>7. UNCHANGED <<feat, paused, autoRun, world, gate, lock, run, publish, stopped>>
  BY DEF StopBegins, durable
<1>8. used' \in [versions : 0 .. MaxVersion, restarts : 0 .. MaxRestarts, stops : 0 .. MaxStops,
                outside : 0 .. MaxOutside]
  <2>1. /\ used \in [versions : 0 .. MaxVersion, restarts : 0 .. MaxRestarts, stops : 0 .. MaxStops,
                    outside : 0 .. MaxOutside]
        /\ used.stops < MaxStops /\ used' = [used EXCEPT !.stops = used.stops + 1]
    BY DEF Inv, TypeOK, StopBegins
  <2>2. used.stops + 1 \in 0 .. MaxStops
    BY <2>1
  <2> QED
    BY <2>1, <2>2
<1>9. gate # "stop"
  BY <1>1 DEF Inv, Threads, GateHeld
<1>10. Threads'
  BY <1>5, <1>6, <1>7, <1>9, StopThreads
<1>11. (lock' => NoneUnresolved) /\ EnqueueInv'
  BY <1>5, <1>7 DEF Inv, Work, Clear, EnqueueInv
<1> QED
  BY <1>5, <1>6, <1>7, <1>8, <1>10, <1>11, RequestKeeps DEF Inv, TypeOK

\* A step of a Stop that goes on.
LEMMA StopOn ==
  ASSUME Inv, req.stop # None,
         NEW s \in {"cancellation", "publication", "gate", "persist", "latch"}, StopGoes(s),
         gate' = "runner" <=> gate = "runner", gate' \in {None, "runner", "stop"},
         gate' = "stop" <=> s \in {"persist", "latch"},
         flag' \in Flags, flag'.running = flag.running,
         flag'.publicationRunning = flag.publicationRunning, paused' \in BOOLEAN,
         UNCHANGED <<feat, autoRun, world, lock, run, publish, stopped, used>>
  PROVE  Inv'
<1>1. /\ req' \in Requests /\ req'.stop # None /\ req'.stop.at = s
      /\ req'.start = req.start /\ req'.repair = req.repair
      /\ req'.enqueue = req.enqueue /\ req'.owner = req.owner
  BY StopGoesFacts DEF Inv, TypeOK
<1>2. Threads'
  BY <1>1, StopThreads
<1>3. (lock' => NoneUnresolved) /\ EnqueueInv'
  BY <1>1 DEF Inv, Work, Clear, EnqueueInv
<1> QED
  BY <1>1, <1>2, <1>3, RequestKeeps DEF Inv, TypeOK

\* A step of a Stop that ends it: the gate is given back.
LEMMA StopOff ==
  ASSUME Inv, req.stop # None, req.stop.at \in {"persist", "latch"},
         StopEnds \/ (req' = [req EXCEPT !.stop = None] /\ gate' = None /\ UNCHANGED stopped),
         flag' \in Flags, flag'.running = flag.running,
         flag'.publicationRunning = flag.publicationRunning,
         UNCHANGED <<feat, paused, autoRun, world, lock, run, publish, used>>
  PROVE  Inv'
<1>1. /\ req' \in Requests /\ req'.stop = None
      /\ req'.start = None <=> req.start = None
      /\ req.start # None => req'.start.at = req.start.at
      /\ req'.repair = None <=> req.repair = None
      /\ req'.enqueue = req.enqueue /\ req'.owner = req.owner
      /\ stopped' \in [run : StopSeen, publication : StopSeen] /\ gate' = None
  BY StopEndsFacts, StopDropsFacts DEF Inv, TypeOK
<1>2. gate = "stop"
  BY DEF Inv, Threads, GateHeld
<1>3. Threads'
  BY <1>1, <1>2, StopThreads
<1>4. (lock' => NoneUnresolved) /\ EnqueueInv'
  BY <1>1 DEF Inv, Work, Clear, EnqueueInv
<1> QED
  BY <1>1, <1>3, <1>4, RequestKeeps DEF Inv, TypeOK

\* StopLatchesCancellation, StopLatchesPublication and StopTakesGate.
LEMMA StopLatchesKeeps ==
  /\ Inv /\ StopLatchesCancellation => Inv'
  /\ Inv /\ StopLatchesPublication => Inv'
  /\ Inv /\ StopTakesGate => Inv'
<1>1. ASSUME Inv, NEW s, StopAt(s)
      PROVE  /\ flag \in Flags /\ req.stop # None /\ req.stop.at = s /\ paused \in BOOLEAN
             /\ gate \in {None, "runner", "stop"}
             /\ gate = "stop" <=> s \in {"persist", "latch"}
             /\ Max2(flag.cancellation, req.stop.severity) \in 0 .. 2
             /\ Max2(flag.publicationCancellation, req.stop.severity) \in 0 .. 2
  <2>1. flag \in Flags /\ req.stop # None /\ req.stop.at = s /\ req.stop \in StopRequest
        /\ gate \in {None, "runner", "stop"} /\ paused \in BOOLEAN
    BY <1>1 DEF Inv, TypeOK, Requests, StopAt
  <2>2. gate = "stop" <=> s \in {"persist", "latch"}
    BY <1>1, <2>1 DEF Inv, Threads, GateHeld
  <2>3. /\ Max2(flag.cancellation, req.stop.severity) \in 0 .. 2
        /\ Max2(flag.publicationCancellation, req.stop.severity) \in 0 .. 2
    BY <2>1 DEF Max2, Flags, StopRequest
  <2> QED
    BY <2>1, <2>2, <2>3
<1>2. ASSUME Inv, StopLatchesCancellation PROVE Inv'
  <2>1. StopAt("cancellation")
    BY <1>2 DEF StopLatchesCancellation
  <2>2. /\ flag \in Flags /\ Max2(flag.cancellation, req.stop.severity) \in 0 .. 2 /\ gate # "stop"
        /\ gate \in {None, "runner", "stop"} /\ req.stop # None /\ paused \in BOOLEAN
    BY <1>1, <1>2, <2>1
  <2>3. flag' \in Flags /\ flag'.running = flag.running
        /\ flag'.publicationRunning = flag.publicationRunning
    BY <1>2, <2>2, Zenon DEF StopLatchesCancellation, Flags
  <2> QED
    BY <1>2, <2>2, <2>3, StopOn DEF StopLatchesCancellation, durable
<1>3. ASSUME Inv, StopLatchesPublication PROVE Inv'
  <2>1. StopAt("publication")
    BY <1>3 DEF StopLatchesPublication
  <2>2. /\ flag \in Flags /\ Max2(flag.publicationCancellation, req.stop.severity) \in 0 .. 2
        /\ gate # "stop" /\ gate \in {None, "runner", "stop"} /\ req.stop # None /\ paused \in BOOLEAN
    BY <1>1, <1>3, <2>1
  <2>3. flag' \in Flags /\ flag'.running = flag.running
        /\ flag'.publicationRunning = flag.publicationRunning
    BY <1>3, <2>2, Zenon DEF StopLatchesPublication, Flags
  <2> QED
    BY <1>3, <2>2, <2>3, StopOn DEF StopLatchesPublication, durable
<1>4. ASSUME Inv, StopTakesGate PROVE Inv'
  <2>1. StopAt("gate")
    BY <1>4 DEF StopTakesGate
  <2>2. flag \in Flags /\ req.stop # None /\ paused \in BOOLEAN
    BY <1>1, <1>4, <2>1
  <2> QED
    BY <1>4, <2>2, StopOn DEF StopTakesGate, durable
<1> QED
  BY <1>2, <1>3, <1>4

\* StopPersists and StopAnswered.
LEMMA StopPersistsKeeps ==
  /\ Inv /\ StopPersists => Inv'
  /\ Inv /\ StopAnswered => Inv'
<1>1. ASSUME Inv, NEW s \in {"persist", "latch"}, StopAt(s)
      PROVE  /\ flag \in Flags /\ req.stop # None /\ req.stop.at = s /\ paused \in BOOLEAN
             /\ gate = "stop" /\ req.stop.severity \in 0 .. 2
  <2>1. flag \in Flags /\ req.stop # None /\ req.stop.at = s /\ req.stop \in StopRequest
        /\ paused \in BOOLEAN
    BY <1>1 DEF Inv, TypeOK, Requests, StopAt
  <2> QED
    BY <1>1, <2>1 DEF Inv, Threads, GateHeld, StopRequest
<1>2. ASSUME Inv, StopPersists PROVE Inv'
  <2>1. flag \in Flags /\ req.stop # None /\ req.stop.at = "persist" /\ paused \in BOOLEAN
        /\ gate = "stop"
    BY <1>1, <1>2 DEF StopPersists
  <2>2. UNCHANGED <<feat, autoRun, world, lock, run, publish, used>>
    BY <1>2 DEF StopPersists
  <2>3. CASE /\ paused' = (paused \/ req.stop.severity = 2) /\ StopGoes("latch")
             /\ UNCHANGED <<flag, gate, stopped>>
    BY <1>2, <2>1, <2>2, <2>3, StopOn
  <2>4. CASE req' = [req EXCEPT !.stop = None] /\ gate' = None /\ UNCHANGED <<paused, flag, stopped>>
    BY <1>2, <2>1, <2>2, <2>4, StopOff
  <2>5. CASE flag' = LatchedTo(2) /\ StopEnds /\ UNCHANGED paused
    <3>1. flag' \in Flags /\ flag'.running = flag.running
          /\ flag'.publicationRunning = flag.publicationRunning
      BY <2>1, <2>5, LatchedFacts
    <3> QED
      BY <1>2, <2>1, <2>2, <2>5, <3>1, StopOff
  <2> QED
    BY <1>2, <2>3, <2>4, <2>5 DEF StopPersists
<1>3. ASSUME Inv, StopAnswered PROVE Inv'
  <2>1. flag \in Flags /\ req.stop # None /\ req.stop.at = "latch" /\ req.stop.severity \in 0 .. 2
    BY <1>1, <1>3 DEF StopAnswered
  <2>2. /\ LatchedTo(req.stop.severity) \in Flags /\ FALSE \in BOOLEAN
        /\ LatchedTo(req.stop.severity).running = flag.running
        /\ LatchedTo(req.stop.severity).publicationRunning = flag.publicationRunning
    BY <2>1, LatchedFacts
  <2>3. flag' \in Flags /\ flag'.running = flag.running
        /\ flag'.publicationRunning = flag.publicationRunning
    BY <1>3, <2>2, Zenon DEF StopAnswered, Flags
  <2> QED
    BY <1>3, <2>1, <2>3, StopOff DEF StopAnswered, durable
<1> QED
  BY <1>2, <1>3

\* A step that changes what is asked, but not by whom something is held.
LEMMA AskKeeps ==
  ASSUME Inv, UNCHANGED <<feat, world, gate, lock, run, publish, stopped, used>>,
         paused' \in BOOLEAN, autoRun' \in BOOLEAN, flag' \in Flags, req' \in Requests,
         flag'.running = flag.running,
         req'.stop = req.stop, req'.repair = None <=> req.repair = None,
         Held' <=> Held,
         \/ req'.owner = req.owner /\ flag'.publicationRunning = flag.publicationRunning
         \/ publish = None /\ (req'.owner # None <=> flag'.publicationRunning) /\ ~lock
            /\ (req'.owner \in Feature => ~flag.running),
         EnqueueInv'
  PROVE  Inv'
<1>1. Threads'
  <2>1. Admission' /\ Claim'
    BY DEF Inv, Threads, Admission, Claim
  <2>2. Partners' /\ GateHeld' /\ RunHasFeature'
    BY DEF Inv, Threads, Partners, GateHeld, RunHasFeature
  <2> QED
    BY <2>1, <2>2 DEF Threads
<1>2. lock' => NoneUnresolved
  BY DEF Inv, Work, Clear
<1> QED
  BY <1>1, <1>2, RequestKeeps DEF Inv, TypeOK

\* A Clear goes on.
LEMMA ClearGoesFacts ==
  ASSUME req \in Requests, NEW s \in {None, "commit", "cancellation", "publication"},
         req' = [req EXCEPT !.clear = s]
  PROVE  /\ req' \in Requests /\ req'.start = req.start /\ req'.repair = req.repair
         /\ req'.stop = req.stop /\ req'.clear = s /\ req'.enqueue = req.enqueue
         /\ req'.owner = req.owner
  BY Zenon DEF Requests

\* ClearChecks and the steps of ClearStep.
LEMMA ClearKeeps ==
  ASSUME Inv, ClearChecks \/ ClearStep
  PROVE  Inv'
<1>1. req \in Requests /\ flag \in Flags /\ paused \in BOOLEAN /\ autoRun \in BOOLEAN /\ 0 \in 0 .. 2
  BY DEF Inv, TypeOK
<1>2. \E s \in {None, "commit", "cancellation", "publication"} : req' = [req EXCEPT !.clear = s]
  BY DEF ClearChecks, ClearStep, ClearCommits, ClearStoresCancellation, ClearStoresPublication
<1>3. /\ req' \in Requests /\ req'.start = req.start /\ req'.repair = req.repair
      /\ req'.stop = req.stop /\ req'.enqueue = req.enqueue /\ req'.owner = req.owner
  BY <1>1, <1>2, ClearGoesFacts
<1>4. /\ UNCHANGED <<feat, autoRun, world, gate, lock, run, publish, stopped, used>>
      /\ paused' \in BOOLEAN
  BY <1>1 DEF ClearChecks, ClearStep, ClearCommits, ClearStoresCancellation, ClearStoresPublication,
              durable
<1>5. EnqueueInv' /\ (Held' <=> Held)
  BY <1>3, <1>4 DEF EnqueueInv, Held, Inv, Work
<1>6. flag' \in Flags /\ flag'.running = flag.running
      /\ flag'.publicationRunning = flag.publicationRunning
  <2>1. \/ flag' = flag
        \/ flag' = [flag EXCEPT !.cancellation = 0]
        \/ flag' = [flag EXCEPT !.publicationCancellation = 0]
    BY DEF ClearChecks, ClearStep, ClearCommits, ClearStoresCancellation, ClearStoresPublication
  <2> QED
    BY <1>1, <2>1, Zenon DEF Flags
<1> QED
  BY <1>1, <1>3, <1>4, <1>5, <1>6, AskKeeps

\* SetAutoRun and BeginShutdown.
LEMMA SettingsKeep ==
  /\ \A b \in BOOLEAN : Inv /\ SetAutoRun(b) => Inv'
  /\ Inv /\ BeginShutdown => Inv'
<1>1. ASSUME NEW b \in BOOLEAN, Inv, SetAutoRun(b) PROVE Inv'
  <2>1. UNCHANGED <<feat, paused, world, flag, gate, lock, run, publish, req, stopped, used>>
        /\ autoRun' \in BOOLEAN
    BY <1>1 DEF SetAutoRun
  <2>2. EnqueueInv' /\ (Held' <=> Held)
    BY <1>1, <2>1 DEF EnqueueInv, Held, Inv, Work
  <2> QED
    BY <1>1, <2>1, <2>2, AskKeeps DEF Inv, TypeOK
<1>2. ASSUME Inv, BeginShutdown PROVE Inv'
  <2>1. req \in Requests /\ flag \in Flags /\ TRUE \in BOOLEAN
    BY <1>2 DEF Inv, TypeOK
  <2>2. /\ req' \in Requests /\ req'.stop = req.stop
        /\ req'.repair = None <=> req.repair = None
        /\ req'.enqueue = req.enqueue /\ req'.owner = req.owner
        /\ req'.start = None <=> req.start = None
        /\ req.start # None => req'.start.at = req.start.at
    BY <1>2, <2>1, EpochFacts DEF BeginShutdown
  <2>3. UNCHANGED <<feat, paused, autoRun, world, gate, lock, run, publish, stopped, used>>
    BY <1>2 DEF BeginShutdown, durable
  <2>4. EnqueueInv' /\ (Held' <=> Held)
    BY <1>2, <2>2, <2>3 DEF EnqueueInv, Held, Inv, Work
  <2>5. Max2(flag.publicationCancellation, 1) \in 0 .. 2
    BY <2>1 DEF Max2, Flags
  <2>6. flag' \in Flags /\ flag'.running = flag.running
        /\ flag'.publicationRunning = flag.publicationRunning
    BY <1>2, <2>1, <2>5, Zenon DEF BeginShutdown, Flags
  <2> QED
    BY <1>2, <2>2, <2>3, <2>4, <2>6, AskKeeps DEF Inv, TypeOK
<1> QED
  BY <1>1, <1>2

\* The requests after one of them named its feature, or was answered.
LEMMA AskFacts ==
  ASSUME req \in Requests
  PROVE  /\ \A x \in Feature \cup {None} : req' = [req EXCEPT !.enqueue = x] =>
              /\ req' \in Requests /\ req'.start = req.start /\ req'.repair = req.repair
              /\ req'.stop = req.stop /\ req'.clear = req.clear /\ req'.enqueue = x
              /\ req'.owner = req.owner
         /\ \A x \in {None, "rejected"} \cup Feature : req' = [req EXCEPT !.owner = x] =>
              /\ req' \in Requests /\ req'.start = req.start /\ req'.repair = req.repair
              /\ req'.stop = req.stop /\ req'.clear = req.clear /\ req'.enqueue = req.enqueue
              /\ req'.owner = x
         /\ \A x \in RepairRequest \cup {None} : req' = [req EXCEPT !.repair = x] =>
              /\ req' \in Requests /\ req'.start = req.start /\ req'.repair = x
              /\ req'.stop = req.stop /\ req'.clear = req.clear /\ req'.enqueue = req.enqueue
              /\ req'.owner = req.owner
<1>1. ASSUME NEW x \in Feature \cup {None}, req' = [req EXCEPT !.enqueue = x]
      PROVE  /\ req' \in Requests /\ req'.start = req.start /\ req'.repair = req.repair
             /\ req'.stop = req.stop /\ req'.clear = req.clear /\ req'.enqueue = x
             /\ req'.owner = req.owner
  BY <1>1, Zenon DEF Requests
<1>2. ASSUME NEW x \in {None, "rejected"} \cup Feature, req' = [req EXCEPT !.owner = x]
      PROVE  /\ req' \in Requests /\ req'.start = req.start /\ req'.repair = req.repair
             /\ req'.stop = req.stop /\ req'.clear = req.clear /\ req'.enqueue = req.enqueue
             /\ req'.owner = x
  BY <1>2, Zenon DEF Requests
<1>3. ASSUME NEW x \in RepairRequest \cup {None}, req' = [req EXCEPT !.repair = x]
      PROVE  /\ req' \in Requests /\ req'.start = req.start /\ req'.repair = x
             /\ req'.stop = req.stop /\ req'.clear = req.clear /\ req'.enqueue = req.enqueue
             /\ req'.owner = req.owner
  BY <1>3, Zenon DEF Requests
<1> QED
  BY <1>1, <1>2, <1>3

\* EnqueueChecks, ClaimRefused, ClaimReleased and AbandonClaims.
LEMMA ClaimsKeep ==
  /\ \A f \in Feature : Inv /\ EnqueueChecks(f) => Inv'
  /\ Inv /\ ClaimRefused => Inv'
  /\ Inv /\ ClaimReleased => Inv'
  /\ \A f \in Feature : Inv /\ AbandonClaims(f) => Inv'
<1>1. ASSUME Inv PROVE /\ req \in Requests /\ flag \in Flags /\ 0 \in 0 .. 2
                       /\ TRUE \in BOOLEAN /\ FALSE \in BOOLEAN
  BY <1>1 DEF Inv, TypeOK
<1>2. ASSUME NEW f \in Feature, Inv, EnqueueChecks(f) PROVE Inv'
  <2>1. /\ req' \in Requests /\ req'.start = req.start /\ req'.repair = req.repair
        /\ req'.stop = req.stop /\ req'.enqueue = f /\ req'.owner = req.owner
    BY <1>1, <1>2, AskFacts DEF EnqueueChecks
  <2>2. UNCHANGED <<feat, paused, autoRun, world, flag, gate, lock, run, publish, stopped, used>>
    BY <1>2 DEF EnqueueChecks, durable
  <2>3. EnqueueInv' /\ (Held' <=> Held)
    BY <1>2, <2>1, <2>2 DEF EnqueueInv, Held, EnqueueChecks
  <2> QED
    BY <1>2, <2>1, <2>2, <2>3, AskKeeps DEF Inv, TypeOK
<1>3. ASSUME Inv, ClaimRefused PROVE Inv'
  <2>1. /\ req' \in Requests /\ req'.start = req.start /\ req'.repair = req.repair
        /\ req'.stop = req.stop /\ req'.enqueue = req.enqueue /\ req'.owner = "rejected"
    BY <1>1, <1>3, AskFacts DEF ClaimRefused
  <2>2. UNCHANGED <<feat, paused, autoRun, world, gate, lock, run, publish, stopped, used>>
    BY <1>3 DEF ClaimRefused, durable
  <2>3. EnqueueInv' /\ (Held' <=> Held)
    BY <1>3, <2>1, <2>2 DEF EnqueueInv, Held, Inv, Work
  <2>4. flag' \in Flags /\ flag'.running = flag.running /\ flag'.publicationRunning
    BY <1>1, <1>3, Zenon DEF ClaimRefused, Flags
  <2>5. publish = None /\ ~lock
    BY <1>3 DEF ClaimRefused, Inv, Threads, Claim
  <2> QED
    BY <1>3, <2>1, <2>2, <2>3, <2>4, <2>5, AskKeeps DEF Inv, TypeOK
<1>4. ASSUME Inv, ClaimReleased PROVE Inv'
  <2>1. /\ req' \in Requests /\ req'.start = req.start /\ req'.repair = req.repair
        /\ req'.stop = req.stop /\ req'.enqueue = req.enqueue /\ req'.owner = None
    BY <1>1, <1>4, AskFacts DEF ClaimReleased
  <2>2. UNCHANGED <<feat, paused, autoRun, world, gate, lock, run, publish, stopped, used>>
    BY <1>4 DEF ClaimReleased, durable
  <2>3. EnqueueInv' /\ (Held' <=> Held)
    BY <1>4, <2>1, <2>2 DEF EnqueueInv, Held, Inv, Work
  <2>4. flag' \in Flags /\ flag'.running = flag.running /\ flag'.publicationRunning = FALSE
    BY <1>1, <1>4, Zenon DEF ClaimReleased, Flags
  <2>5. publish = None /\ ~lock
    BY <1>4 DEF ClaimReleased, Inv, Threads, Claim
  <2> QED
    BY <1>4, <2>1, <2>2, <2>3, <2>4, <2>5, AskKeeps DEF Inv, TypeOK
<1>5. ASSUME NEW f \in Feature, Inv, AbandonClaims(f) PROVE Inv'
  <2>1. /\ req' \in Requests /\ req'.start = req.start /\ req'.repair = req.repair
        /\ req'.stop = req.stop /\ req'.enqueue = req.enqueue /\ req'.owner = f
    BY <1>1, <1>5, AskFacts DEF AbandonClaims
  <2>2. UNCHANGED <<feat, paused, autoRun, world, gate, lock, run, publish, stopped, used>>
    BY <1>5 DEF AbandonClaims, durable
  <2>3. EnqueueInv' /\ (Held' <=> Held)
    BY <1>5, <2>1, <2>2 DEF EnqueueInv, Held, Inv, Work
  <2>4. flag' \in Flags /\ flag'.running = flag.running /\ flag'.publicationRunning
    BY <1>1, <1>5, Zenon DEF AbandonClaims, Flags
  <2>5. publish = None /\ ~lock /\ ~flag.running
    BY <1>5 DEF AbandonClaims, OwnerMayResolve, Inv, Threads, Claim
  <2> QED
    BY <1>5, <2>1, <2>2, <2>3, <2>4, <2>5, AskKeeps DEF Inv, TypeOK
<1> QED
  BY <1>2, <1>3, <1>4, <1>5

\* A request that saves an entry nobody works on, and leaves it at rest.
LEMMA OwnerWork ==
  ASSUME Inv, NEW f \in Feature, NEW e \in FeatureRecord, feat' = [feat EXCEPT ![f] = e],
         Counted(e), PublicationFits(e), RemoteFits(f, e, remote[f]), ~Standing(e),
         e.status # "running", e.pending = None,
         run # None => run.id # f, publish # None => publish.id # f,
         lock' => NoneUnresolved, EnqueueInv', UNCHANGED <<remote, run, publish>>
  PROVE  Work'
<1>1. feat'[f] = e /\ \A g \in Feature : g # f => feat'[g] = feat[g]
  BY DEF Inv, TypeOK
<1>2. /\ run # None /\ run.id # None => run.id \in Feature
      /\ publish # None => publish.id \in Feature
  BY DEF Inv, TypeOK, Run, PublishTask
<1>3. \A g \in Feature : Standing(feat'[g]) => g # f /\ Standing(feat[g])
  BY <1>1
<1>4. \A g \in Feature : FeatureInv(g)'
  BY <1>1 DEF Inv, Work, FeatureInv
<1>5. RunInv' /\ PublishInv'
  BY <1>1, <1>2 DEF Inv, Work, RunInv, PublishInv
<1>6. Clear'
  BY <1>3 DEF Inv, Work, Clear, NoneUnresolved
<1>7. BarrierHolds'
  BY <1>3 DEF Inv, Work, BarrierHolds, Unresolved, Standing
<1>8. RunningIsAttended' /\ PendingIsReviewing'
  BY <1>1 DEF Inv, Work, RunningIsAttended, PendingIsReviewing, RunAt
<1> QED
  BY <1>4, <1>5, <1>6, <1>7, <1>8 DEF Work

\* Nothing is unresolved when the barrier is clear.
LEMMA BarrierFacts ==
  BarrierClear => ~flag.publicationRunning /\ NoneUnresolved
  BY DEF BarrierClear, Unresolved, NoneUnresolved, Standing

\* An entry of which only the status changes.
LEMMA StatusOnly ==
  ASSUME NEW x \in FeatureRecord, NEW s \in Status
  PROVE  LET e == [x EXCEPT !.status = s] IN
         /\ e \in FeatureRecord /\ e.status = s /\ e.checkpoint = x.checkpoint
         /\ e.edits = x.edits /\ e.repairs = x.repairs /\ e.repairPending = x.repairPending
         /\ e.pending = x.pending /\ e.last = x.last /\ e.publication = x.publication
         /\ e.candidates = x.candidates
  BY Zenon DEF FeatureRecord

\* EnqueueCommits.
LEMMA EnqueueCommitsKeeps == Inv /\ EnqueueCommits => Inv'
<1> SUFFICES ASSUME Inv, EnqueueCommits PROVE Inv'
  OBVIOUS
<1> DEFINE f == req.enqueue
<1>1. req \in Requests /\ f \in Feature /\ f # None /\ feat \in [Feature -> FeatureRecord]
      /\ feat[f].status = "absent"
  BY DEF EnqueueCommits, Inv, TypeOK, Requests, Work, EnqueueInv
<1>2. /\ req' \in Requests /\ req'.start = req.start /\ req'.repair = req.repair
      /\ req'.stop = req.stop /\ req'.enqueue = None /\ req'.owner = req.owner
  BY <1>1, AskFacts DEF EnqueueCommits
<1>3. UNCHANGED <<paused, autoRun, world, flag, gate, lock, run, publish, stopped, used>> /\ ~lock
  BY DEF EnqueueCommits
<1>4. EnqueueInv' /\ (Held' <=> Held)
  BY <1>2 DEF EnqueueInv, Held
<1>5. CASE BarrierClear /\ feat' = [feat EXCEPT ![f].status = "queued"]
  <2>1. "queued" \in Status
    BY DEF Status
  <2> DEFINE e == [feat[f] EXCEPT !.status = "queued"]
  <2>2. /\ e \in FeatureRecord /\ e.status = "queued" /\ e.checkpoint = feat[f].checkpoint
        /\ e.edits = feat[f].edits /\ e.repairs = feat[f].repairs
        /\ e.repairPending = feat[f].repairPending /\ e.pending = feat[f].pending
        /\ e.last = feat[f].last /\ e.publication = feat[f].publication
        /\ e.candidates = feat[f].candidates /\ feat' = [feat EXCEPT ![f] = e]
    BY <1>1, <1>5, <2>1, StatusOnly
  <2> HIDE DEF e
  <2>3. FeatureInv(f) /\ ~Standing(feat[f])
    BY <1>1, <1>5, BarrierFacts DEF Inv, Work, NoneUnresolved
  <2>4. Counted(e) /\ PublicationFits(e) /\ RemoteFits(f, e, remote[f]) /\ ~Standing(e) /\ e.pending = None
    BY <1>1, <2>2, <2>3 DEF FeatureInv, Counted, PublicationFits, RemoteFits, Standing
  <2>5. /\ run # None => run.id # f
        /\ publish # None => publish.id # f
    BY <1>1 DEF Inv, Work, RunInv, RunFits, PublishInv, PublishFits
  <2>6. Work'
    BY <1>1, <1>3, <1>4, <2>2, <2>4, <2>5, OwnerWork DEF world
  <2>7. TypeOK'
    BY <1>1, <1>2, <1>3, <2>2 DEF Inv, TypeOK, world
  <2>8. Threads'
    <3>1. Admission' /\ Claim'
      BY <1>2, <1>3, <1>4 DEF Inv, Threads, Admission, Claim
    <3>2. Partners' /\ GateHeld' /\ RunHasFeature'
      BY <1>2, <1>3 DEF Inv, Threads, Partners, GateHeld, RunHasFeature
    <3> QED
      BY <3>1, <3>2 DEF Threads
  <2> QED
    BY <2>6, <2>7, <2>8 DEF Inv
<1>6. CASE feat' = feat
  BY <1>2, <1>3, <1>4, <1>6, AskKeeps DEF Inv, TypeOK
<1> QED
  BY <1>5, <1>6 DEF EnqueueCommits

\* RemoveFeature.
LEMMA RemoveKeeps == \A f \in Feature : Inv /\ RemoveFeature(f) => Inv'
<1> SUFFICES ASSUME NEW f \in Feature, Inv, RemoveFeature(f) PROVE Inv'
  OBVIOUS
<1>1. feat \in [Feature -> FeatureRecord] /\ "removed" \in Status
      /\ feat[f].status \in {"queued", "failed", "paused"} /\ BarrierClear
      /\ feat' = [feat EXCEPT ![f].status = "removed"]
  BY DEF RemoveFeature, Inv, TypeOK, Status
<1> DEFINE e == [feat[f] EXCEPT !.status = "removed"]
<1>2. /\ e \in FeatureRecord /\ e.status = "removed" /\ e.checkpoint = feat[f].checkpoint
      /\ e.edits = feat[f].edits /\ e.repairs = feat[f].repairs
      /\ e.repairPending = feat[f].repairPending /\ e.pending = feat[f].pending
      /\ e.last = feat[f].last /\ e.publication = feat[f].publication
      /\ e.candidates = feat[f].candidates /\ feat' = [feat EXCEPT ![f] = e]
  BY <1>1, StatusOnly
<1> HIDE DEF e
<1>3. UNCHANGED <<paused, autoRun, world, flag, gate, lock, run, publish, req, stopped, used>>
      /\ ~lock /\ ~flag.running
  BY DEF RemoveFeature
<1>4. run = None /\ publish = None
  BY <1>1, <1>3, BarrierFacts DEF Inv, Threads, Admission, Claim
<1>5. FeatureInv(f) /\ ~Standing(feat[f])
  BY <1>1, BarrierFacts DEF Inv, Work, NoneUnresolved
<1>6. Counted(e) /\ PublicationFits(e) /\ RemoteFits(f, e, remote[f]) /\ ~Standing(e) /\ e.pending = None
  BY <1>1, <1>2, <1>5 DEF FeatureInv, Counted, PublicationFits, RemoteFits, Standing
<1>7. EnqueueInv'
  <2>1. req.enqueue \in Feature \cup {None}
    BY DEF Inv, TypeOK, Requests
  <2> QED
    BY <1>1, <1>2, <1>3, <2>1 DEF Inv, Work, EnqueueInv
<1>8. Work'
  BY <1>2, <1>3, <1>4, <1>6, <1>7, OwnerWork DEF world
<1>9. TypeOK'
  <2>1. feat' \in [Feature -> FeatureRecord]
    BY <1>1, <1>2
  <2>2. TypeOK /\ UNCHANGED <<paused, autoRun, disk, remote, flag, gate, lock, run, publish, req, stopped, used>>
    BY <1>3 DEF Inv, world
  <2> QED
    BY <2>1, <2>2 DEF TypeOK
<1>10. Threads'
  <2>1. Admission' /\ Claim'
    BY <1>3 DEF Inv, Threads, Admission, Held, Claim
  <2>2. Partners' /\ GateHeld' /\ RunHasFeature'
    BY <1>3 DEF Inv, Threads, Partners, GateHeld, RunHasFeature
  <2> QED
    BY <2>1, <2>2 DEF Threads
<1> QED
  BY <1>8, <1>9, <1>10 DEF Inv

\* RepairReserves.
LEMMA RepairReservesKeeps == \A f \in Feature : Inv /\ RepairReserves(f) => Inv'
<1> SUFFICES ASSUME NEW f \in Feature, Inv, RepairReserves(f) PROVE Inv'
  OBVIOUS
<1>1. feat \in [Feature -> FeatureRecord] /\ feat[f] \in FeatureRecord /\ req \in Requests
      /\ feat[f].status = "failed" /\ BarrierClear /\ feat[f].repairs < RepairLimit
      /\ feat' = [feat EXCEPT ![f] = Reserved(feat[f])]
  BY DEF RepairReserves, Inv, TypeOK
<1>2. FeatureInv(f) /\ ~Standing(feat[f]) /\ NoneUnresolved
  BY <1>1, BarrierFacts DEF Inv, Work, NoneUnresolved
<1> DEFINE e == Reserved(feat[f])
<1>3. /\ e \in FeatureRecord /\ Counted(e) /\ e.status = "queued" /\ e.checkpoint = "repair_reserved"
      /\ e.pending = None /\ e.last = feat[f].last /\ e.publication = feat[f].publication
  BY <1>1, <1>2, ReservedFacts DEF FeatureInv
<1> HIDE DEF e
<1>4. UNCHANGED <<paused, autoRun, world, flag, gate, run, publish, stopped, used>>
      /\ ~lock /\ ~flag.running /\ lock' = TRUE
  BY DEF RepairReserves
<1>5. run = None /\ publish = None /\ ~Held /\ req.repair = None /\ req.owner = None
      /\ ~flag.publicationRunning
  BY <1>1, <1>4, BarrierFacts DEF Inv, Threads, Admission, Claim
<1>6. PublicationFits(e) /\ RemoteFits(f, e, remote[f]) /\ ~Standing(e)
  BY <1>1, <1>2, <1>3 DEF FeatureInv, PublicationFits, RemoteFits, Standing
<1>7. /\ req' \in Requests /\ req'.start = req.start /\ req'.repair # None
      /\ req'.stop = req.stop /\ req'.enqueue = req.enqueue /\ req'.owner = req.owner
  <2> DEFINE x == [at |-> "cancellation", moved |-> FALSE, stopped |-> "no"]
  <2>1. x \in RepairRequest /\ req' = [req EXCEPT !.repair = x]
    BY DEF RepairReserves, RepairRequest, StopSeen
  <2> HIDE DEF x
  <2> QED
    BY <1>1, <2>1, AskFacts
<1>8. EnqueueInv'
  <2>1. req.enqueue \in Feature \cup {None}
    BY <1>1 DEF Requests
  <2> QED
    BY <1>1, <1>7, <2>1 DEF Inv, Work, EnqueueInv
<1>9. Work'
  BY <1>1, <1>2, <1>3, <1>4, <1>5, <1>6, <1>8, OwnerWork DEF world, e
<1>10. TypeOK'
  BY <1>1, <1>3, <1>4, <1>7 DEF Inv, TypeOK, world, e
<1>11. Threads'
  <2>1. Admission' /\ Claim'
    BY <1>4, <1>5, <1>7 DEF Inv, Threads, Admission, Held, Claim
  <2>2. Partners' /\ GateHeld' /\ RunHasFeature'
    BY <1>4, <1>5, <1>7 DEF Inv, Threads, Partners, GateHeld, RunHasFeature
  <2> QED
    BY <2>1, <2>2 DEF Threads
<1> QED
  BY <1>9, <1>10, <1>11 DEF Inv

\* AbandonCommits.
LEMMA AbandonCommitsKeeps == Inv /\ AbandonCommits => Inv'
<1> SUFFICES ASSUME Inv, AbandonCommits PROVE Inv'
  OBVIOUS
<1> DEFINE f == req.owner
<1>1. req \in Requests /\ flag \in Flags /\ f \in Feature /\ feat \in [Feature -> FeatureRecord]
      /\ FALSE \in BOOLEAN /\ None \in {None, "rejected"} \cup Feature
  BY DEF AbandonCommits, Inv, TypeOK
<1>2. /\ req' \in Requests /\ req'.start = req.start /\ req'.repair = req.repair
      /\ req'.stop = req.stop /\ req'.enqueue = req.enqueue /\ req'.owner = None
  BY <1>1, AskFacts DEF AbandonCommits
<1>3. UNCHANGED <<paused, autoRun, world, gate, lock, run, publish, stopped, used>> /\ ~lock
  BY DEF AbandonCommits
<1>4. flag' \in Flags /\ flag'.running = flag.running /\ flag'.publicationRunning = FALSE
  BY <1>1, Zenon DEF AbandonCommits, Flags
<1>5. run = None /\ publish = None
  BY <1>1 DEF Inv, Threads, Admission, Claim
<1>6. CASE UNCHANGED feat
  <2>1. EnqueueInv' /\ (Held' <=> Held)
    BY <1>2, <1>6 DEF Inv, Work, EnqueueInv, Held
  <2> QED
    BY <1>2, <1>3, <1>4, <1>5, <1>6, <2>1, AskKeeps DEF Inv, TypeOK
<1>7. CASE /\ AbandonStands(f)
           /\ feat' = [feat EXCEPT ![f].publication.status = "abandoned", ![f].status = "removed",
                                   ![f].checkpoint = "publication_abandoned", ![f].repairPending = FALSE]
  <2> DEFINE p == [feat[f].publication EXCEPT !.status = "abandoned"]
             e == [feat[f] EXCEPT !.publication = p, !.status = "removed",
                                  !.checkpoint = "publication_abandoned", !.repairPending = FALSE]
  <2>1. feat' = [feat EXCEPT ![f] = e]
    BY <1>1, <1>7
  <2>2. feat[f] \in FeatureRecord /\ feat[f].publication \in Publication /\ FeatureInv(f)
        /\ feat[f].status = "failed"
    <3>1. feat[f] \in FeatureRecord /\ FeatureInv(f)
      BY <1>1 DEF Inv, Work
    <3>2. feat[f].publication # None /\ feat[f].status = "failed"
      BY <1>7, <3>1 DEF AbandonStands, FeatureInv, PublicationFits
    <3> QED
      BY <3>1, <3>2 DEF FeatureRecord
  <2>3. p \in Publication \cup {None} /\ p # None /\ p.status = "abandoned"
        /\ p.candidate = feat[f].publication.candidate /\ "removed" \in Status
        /\ "publication_abandoned" \in Checkpoint /\ FALSE \in BOOLEAN
    BY <2>2, StatusFacts DEF Status, Checkpoint, PublicationCheckpoint
  <2> HIDE DEF p, f
  <2>4. /\ e \in FeatureRecord /\ e.status = "removed" /\ e.checkpoint = "publication_abandoned"
        /\ e.edits = feat[f].edits /\ e.repairs = feat[f].repairs
        /\ e.repairPending = FALSE /\ e.pending = feat[f].pending
        /\ e.last = feat[f].last /\ e.publication = p /\ e.candidates = feat[f].candidates
    BY <2>2, <2>3, Zenon DEF FeatureRecord
  <2> HIDE DEF e
  <2>5. feat[f].publication # None
    BY <2>2
  <2>6. Counted(e) /\ PublicationFits(e) /\ RemoteFits(f, e, remote[f]) /\ ~Standing(e) /\ e.pending = None
    BY <2>2, <2>3, <2>4, <2>5 DEF FeatureInv, Counted, PublicationFits, RemoteFits, Standing
  <2>7. EnqueueInv' /\ (Held' <=> Held)
    <3>1. req.enqueue \in Feature \cup {None}
      BY <1>1 DEF Requests
    <3> QED
      BY <1>1, <1>2, <2>1, <2>2, <3>1 DEF Inv, Work, EnqueueInv, Held
  <2>8. f \in Feature
    BY <1>1 DEF f
  <2>9. Work'
    BY <1>3, <1>5, <2>1, <2>4, <2>6, <2>7, <2>8, OwnerWork DEF world
  <2>10. TypeOK'
    BY <1>1, <1>2, <1>3, <1>4, <2>1, <2>4 DEF Inv, TypeOK, world
  <2>11. Threads'
    <3>1. Admission' /\ Claim'
      BY <1>2, <1>3, <1>4, <1>5, <2>7 DEF Inv, Threads, Admission, Claim
    <3>2. Partners' /\ GateHeld' /\ RunHasFeature'
      BY <1>2, <1>3, <1>5 DEF Inv, Threads, Partners, GateHeld, RunHasFeature
    <3> QED
      BY <3>1, <3>2 DEF Threads
  <2> QED
    BY <2>9, <2>10, <2>11 DEF Inv
<1> QED
  BY <1>6, <1>7 DEF AbandonCommits

\* OwnerMayResolve names a publication that waits, with nobody at work.
LEMMA ReconcileKeeps == \A f \in Feature : Inv /\ Reconcile(f) => Inv'
<1> SUFFICES ASSUME NEW f \in Feature, Inv, Reconcile(f) PROVE Inv'
  OBVIOUS
<1>1. /\ feat \in [Feature -> FeatureRecord] /\ feat[f] \in FeatureRecord /\ FeatureInv(f)
      /\ flag \in Flags /\ stopped \in [run : StopSeen, publication : StopSeen]
      /\ TRUE \in BOOLEAN /\ FALSE \in BOOLEAN /\ 0 \in 0 .. 2
  BY DEF Inv, TypeOK, Work
<1>2. /\ OwnerMayResolve(f) /\ feat[f].publication # None /\ Standing(feat[f]) /\ ~lock
      /\ ~flag.running /\ ~flag.publicationRunning /\ req.owner = None
  BY DEF Reconcile, OwnerMayResolve, Standing
<1>3. run = None /\ publish = None /\ feat[f].publication \in Publication
  BY <1>1, <1>2 DEF Inv, Threads, Admission, Claim, FeatureRecord
<1> DEFINE p == [feat[f].publication EXCEPT !.status = "pending"]
           e == [feat[f] EXCEPT !.publication = p, !.status = "running",
                                !.checkpoint = "publication_reconciling"]
<1>4. feat' = [feat EXCEPT ![f] = e]
  BY <1>1, Zenon DEF Reconcile
<1>5. p \in Publication \cup {None} /\ p # None /\ p.status = "pending"
      /\ p.candidate = feat[f].publication.candidate /\ "running" \in Status
      /\ "publication_reconciling" \in Checkpoint
  BY <1>3, StatusFacts DEF Status, Checkpoint, PublicationCheckpoint
<1> HIDE DEF p
<1>6. /\ e \in FeatureRecord /\ e.status = "running" /\ e.checkpoint = "publication_reconciling"
      /\ e.edits = feat[f].edits /\ e.repairs = feat[f].repairs
      /\ e.repairPending = feat[f].repairPending /\ e.pending = feat[f].pending
      /\ e.last = feat[f].last /\ e.publication = p /\ e.candidates = feat[f].candidates
  BY <1>1, <1>5, Zenon DEF FeatureRecord
<1> HIDE DEF e
<1>7. publish' \in PublishTask /\ publish' # None /\ publish'.id = f /\ publish'.at = "intent"
      /\ publish'.by = "owner"
  BY TaskFacts DEF Reconcile
<1>8. flag' \in Flags /\ flag'.running = flag.running /\ flag'.publicationRunning = TRUE
  BY <1>1, Zenon DEF Reconcile, Flags
<1>9. stopped' \in [run : StopSeen, publication : StopSeen]
  BY <1>1, NothingSeen, Zenon DEF Reconcile
<1>10. UNCHANGED <<paused, autoRun, disk, remote, gate, lock, run, req, used>>
  BY DEF Reconcile, world
<1>11. TypeOK'
  BY <1>1, <1>4, <1>6, <1>7, <1>8, <1>9, <1>10 DEF Inv, TypeOK
<1>12. Threads'
  <2>1. Admission' /\ Claim'
    BY <1>2, <1>3, <1>7, <1>8, <1>10 DEF Inv, Threads, Admission, Held, Claim
  <2>2. Partners' /\ GateHeld' /\ RunHasFeature'
    BY <1>3, <1>7, <1>10 DEF Inv, Threads, Partners, GateHeld, RunHasFeature
  <2> QED
    BY <2>1, <2>2 DEF Threads
<1>13. Work'
  <2>1. feat'[f] = e /\ \A g \in Feature : g # f => feat'[g] = feat[g]
    BY <1>1, <1>4
  <2>2. \A g \in Feature : Standing(feat'[g]) => g = f
    BY <1>2, <2>1 DEF Inv, Work, BarrierHolds, Unresolved, Standing
  <2>3. Counted(e) /\ PublicationFits(e) /\ RemoteFits(f, e, remote[f])
    BY <1>1, <1>2, <1>5, <1>6 DEF FeatureInv, Counted, PublicationFits, RemoteFits
  <2>4. \A g \in Feature : FeatureInv(g)'
    BY <1>10, <2>1, <2>3 DEF Inv, Work, FeatureInv
  <2>5. RunInv' /\ Clear'
    BY <1>2, <1>3, <1>10 DEF RunInv, Clear
  <2>6. PublishInv'
    BY <1>5, <1>6, <1>7, <2>1 DEF PublishInv, PublishFits
  <2>7. EnqueueInv'
    <3>1. req.enqueue \in Feature \cup {None}
      BY DEF Inv, TypeOK, Requests
    <3>2. feat[f].status = "failed"
      BY <1>1, <1>2 DEF FeatureInv, PublicationFits, OwnerMayResolve
    <3> QED
      BY <1>10, <2>1, <3>1, <3>2 DEF Inv, Work, EnqueueInv
  <2>8. BarrierHolds'
    BY <1>3, <1>7, <1>10, <2>2 DEF BarrierHolds, Unresolved, Standing
  <2>9. RunningIsAttended'
    BY <1>3, <1>7, <2>1 DEF Inv, Work, RunningIsAttended
  <2>10. PendingIsReviewing'
    BY <1>3, <1>6, <2>1 DEF Inv, Work, PendingIsReviewing, RunAt
  <2> QED
    BY <2>4, <2>5, <2>6, <2>7, <2>8, <2>9, <2>10 DEF Work
<1> QED
  BY <1>11, <1>12, <1>13 DEF Inv

-----------------------------------------------------------------------------
(* Start and Repair *)

\* What a Start puts in place of itself.
LEMMA StartFacts ==
  ASSUME req \in Requests
  PROVE  /\ req' = [req EXCEPT !.start = None] =>
              /\ req' \in Requests /\ req'.start = None /\ req'.repair = req.repair
              /\ req'.stop = req.stop /\ req'.clear = req.clear /\ req'.enqueue = req.enqueue
              /\ req'.owner = req.owner
         /\ \A x \in StartRequest : req' = [req EXCEPT !.start = x] =>
              /\ req' \in Requests /\ req'.start = x /\ req'.repair = req.repair
              /\ req'.stop = req.stop /\ req'.clear = req.clear /\ req'.enqueue = req.enqueue
              /\ req'.owner = req.owner
<1>1. ASSUME NEW x \in StartRequest \cup {None}, req' = [req EXCEPT !.start = x]
      PROVE  /\ req' \in Requests /\ req'.start = x /\ req'.repair = req.repair
             /\ req'.stop = req.stop /\ req'.clear = req.clear /\ req'.enqueue = req.enqueue
             /\ req'.owner = req.owner
  BY <1>1, Zenon DEF Requests
<1> QED
  BY <1>1

\* A Start that goes on to another of its steps.
LEMMA StartGoesFacts ==
  ASSUME req \in Requests, req.start # None,
         NEW s \in {"serve", "epoch", "cancellation", "publication", "confirm"},
         req' = [req EXCEPT !.start.at = s]
  PROVE  /\ req' \in Requests /\ req'.start # None /\ req'.start.at = s
         /\ req'.start.moved = req.start.moved /\ req'.start.stopped = req.start.stopped
         /\ req'.repair = req.repair /\ req'.stop = req.stop /\ req'.clear = req.clear
         /\ req'.enqueue = req.enqueue /\ req'.owner = req.owner
<1> DEFINE x == [req.start EXCEPT !.at = s]
<1>1. req.start \in StartRequest
  BY DEF Requests
<1>2. x \in StartRequest /\ x.at = s /\ x.moved = req.start.moved /\ x.stopped = req.start.stopped
  BY <1>1, Zenon DEF StartRequest
<1>3. req' = [req EXCEPT !.start = x]
  OBVIOUS
<1> HIDE DEF x
<1> QED
  BY <1>2, <1>3, StartFacts

\* A Start that notes the latches.
LEMMA StartNotesFacts ==
  ASSUME req \in Requests, req.start # None, flag \in Flags,
         req' = [req EXCEPT !.start = [@ EXCEPT !.at = "cancellation", !.expected = flag.cancellation,
                                                !.expectedPublication = flag.publicationCancellation]]
  PROVE  /\ req' \in Requests /\ req'.start # None /\ req'.start.at = "cancellation"
         /\ req'.start.moved = req.start.moved /\ req'.start.stopped = req.start.stopped
         /\ req'.repair = req.repair /\ req'.stop = req.stop /\ req'.clear = req.clear
         /\ req'.enqueue = req.enqueue /\ req'.owner = req.owner
<1> DEFINE x == [req.start EXCEPT !.at = "cancellation", !.expected = flag.cancellation,
                                  !.expectedPublication = flag.publicationCancellation]
<1>1. req.start \in StartRequest
  BY DEF Requests
<1>2. flag.cancellation \in 0 .. 2 /\ flag.publicationCancellation \in 0 .. 2
      /\ "cancellation" \in {"serve", "epoch", "cancellation", "publication", "confirm"}
  BY DEF Flags
<1>3. x \in StartRequest /\ x.at = "cancellation" /\ x.moved = req.start.moved
      /\ x.stopped = req.start.stopped
  BY <1>1, <1>2, Zenon DEF StartRequest
<1>4. req' = [req EXCEPT !.start = x]
  OBVIOUS
<1> HIDE DEF x
<1> QED
  BY <1>3, <1>4, StartFacts

\* StartAsked and StartDeclined.
LEMMA StartAskedKeeps ==
  /\ Inv /\ StartAsked => Inv'
  /\ Inv /\ StartDeclined => Inv'
<1>1. ASSUME Inv, StartAsked PROVE Inv'
  <2> DEFINE x == [at |-> "serve", moved |-> FALSE, stopped |-> "no",
                   expected |-> 0, expectedPublication |-> 0]
  <2>1. x \in StartRequest /\ x.at = "serve"
    BY DEF StartRequest, StopSeen
  <2>2. req \in Requests /\ req' = [req EXCEPT !.start = x] /\ req.start = None
    BY <1>1 DEF StartAsked, Inv, TypeOK
  <2> HIDE DEF x
  <2>3. /\ req' \in Requests /\ req'.start = x /\ req'.repair = req.repair
        /\ req'.stop = req.stop /\ req'.enqueue = req.enqueue /\ req'.owner = req.owner
    BY <2>1, <2>2, StartFacts
  <2>4. UNCHANGED <<feat, paused, autoRun, world, flag, gate, lock, run, publish, stopped, used>>
    BY <1>1 DEF StartAsked, durable
  <2>5. EnqueueInv' /\ (Held' <=> Held)
    BY <1>1, <2>1, <2>2, <2>3, <2>4 DEF EnqueueInv, Held, Inv, Work
  <2> QED
    BY <1>1, <2>3, <2>4, <2>5, AskKeeps DEF Inv, TypeOK
<1>2. ASSUME Inv, StartDeclined PROVE Inv'
  <2>1. req \in Requests /\ req' = [req EXCEPT !.start = None]
    BY <1>2 DEF StartDeclined, Inv, TypeOK
  <2>2. /\ req' \in Requests /\ req'.start = None /\ req'.repair = req.repair
        /\ req'.stop = req.stop /\ req'.enqueue = req.enqueue /\ req'.owner = req.owner
    BY <2>1, StartFacts
  <2>3. UNCHANGED <<feat, paused, autoRun, world, flag, gate, lock, run, publish, stopped, used>>
    BY <1>2 DEF StartDeclined, durable
  <2>4. EnqueueInv' /\ (Held' <=> Held)
    BY <1>2, <2>2, <2>3 DEF EnqueueInv, Held, Inv, Work, StartDeclined, StartAt
  <2> QED
    BY <1>2, <2>2, <2>3, <2>4, AskKeeps DEF Inv, TypeOK
<1> QED
  BY <1>1, <1>2

\* StartServed: the database is taken only when nothing is unresolved.
LEMMA StartServedKeeps == Inv /\ StartServed => Inv'
<1> SUFFICES ASSUME Inv, StartServed PROVE Inv'
  OBVIOUS
<1>1. req \in Requests /\ flag \in Flags /\ TRUE \in BOOLEAN
      /\ req.start # None /\ req.start.at = "serve" /\ ~lock /\ ~flag.running /\ BarrierClear
      /\ lock' = TRUE
  BY DEF StartServed, StartAt, StartAdmits, Inv, TypeOK
<1>2. /\ req' \in Requests /\ req'.start # None /\ req'.start.at = "epoch"
      /\ req'.repair = req.repair /\ req'.stop = req.stop
      /\ req'.enqueue = req.enqueue /\ req'.owner = req.owner
  BY <1>1, StartGoesFacts DEF StartServed
<1>3. flag' \in Flags /\ flag'.running = TRUE /\ flag'.publicationRunning = flag.publicationRunning
  BY <1>1, Zenon DEF StartServed, Flags
<1>4. UNCHANGED <<feat, paused, autoRun, world, gate, run, publish, stopped, used>>
  BY DEF StartServed, durable
<1>5. NoneUnresolved /\ ~flag.publicationRunning
  BY <1>1, BarrierFacts
<1>6. Threads'
  <2>1. Admission' /\ Claim'
    BY <1>1, <1>2, <1>3, <1>4, <1>5 DEF Inv, Threads, Admission, Held, Claim
  <2>2. Partners' /\ GateHeld' /\ RunHasFeature'
    BY <1>2, <1>4 DEF Inv, Threads, Partners, GateHeld, RunHasFeature
  <2> QED
    BY <2>1, <2>2 DEF Threads
<1>7. EnqueueInv'
  BY <1>2, <1>4 DEF EnqueueInv, Inv, Work
<1> QED
  BY <1>1, <1>2, <1>3, <1>4, <1>5, <1>6, <1>7, RequestKeeps DEF Inv, TypeOK

\* A Start that another request overtook gives everything back.
LEMMA SupersededFacts ==
  ASSUME flag \in Flags, req \in Requests, NEW n \in 0 .. 2, StartSuperseded(n)
  PROVE  /\ flag' \in Flags /\ flag'.running = FALSE
         /\ flag'.publicationRunning = flag.publicationRunning
         /\ flag'.cancellation # 0 /\ flag'.publicationCancellation # 0
         /\ req' \in Requests /\ req'.start = None /\ req'.repair = req.repair
         /\ req'.stop = req.stop /\ req'.clear = req.clear /\ req'.enqueue = req.enqueue
         /\ req'.owner = req.owner
<1> DEFINE high == Max2(Max2(flag.cancellation, flag.publicationCancellation), Max2(n, 1))
<1>1. high \in 0 .. 2 /\ high > 0 /\ FALSE \in BOOLEAN
  BY DEF Max2, Flags
<1>2. flag' = [LatchedTo(high) EXCEPT !.running = FALSE] /\ req' = [req EXCEPT !.start = None]
  BY DEF StartSuperseded
<1> HIDE DEF high
<1>3. /\ LatchedTo(high) \in Flags
      /\ LatchedTo(high).cancellation = Max2(flag.cancellation, high)
      /\ LatchedTo(high).publicationCancellation = Max2(flag.publicationCancellation, high)
      /\ LatchedTo(high).publicationRunning = flag.publicationRunning
  BY <1>1, LatchedFacts
<1>4. /\ flag' \in Flags /\ flag'.running = FALSE
      /\ flag'.publicationRunning = flag.publicationRunning
      /\ flag'.cancellation = Max2(flag.cancellation, high)
      /\ flag'.publicationCancellation = Max2(flag.publicationCancellation, high)
  BY <1>1, <1>2, <1>3, Zenon DEF Flags
<1>5. Max2(flag.cancellation, high) # 0 /\ Max2(flag.publicationCancellation, high) # 0
  BY <1>1 DEF Max2, Flags
<1> QED
  BY <1>2, <1>4, <1>5, StartFacts

\* Then nothing of it is left.
LEMMA SupersededKeeps ==
  ASSUME Inv, Held, NEW n \in 0 .. 2, StartSuperseded(n)
  PROVE  Inv'
<1>1. req \in Requests /\ flag \in Flags
  BY DEF Inv, TypeOK
<1>2. /\ flag' \in Flags /\ flag'.running = FALSE
      /\ flag'.publicationRunning = flag.publicationRunning
      /\ req' \in Requests /\ req'.start = None /\ req'.repair = req.repair
      /\ req'.stop = req.stop /\ req'.enqueue = req.enqueue /\ req'.owner = req.owner
  BY <1>1, SupersededFacts
<1>3. UNCHANGED <<feat, paused, autoRun, world, gate, run, publish, stopped, used>> /\ lock' = FALSE
  BY DEF StartSuperseded, durable
<1>4. Threads'
  <2>1. Admission' /\ Claim'
    BY <1>2, <1>3 DEF Inv, Threads, Admission, Held, Claim
  <2>2. Partners' /\ GateHeld' /\ RunHasFeature'
    BY <1>2, <1>3 DEF Inv, Threads, Partners, GateHeld, RunHasFeature
  <2> QED
    BY <2>1, <2>2 DEF Threads
<1>5. EnqueueInv'
  BY <1>2, <1>3 DEF EnqueueInv, Inv, Work
<1> QED
  BY <1>2, <1>3, <1>4, <1>5, RequestKeeps DEF Inv, TypeOK

\* A Start that goes on, with a latch cleared or not.
LEMMA StartOn ==
  ASSUME Inv, Held, req' \in Requests, req'.start # None, req'.start.at # "serve",
         req'.repair = req.repair, req'.stop = req.stop, req'.enqueue = req.enqueue,
         req'.owner = req.owner, flag' \in Flags, flag'.running = flag.running,
         flag'.publicationRunning = flag.publicationRunning,
         UNCHANGED <<durable, world, gate, lock, run, publish, stopped, used>>
  PROVE  Inv'
<1>1. UNCHANGED <<feat, paused, autoRun, world, gate, lock, run, publish, stopped, used>>
  BY DEF durable
<1>2. EnqueueInv' /\ (Held' <=> Held)
  BY <1>1 DEF EnqueueInv, Held, Inv, Work
<1> QED
  BY <1>1, <1>2, AskKeeps DEF Inv, TypeOK

\* A run is launched by whom the database was held.
LEMMA LaunchKeeps ==
  ASSUME Inv, lock, run' = NewRun, lock' = FALSE, flag' \in Flags, flag'.running,
         flag'.publicationRunning = flag.publicationRunning,
         req' \in Requests, ~Held', req'.repair = None, req'.stop = req.stop,
         req'.enqueue = req.enqueue, req'.owner = req.owner,
         stopped' \in [run : StopSeen, publication : StopSeen],
         UNCHANGED <<durable, world, gate, publish, used>>
  PROVE  Inv'
<1>1. run = None /\ publish = None /\ req.owner = None /\ ~flag.publicationRunning /\ NoneUnresolved
  BY DEF Inv, Threads, Admission, Claim, Work, Clear
<1>2. run' \in Run /\ run' # None /\ run'.at = "select" /\ run'.id = None
  BY NewRunFacts
<1>3. UNCHANGED <<feat, paused, autoRun, disk, remote, gate, publish, used>>
  BY DEF durable, world
<1>4. TypeOK'
  BY <1>2, <1>3 DEF Inv, TypeOK
<1>5. Threads'
  <2>1. Admission' /\ Claim'
    BY <1>1, <1>2, <1>3 DEF Admission, Claim
  <2>2. Partners' /\ GateHeld' /\ RunHasFeature'
    BY <1>1, <1>2, <1>3 DEF Inv, Threads, Partners, GateHeld, RunHasFeature
  <2> QED
    BY <2>1, <2>2 DEF Threads
<1>6. Work'
  <2>1. (\A g \in Feature : FeatureInv(g)') /\ EnqueueInv'
    BY <1>3 DEF Inv, Work, FeatureInv, EnqueueInv
  <2>2. RunInv' /\ PublishInv' /\ Clear'
    BY <1>1, <1>2, <1>3 DEF RunInv, PublishInv, Clear, NoneUnresolved
  <2>3. BarrierHolds'
    BY <1>1, <1>3 DEF BarrierHolds, Unresolved, NoneUnresolved, Standing
  <2>4. RunningIsAttended' /\ PendingIsReviewing'
    BY <1>1, <1>3 DEF Inv, Work, RunningIsAttended, PendingIsReviewing, RunAt
  <2> QED
    BY <2>1, <2>2, <2>3, <2>4 DEF Work
<1> QED
  BY <1>4, <1>5, <1>6 DEF Inv

\* The steps of a Start that holds the database.
LEMMA StartChecksKeep ==
  /\ Inv /\ StartChecksEpoch => Inv'
  /\ Inv /\ StartClearsCancellation => Inv'
  /\ Inv /\ StartClearsPublication => Inv'
  /\ Inv /\ StartConfirms => Inv'
<1>1. ASSUME Inv PROVE /\ req \in Requests /\ flag \in Flags /\ 0 \in 0 .. 2 /\ FALSE \in BOOLEAN
                       /\ stopped \in [run : StopSeen, publication : StopSeen]
  BY <1>1 DEF Inv, TypeOK
<1>2. ASSUME Inv, req.start # None
      PROVE  StartSeverity \in 0 .. 2 /\ req.start.stopped \in StopSeen
  <2>1. req.start \in StartRequest
    BY <1>1, <1>2 DEF Requests
  <2> QED
    BY <2>1 DEF StartRequest, StartSeverity, Max2
<1>3. ASSUME Inv, StartChecksEpoch PROVE Inv'
  <2>1. req.start # None /\ Held
    BY <1>3 DEF StartChecksEpoch, StartAt, Held
  <2>2. CASE StartSuperseded(1)
    BY <1>3, <2>1, <2>2, SupersededKeeps
  <2>3. CASE ~StartSuperseded(1)
    <3>1. /\ req' \in Requests /\ req'.start # None /\ req'.start.at = "cancellation"
          /\ req'.repair = req.repair /\ req'.stop = req.stop
          /\ req'.enqueue = req.enqueue /\ req'.owner = req.owner
      BY <1>1, <1>3, <2>1, <2>3, StartNotesFacts DEF StartChecksEpoch
    <3>2. UNCHANGED <<durable, world, flag, gate, lock, run, publish, stopped, used>>
      BY <1>3, <2>3 DEF StartChecksEpoch
    <3> QED
      BY <1>1, <1>3, <2>1, <3>1, <3>2, StartOn
  <2> QED
    BY <2>2, <2>3
<1>4. ASSUME Inv, StartClearsCancellation PROVE Inv'
  <2>1. req.start # None /\ Held
    BY <1>4 DEF StartClearsCancellation, StartAt, Held
  <2>2. CASE StartSuperseded(StartSeverity)
    BY <1>2, <1>4, <2>1, <2>2, SupersededKeeps
  <2>3. CASE flag' = [flag EXCEPT !.cancellation = 0] /\ StartContinues("publication")
    <3>1. /\ req' \in Requests /\ req'.start # None /\ req'.start.at = "publication"
          /\ req'.repair = req.repair /\ req'.stop = req.stop
          /\ req'.enqueue = req.enqueue /\ req'.owner = req.owner
      BY <1>1, <1>4, <2>1, <2>3, StartGoesFacts DEF StartContinues
    <3>2. UNCHANGED <<durable, world, gate, lock, run, publish, stopped, used>>
      BY <2>3 DEF StartContinues
    <3>3. flag' \in Flags /\ flag'.running = flag.running
          /\ flag'.publicationRunning = flag.publicationRunning
      BY <1>1, <1>4, <2>3, Zenon DEF Flags
    <3> QED
      BY <1>4, <2>1, <3>1, <3>2, <3>3, StartOn
  <2> QED
    BY <1>4, <2>2, <2>3 DEF StartClearsCancellation
<1>5. ASSUME Inv, StartClearsPublication PROVE Inv'
  <2>1. req.start # None /\ Held
    BY <1>5 DEF StartClearsPublication, StartAt, Held
  <2>2. CASE StartSuperseded(StartSeverity)
    BY <1>2, <1>5, <2>1, <2>2, SupersededKeeps
  <2>3. CASE flag' = [flag EXCEPT !.publicationCancellation = 0] /\ StartContinues("confirm")
    <3>1. /\ req' \in Requests /\ req'.start # None /\ req'.start.at = "confirm"
          /\ req'.repair = req.repair /\ req'.stop = req.stop
          /\ req'.enqueue = req.enqueue /\ req'.owner = req.owner
      BY <1>1, <1>5, <2>1, <2>3, StartGoesFacts DEF StartContinues
    <3>2. UNCHANGED <<durable, world, gate, lock, run, publish, stopped, used>>
      BY <2>3 DEF StartContinues
    <3>3. flag' \in Flags /\ flag'.running = flag.running
          /\ flag'.publicationRunning = flag.publicationRunning
      BY <1>1, <1>5, <2>3, Zenon DEF Flags
    <3> QED
      BY <1>5, <2>1, <3>1, <3>2, <3>3, StartOn
  <2> QED
    BY <1>5, <2>2, <2>3 DEF StartClearsPublication
<1>6. ASSUME Inv, StartConfirms PROVE Inv'
  <2>1. req.start # None /\ Held
    BY <1>6 DEF StartConfirms, StartAt, Held
  <2>2. CASE StartSuperseded(StartSeverity)
    BY <1>2, <1>6, <2>1, <2>2, SupersededKeeps
  <2>3. CASE StartLaunches
    <3>1. /\ req' \in Requests /\ req'.start = None /\ req'.repair = req.repair
          /\ req'.stop = req.stop /\ req'.enqueue = req.enqueue /\ req'.owner = req.owner
      BY <1>1, <1>6, <2>3, StartFacts DEF StartLaunches
    <3>2. flag' \in Flags /\ flag'.running = flag.running
          /\ flag'.publicationRunning = flag.publicationRunning
      BY <1>1, <1>6, <2>3, Zenon DEF StartLaunches, Flags
    <3>3. stopped' \in [run : StopSeen, publication : StopSeen]
      BY <1>1, <1>2, <1>6, <2>1, <2>3, Zenon DEF StartLaunches
    <3>4. lock /\ flag.running /\ req.repair = None
      BY <1>6, <2>1 DEF Inv, Threads, Admission
    <3>5. ~Held'
      BY <3>1 DEF Held
    <3> QED
      BY <1>6, <2>3, <3>1, <3>2, <3>3, <3>4, <3>5, LaunchKeeps DEF StartLaunches
  <2> QED
    BY <1>6, <2>2, <2>3 DEF StartConfirms
<1> QED
  BY <1>3, <1>4, <1>5, <1>6

\* A Repair that goes on to another of its steps.
LEMMA RepairGoesFacts ==
  ASSUME req \in Requests, req.repair # None,
         NEW s \in {"cancellation", "authorize", "launch"}, req' = [req EXCEPT !.repair.at = s]
  PROVE  /\ req' \in Requests /\ req'.repair # None
         /\ req'.repair.moved = req.repair.moved /\ req'.repair.stopped = req.repair.stopped
         /\ req'.start = req.start /\ req'.stop = req.stop /\ req'.clear = req.clear
         /\ req'.enqueue = req.enqueue /\ req'.owner = req.owner
<1> DEFINE x == [req.repair EXCEPT !.at = s]
<1>1. req.repair \in RepairRequest
  BY DEF Requests
<1>2. x \in RepairRequest /\ x.moved = req.repair.moved /\ x.stopped = req.repair.stopped
  BY <1>1, Zenon DEF RepairRequest
<1>3. req' = [req EXCEPT !.repair = x]
  OBVIOUS
<1>4. x # None /\ x \in RepairRequest \cup {None}
  BY <1>2
<1> HIDE DEF x
<1>5. /\ req' \in Requests /\ req'.repair = x
      /\ req'.start = req.start /\ req'.stop = req.stop /\ req'.clear = req.clear
      /\ req'.enqueue = req.enqueue /\ req'.owner = req.owner
  BY <1>3, <1>4, AskFacts, Zenon
<1> QED
  BY <1>2, <1>4, <1>5

\* The steps of a Repair that holds the database.
LEMMA RepairStepKeeps == Inv /\ RepairStep => Inv'
<1> SUFFICES ASSUME Inv, RepairStep PROVE Inv'
  OBVIOUS
<1>1. /\ req \in Requests /\ flag \in Flags /\ 0 \in 0 .. 2 /\ TRUE \in BOOLEAN
      /\ stopped \in [run : StopSeen, publication : StopSeen] /\ req.repair # None
  BY DEF RepairStep, RepairClearsCancellation, RepairAuthorizes, RepairLaunches, RepairAt, Inv, TypeOK
<1>2. CASE RepairClearsCancellation \/ RepairAuthorizes
  <2>1. \E s \in {"cancellation", "authorize", "launch"} : req' = [req EXCEPT !.repair.at = s]
    BY <1>2 DEF RepairClearsCancellation, RepairAuthorizes
  <2>2. /\ req' \in Requests /\ req'.start = req.start /\ req'.repair # None
        /\ req'.stop = req.stop /\ req'.enqueue = req.enqueue /\ req'.owner = req.owner
    BY <1>1, <2>1, RepairGoesFacts
  <2>3. UNCHANGED <<feat, paused, autoRun, world, gate, lock, run, publish, stopped, used>>
    BY <1>2 DEF RepairClearsCancellation, RepairAuthorizes, durable
  <2>4. EnqueueInv' /\ (Held' <=> Held)
    BY <2>2, <2>3 DEF EnqueueInv, Held, Inv, Work
  <2>5. flag' \in Flags /\ flag'.running = flag.running
        /\ flag'.publicationRunning = flag.publicationRunning
    BY <1>1, <1>2, Zenon DEF RepairClearsCancellation, RepairAuthorizes, Flags
  <2> QED
    BY <1>1, <2>2, <2>3, <2>4, <2>5, AskKeeps DEF Inv, TypeOK
<1>3. CASE RepairLaunches
  <2>1. /\ req' \in Requests /\ req'.start = req.start /\ req'.repair = None
        /\ req'.stop = req.stop /\ req'.enqueue = req.enqueue /\ req'.owner = req.owner
    BY <1>1, <1>3, AskFacts DEF RepairLaunches
  <2>2. flag' \in Flags /\ flag'.running = TRUE
        /\ flag'.publicationRunning = flag.publicationRunning
    BY <1>1, <1>3, Zenon DEF RepairLaunches, Flags
  <2>3. req.repair.stopped \in StopSeen
    BY <1>1 DEF Requests, RepairRequest
  <2>4. stopped' \in [run : StopSeen, publication : StopSeen]
    BY <1>1, <1>3, <2>3, Zenon DEF RepairLaunches
  <2>5. lock /\ ~Held
    BY <1>1 DEF Inv, Threads, Admission
  <2>6. ~Held'
    BY <2>1, <2>5 DEF Held
  <2> QED
    BY <1>3, <2>1, <2>2, <2>4, <2>5, <2>6, LaunchKeeps DEF RepairLaunches
<1> QED
  BY <1>2, <1>3 DEF RepairStep

-----------------------------------------------------------------------------
(* Crashes, the outside, and the start *)

\* A recovered entry is at rest, and no publication is lost or invented.
Rests(e, x) ==
  /\ x \in FeatureRecord /\ Counted(x) /\ PublicationFits(x)
  /\ x.publication # None => e.publication # None
  /\ x.publication # None /\ x.publication.status = "succeeded" => e.publication.status = "succeeded"
  /\ Standing(x) => Standing(e)

\* recover_publication_checkpoint_after_restart.
LEMMA RecoveredPublicationFacts ==
  ASSUME NEW e \in FeatureRecord, Counted(e), PublicationFits(e)
  PROVE  /\ Rests(e, RecoveredPublication(e))
         /\ RecoveredPublication(e).status = "running" =>
              RecoveredPublication(e) = e /\ e.publication = None
<1> DEFINE r == RecoveredPublication(e)
<1>1. CASE e.status = "removed" \/ e.publication = None
  <2>1. r = e
    BY <1>1 DEF RecoveredPublication
  <2> QED
    BY <1>1, <2>1 DEF Rests
<1>2. CASE e.status # "removed" /\ Standing(e)
  <2> DEFINE p == [e.publication EXCEPT !.status = "attention"]
             x == [e EXCEPT !.publication = p, !.status = "failed", !.checkpoint = "publication_attention"]
  <2>1. e.publication \in Publication
    BY <1>2 DEF Standing, FeatureRecord
  <2>2. r = x
    BY <1>2 DEF RecoveredPublication, Standing
  <2>3. p \in Publication \cup {None} /\ p # None /\ p.status = "attention"
        /\ p.candidate = e.publication.candidate /\ "failed" \in Status
        /\ "publication_attention" \in Checkpoint
    BY <2>1, StatusFacts DEF Status, Checkpoint, PublicationCheckpoint
  <2> HIDE DEF p
  <2>4. /\ x \in FeatureRecord /\ x.status = "failed" /\ x.checkpoint = "publication_attention"
        /\ x.edits = e.edits /\ x.repairs = e.repairs /\ x.repairPending = e.repairPending
        /\ x.pending = e.pending /\ x.last = e.last /\ x.publication = p
        /\ x.candidates = e.candidates
    BY <2>3, Zenon DEF FeatureRecord
  <2> HIDE DEF x, r
  <2>5. Counted(x) /\ PublicationFits(x)
    BY <1>2, <2>3, <2>4 DEF Counted, PublicationFits, Standing
  <2>6. Rests(e, r) /\ r.status # "running"
    BY <1>2, <2>2, <2>3, <2>4, <2>5 DEF Rests, Standing
  <2> QED
    BY <2>6 DEF r
<1>3. CASE e.status # "removed" /\ e.publication # None /\ ~Standing(e)
           /\ e.status = "succeeded" /\ e.checkpoint = "publication_merged"
  <2>1. r = e
    BY <1>3 DEF RecoveredPublication, Standing
  <2> QED
    BY <1>3, <2>1 DEF Rests
<1>4. CASE e.status # "removed" /\ e.publication # None /\ ~Standing(e)
           /\ ~(e.status = "succeeded" /\ e.checkpoint = "publication_merged")
  <2> DEFINE x == [e EXCEPT !.status = "failed", !.checkpoint = "publication_completion_reverify"]
  <2>1. r = x
    BY <1>4 DEF RecoveredPublication, Standing
  <2>2. "failed" \in Status /\ "publication_completion_reverify" \in Checkpoint
    BY DEF Status, Checkpoint, PublicationCheckpoint
  <2>3. /\ x \in FeatureRecord /\ x.status = "failed"
        /\ x.checkpoint = "publication_completion_reverify"
        /\ x.edits = e.edits /\ x.repairs = e.repairs /\ x.repairPending = e.repairPending
        /\ x.pending = e.pending /\ x.last = e.last /\ x.publication = e.publication
        /\ x.candidates = e.candidates
    BY <2>2, Zenon DEF FeatureRecord
  <2> HIDE DEF x, r
  <2>4. Counted(x) /\ PublicationFits(x)
    BY <1>4, <2>3 DEF Counted, PublicationFits
  <2>5. Rests(e, r) /\ r.status # "running"
    BY <1>4, <2>1, <2>3, <2>4 DEF Rests, Standing
  <2> QED
    BY <2>5 DEF r
<1> QED
  BY <1>1, <1>2, <1>3, <1>4 DEF Standing

\* What main makes of an entry.
LEMMA RecoveredFacts ==
  ASSUME NEW e \in FeatureRecord, Counted(e), PublicationFits(e)
  PROVE  Rests(e, Recovered(e)) /\ Recovered(e).status # "running" /\ Recovered(e).pending = None
<1> DEFINE r == RecoveredPublication(e)
<1>1. Rests(e, r) /\ (r.status = "running" => r = e /\ e.publication = None)
  BY RecoveredPublicationFacts
<1>2. CASE r.status # "running"
  <2>1. Recovered(e) = r
    BY <1>2 DEF Recovered
  <2> HIDE DEF r
  <2>2. r.pending = None
    BY <1>1, <1>2 DEF Rests, PublicationFits
  <2> QED
    BY <1>1, <1>2, <2>1, <2>2
<1>3. CASE r.status = "running"
  <2> DEFINE i == IF e.pending = None THEN e ELSE Interrupted(e)
             x == [i EXCEPT !.status = "paused"]
  <2>1. Recovered(e) = x /\ e.publication = None
    BY <1>1, <1>3 DEF Recovered
  <2> HIDE DEF r
  <2>2. /\ i \in FeatureRecord /\ i.edits = e.edits /\ i.repairs = e.repairs /\ i.pending = None
        /\ i.repairPending = e.repairPending /\ i.publication = e.publication
        /\ i.candidates = e.candidates /\ i.checkpoint \in {e.checkpoint, "review_interrupted"}
    <3>1. CASE e.pending = None
      BY <3>1
    <3>2. CASE e.pending # None
      <4> DEFINE l == [outcome |-> "interrupted", packet |-> e.pending]
                 y == [e EXCEPT !.last = l, !.pending = None, !.reviewStatus = "interrupted",
                                !.checkpoint = "review_interrupted"]
      <4>1. i = y
        BY <3>2 DEF Interrupted
      <4>2. e.pending \in Bytes
        BY <3>2 DEF FeatureRecord
      <4>3. /\ l \in Review \cup {None} /\ None \in Bytes \cup {None}
            /\ "review_interrupted" \in Checkpoint
            /\ "interrupted" \in {"pending", "reviewing", "approved", "rejected", "unavailable",
                                  "interrupted"}
        BY <4>2 DEF Review, Checkpoint, ReviewCheckpoint
      <4> HIDE DEF l
      <4>4. /\ y \in FeatureRecord /\ y.edits = e.edits /\ y.repairs = e.repairs /\ y.pending = None
            /\ y.repairPending = e.repairPending /\ y.publication = e.publication
            /\ y.candidates = e.candidates /\ y.checkpoint = "review_interrupted"
        BY <4>3, Zenon DEF FeatureRecord
      <4> HIDE DEF y, i
      <4> QED
        BY <4>1, <4>4
    <3> QED
      BY <3>1, <3>2
  <2> HIDE DEF i
  <2>3. /\ x \in FeatureRecord /\ x.status = "paused" /\ x.checkpoint = i.checkpoint
        /\ x.edits = i.edits /\ x.repairs = i.repairs /\ x.repairPending = i.repairPending
        /\ x.pending = i.pending /\ x.publication = i.publication /\ x.candidates = i.candidates
    <3>1. "paused" \in Status
      BY DEF Status
    <3> QED
      BY <2>2, <3>1, StatusOnly
  <2> HIDE DEF x
  <2>4. Counted(x)
    BY <2>1, <2>2, <2>3 DEF Counted, ReviewCheckpoint
  <2>5. PublicationFits(x) /\ ~Standing(x)
    BY <2>1, <2>2, <2>3 DEF PublicationFits, Standing
  <2> QED
    BY <2>1, <2>2, <2>3, <2>4, <2>5 DEF Rests
<1> QED
  BY <1>2, <1>3

\* A process that comes up finds nobody at work.
LEMMA Idle ==
  /\ IdleFlags \in Flags /\ ~IdleFlags.running /\ ~IdleFlags.publicationRunning
  /\ NoRequest \in Requests /\ NoRequest.start = None /\ NoRequest.repair = None
  /\ NoRequest.stop = None /\ NoRequest.enqueue = None /\ NoRequest.owner = None
  /\ NoRequest.clear = None
<1>1. IdleFlags \in Flags /\ ~IdleFlags.running /\ ~IdleFlags.publicationRunning
  BY DEF IdleFlags, Flags
<1>2. /\ NoRequest \in Requests /\ NoRequest.start = None /\ NoRequest.repair = None
      /\ NoRequest.stop = None /\ NoRequest.enqueue = None /\ NoRequest.owner = None
      /\ NoRequest.clear = None
  BY DEF NoRequest, Requests
<1> QED
  BY <1>1, <1>2

\* Nobody is at work, and all entries are at rest.
AtRest ==
  /\ flag = IdleFlags /\ req = NoRequest /\ run = None /\ publish = None /\ ~lock /\ gate = None
  /\ \A f \in Feature : FeatureInv(f) /\ feat[f].status # "running" /\ feat[f].pending = None
  /\ \A f, g \in Feature : Standing(feat[f]) /\ Standing(feat[g]) => g = f

\* Then the invariant holds.
LEMMA RestFits == TypeOK /\ AtRest => Inv
<1> SUFFICES ASSUME TypeOK, AtRest PROVE Inv
  OBVIOUS
<1>1. Threads
  BY Idle DEF AtRest, Threads, Admission, Held, Claim, Partners, GateHeld, RunHasFeature
<1>2. RunInv /\ PublishInv /\ Clear /\ EnqueueInv
  BY Idle DEF AtRest, RunInv, PublishInv, Clear, EnqueueInv
<1>3. BarrierHolds /\ RunningIsAttended /\ PendingIsReviewing
  BY DEF AtRest, BarrierHolds, Unresolved, Standing, RunningIsAttended, PendingIsReviewing
<1> QED
  BY <1>1, <1>2, <1>3 DEF Inv, Work, AtRest

\* The process dies and comes up again.
LEMMA RestartKeeps == Inv /\ Restart => Inv'
<1> SUFFICES ASSUME Inv, Restart PROVE Inv'
  OBVIOUS
<1>0. TypeOK /\ Work
  BY DEF Inv
<1>1. /\ feat \in [Feature -> FeatureRecord] /\ feat' = [f \in Feature |-> Recovered(feat[f])]
      /\ remote' = remote
  BY <1>0 DEF TypeOK, Restart, world
<1>2. ASSUME NEW f \in Feature
      PROVE  /\ Rests(feat[f], feat'[f]) /\ feat'[f].status # "running" /\ feat'[f].pending = None
             /\ RemoteFits(f, feat[f], remote[f])
  <2>1. feat[f] \in FeatureRecord /\ feat'[f] = Recovered(feat[f])
    BY <1>1
  <2>2. Counted(feat[f]) /\ PublicationFits(feat[f]) /\ RemoteFits(f, feat[f], remote[f])
    BY <1>0 DEF Work, FeatureInv
  <2> QED
    BY <2>1, <2>2, RecoveredFacts
<1>3. feat' \in [Feature -> FeatureRecord]
  BY <1>1, <1>2 DEF Rests
<1>4. used' \in [versions : 0 .. MaxVersion, restarts : 0 .. MaxRestarts, stops : 0 .. MaxStops,
               outside : 0 .. MaxOutside]
  <2>1. used \in [versions : 0 .. MaxVersion, restarts : 0 .. MaxRestarts, stops : 0 .. MaxStops,
               outside : 0 .. MaxOutside]
    BY <1>0 DEF TypeOK
  <2>2. used.restarts + 1 \in 0 .. MaxRestarts
    BY <2>1 DEF Restart
  <2>3. used' = [used EXCEPT !.restarts = used.restarts + 1]
    BY DEF Restart
  <2> QED
    BY <2>1, <2>2, <2>3, Zenon
<1>5. TypeOK'
  <2>1. stopped' \in [run : StopSeen, publication : StopSeen]
    BY NothingSeen DEF Restart
  <2> QED
    BY <1>0, <1>3, <1>4, <2>1, Idle DEF TypeOK, Restart, world
<1>6. AtRest'
  <2>1. \A f \in Feature : FeatureInv(f)' /\ feat'[f].status # "running" /\ feat'[f].pending = None
    BY <1>1, <1>2 DEF Rests, FeatureInv, RemoteFits
  <2>2. \A f, g \in Feature : Standing(feat'[f]) /\ Standing(feat'[g]) => g = f
    BY <1>0, <1>2 DEF Rests, Work, BarrierHolds, Unresolved, Standing
  <2> QED
    BY <2>1, <2>2 DEF AtRest, Restart
<1> QED
  BY <1>5, <1>6, RestFits, PTL

\* Somebody else writes a project file.
LEMMA OutsideEditKeeps == \A p \in Path : Inv /\ OutsideEdit(p) => Inv'
<1> SUFFICES ASSUME NEW p \in Path, Inv, OutsideEdit(p) PROVE Inv'
  OBVIOUS
<1>0. TypeOK /\ Threads /\ Work
  BY DEF Inv
<1>1. used \in [versions : 0 .. MaxVersion, restarts : 0 .. MaxRestarts, stops : 0 .. MaxStops,
               outside : 0 .. MaxOutside]
  BY <1>0 DEF TypeOK
<1>2. used.versions + 1 \in 0 .. MaxVersion /\ used.outside + 1 \in 0 .. MaxOutside
  BY <1>1 DEF OutsideEdit
<1>3. used' \in [versions : 0 .. MaxVersion, restarts : 0 .. MaxRestarts, stops : 0 .. MaxStops,
               outside : 0 .. MaxOutside]
  <2>1. used' = [used EXCEPT !.versions = used.versions + 1, !.outside = used.outside + 1]
    BY DEF OutsideEdit
  <2> QED
    BY <1>1, <1>2, <2>1, Zenon
<1>4. disk' \in Bytes
  BY <1>0, <1>2 DEF TypeOK, OutsideEdit, Bytes, Version
<1>5. TypeOK'
  BY <1>0, <1>3, <1>4 DEF TypeOK, OutsideEdit, durable
<1>6. Threads'
  BY <1>0 DEF Threads, Admission, Held, Claim, Partners, GateHeld, RunHasFeature, OutsideEdit, durable
<1>7. Work'
  BY <1>0 DEF Work, FeatureInv, RunInv, PublishInv, Clear, NoneUnresolved, EnqueueInv, BarrierHolds,
              Unresolved, RunningIsAttended, PendingIsReviewing, RunAt, OutsideEdit, durable
<1> QED
  BY <1>5, <1>6, <1>7 DEF Inv

\* A fresh runner is at rest.
LEMMA InitInv == Init => Inv
<1> SUFFICES ASSUME Init PROVE Inv
  OBVIOUS
<1>1. ASSUME NEW f \in Feature
      PROVE  /\ feat[f] \in FeatureRecord /\ feat[f].status # "running" /\ feat[f].pending = None
             /\ FeatureInv(f) /\ feat[f].publication = None
  <2> DEFINE s == IF f = Queue[1] THEN "queued" ELSE "absent"
  <2>1. feat[f] = [NewFeature EXCEPT !.status = s]
    BY DEF Init
  <2>2. s \in Status \ {"running"}
    BY DEF Status
  <2> HIDE DEF s
  <2>3. /\ NewFeature \in FeatureRecord /\ NewFeature.pending = None /\ NewFeature.publication = None
        /\ NewFeature.candidates = 0 /\ NewFeature.repairs = 0 /\ ~NewFeature.repairPending
        /\ NewFeature.checkpoint = "not_started"
    BY DEF NewFeature, FeatureRecord, Status, Checkpoint
  <2>4. /\ feat[f] \in FeatureRecord /\ feat[f].status = s /\ feat[f].pending = None
        /\ feat[f].publication = None /\ feat[f].candidates = 0 /\ feat[f].repairs = 0
        /\ ~feat[f].repairPending /\ feat[f].checkpoint = "not_started"
    BY <2>1, <2>2, <2>3, StatusOnly
  <2> QED
    BY <2>2, <2>4 DEF FeatureInv, Counted, PublicationFits, RemoteFits
<1>2. feat \in [Feature -> FeatureRecord]
  BY <1>1 DEF Init
<1>3. TypeOK
  <2>1. disk \in Bytes
    BY DEF Init, Bytes, Version
  <2>2. /\ stopped \in [run : StopSeen, publication : StopSeen]
        /\ used \in [versions : 0 .. MaxVersion, restarts : 0 .. MaxRestarts, stops : 0 .. MaxStops,
               outside : 0 .. MaxOutside]
    BY DEF Init, StopSeen
  <2> QED
    BY <1>2, <2>1, <2>2, Idle DEF Init, TypeOK
<1>4. AtRest
  BY <1>1 DEF Init, AtRest, Standing
<1> QED
  BY <1>3, <1>4, RestFits

-----------------------------------------------------------------------------
(* Every step *)

\* The requests that are under way.
LEMMA RequestStepKeeps == Inv /\ RequestStep => Inv'
<1> SUFFICES ASSUME Inv, RequestStep PROVE Inv'
  OBVIOUS
<1>1. CASE StopStep
  BY <1>1, StopLatchesKeeps, StopPersistsKeeps DEF StopStep
<1>2. CASE StartStep
  BY <1>2, StartAskedKeeps, StartServedKeeps, StartChecksKeep DEF StartStep
<1>3. CASE OtherStep \/ ClearStep
  BY <1>3, ClearKeeps, EnqueueCommitsKeeps, AbandonCommitsKeeps, ClaimsKeep DEF OtherStep
<1> QED
  BY <1>1, <1>2, <1>3, RepairStepKeeps DEF RequestStep

\* What the owner asks for.
LEMMA OwnerAsksKeeps == Inv /\ OwnerAsks => Inv'
<1> SUFFICES ASSUME Inv, OwnerAsks PROVE Inv'
  OBVIOUS
<1>1. CASE StartAsked \/ StopBegins(1) \/ StopBegins(2) \/ ClearChecks
  BY <1>1, StartAskedKeeps, StopBeginsKeeps, ClearKeeps
<1>2. CASE (\E b \in BOOLEAN : SetAutoRun(b)) \/ BeginShutdown \/ ClaimRefused
  BY <1>2, SettingsKeep, ClaimsKeep
<1>3. ASSUME NEW f \in Feature,
             EnqueueChecks(f) \/ RemoveFeature(f) \/ RepairReserves(f) \/ Reconcile(f) \/ AbandonClaims(f)
      PROVE  Inv'
  BY <1>3, ClaimsKeep, RemoveKeeps, RepairReservesKeeps, ReconcileKeeps
<1> QED
  BY <1>1, <1>2, <1>3 DEF OwnerAsks

\* Every step keeps the invariant.
LEMMA NextKeeps == Inv /\ [Next]_vars => Inv'
<1> SUFFICES ASSUME Inv, [Next]_vars PROVE Inv'
  OBVIOUS
<1>1. CASE Next
  BY <1>1, RunnerStepKeeps, PublishStepKeeps, RequestStepKeeps, OwnerAsksKeeps, RestartKeeps,
     OutsideEditKeeps DEF Next
<1>2. CASE UNCHANGED vars
  <2>1. TypeOK'
    BY <1>2 DEF vars, Inv, TypeOK
  <2>2. Threads'
    BY <1>2 DEF vars, Inv, Threads, Admission, Held, Claim, Partners, GateHeld, RunHasFeature
  <2>3. Work'
    BY <1>2 DEF vars, Inv, Work, FeatureInv, RunInv, PublishInv, Clear, NoneUnresolved, EnqueueInv,
                BarrierHolds, Unresolved, RunningIsAttended, PendingIsReviewing, RunAt
  <2> QED
    BY <2>1, <2>2, <2>3 DEF Inv
<1> QED
  BY <1>1, <1>2

\* The invariant of the runner.
LEMMA InvHolds == Spec => []Inv
  BY InitInv, NextKeeps, PTL DEF Spec

-----------------------------------------------------------------------------
(* The properties *)

\* Every variable keeps the shape the code gives it, the counters their limits
\* (REPAIR_LIMIT and REVIEW_HISTORY_LIMIT), whatever the owner asks and whenever
\* the process dies.
THEOREM RunnerTyped == Spec => []TypeOK
<1>1. Inv => TypeOK
  BY DEF Inv
<1> QED
  BY <1>1, InvHolds, PTL

\* The local model is never asked again for an answer it has given: one answer
\* per feature and one per reserved repair (run_feature's retained branch).
THEOREM BudgetKept == Spec => []ModelBudget
<1>1. Inv => ModelBudget
  BY DEF Inv, Work, FeatureInv, Counted, ModelBudget
<1> QED
  BY <1>1, InvHolds, PTL

\* An unresolved publication is the only one, and nobody works on another
\* feature meanwhile (ensure_publication_barrier_clear).
THEOREM Barrier == Spec => []BarrierHolds
<1>1. Inv => BarrierHolds
  BY DEF Inv, Work
<1> QED
  BY <1>1, InvHolds, PTL

\* A feature shown as running has a run or a publication at work on it.
THEOREM Attended == Spec => []RunningIsAttended
<1>1. Inv => RunningIsAttended
  BY DEF Inv, Work
<1> QED
  BY <1>1, InvHolds, PTL

\* A review that was begun is decided or interrupted before anything else is
\* done with its feature (review_feature, interrupt_pending_review).
THEOREM Reviewing == Spec => []PendingIsReviewing
<1>1. Inv => PendingIsReviewing
  BY DEF Inv, Work
<1> QED
  BY <1>1, InvHolds, PTL

-----------------------------------------------------------------------------
(* Success *)

\* No feature succeeds by this step.
NothingSucceeds == \A f \in Feature : feat[f].status # "succeeded" => feat'[f].status # "succeeded"

\* What a feature needs to succeed.
Reviewed(f) ==
  /\ feat[f].last # None /\ feat[f].last.outcome = "approved"
  /\ \/ f \notin Connected /\ disk = feat[f].last.packet
     \/ /\ f \in Connected /\ remote[f] = "merged"
        /\ feat[f].publication.candidate = feat[f].last.packet

\* A step that changes one entry, to another status than succeeded.
LEMMA OneEntry ==
  ASSUME feat \in [Feature -> FeatureRecord], NEW g \in Feature, NEW e,
         feat' = [feat EXCEPT ![g] = e], e.status # "succeeded" \/ e.status = feat[g].status
  PROVE  NothingSucceeds
  BY DEF NothingSucceeds

\* Such a step of the runner.
LEMMA RunnerEntry ==
  ASSUME Inv, run # None, run.at \notin {"select", "finish"}, NEW e, Saves(e),
         e.status # "succeeded" \/ e.status = entry.status
  PROVE  NothingSucceeds
<1>1. feat \in [Feature -> FeatureRecord] /\ run.id \in Feature
  BY AtFacts DEF Inv, TypeOK
<1> QED
  BY <1>1, OneEntry DEF Saves, entry

\* Such a step of a publication.
LEMMA PublishEntry ==
  ASSUME Inv, publish # None, NEW e, Records(e), e.status # "succeeded" \/ e.status = published.status
  PROVE  NothingSucceeds
<1>1. feat \in [Feature -> FeatureRecord] /\ publish.id \in Feature
  BY PublishFacts DEF Inv, TypeOK
<1> QED
  BY <1>1, OneEntry DEF Records, published

\* run_feature never makes its feature succeed.
LEMMA BuildSucceedsNot ==
  ASSUME Inv, \/ Begin \/ Refresh \/ ModelAnswers \/ Applied \/ ValidationUnconfirmed \/ ReviewBegins
              \/ ReviewUnavailable \/ ReviewInterrupted
              \/ \E o \in {"approved", "rejected"} : ReviewDecides(o)
  PROVE  NothingSucceeds
<1>1. run # None /\ run.at \notin {"select", "finish"}
  BY DEF Begin, Refresh, ModelAnswers, Applied, ValidationUnconfirmed, ReviewBegins,
         ReviewUnavailable, ReviewInterrupted, ReviewDecides, RunAt
<1>2. entry \in FeatureRecord
  BY <1>1, AtFacts
<1>3. CASE Begin
  <2> DEFINE s == IF entry.pending = None THEN "pending" ELSE entry.reviewStatus
             e == [entry EXCEPT !.status = "running", !.reviewStatus = s]
  <2>1. Saves(e)
    BY <1>3 DEF Begin
  <2> HIDE DEF s
  <2>2. e.status = "running"
    BY <1>2 DEF FeatureRecord
  <2> HIDE DEF e
  <2> QED
    BY <1>1, <2>1, <2>2, RunnerEntry
<1>4. CASE Refresh
  <2> DEFINE x == [entry.edits EXCEPT !.to = disk]
             e == [entry EXCEPT !.edits = x]
  <2>1. Saves(e)
    BY <1>4 DEF Refresh
  <2> HIDE DEF x
  <2>2. e.status = entry.status
    BY <1>2 DEF FeatureRecord
  <2> HIDE DEF e
  <2> QED
    BY <1>1, <2>1, <2>2, RunnerEntry
<1>5. CASE ModelAnswers
  <2> DEFINE x == Candidate(entry)
             n == entry.candidates + 1
             c == IF run.repairPending THEN "repair_prepared" ELSE "prepared"
             e == [entry EXCEPT !.edits = x, !.candidates = n, !.checkpoint = c]
  <2>1. Saves(e)
    BY <1>5 DEF ModelAnswers
  <2> HIDE DEF x, n, c
  <2>2. e.status = entry.status
    BY <1>2 DEF FeatureRecord
  <2> HIDE DEF e
  <2> QED
    BY <1>1, <2>1, <2>2, RunnerEntry
<1>6. CASE Applied
  <2> DEFINE c == IF run.repairPending THEN "repair_applied" ELSE "applied"
             e == [entry EXCEPT !.status = "running", !.checkpoint = c]
  <2>1. Saves(e)
    BY <1>6 DEF Applied
  <2> HIDE DEF c
  <2>2. e.status = "running"
    BY <1>2 DEF FeatureRecord
  <2> HIDE DEF e
  <2> QED
    BY <1>1, <2>1, <2>2, RunnerEntry
<1>7. CASE ValidationUnconfirmed
  <2> DEFINE e == [entry EXCEPT !.status = "failed", !.checkpoint = "validation_cleanup_unconfirmed",
                                !.repairPending = FALSE, !.quarantined = TRUE]
  <2>1. Saves(e)
    BY <1>7 DEF ValidationUnconfirmed
  <2>2. e.status = "failed"
    BY <1>2 DEF FeatureRecord
  <2> HIDE DEF e
  <2> QED
    BY <1>1, <2>1, <2>2, RunnerEntry
<1>8. CASE ReviewBegins
  <2> DEFINE n == entry.reviews + 1
             e == [entry EXCEPT !.pending = disk, !.reviews = n, !.reviewStatus = "reviewing",
                                !.checkpoint = "review_pending"]
  <2>1. UNCHANGED feat \/ Saves(e)
    BY <1>8 DEF ReviewBegins
  <2> HIDE DEF n
  <2>2. e.status = entry.status
    BY <1>2 DEF FeatureRecord
  <2> HIDE DEF e
  <2>3. UNCHANGED feat => NothingSucceeds
    BY DEF NothingSucceeds
  <2> QED
    BY <1>1, <2>1, <2>2, <2>3, RunnerEntry
<1>9. ASSUME NEW l, NEW s, NEW c,
             Saves([entry EXCEPT !.last = l, !.pending = None, !.reviewStatus = s, !.checkpoint = c])
      PROVE  NothingSucceeds
  <2> DEFINE e == [entry EXCEPT !.last = l, !.pending = None, !.reviewStatus = s, !.checkpoint = c]
  <2>1. e.status = entry.status
    BY <1>2 DEF FeatureRecord
  <2>2. Saves(e)
    BY <1>9
  <2> HIDE DEF e
  <2> QED
    BY <1>1, <2>1, <2>2, RunnerEntry
<1>10. CASE ReviewUnavailable
  BY <1>9, <1>10 DEF ReviewUnavailable
<1>11. CASE ReviewInterrupted
  BY <1>9, <1>11 DEF ReviewInterrupted, Interrupted
<1>12. ASSUME NEW o \in {"approved", "rejected"}, ReviewDecides(o)
       PROVE  NothingSucceeds
  BY <1>9, <1>12 DEF ReviewDecides
<1> QED
  BY <1>3, <1>4, <1>5, <1>6, <1>7, <1>8, <1>10, <1>11, <1>12

\* Nor do the ends of a run that failed or was stopped.
LEMMA FailureSucceedsNot ==
  ASSUME Inv, AfterRun \/ Failing \/ CompletionStopped \/ CompletionRejected \/ CompletionFailed
  PROVE  NothingSucceeds
<1>1. run # None /\ run.at \notin {"select", "finish"}
  BY DEF AfterRun, Failing, CompletionStopped, CompletionRejected, CompletionFailed, RunAt
<1>2. entry \in FeatureRecord /\ Counted(entry)
  BY <1>1, AtFacts
<1>3. CASE AfterRun
  <2> DEFINE x == [entry EXCEPT !.status = "failed", !.checkpoint = "publication_attention"]
             y == [entry EXCEPT !.status = "paused"]
  <2>1. UNCHANGED feat \/ Saves(x) \/ Saves(entry) \/ Saves(y)
    BY <1>3 DEF AfterRun
  <2>2. x.status = "failed" /\ y.status = "paused"
    BY <1>2 DEF FeatureRecord
  <2> HIDE DEF x, y
  <2>3. UNCHANGED feat => NothingSucceeds
    BY DEF NothingSucceeds
  <2> QED
    BY <1>1, <2>1, <2>2, <2>3, RunnerEntry
<1>4. CASE Failing
  <2> DEFINE x == [entry EXCEPT !.status = "failed", !.repairPending = FALSE]
             p == IF x.edits = None THEN None ELSE x.edits.to
             n == x.repairs + 1
             y == [x EXCEPT !.prior = p, !.repairs = n, !.repairPending = TRUE,
                            !.reviewStatus = "pending", !.pending = None,
                            !.status = "queued", !.checkpoint = "repair_reserved"]
  <2>1. Saves(x) \/ Saves(y)
    BY <1>4 DEF Failing, Reserved
  <2>2. "failed" \in Status /\ FALSE \in BOOLEAN
    BY DEF Status
  <2>3. x \in FeatureRecord /\ x.status = "failed"
    BY <1>2, <2>2, Zenon DEF FeatureRecord
  <2> HIDE DEF x, p, n
  <2>4. y.status = "queued"
    BY <2>3 DEF FeatureRecord
  <2> HIDE DEF y
  <2> QED
    BY <1>1, <2>1, <2>3, <2>4, RunnerEntry
<1>5. CASE CompletionStopped
  <2> DEFINE x == [entry EXCEPT !.status = "paused", !.checkpoint = "publication_completion_reverify"]
             y == [entry EXCEPT !.status = "paused", !.reviewStatus = "interrupted",
                                !.checkpoint = "review_completion_interrupted"]
  <2>1. Saves(x) \/ Saves(y)
    BY <1>5 DEF CompletionStopped
  <2>2. x.status = "paused" /\ y.status = "paused"
    BY <1>2 DEF FeatureRecord
  <2> HIDE DEF x, y
  <2> QED
    BY <1>1, <2>1, <2>2, RunnerEntry
<1>6. CASE CompletionRejected
  <2> DEFINE x == [entry EXCEPT !.status = "failed", !.reviewStatus = "interrupted",
                                !.checkpoint = "review_binding_changed"]
  <2>1. Saves(x)
    BY <1>6 DEF CompletionRejected
  <2>2. x.status = "failed"
    BY <1>2 DEF FeatureRecord
  <2> HIDE DEF x
  <2> QED
    BY <1>1, <2>1, <2>2, RunnerEntry
<1>7. CASE CompletionFailed
  <2> DEFINE x == [entry EXCEPT !.status = "failed"]
  <2>1. Saves(entry) \/ Saves(x)
    BY <1>7 DEF CompletionFailed
  <2>2. x.status = "failed"
    BY <1>2 DEF FeatureRecord
  <2> HIDE DEF x
  <2> QED
    BY <1>1, <2>1, <2>2, RunnerEntry
<1> QED
  BY <1>3, <1>4, <1>5, <1>6, <1>7

\* Nor do the owner's requests.
LEMMA RequestSucceedsNot ==
  ASSUME Inv, \/ EnqueueCommits \/ AbandonCommits
              \/ \E f \in Feature : RemoveFeature(f) \/ RepairReserves(f) \/ Reconcile(f)
  PROVE  NothingSucceeds
<1>1. feat \in [Feature -> FeatureRecord] /\ req \in Requests
  BY DEF Inv, TypeOK
<1>2. UNCHANGED feat => NothingSucceeds
  BY DEF NothingSucceeds
<1>4. CASE EnqueueCommits
  <2>1. req.enqueue \in Feature /\ "queued" \in Status
    BY <1>1, <1>4 DEF EnqueueCommits, Requests, Status
  <2>2. CASE BarrierClear /\ ~emergencyPaused
    <3>1. feat' = [feat EXCEPT ![req.enqueue].status = "queued"]
      BY <1>4, <2>2 DEF EnqueueCommits
    <3> DEFINE g == req.enqueue
               e == [feat[g] EXCEPT !.status = "queued"]
    <3>2. feat' = [feat EXCEPT ![g] = e]
      BY <1>1, <2>1, <3>1, Zenon
    <3>3. e.status = "queued" /\ g \in Feature
      BY <1>1, <2>1 DEF FeatureRecord
    <3> HIDE DEF g, e
    <3> QED
      BY <1>1, <3>2, <3>3, OneEntry
  <2>3. CASE ~(BarrierClear /\ ~emergencyPaused)
    <3>1. UNCHANGED feat
      BY <1>4, <2>3 DEF EnqueueCommits
    <3> QED
      BY <1>2, <3>1
  <2> QED
    BY <2>2, <2>3
<1>5. CASE AbandonCommits
  <2> DEFINE g == req.owner
             p == [feat[g].publication EXCEPT !.status = "abandoned"]
             e == [feat[g] EXCEPT !.publication = p, !.status = "removed",
                                  !.checkpoint = "publication_abandoned", !.repairPending = FALSE]
  <2>1. g \in Feature /\ feat[g] \in FeatureRecord
    BY <1>1, <1>5 DEF AbandonCommits
  <2>2. UNCHANGED feat \/ feat' = [feat EXCEPT ![g] = e]
    BY <1>1, <1>5, <2>1, Zenon DEF AbandonCommits
  <2> HIDE DEF p
  <2>3. e.status = "removed"
    BY <2>1 DEF FeatureRecord
  <2> HIDE DEF e, g
  <2> QED
    BY <1>1, <1>2, <2>1, <2>2, <2>3, OneEntry
<1>6. ASSUME NEW f \in Feature, RemoveFeature(f)
      PROVE  NothingSucceeds
  <2> DEFINE e == [feat[f] EXCEPT !.status = "removed"]
  <2>1. feat' = [feat EXCEPT ![f] = e]
    BY <1>1, <1>6, Zenon DEF RemoveFeature
  <2>2. e.status = "removed"
    BY <1>1 DEF FeatureRecord
  <2> HIDE DEF e
  <2> QED
    BY <1>1, <2>1, <2>2, OneEntry
<1>7. ASSUME NEW f \in Feature, RepairReserves(f)
      PROVE  NothingSucceeds
  <2>1. feat[f] \in FeatureRecord /\ Counted(feat[f]) /\ feat[f].repairs < RepairLimit
    BY <1>1, <1>7 DEF RepairReserves, Inv, Work, FeatureInv
  <2>2. Reserved(feat[f]).status = "queued"
    BY <2>1, ReservedFacts
  <2>3. feat' = [feat EXCEPT ![f] = Reserved(feat[f])]
    BY <1>7 DEF RepairReserves
  <2> QED
    BY <1>1, <2>2, <2>3, OneEntry
<1>8. ASSUME NEW f \in Feature, Reconcile(f)
      PROVE  NothingSucceeds
  <2> DEFINE p == [feat[f].publication EXCEPT !.status = "pending"]
             e == [feat[f] EXCEPT !.publication = p, !.status = "running",
                                  !.checkpoint = "publication_reconciling"]
  <2>1. feat' = [feat EXCEPT ![f] = e]
    BY <1>1, <1>8, Zenon DEF Reconcile
  <2> HIDE DEF p
  <2>2. e.status = "running"
    BY <1>1 DEF FeatureRecord
  <2> HIDE DEF e
  <2> QED
    BY <1>1, <2>1, <2>2, OneEntry
<1> QED
  BY <1>4, <1>5, <1>6, <1>7, <1>8

\* Nor does a restart: what it rewrites it shows as failed or paused.
LEMMA RestartSucceedsNot == Inv /\ Restart => NothingSucceeds
<1> SUFFICES ASSUME Inv, Restart, NEW f \in Feature, feat[f].status # "succeeded"
             PROVE  feat'[f].status # "succeeded"
  BY DEF NothingSucceeds
<1> DEFINE e == feat[f]
           r == RecoveredPublication(e)
<1>1. e \in FeatureRecord /\ feat'[f] = Recovered(e) /\ Counted(e) /\ PublicationFits(e)
  BY DEF Restart, Inv, TypeOK, Work, FeatureInv
<1>2. r.status # "succeeded" /\ r \in FeatureRecord
  <2>1. r \in FeatureRecord
    BY <1>1, RecoveredPublicationFacts DEF Rests
  <2> DEFINE p == [e.publication EXCEPT !.status = "attention"]
             x == [e EXCEPT !.publication = p, !.status = "failed", !.checkpoint = "publication_attention"]
             y == [e EXCEPT !.status = "failed", !.checkpoint = "publication_completion_reverify"]
  <2>2. r \in {e, x, y}
    BY DEF RecoveredPublication
  <2> HIDE DEF p
  <2>3. x.status = "failed" /\ y.status = "failed"
    BY <1>1 DEF FeatureRecord
  <2> HIDE DEF x, y, r
  <2> QED
    BY <2>1, <2>2, <2>3
<1>3. CASE r.status # "running"
  BY <1>1, <1>2, <1>3 DEF Recovered
<1>4. CASE r.status = "running"
  <2> DEFINE i == IF r.pending = None THEN r ELSE Interrupted(r)
             x == [i EXCEPT !.status = "paused"]
  <2>1. Recovered(e) = x
    BY <1>4 DEF Recovered
  <2>2. r = e /\ e.publication = None
    BY <1>1, <1>4, RecoveredPublicationFacts
  <2>3. "status" \in DOMAIN i
    <3> DEFINE l == [outcome |-> "interrupted", packet |-> r.pending]
    <3>1. i \in {r, [r EXCEPT !.last = l, !.pending = None, !.reviewStatus = "interrupted",
                              !.checkpoint = "review_interrupted"]}
      BY DEF Interrupted
    <3> HIDE DEF l, r, i
    <3> QED
      BY <1>2, <3>1 DEF FeatureRecord
  <2> HIDE DEF i
  <2>4. x.status = "paused"
    BY <2>3
  <2> QED
    BY <1>1, <2>1, <2>4
<1> QED
  BY <1>3, <1>4

\* complete_reviewed_feature succeeds on the approved bytes that are on disk.
LEMMA CompletionReviewed ==
  ASSUME Inv, CompletionProceeds, NEW f \in Feature,
         feat[f].status # "succeeded", feat'[f].status = "succeeded"
  PROVE  Reviewed(f)
<1>1. run # None /\ run.at = "complete"
  BY DEF CompletionProceeds, RunAt
<1>2. /\ run.id \in Feature /\ entry \in FeatureRecord
      /\ RemoteFits(run.id, entry, remote[run.id]) /\ feat \in [Feature -> FeatureRecord]
  BY <1>1, AtFacts DEF Inv, TypeOK
<1> DEFINE x == [entry EXCEPT !.status = "succeeded", !.checkpoint = "review_approved",
                              !.repairPending = FALSE, !.quarantined = FALSE]
           y == [entry EXCEPT !.status = "running", !.checkpoint = "publication_reconciling",
                              !.reviewStatus = "approved"]
           p == [status |-> "pending", candidate |-> disk]
           z == [entry EXCEPT !.status = "running", !.checkpoint = "publication_pending",
                              !.publication = p, !.repairPending = FALSE, !.quarantined = FALSE]
<1>3. (run.id \notin Connected /\ Saves(x)) \/ Saves(y) \/ Saves(z)
  BY DEF CompletionProceeds
<1> HIDE DEF p
<1>4. y.status = "running" /\ z.status = "running"
  BY <1>2 DEF FeatureRecord
<1> HIDE DEF x, y, z
<1>5. CASE Saves(y) \/ Saves(z)
  <2>1. NothingSucceeds
    BY <1>1, <1>4, <1>5, RunnerEntry
  <2> QED
    BY <2>1 DEF NothingSucceeds
<1>6. CASE run.id \notin Connected /\ Saves(x)
  <2>1. f = run.id
    BY <1>2, <1>6 DEF Saves
  <2>2. entry = feat[f] /\ entry.publication = None
    BY <1>2, <1>6, <2>1 DEF entry, RemoteFits
  <2>3. StillApproved
    BY DEF CompletionProceeds
  <2>4. feat[f].last # None /\ feat[f].last.outcome = "approved" /\ disk = feat[f].last.packet
    BY <2>2, <2>3 DEF StillApproved, ApprovedEvidence, CompletedPublication
  <2> QED
    BY <1>6, <2>1, <2>4 DEF Reviewed
<1> QED
  BY <1>3, <1>5, <1>6

\* A publication succeeds at its end, on the approved candidate that was merged.
LEMMA PublishReviewed ==
  ASSUME Inv, PublishStep, NEW f \in Feature,
         feat[f].status # "succeeded", feat'[f].status = "succeeded"
  PROVE  Reviewed(f)
<1>1. publish # None
  BY DEF PublishStep, PublishIntends, PublishChecks, PublishLands, PublishVerified, PublishFails,
         Reverifies, PublishFinishes, PublishAt
<1>2. /\ publish.id \in Feature /\ published \in FeatureRecord /\ PublishFits(publish, published)
      /\ PublicationFits(published) /\ RemoteFits(publish.id, published, remote[publish.id])
      /\ feat \in [Feature -> FeatureRecord]
  BY <1>1, PublishFacts DEF Inv, TypeOK
<1>3. ~NothingSucceeds
  BY DEF NothingSucceeds
<1>4. ~UNCHANGED feat
  BY <1>3 DEF NothingSucceeds
<1>5. ~(PublishChecks \/ PublishLands \/ Reverifies)
  BY <1>4 DEF PublishChecks, PublishLands, Reverifies, durable
<1>6. ~PublishIntends
  <2> DEFINE p == [published.publication EXCEPT !.status = "running"]
             e == [published EXCEPT !.status = "running", !.publication = p]
  <2>1. PublishIntends => Records(e)
    BY DEF PublishIntends
  <2> HIDE DEF p
  <2>2. e.status = "running"
    BY <1>2 DEF FeatureRecord
  <2> HIDE DEF e
  <2> QED
    BY <1>1, <1>3, <2>1, <2>2, PublishEntry
<1>7. ~PublishVerified
  <2> DEFINE p == [published.publication EXCEPT !.status = "succeeded"]
             e == [published EXCEPT !.publication = p]
  <2>1. PublishVerified => Records(e)
    BY DEF PublishVerified
  <2> HIDE DEF p
  <2>2. e.status = published.status
    BY <1>2 DEF FeatureRecord
  <2> HIDE DEF e
  <2> QED
    BY <1>1, <1>3, <2>1, <2>2, PublishEntry
<1>8. ~PublishFails
  <2> DEFINE p == [published.publication EXCEPT !.status = "attention"]
             e == [published EXCEPT !.publication = p, !.status = "failed",
                                    !.checkpoint = "publication_attention", !.repairPending = FALSE]
  <2>1. PublishFails => Records(e)
    BY DEF PublishFails, Attention
  <2> HIDE DEF p
  <2>2. e.status = "failed"
    BY <1>2 DEF FeatureRecord
  <2> HIDE DEF e
  <2> QED
    BY <1>1, <1>3, <2>1, <2>2, PublishEntry
<1>9. PublishFinishes
  BY <1>5, <1>6, <1>7, <1>8 DEF PublishStep
<1>10. f = publish.id /\ published = feat[f]
  BY <1>2, <1>9 DEF PublishFinishes, Records, published
<1>11. published.publication # None /\ published.publication.status = "succeeded"
  BY <1>2, <1>9 DEF PublishFits, PublishFinishes, PublishAt
<1> QED
  BY <1>2, <1>10, <1>11 DEF PublicationFits, RemoteFits, Reviewed

\* Whatever step makes a feature succeed, it was reviewed.
LEMMA SuccessStep ==
  ASSUME Inv, Next, NEW f \in Feature, feat[f].status # "succeeded", feat'[f].status = "succeeded"
  PROVE  Reviewed(f)
<1>1. ~NothingSucceeds /\ ~UNCHANGED feat
  BY DEF NothingSucceeds
<1>2. CASE RunnerStep
  <2>1. ~(\/ Select \/ Route \/ ModelReads \/ ModelFails \/ Preflight \/ ApplyChecks
          \/ (\E p \in Path : ApplyEdit(p)) \/ ValidationChecks \/ ValidationSpawns \/ ValidationEnds
          \/ ExecutePublication \/ ReverifyPublication \/ NextFeature \/ Finish)
    BY <1>1 DEF Select, Route, ModelReads, ModelFails, Preflight, ApplyChecks, ApplyEdit,
                ValidationChecks, ValidationSpawns, ValidationEnds, ExecutePublication,
                ReverifyPublication, NextFeature, Finish, durable
  <2> QED
    BY <1>1, <1>2, <2>1, BuildSucceedsNot, FailureSucceedsNot, CompletionReviewed DEF RunnerStep
<1>3. CASE PublishStep
  BY <1>3, PublishReviewed
<1>4. CASE RequestStep \/ OwnerAsks
  <2>1. ~(StopStep \/ RepairStep \/ ClearStep \/ ClaimReleased)
    BY <1>1 DEF StopStep, StopLatchesCancellation, StopLatchesPublication, StopTakesGate, StopPersists,
                StopAnswered, RepairStep, RepairClearsCancellation, RepairAuthorizes, RepairLaunches,
                ClearStep, ClearCommits, ClearStoresCancellation, ClearStoresPublication,
                ClaimReleased, durable
  <2>2. ~StartStep
    BY <1>1 DEF StartStep, StartDeclined, StartServed, StartChecksEpoch, StartClearsCancellation,
                StartClearsPublication, StartConfirms, StartSuperseded, StartContinues, StartLaunches,
                durable
  <2>3. ~(\/ StartAsked \/ StopBegins(1) \/ StopBegins(2) \/ ClearChecks
          \/ (\E b \in BOOLEAN : SetAutoRun(b)) \/ BeginShutdown \/ ClaimRefused
          \/ \E g \in Feature : EnqueueChecks(g) \/ AbandonClaims(g))
    BY <1>1 DEF StartAsked, StopBegins, ClearChecks, SetAutoRun, BeginShutdown, ClaimRefused,
                EnqueueChecks, AbandonClaims, durable
  <2> QED
    BY <1>1, <1>4, <2>1, <2>2, <2>3, RequestSucceedsNot DEF RequestStep, OtherStep, OwnerAsks
<1>5. CASE Restart
  BY <1>1, <1>5, RestartSucceedsNot
<1>6. CASE \E p \in Path : OutsideEdit(p)
  BY <1>1, <1>6 DEF OutsideEdit, durable
<1> QED
  BY <1>2, <1>3, <1>4, <1>5, <1>6 DEF Next

\* A feature succeeds only on an approved review of the very bytes that are on
\* disk, or, with a connection, of the candidate that was merged
\* (prepare_reviewed_completion, finish_publication).
THEOREM SuccessReviewed == Spec => SuccessIsReviewed
<1>1. ASSUME Inv, [Next]_vars
      PROVE  [\A f \in Feature :
                feat[f].status # "succeeded" /\ feat'[f].status = "succeeded" =>
                  /\ feat[f].last # None /\ feat[f].last.outcome = "approved"
                  /\ \/ f \notin Connected /\ disk = feat[f].last.packet
                     \/ /\ f \in Connected /\ remote[f] = "merged"
                        /\ feat[f].publication.candidate = feat[f].last.packet]_vars
  BY <1>1, SuccessStep DEF Reviewed
<1> QED
  BY <1>1, InvHolds, PTL DEF Spec, SuccessIsReviewed
=============================================================================
