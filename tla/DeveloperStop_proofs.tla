------------------------ MODULE DeveloperStop_proofs ------------------------
(***************************************************************************)
(* What an answered Stop or Emergency Pause is worth: the run and the      *)
(* publication it met stay stopped, whatever Start, Repair, Clear, the     *)
(* owner's other requests and a restart do at the same time.               *)
(*                                                                         *)
(* A Clear of the emergency that found nobody at work may come to its      *)
(* stores when somebody is; then a Stop answered in between is not kept    *)
(* (ClearLeavesWorkStopped is violated).  The last theorem shows that      *)
(* nothing else takes a latch from work that is active.                    *)
(***************************************************************************)
EXTENDS DeveloperRunner_proofs

\* A Start that met an answered Stop knows that the epoch moved.
StartKnows == req.start # None /\ req.start.stopped = "met" => req.start.moved

\* A Stop that begins while Repair holds the database is not answered before
\* Repair gives it back.
RepairHolds ==
  req.repair # None =>
    /\ req.repair.stopped # "met"
    /\ req.repair.moved => req.stop # None /\ req.stop.at # "latch"

\* What is active while a Clear is under way has met no other Stop.
ClearMissed ==
  req.clear # None =>
    /\ run # None => stopped.run # "met"
    /\ publish # None => stopped.publication # "met"

\* The runner keeps the gate only when no Stop was answered.
GateUnstopped == gate = "runner" => stopped.run # "met"

StopInv == StartKnows /\ RepairHolds /\ ClearMissed /\ StopIsNotLost /\ GateUnstopped

USE RunnerAssumption, OptionAssumption

-----------------------------------------------------------------------------
(* What a step must not do *)

\* A step that leaves the latches of active work set.
KeepsLatches ==
  /\ run # None /\ run' # None /\ flag.cancellation # 0 => flag'.cancellation # 0
  /\ publish # None /\ publish' # None /\ flag.publicationCancellation # 0
       => flag'.publicationCancellation # 0

\* A step that moreover answers no Stop, and takes the effect gate only when
\* the run is not cancelled.
TakesNoLatch ==
  /\ KeepsLatches
  /\ run' # None /\ stopped'.run = "met" => run # None /\ stopped.run = "met"
  /\ publish' # None /\ stopped'.publication = "met" =>
       publish # None /\ stopped.publication = "met"
  /\ gate' = "runner" => /\ gate = "runner" \/ (run # None /\ ~cancelled)
                         /\ stopped'.run = "met" => stopped.run = "met"

\* A step after which the Start and Repair in flight know what they knew, and
\* no Clear has come upon somebody at work.
AsksNothing ==
  /\ StartKnows' /\ RepairHolds'
  /\ req'.clear = req.clear \/ req'.clear = None \/ (run' = None /\ publish' = None)

\* A step honours an answered Stop.
Honoured == StopInv' /\ KeepsLatches

\* Steps of both kinds do.
LEMMA StopStays ==
  ASSUME Inv, StopInv, TakesNoLatch, AsksNothing
  PROVE  Honoured
<1>1. StopIsNotLost'
  BY DEF StopInv, TakesNoLatch, KeepsLatches, StopIsNotLost, cancelled
<1>2. GateUnstopped'
  BY DEF StopInv, TakesNoLatch, StopIsNotLost, GateUnstopped, cancelled
<1>3. ClearMissed'
  BY DEF StopInv, TakesNoLatch, AsksNothing, ClearMissed
<1> QED
  BY <1>1, <1>2, <1>3 DEF StopInv, Honoured, AsksNothing, TakesNoLatch

\* A step that leaves Start, Repair and Stop alone, or ends the first two.
LEMMA AskedBefore ==
  ASSUME StopInv, req'.stop = req.stop, req'.clear = req.clear,
         \/ req'.start = None
         \/ req'.start = req.start
         \/ /\ req.start # None
            /\ req'.start.moved = req.start.moved /\ req'.start.stopped = req.start.stopped,
         req'.repair = req.repair \/ req'.repair = None
  PROVE  AsksNothing
  BY DEF StopInv, AsksNothing, StartKnows, RepairHolds

-----------------------------------------------------------------------------
(* The runner *)

\* The steps of run_queue that touch no latch.
LEMMA QuietRunner ==
  ASSUME Inv, StopInv, run # None, UNCHANGED <<flag, publish, req, stopped>>,
         gate' = "runner" => gate = "runner" \/ ~cancelled
  PROVE  Honoured
<1>1. TakesNoLatch
  BY DEF TakesNoLatch, KeepsLatches
<1> QED
  BY <1>1, AskedBefore, StopStays

\* The cleanup of a validation that could not be confirmed latches both.
LEMMA UnconfirmedStops == Inv /\ StopInv /\ ValidationUnconfirmed => Honoured
<1> SUFFICES ASSUME Inv, StopInv, ValidationUnconfirmed PROVE Honoured
  OBVIOUS
<1>1. run # None /\ flag \in Flags /\ req \in Requests
  BY DEF ValidationUnconfirmed, RunAt, Inv, TypeOK
<1>2. /\ LatchedTo(2) \in Flags
      /\ LatchedTo(2).cancellation = Max2(flag.cancellation, 2)
      /\ LatchedTo(2).publicationCancellation = Max2(flag.publicationCancellation, 2)
  BY <1>1, LatchedFacts
<1>3. flag'.cancellation = LatchedTo(2).cancellation
      /\ flag'.publicationCancellation = LatchedTo(2).publicationCancellation
  <2>1. flag' = [LatchedTo(2) EXCEPT !.authorized = FALSE]
    BY DEF ValidationUnconfirmed
  <2> QED
    BY <1>2, <2>1, Zenon DEF Flags
<1>4. flag'.cancellation # 0 /\ flag'.publicationCancellation # 0
  BY <1>1, <1>2, <1>3 DEF Max2, Flags
<1>5. UNCHANGED <<gate, publish, stopped>>
  BY DEF ValidationUnconfirmed
<1>6. TakesNoLatch
  BY <1>1, <1>4, <1>5 DEF TakesNoLatch, KeepsLatches
<1>7. req' = EpochMoves(req) /\ req.repair = None
  BY <1>1 DEF ValidationUnconfirmed, Inv, Threads, Admission
<1>8. AsksNothing
  BY <1>1, <1>7, EpochFacts DEF AsksNothing, StartKnows, RepairHolds
<1> QED
  BY <1>6, <1>8, StopStays

\* The loop of run_queue changes the authorization at most.
LEMMA AuthorizedStops ==
  ASSUME Inv, StopInv, Failing \/ NextFeature
  PROVE  Honoured
<1>1. run # None /\ flag \in Flags
  BY DEF Failing, NextFeature, RunAt, Inv, TypeOK
<1>2. UNCHANGED <<gate, publish, req, stopped>>
  BY DEF Failing, NextFeature
<1>3. flag'.cancellation = flag.cancellation
      /\ flag'.publicationCancellation = flag.publicationCancellation
  <2>1. CASE Failing
    <3> DEFINE a == IF run.result = "rejected" THEN ~cancelled ELSE flag.authorized
    <3>1. flag' = [flag EXCEPT !.authorized = a]
      BY <2>1 DEF Failing
    <3> HIDE DEF a
    <3> QED
      BY <1>1, <3>1, Zenon DEF Flags
  <2>2. CASE NextFeature
    <3>1. flag' = [flag EXCEPT !.authorized = FALSE] \/ flag' = flag
      BY <2>2 DEF NextFeature
    <3> QED
      BY <1>1, <3>1, Zenon DEF Flags
  <2> QED
    BY <2>1, <2>2
<1>4. TakesNoLatch
  BY <1>1, <1>2, <1>3 DEF TakesNoLatch, KeepsLatches
<1> QED
  BY <1>2, <1>4, AskedBefore, StopStays

\* A publication that begins has met no Stop, and the run keeps its latch.
LEMMA PublicationStops ==
  ASSUME Inv, StopInv, ExecutePublication \/ ReverifyPublication
  PROVE  Honoured
<1>1. run # None /\ flag \in Flags /\ stopped \in [run : StopSeen, publication : StopSeen]
  BY DEF ExecutePublication, ReverifyPublication, RunAt, Inv, TypeOK
<1>2. UNCHANGED <<gate, req>>
  BY DEF ExecutePublication, ReverifyPublication
<1>3. CASE UNCHANGED <<flag, publish, stopped>>
  BY <1>1, <1>2, <1>3, QuietRunner
<1>4. CASE /\ \/ flag' = [flag EXCEPT !.publicationRunning = TRUE, !.publicationCancellation = 0]
              \/ flag' = [flag EXCEPT !.publicationRunning = TRUE]
           /\ stopped' = [stopped EXCEPT !.publication = "no"]
           /\ run.at # "publishing"
  <2>1. flag'.cancellation = flag.cancellation
    BY <1>1, <1>4, Zenon DEF Flags
  <2>2. stopped'.run = stopped.run /\ stopped'.publication = "no"
    BY <1>1, <1>4, Zenon
  <2>3. publish # None => publish.by = "owner" /\ ~flag.running
    BY <1>1, <1>4 DEF Inv, TypeOK, PublishTask, Threads, Claim, Partners
  <2>4. publish = None
    BY <1>1, <2>3 DEF Inv, Threads, Admission
  <2>5. TakesNoLatch
    BY <1>1, <1>2, <2>1, <2>2, <2>4 DEF TakesNoLatch, KeepsLatches
  <2> QED
    BY <1>2, <2>5, AskedBefore, StopStays
<1> QED
  BY <1>3, <1>4 DEF ExecutePublication, ReverifyPublication, RunAt

\* The end of the run ends what it was stopped for.
LEMMA FinishStops == Inv /\ StopInv /\ Finish => Honoured
<1> SUFFICES ASSUME Inv, StopInv, Finish PROVE Honoured
  OBVIOUS
<1>1. run # None /\ run.at = "finish" /\ flag \in Flags
      /\ stopped \in [run : StopSeen, publication : StopSeen] /\ FALSE \in BOOLEAN
  BY DEF Finish, RunAt, Inv, TypeOK
<1>2. UNCHANGED <<gate, publish, req>> /\ run' = None
  BY DEF Finish
<1>3. flag'.publicationCancellation = flag.publicationCancellation
  BY <1>1, Zenon DEF Finish, Flags
<1>4. stopped'.publication = stopped.publication
  BY <1>1, Zenon DEF Finish
<1>5. gate # "runner"
  BY <1>1 DEF Inv, Threads, GateHeld
<1>6. TakesNoLatch
  BY <1>2, <1>3, <1>4, <1>5 DEF TakesNoLatch, KeepsLatches
<1> QED
  BY <1>2, <1>6, AskedBefore, StopStays

\* Every step of the runner.
LEMMA RunnerStops == Inv /\ StopInv /\ RunnerStep => Honoured
<1> SUFFICES ASSUME Inv, StopInv, RunnerStep PROVE Honoured
  OBVIOUS
<1>1. CASE Select \/ Route \/ Begin \/ Refresh \/ ModelReads \/ ModelFails \/ ModelAnswers \/ Preflight
  <2>1. run # None /\ UNCHANGED <<flag, publish, req, stopped, gate>>
    BY <1>1 DEF Select, Route, Begin, Refresh, ModelReads, ModelFails, ModelAnswers, Preflight, RunAt
  <2> QED
    BY <2>1, QuietRunner
<1>2. CASE ApplyChecks \/ (\E p \in Path : ApplyEdit(p)) \/ Applied \/ ValidationChecks
           \/ ValidationSpawns \/ ValidationEnds
  <2>1. /\ run # None /\ UNCHANGED <<flag, publish, req, stopped>>
        /\ gate' = "runner" => gate = "runner" \/ ~cancelled
    BY <1>2 DEF ApplyChecks, ApplyEdit, Applied, ValidationChecks, ValidationSpawns, ValidationEnds, RunAt
  <2> QED
    BY <2>1, QuietRunner
<1>3. CASE ReviewBegins \/ ReviewUnavailable \/ ReviewInterrupted \/ AfterRun
           \/ \E o \in {"approved", "rejected"} : ReviewDecides(o)
  <2>1. run # None /\ UNCHANGED <<flag, publish, req, stopped, gate>>
    BY <1>3 DEF ReviewBegins, ReviewUnavailable, ReviewInterrupted, ReviewDecides, AfterRun, RunAt
  <2> QED
    BY <2>1, QuietRunner
<1>4. CASE CompletionStopped \/ CompletionRejected \/ CompletionProceeds \/ CompletionFailed
  <2>1. run # None /\ UNCHANGED <<flag, publish, req, stopped, gate>>
    BY <1>4 DEF CompletionStopped, CompletionRejected, CompletionProceeds, CompletionFailed, RunAt
  <2> QED
    BY <2>1, QuietRunner
<1> QED
  BY <1>1, <1>2, <1>3, <1>4, UnconfirmedStops, AuthorizedStops, PublicationStops, FinishStops
     DEF RunnerStep

-----------------------------------------------------------------------------
(* Publication *)

\* A publication ends with what it was stopped for, and touches no latch.
LEMMA PublishStops == Inv /\ StopInv /\ PublishStep => Honoured
<1> SUFFICES ASSUME Inv, StopInv, PublishStep PROVE Honoured
  OBVIOUS
<1>1. publish # None /\ flag \in Flags /\ stopped \in [run : StopSeen, publication : StopSeen]
  BY DEF PublishStep, PublishIntends, PublishChecks, PublishLands, PublishVerified, PublishFails,
         Reverifies, PublishFinishes, PublishAt, Inv, TypeOK
<1>2. UNCHANGED <<gate, req>>
  BY DEF PublishStep, PublishIntends, PublishChecks, PublishLands, PublishVerified, PublishFails,
         Reverifies, PublishFinishes
<1>3. CASE \E b \in BOOLEAN : PublishEnds(b)
  <2>1. flag'.cancellation = flag.cancellation
    BY <1>1, <1>3, Zenon DEF PublishEnds, Flags
  <2>2. stopped'.run = stopped.run
    BY <1>1, <1>3, Zenon DEF PublishEnds
  <2>3. publish' = None /\ (run' # None => run # None)
    <3>1. publish.by = "runner" => run # None
      BY <1>1, PublishFacts
    <3> QED
      BY <1>3, <3>1 DEF PublishEnds
  <2>4. TakesNoLatch
    BY <1>2, <2>1, <2>2, <2>3 DEF TakesNoLatch, KeepsLatches
  <2> QED
    BY <1>2, <2>4, AskedBefore, StopStays
<1>4. CASE UNCHANGED <<flag, run, stopped>>
  <2>1. TakesNoLatch
    BY <1>1, <1>2, <1>4 DEF TakesNoLatch, KeepsLatches
  <2> QED
    BY <1>2, <2>1, AskedBefore, StopStays
<1> QED
  BY <1>3, <1>4
     DEF PublishStep, PublishIntends, PublishChecks, PublishLands, PublishVerified, PublishFails,
         Reverifies, PublishFinishes

-----------------------------------------------------------------------------
(* Stop *)

\* A Stop begins: every Start and Repair in flight learns of it.
LEMMA StopBeginsStops == \A n \in 1 .. 2 : Inv /\ StopInv /\ StopBegins(n) => Honoured
<1> SUFFICES ASSUME NEW n \in 1 .. 2, Inv, StopInv, StopBegins(n) PROVE Honoured
  OBVIOUS
<1> DEFINE s == [at |-> "cancellation", severity |-> n]
           r == [req EXCEPT !.stop = s]
<1>1. req \in Requests /\ flag \in Flags /\ s \in StopRequest \cup {None} /\ s # None
      /\ s.at = "cancellation"
  BY DEF Inv, TypeOK, StopRequest
<1>2. req' = EpochMoves(r)
  BY DEF StopBegins
<1> HIDE DEF s
<1>3. /\ r \in Requests /\ r.start = req.start /\ r.repair = req.repair /\ r.stop = s
      /\ r.clear = req.clear
  BY <1>1, Zenon DEF Requests
<1> HIDE DEF r
<1>4. AsksNothing
  BY <1>1, <1>2, <1>3, EpochFacts DEF StopInv, AsksNothing, StartKnows, RepairHolds
<1>5. flag'.cancellation = flag.cancellation
      /\ flag'.publicationCancellation = flag.publicationCancellation
  BY <1>1, Zenon DEF StopBegins, Flags
<1>6. UNCHANGED <<gate, run, publish, stopped>>
  BY DEF StopBegins
<1>7. TakesNoLatch
  BY <1>5, <1>6 DEF TakesNoLatch, KeepsLatches
<1> QED
  BY <1>4, <1>7, StopStays

\* A step of a Stop that goes on only ever sets latches.
LEMMA StopGoesOn ==
  ASSUME Inv, StopInv, req.stop # None,
         NEW s \in {"cancellation", "publication", "gate", "persist", "latch"}, StopGoes(s),
         s = "latch" => ~lock,
         flag.cancellation # 0 => flag'.cancellation # 0,
         flag.publicationCancellation # 0 => flag'.publicationCancellation # 0,
         UNCHANGED <<run, publish, stopped>>, gate' = gate \/ gate' = "stop"
  PROVE  Honoured
<1>1. /\ req'.start = req.start /\ req'.repair = req.repair /\ req'.clear = req.clear
      /\ req'.stop # None /\ req'.stop.at = s
  BY StopGoesFacts DEF Inv, TypeOK
<1>2. s = "latch" => req.repair = None
  BY DEF Inv, Threads, Admission
<1>3. AsksNothing
  BY <1>1, <1>2 DEF StopInv, AsksNothing, StartKnows, RepairHolds
<1>4. TakesNoLatch
  BY DEF TakesNoLatch, KeepsLatches
<1> QED
  BY <1>3, <1>4, StopStays

\* A Stop that is answered leaves both latches set, and no Repair that it began
\* during.
LEMMA StopEndsStops ==
  ASSUME Inv, StopInv, req.stop # None, StopEnds, UNCHANGED <<run, publish>>,
         ~lock \/ req.stop.at = "latch",
         flag'.cancellation # 0, flag'.publicationCancellation # 0
  PROVE  Honoured
<1>1. req \in Requests
  BY DEF Inv, TypeOK
<1>2. /\ req'.clear = req.clear /\ gate' = None
      /\ req.start = None <=> req'.start = None
      /\ req.start # None => /\ req'.start.moved = req.start.moved
                             /\ req'.start.stopped = "met" => req.start.moved
      /\ req.repair = None <=> req'.repair = None
      /\ req.repair # None => /\ req'.repair.moved = req.repair.moved
                              /\ req'.repair.stopped = "met" => req.repair.moved
      /\ stopped'.run = SeenBy(run # None) /\ stopped'.publication = SeenBy(publish # None)
  BY <1>1, StopEndsFacts
<1>3. req.repair # None => ~req.repair.moved
  BY DEF StopInv, RepairHolds, Inv, Threads, Admission
<1>4. StartKnows' /\ RepairHolds'
  BY <1>2, <1>3 DEF StartKnows, RepairHolds
<1>5. ClearMissed'
  BY <1>2 DEF ClearMissed, SeenBy
<1>6. StopIsNotLost' /\ GateUnstopped'
  BY <1>2 DEF StopIsNotLost, GateUnstopped, cancelled
<1> QED
  BY <1>4, <1>5, <1>6 DEF StopInv, Honoured, KeepsLatches

\* Every step of a Stop.
LEMMA StopStepStops == Inv /\ StopInv /\ StopStep => Honoured
<1> SUFFICES ASSUME Inv, StopInv, StopStep PROVE Honoured
  OBVIOUS
<1>1. flag \in Flags /\ req \in Requests
  BY DEF Inv, TypeOK
<1>2. req.stop # None /\ UNCHANGED <<run, publish>>
  BY DEF StopStep, StopLatchesCancellation, StopLatchesPublication, StopTakesGate, StopPersists,
         StopAnswered, StopAt
<1> DEFINE n == req.stop.severity
<1>3. n \in 1 .. 2
  BY <1>1, <1>2 DEF Requests, StopRequest
<1> HIDE DEF n
<1>4. /\ Max2(flag.cancellation, n) \in 1 .. 2
      /\ Max2(flag.publicationCancellation, n) \in 1 .. 2
      /\ Max2(flag.cancellation, 2) # 0 /\ Max2(flag.publicationCancellation, 2) # 0
  BY <1>1, <1>3 DEF Max2, Flags
<1>5. CASE StopLatchesCancellation
  <2>1. flag' = [flag EXCEPT !.cancellation = Max2(flag.cancellation, n)]
    BY <1>5 DEF StopLatchesCancellation, n
  <2>2. flag'.cancellation = Max2(flag.cancellation, n)
        /\ flag'.publicationCancellation = flag.publicationCancellation
    BY <1>1, <2>1, Zenon DEF Flags
  <2> QED
    BY <1>2, <1>4, <1>5, <2>2, StopGoesOn DEF StopLatchesCancellation
<1>6. CASE StopLatchesPublication
  <2>1. flag' = [flag EXCEPT !.publicationCancellation = Max2(flag.publicationCancellation, n)]
    BY <1>6 DEF StopLatchesPublication, n
  <2>2. flag'.publicationCancellation = Max2(flag.publicationCancellation, n)
        /\ flag'.cancellation = flag.cancellation
    BY <1>1, <2>1, Zenon DEF Flags
  <2> QED
    BY <1>2, <1>4, <1>6, <2>2, StopGoesOn DEF StopLatchesPublication
<1>7. CASE StopTakesGate
  BY <1>2, <1>7, StopGoesOn DEF StopTakesGate
<1>8. CASE StopPersists
  <2>0. ~lock /\ req.repair = None
    BY <1>8 DEF StopPersists, Inv, Threads, Admission
  <2>1. CASE StopGoes("latch") /\ UNCHANGED <<flag, gate, stopped>>
    BY <1>2, <2>0, <2>1, StopGoesOn
  <2>2. CASE req' = [req EXCEPT !.stop = None] /\ gate' = None /\ UNCHANGED <<flag, stopped>>
    <3>1. req'.start = req.start /\ req'.repair = req.repair /\ req'.clear = req.clear
      BY <1>1, <2>2, StopDropsFacts
    <3>2. AsksNothing
      BY <2>0, <3>1 DEF StopInv, AsksNothing, StartKnows, RepairHolds
    <3>3. TakesNoLatch
      BY <1>2, <2>2 DEF TakesNoLatch, KeepsLatches
    <3> QED
      BY <3>2, <3>3, StopStays
  <2>3. CASE flag' = LatchedTo(2) /\ StopEnds
    <3>1. flag'.cancellation # 0 /\ flag'.publicationCancellation # 0
      BY <1>1, <1>4, <2>3, LatchedFacts
    <3> QED
      BY <1>2, <2>0, <2>3, <3>1, StopEndsStops
  <2> QED
    BY <1>8, <2>1, <2>2, <2>3 DEF StopPersists
<1>9. CASE StopAnswered
  <2>1. flag' = [LatchedTo(n) EXCEPT !.authorized = FALSE] /\ StopEnds
    BY <1>9 DEF StopAnswered, n
  <2>2. /\ LatchedTo(n) \in Flags /\ LatchedTo(n).cancellation = Max2(flag.cancellation, n)
        /\ LatchedTo(n).publicationCancellation = Max2(flag.publicationCancellation, n)
    BY <1>1, <1>3, LatchedFacts
  <2>3. flag'.cancellation = LatchedTo(n).cancellation
        /\ flag'.publicationCancellation = LatchedTo(n).publicationCancellation
    BY <2>1, <2>2, Zenon DEF Flags
  <2>4. flag'.cancellation # 0 /\ flag'.publicationCancellation # 0
    BY <1>4, <2>2, <2>3
  <2> QED
    BY <1>2, <1>9, <2>1, <2>4, StopEndsStops DEF StopAnswered, StopAt
<1> QED
  BY <1>5, <1>6, <1>7, <1>8, <1>9 DEF StopStep

-----------------------------------------------------------------------------
(* Start and Repair *)

\* Nobody is at work while the database is held.
LEMMA HeldMeetsNobody == Inv /\ lock => run = None /\ publish = None
  BY DEF Inv, Threads, Admission, Claim

\* While Start or Repair holds the database nobody is there whose latch it
\* could take.
LEMMA HeldStays ==
  ASSUME Inv, StopInv, lock, UNCHANGED <<gate, run, publish>>, AsksNothing
  PROVE  Honoured
<1>1. TakesNoLatch
  BY HeldMeetsNobody DEF TakesNoLatch, KeepsLatches, Inv, Threads, GateHeld
<1> QED
  BY <1>1, StopStays

\* A launch: the run has met no Stop.
LEMMA LaunchStops ==
  ASSUME Inv, StopInv, lock, UNCHANGED <<gate, publish>>, stopped'.run # "met", AsksNothing
  PROVE  Honoured
<1>1. run = None /\ publish = None
  BY HeldMeetsNobody
<1>2. gate # "runner"
  BY <1>1 DEF Inv, Threads, GateHeld
<1>3. TakesNoLatch
  BY <1>1, <1>2 DEF TakesNoLatch, KeepsLatches
<1> QED
  BY <1>3, StopStays

\* Every step of a Start.
LEMMA StartStepStops == Inv /\ StopInv /\ StartStep => Honoured
<1> SUFFICES ASSUME Inv, StopInv, StartStep PROVE Honoured
  OBVIOUS
<1>1. /\ flag \in Flags /\ req \in Requests /\ req.start # None /\ req.start \in StartRequest
      /\ stopped \in [run : StopSeen, publication : StopSeen]
  BY DEF Inv, TypeOK, StartStep, StartDeclined, StartServed, StartChecksEpoch,
         StartClearsCancellation, StartClearsPublication, StartConfirms, StartAt, Requests
<1>2. StartSeverity \in 0 .. 2 /\ 1 \in 0 .. 2
  BY <1>1 DEF StartRequest, StartSeverity, Max2
<1>3. CASE StartDeclined
  <2>1. /\ req'.start = None /\ req'.repair = req.repair /\ req'.stop = req.stop
        /\ req'.clear = req.clear
    BY <1>1, <1>3, StartFacts DEF StartDeclined
  <2>2. UNCHANGED <<flag, gate, run, publish, stopped>>
    BY <1>3 DEF StartDeclined
  <2>3. TakesNoLatch
    BY <2>2 DEF TakesNoLatch, KeepsLatches
  <2> QED
    BY <2>1, <2>3, AskedBefore, StopStays
<1>4. CASE StartServed
  <2>1. /\ req'.start.moved = req.start.moved /\ req'.start.stopped = req.start.stopped
        /\ req'.repair = req.repair /\ req'.stop = req.stop /\ req'.clear = req.clear
    BY <1>1, <1>4, StartGoesFacts DEF StartServed
  <2>2. flag'.cancellation = flag.cancellation
        /\ flag'.publicationCancellation = flag.publicationCancellation
    BY <1>1, <1>4, Zenon DEF StartServed, Flags
  <2>3. TakesNoLatch
    BY <1>4, <2>2 DEF TakesNoLatch, KeepsLatches, StartServed
  <2> QED
    BY <1>1, <2>1, <2>3, AskedBefore, StopStays
<1>5. ASSUME req.start.at # "serve" PROVE lock
  BY <1>1, <1>5 DEF Inv, Threads, Admission, Held
<1>6. ASSUME NEW n \in 0 .. 2, StartSuperseded(n), lock PROVE Honoured
  <2>1. /\ req'.start = None /\ req'.repair = req.repair /\ req'.stop = req.stop
        /\ req'.clear = req.clear
    BY <1>1, <1>6, SupersededFacts
  <2>2. AsksNothing
    BY <2>1, AskedBefore
  <2> QED
    BY <1>6, <2>2, HeldStays DEF StartSuperseded
<1>7. ASSUME NEW s \in {"publication", "confirm"}, StartContinues(s), lock PROVE Honoured
  <2>1. /\ req'.start.moved = req.start.moved /\ req'.start.stopped = req.start.stopped
        /\ req'.repair = req.repair /\ req'.stop = req.stop /\ req'.clear = req.clear
    BY <1>1, <1>7, StartGoesFacts DEF StartContinues
  <2>2. AsksNothing
    BY <1>1, <2>1, AskedBefore
  <2> QED
    BY <1>7, <2>2, HeldStays DEF StartContinues
<1>8. CASE StartChecksEpoch
  <2>1. lock
    BY <1>5, <1>8 DEF StartChecksEpoch, StartAt
  <2>2. CASE StartSuperseded(1)
    BY <1>2, <1>6, <2>1, <2>2
  <2>3. CASE ~StartSuperseded(1)
    <3>1. /\ req'.start.moved = req.start.moved /\ req'.start.stopped = req.start.stopped
          /\ req'.repair = req.repair /\ req'.stop = req.stop /\ req'.clear = req.clear
      BY <1>1, <1>8, <2>3, StartNotesFacts DEF StartChecksEpoch
    <3>2. AsksNothing
      BY <1>1, <3>1, AskedBefore
    <3> QED
      BY <1>8, <2>1, <2>3, <3>2, HeldStays DEF StartChecksEpoch
  <2> QED
    BY <2>2, <2>3
<1>9. CASE StartClearsCancellation
  BY <1>2, <1>5, <1>6, <1>7, <1>9 DEF StartClearsCancellation, StartAt
<1>10. CASE StartClearsPublication
  BY <1>2, <1>5, <1>6, <1>7, <1>10 DEF StartClearsPublication, StartAt
<1>11. CASE StartConfirms
  <2>1. lock
    BY <1>5, <1>11 DEF StartConfirms, StartAt
  <2>2. CASE StartSuperseded(StartSeverity)
    BY <1>2, <1>6, <2>1, <2>2
  <2>3. CASE ~req.start.moved /\ StartLaunches
    <3>1. req.start.stopped # "met" /\ req.start.stopped \in StopSeen
      BY <1>1, <2>3 DEF StopInv, StartKnows, StartRequest
    <3>2. stopped'.run = req.start.stopped
      BY <1>1, <2>3, Zenon DEF StartLaunches
    <3>3. /\ req'.start = None /\ req'.repair = req.repair /\ req'.stop = req.stop
          /\ req'.clear = req.clear
      BY <1>1, <2>3, StartFacts DEF StartLaunches
    <3>4. AsksNothing
      BY <3>3, AskedBefore
    <3> QED
      BY <2>1, <2>3, <3>1, <3>2, <3>4, LaunchStops DEF StartLaunches
  <2> QED
    BY <1>11, <2>2, <2>3 DEF StartConfirms
<1> QED
  BY <1>3, <1>4, <1>8, <1>9, <1>10, <1>11 DEF StartStep

\* Every step of a Repair after its reservation.
LEMMA RepairStepStops == Inv /\ StopInv /\ RepairStep => Honoured
<1> SUFFICES ASSUME Inv, StopInv, RepairStep PROVE Honoured
  OBVIOUS
<1>1. /\ req \in Requests /\ req.repair # None
      /\ stopped \in [run : StopSeen, publication : StopSeen]
  BY DEF RepairStep, RepairClearsCancellation, RepairAuthorizes, RepairLaunches, RepairAt, Inv, TypeOK
<1>2. lock
  BY <1>1 DEF Inv, Threads, Admission
<1>3. CASE RepairClearsCancellation \/ RepairAuthorizes
  <2>1. \E s \in {"cancellation", "authorize", "launch"} : req' = [req EXCEPT !.repair.at = s]
    BY <1>3 DEF RepairClearsCancellation, RepairAuthorizes
  <2>2. /\ req'.repair.moved = req.repair.moved /\ req'.repair.stopped = req.repair.stopped
        /\ req'.start = req.start /\ req'.stop = req.stop /\ req'.clear = req.clear
    BY <1>1, <2>1, RepairGoesFacts
  <2>3. AsksNothing
    BY <1>1, <2>2 DEF StopInv, AsksNothing, StartKnows, RepairHolds
  <2> QED
    BY <1>2, <1>3, <2>3, HeldStays DEF RepairClearsCancellation, RepairAuthorizes
<1>4. CASE RepairLaunches
  <2>1. /\ req'.start = req.start /\ req'.repair = None /\ req'.stop = req.stop
        /\ req'.clear = req.clear
    BY <1>1, <1>4, AskFacts DEF RepairLaunches
  <2>2. AsksNothing
    BY <2>1, AskedBefore
  <2>3. req.repair.stopped # "met" /\ req.repair.stopped \in StopSeen
    BY <1>1 DEF StopInv, RepairHolds, Requests, RepairRequest
  <2>4. stopped'.run = req.repair.stopped
    BY <1>1, <1>4, Zenon DEF RepairLaunches
  <2> QED
    BY <1>2, <1>4, <2>2, <2>3, <2>4, LaunchStops DEF RepairLaunches
<1> QED
  BY <1>3, <1>4 DEF RepairStep

-----------------------------------------------------------------------------
(* The other requests *)

\* The first steps of a Clear: nobody is at work when it looks, and no latch is
\* touched before the emergency was taken back.
LEMMA ClearBeginsStops ==
  ASSUME Inv, StopInv, ClearChecks \/ ClearCommits
  PROVE  Honoured
<1>1. \E s \in {None, "commit", "cancellation", "publication"} : req' = [req EXCEPT !.clear = s]
  BY DEF ClearChecks, ClearCommits
<1>2. req'.start = req.start /\ req'.repair = req.repair /\ req'.stop = req.stop
  BY <1>1, ClearGoesFacts DEF Inv, TypeOK
<1>3. StartKnows' /\ RepairHolds'
  BY <1>2 DEF StopInv, StartKnows, RepairHolds
<1>4. UNCHANGED <<flag, gate, run, publish, stopped>>
  BY DEF ClearChecks, ClearCommits
<1>5. StopIsNotLost' /\ GateUnstopped'
  BY <1>4 DEF StopInv, StopIsNotLost, GateUnstopped, cancelled
<1>6. ClearMissed'
  <2>1. CASE ClearChecks
    <3>1. run = None /\ publish = None
      BY <2>1 DEF ClearChecks, Inv, Threads, Admission, Claim
    <3> QED
      BY <1>4, <3>1 DEF ClearMissed
  <2>2. CASE ClearCommits
    BY <1>4, <2>2 DEF ClearCommits, ClearMissed, StopInv, OptionAssumption
  <2> QED
    BY <2>1, <2>2
<1> QED
  BY <1>3, <1>4, <1>5, <1>6 DEF StopInv, Honoured, KeepsLatches

\* Its stores: what they take a latch from has met no Stop but those the Clear
\* raced.
LEMMA ClearStoresStops ==
  ASSUME Inv, StopInv, ClearStoresCancellation \/ ClearStoresPublication
  PROVE  StopInv'
<1>1. \E s \in {None, "commit", "cancellation", "publication"} : req' = [req EXCEPT !.clear = s]
  BY DEF ClearStoresCancellation, ClearStoresPublication
<1>2. req'.start = req.start /\ req'.repair = req.repair /\ req'.stop = req.stop
  BY <1>1, ClearGoesFacts DEF Inv, TypeOK
<1>3. StartKnows' /\ RepairHolds'
  BY <1>2 DEF StopInv, StartKnows, RepairHolds
<1>4. UNCHANGED <<gate, run, publish, stopped>>
  BY DEF ClearStoresCancellation, ClearStoresPublication
<1>5. req.clear # None
  BY DEF ClearStoresCancellation, ClearStoresPublication, OptionAssumption
<1>6. /\ run # None => stopped.run # "met"
      /\ publish # None => stopped.publication # "met"
  BY <1>5 DEF StopInv, ClearMissed
<1>7. ClearMissed' /\ StopIsNotLost' /\ GateUnstopped'
  BY <1>4, <1>6 DEF StopInv, ClearMissed, StopIsNotLost, GateUnstopped
<1> QED
  BY <1>3, <1>7 DEF StopInv

\* Enqueueing touches no latch.
LEMMA EnqueueStops ==
  ASSUME Inv, StopInv, NEW x \in Feature \cup {None}, req' = [req EXCEPT !.enqueue = x],
         UNCHANGED <<flag, gate, run, publish, stopped>>
  PROVE  Honoured
<1>1. /\ req'.start = req.start /\ req'.repair = req.repair /\ req'.stop = req.stop
      /\ req'.clear = req.clear
  BY AskFacts DEF Inv, TypeOK
<1>2. AsksNothing
  BY <1>1, AskedBefore
<1>3. TakesNoLatch
  BY DEF TakesNoLatch, KeepsLatches
<1> QED
  BY <1>2, <1>3, StopStays

\* Starts, settings, removals and reservations touch no latch that is set.
LEMMA AsksStop ==
  ASSUME Inv, StopInv, \/ StartAsked \/ BeginShutdown \/ (\E b \in BOOLEAN : SetAutoRun(b))
                       \/ \E f \in Feature : RemoveFeature(f) \/ RepairReserves(f)
  PROVE  Honoured
<1>1. req \in Requests /\ flag \in Flags
  BY DEF Inv, TypeOK
<1>2. UNCHANGED <<gate, run, publish, stopped>>
  BY DEF StartAsked, BeginShutdown, SetAutoRun, RemoveFeature, RepairReserves
<1>3. /\ flag'.cancellation = flag.cancellation
      /\ flag.publicationCancellation # 0 => flag'.publicationCancellation # 0
  <2>1. CASE BeginShutdown
    <3> DEFINE n == Max2(flag.publicationCancellation, 1)
    <3>1. flag' = [flag EXCEPT !.shutdown = TRUE, !.publicationCancellation = n] /\ n # 0
      BY <1>1, <2>1 DEF BeginShutdown, Max2, Flags
    <3> HIDE DEF n
    <3>2. flag'.cancellation = flag.cancellation /\ flag'.publicationCancellation = n
      BY <1>1, <3>1, Zenon DEF Flags
    <3> QED
      BY <3>1, <3>2
  <2>2. CASE UNCHANGED flag
    BY <2>2
  <2> QED
    BY <2>1, <2>2 DEF StartAsked, SetAutoRun, RemoveFeature, RepairReserves
<1>4. TakesNoLatch
  BY <1>2, <1>3 DEF TakesNoLatch, KeepsLatches
<1>5. AsksNothing
  <2>1. CASE StartAsked
    <3> DEFINE x == [at |-> "serve", moved |-> FALSE, stopped |-> "no", expected |-> 0,
                     expectedPublication |-> 0]
    <3>1. x \in StartRequest /\ x.stopped # "met"
      BY DEF StartRequest, StopSeen
    <3>2. req' = [req EXCEPT !.start = x]
      BY <2>1 DEF StartAsked
    <3> HIDE DEF x
    <3>3. /\ req'.start = x /\ req'.repair = req.repair /\ req'.stop = req.stop
          /\ req'.clear = req.clear
      BY <1>1, <3>1, <3>2, StartFacts
    <3> QED
      BY <3>1, <3>3 DEF StopInv, AsksNothing, StartKnows, RepairHolds
  <2>2. CASE BeginShutdown
    <3>1. req.repair = None /\ req' = EpochMoves(req)
      BY <2>2 DEF BeginShutdown, Inv, Threads, Admission
    <3> QED
      BY <1>1, <3>1, EpochFacts DEF AsksNothing, StartKnows, RepairHolds
  <2>3. CASE UNCHANGED req
    BY <2>3, AskedBefore
  <2>4. ASSUME NEW f \in Feature, RepairReserves(f)
        PROVE  AsksNothing
    <3> DEFINE x == [at |-> "cancellation", moved |-> FALSE, stopped |-> "no"]
    <3>1. x \in RepairRequest /\ x.stopped # "met" /\ ~x.moved
      BY DEF RepairRequest, StopSeen
    <3>2. req' = [req EXCEPT !.repair = x]
      BY <2>4 DEF RepairReserves
    <3> HIDE DEF x
    <3>3. /\ req'.start = req.start /\ req'.repair = x /\ req'.stop = req.stop
          /\ req'.clear = req.clear
      BY <1>1, <3>1, <3>2, AskFacts
    <3> QED
      BY <3>1, <3>3 DEF StopInv, AsksNothing, StartKnows, RepairHolds
  <2> QED
    BY <2>1, <2>2, <2>3, <2>4 DEF SetAutoRun, RemoveFeature
<1> QED
  BY <1>4, <1>5, StopStays

\* The claim of publications is taken when no publication is there, and its
\* cancellation with it.
LEMMA ClaimsStop ==
  ASSUME Inv, StopInv, \/ ClaimRefused \/ ClaimReleased \/ AbandonCommits
                       \/ \E f \in Feature : Reconcile(f) \/ AbandonClaims(f)
  PROVE  Honoured
<1>1. req \in Requests /\ flag \in Flags /\ stopped \in [run : StopSeen, publication : StopSeen]
      /\ TRUE \in BOOLEAN /\ FALSE \in BOOLEAN /\ 0 \in 0 .. 2
  BY DEF Inv, TypeOK
<1>2. publish = None
  <2>1. CASE req.owner # None
    BY <2>1 DEF Inv, Threads, Claim
  <2>2. CASE ~flag.publicationRunning
    BY <2>2 DEF Inv, Threads, Claim
  <2> QED
    BY <2>1, <2>2 DEF ClaimRefused, ClaimReleased, AbandonCommits, Reconcile, AbandonClaims, OwnerMayResolve
<1>3. UNCHANGED <<gate, run>>
  BY DEF ClaimRefused, ClaimReleased, AbandonCommits, Reconcile, AbandonClaims
<1>4. flag'.cancellation = flag.cancellation
  BY <1>1, Zenon DEF ClaimRefused, ClaimReleased, AbandonCommits, Reconcile, AbandonClaims, Flags
<1>5. stopped'.run = stopped.run /\ (publish' = None \/ stopped'.publication # "met")
  <2>1. CASE UNCHANGED <<publish, stopped>>
    BY <1>2, <2>1
  <2>2. CASE stopped' = [stopped EXCEPT !.publication = "no"]
    <3>1. stopped'.run = stopped.run /\ stopped'.publication = "no"
      BY <1>1, <2>2, Zenon
    <3> QED
      BY <3>1
  <2> QED
    BY <2>1, <2>2 DEF ClaimRefused, ClaimReleased, AbandonCommits, Reconcile, AbandonClaims
<1>6. TakesNoLatch
  BY <1>2, <1>3, <1>4, <1>5 DEF TakesNoLatch, KeepsLatches
<1>7. AsksNothing
  <2>1. req' = req \/ \E x \in {None, "rejected"} \cup Feature : req' = [req EXCEPT !.owner = x]
    BY DEF ClaimRefused, ClaimReleased, AbandonCommits, Reconcile, AbandonClaims
  <2>2. /\ req'.start = req.start /\ req'.repair = req.repair /\ req'.stop = req.stop
        /\ req'.clear = req.clear
    BY <1>1, <2>1, AskFacts
  <2> QED
    BY <2>2, AskedBefore
<1> QED
  BY <1>6, <1>7, StopStays

\* A process that comes up finds nothing stopped.
LEMMA RestartStops ==
  ASSUME Restart
  PROVE  Honoured
<1>1. req' = NoRequest /\ run' = None /\ publish' = None /\ gate' = None
  BY DEF Restart
<1>2. StopInv'
  BY <1>1, Idle DEF StopInv, StartKnows, RepairHolds, ClearMissed, StopIsNotLost, GateUnstopped
<1> QED
  BY <1>1, <1>2 DEF Honoured, KeepsLatches

-----------------------------------------------------------------------------
(* Every step *)

\* Every step but the stores of a Clear honours an answered Stop.
LEMMA NextHonours ==
  Inv /\ StopInv /\ [Next]_vars => ClearStoresCancellation \/ ClearStoresPublication \/ Honoured
<1> SUFFICES ASSUME Inv, StopInv, [Next]_vars, ~ClearStoresCancellation, ~ClearStoresPublication
             PROVE  Honoured
  OBVIOUS
<1>1. CASE RunnerStep \/ PublishStep
  BY <1>1, RunnerStops, PublishStops
<1>2. ASSUME EnqueueCommits \/ \E f \in Feature : EnqueueChecks(f)
      PROVE  Honoured
  <2>1. \E x \in Feature \cup {None} : req' = [req EXCEPT !.enqueue = x]
    BY <1>2 DEF EnqueueCommits, EnqueueChecks
  <2>2. UNCHANGED <<flag, gate, run, publish, stopped>>
    BY <1>2 DEF EnqueueCommits, EnqueueChecks
  <2> QED
    BY <2>1, <2>2, EnqueueStops
<1>3. CASE RequestStep
  BY <1>2, <1>3, StopStepStops, StartStepStops, RepairStepStops, ClearBeginsStops, ClaimsStop
     DEF RequestStep, OtherStep, ClearStep
<1>4. CASE OwnerAsks
  <2>1. CASE StopBegins(1) \/ StopBegins(2) \/ ClearChecks \/ ClaimRefused
    BY <2>1, StopBeginsStops, ClearBeginsStops, ClaimsStop
  <2>2. CASE StartAsked \/ BeginShutdown \/ \E b \in BOOLEAN : SetAutoRun(b)
    BY <2>2, AsksStop
  <2>3. ASSUME NEW f \in Feature,
               EnqueueChecks(f) \/ RemoveFeature(f) \/ RepairReserves(f) \/ Reconcile(f) \/ AbandonClaims(f)
        PROVE  Honoured
    BY <1>2, <2>3, AsksStop, ClaimsStop
  <2> QED
    BY <1>4, <2>1, <2>2, <2>3 DEF OwnerAsks
<1>5. CASE Restart
  BY <1>5, RestartStops
<1>6. CASE (\E p \in Path : OutsideEdit(p)) \/ UNCHANGED vars
  <2>1. UNCHANGED <<flag, gate, run, publish, req, stopped>>
    BY <1>6 DEF OutsideEdit, vars
  <2> QED
    BY <2>1 DEF Honoured, KeepsLatches, StopInv, StartKnows, RepairHolds, ClearMissed, StopIsNotLost,
                GateUnstopped, cancelled
<1> QED
  BY <1>1, <1>3, <1>4, <1>5, <1>6 DEF Next

\* Every step keeps the invariant.
LEMMA NextStops == Inv /\ StopInv /\ [Next]_vars => StopInv'
  BY NextHonours, ClearStoresStops DEF Honoured

\* A fresh runner was asked for nothing.
LEMMA InitStops == Init => StopInv
  BY Idle DEF Init, StopInv, StartKnows, RepairHolds, ClearMissed, StopIsNotLost, GateUnstopped

\* Both invariants hold.
LEMMA StopInvHolds == Spec => [](Inv /\ StopInv)
  BY InitInv, InitStops, NextKeeps, NextStops, PTL DEF Spec

-----------------------------------------------------------------------------
(* The properties *)

\* A Stop or Emergency Pause that was answered is not lost: the latch of the
\* run and of the publication it met stays set, although Start, Repair, Clear
\* and new publications clear the latches without taking the effect gate
\* (clear_cancellation_for_start, second latch of the stop handler, Repair's
\* hold on the database mutex).  Met are all Stops but those asked for before
\* the Start or Repair that launched the run and those a Clear races.
THEOREM StopKept == Spec => []StopIsNotLost
<1>1. Inv /\ StopInv => StopIsNotLost
  BY DEF StopInv
<1> QED
  BY <1>1, StopInvHolds, PTL

\* The stores of a Clear that comes late are the only steps that take a latch
\* away from a run or a publication that is active: no Start, Repair,
\* reconciliation, abandonment, shutdown or new publication does
\* (clear_emergency; compare ClearLeavesWorkStopped).
THEOREM OnlyClearUnlatches ==
  Spec => [][ /\ run # None /\ run' # None /\ cancelled
                   => flag'.cancellation # 0 \/ ClearStoresCancellation
              /\ publish # None /\ publish' # None /\ flag.publicationCancellation # 0
                   => flag'.publicationCancellation # 0 \/ ClearStoresPublication ]_vars
<1>1. ASSUME Inv, StopInv, [Next]_vars
      PROVE  [/\ run # None /\ run' # None /\ cancelled
                   => flag'.cancellation # 0 \/ ClearStoresCancellation
              /\ publish # None /\ publish' # None /\ flag.publicationCancellation # 0
                   => flag'.publicationCancellation # 0 \/ ClearStoresPublication]_vars
  <2>1. flag \in Flags
    BY <1>1 DEF Inv, TypeOK
  <2>2. CASE Honoured
    BY <2>2 DEF Honoured, KeepsLatches, cancelled
  <2>3. CASE ClearStoresCancellation
    <3>1. flag'.publicationCancellation = flag.publicationCancellation
      BY <2>1, <2>3, Zenon DEF ClearStoresCancellation, Flags
    <3> QED
      BY <2>3, <3>1
  <2>4. CASE ClearStoresPublication
    <3>1. flag'.cancellation = flag.cancellation
      BY <2>1, <2>4, Zenon DEF ClearStoresPublication, Flags
    <3> QED
      BY <2>4, <3>1 DEF cancelled
  <2> QED
    BY <1>1, <2>2, <2>3, <2>4, NextHonours
<1> QED
  BY <1>1, StopInvHolds, PTL DEF Spec

\* After such a Stop was answered, the run it met writes no project file and
\* creates no validation process (effect_gate in the application loop and in
\* validate_command_inner), and the publication it met begins no further
\* command (check_cancelled in command_with_extra_env).
THEOREM EffectsHonourStop == Spec => NoEffectAfterStop
<1>1. ASSUME Inv, StopInv, run # None, run.at \in {"write", "spawn"} PROVE stopped.run # "met"
  BY <1>1 DEF Inv, Threads, GateHeld, StopInv, GateUnstopped
<1>2. ASSUME Inv, StopInv, Next, PublishBegins PROVE stopped.publication # "met"
  <2>1. publish # None /\ publish.at = "check" /\ publish' # None /\ publish'.at = "command"
    BY <1>2 DEF PublishBegins, PublishAt
  <2>2. PublishChecks
    <3>1. publish' # publish
      BY <2>1
    <3>2. ~RunnerStep
      <4>1. ~(ExecutePublication \/ ReverifyPublication)
        <5>1. publish'.at \in {"command"}
          BY <2>1
        <5> QED
          BY <3>1, <5>1, TaskFacts DEF ExecutePublication, ReverifyPublication
      <4> QED
        BY <3>1, <4>1
           DEF RunnerStep, Select, Route, Begin, Refresh, ModelReads, ModelFails, ModelAnswers,
               Preflight, ApplyChecks, ApplyEdit, Applied, ValidationChecks, ValidationSpawns,
               ValidationEnds, ValidationUnconfirmed, ReviewBegins, ReviewUnavailable,
               ReviewInterrupted, ReviewDecides, AfterRun, Failing, CompletionStopped,
               CompletionRejected, CompletionProceeds, CompletionFailed, NextFeature, Finish
    <3>3. ~RequestStep
      BY <3>1 DEF RequestStep, StopStep, StopLatchesCancellation, StopLatchesPublication, StopTakesGate,
                  StopPersists, StopAnswered, StartStep, StartDeclined, StartServed, StartChecksEpoch,
                  StartClearsCancellation, StartClearsPublication, StartConfirms, StartSuperseded,
                  StartContinues, StartLaunches, RepairStep, RepairClearsCancellation,
                  RepairAuthorizes, RepairLaunches, ClearStep, ClearCommits,
                  ClearStoresCancellation, ClearStoresPublication, OtherStep, EnqueueCommits,
                  AbandonCommits, ClaimReleased
    <3>4. ~OwnerAsks
      <4>1. ASSUME NEW f \in Feature, Reconcile(f) PROVE FALSE
        BY <2>1, <4>1, TaskFacts DEF Reconcile
      <4> QED
        BY <3>1, <4>1 DEF OwnerAsks, StartAsked, StopBegins, ClearChecks, SetAutoRun, BeginShutdown,
                          ClaimRefused, EnqueueChecks, RemoveFeature, RepairReserves, AbandonClaims
    <3>5. ~(PublishLands \/ PublishIntends)
      <4>1. ~PublishLands
        BY <2>1 DEF PublishLands, PublishAt
      <4>2. ~PublishIntends
        BY <2>1 DEF PublishIntends, PublishAt
      <4> QED
        BY <4>1, <4>2
    <3>6. ~(PublishVerified \/ PublishFails \/ Reverifies \/ PublishFinishes \/ Restart
            \/ \E p \in Path : OutsideEdit(p))
      BY <2>1, <3>1 DEF PublishVerified, PublishFails, Reverifies, PublishFinishes, PublishEnds,
                        PublishAt, Restart, OutsideEdit
    <3> QED
      BY <1>2, <3>2, <3>3, <3>4, <3>5, <3>6 DEF Next, PublishStep
  <2> QED
    BY <1>2, <2>1, <2>2 DEF PublishChecks, StopInv, StopIsNotLost
<1>3. ASSUME Inv, StopInv, [Next]_vars
      PROVE  [/\ RunAt("write") /\ used'.outside = used.outside /\ disk' # disk => stopped.run # "met"
              /\ RunAt("spawn") /\ run' # None /\ run'.at = "validating" => stopped.run # "met"
              /\ PublishBegins => stopped.publication # "met"]_vars
  BY <1>1, <1>2, <1>3 DEF RunAt
<1> QED
  BY <1>3, StopInvHolds, PTL DEF Spec, NoEffectAfterStop
=============================================================================
