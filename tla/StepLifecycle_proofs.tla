------------------------ MODULE StepLifecycle_proofs ------------------------
(***************************************************************************)
(* What the step kernel's journal, sequence numbers and limits promise,    *)
(* and that the kernel implements StepLifecycle, for every value of the    *)
(* constants.                                                              *)
(*                                                                         *)
(* Twenty-two operations touch the tables, but seen from the attempts,     *)
(* steps and connections a transaction does one of seven things.  Effects  *)
(* states this once; every result below is a proof by cases over it.       *)
(***************************************************************************)
EXTENDS StepKernel_proofs, FiniteSetTheorems

USE ConstantsAssumption DEF CodingCap, RemoteCaps

\* No attempt, step or connection changes.  The pause may end.
Quiet ==
  /\ UNCHANGED <<attStatus, job, cancel, conn, stepStatus, stepEvent, deviceEvent, target>>
  /\ paused' \in {paused, FALSE}

\* A device that was not connected gets a new connection.
Connects(d) ==
  /\ ~conn[d].active
  /\ conn' = [conn EXCEPT ![d] = [epoch |-> lastEpoch + 1, active |-> TRUE, seq |-> 0]]
  /\ deviceEvent' = [deviceEvent EXCEPT ![d] = "DeviceConnected"]
  /\ UNCHANGED <<attStatus, job, cancel, stepStatus, stepEvent, target, paused>>

\* The connections of D close with the pending attempts P and leased ones L.
Loses(P, L, D) ==
  /\ P \subseteq Pending /\ L \subseteq Leased
  /\ Teardown(P, L, D)
  /\ \A a \in Live \ (P \cup L) : cancel'[a] = cancel[a]
  /\ UNCHANGED <<job, target, paused>>

\* A step is queued.
Inserts(s) ==
  /\ InsertStep(s)
  /\ \A t \in Steps \ {s} : target'[t] = target[t]
  /\ UNCHANGED <<attStatus, job, cancel, conn, deviceEvent, paused>>

\* Queued steps Q are cancelled and leased attempts A are asked to cancel.
Asks(Q, A) ==
  /\ A \subseteq Leased
  /\ Q \subseteq Steps /\ \A s \in Q : stepStatus[s] = "queued"
  /\ RequestCancellations(A)
  /\ CancellationEvents(Q, A)
  /\ stepStatus' = [s \in Steps |-> IF s \in Q THEN "cancelled" ELSE stepStatus[s]]
  /\ paused' \in {paused, TRUE}
  /\ UNCHANGED <<job, target, deviceEvent>>

\* The expired leases X end and device d gets step s as attempt a.
Leases(d, a, s, X) ==
  /\ ~paused /\ conn[d].active
  /\ X \subseteq Leased
  /\ a \notin Live
  /\ stepStatus[s] = "queued" \/ s \in Requeued(X)
  /\ StepCap[s] = CodingCap => target[s] = d
  /\ \A b \in Live \ X : job[b].device # d
  /\ Cardinality(Live \ X) < MaxJobs
  /\ job' = [job EXCEPT ![a] =
       [step |-> s, device |-> d, epoch |-> conn[d].epoch,
        seq |-> conn[d].seq + 1, expires |-> now + LeaseDuration]]
  /\ attStatus' = [b \in Attempts |->
       IF b = a THEN "leased" ELSE IF b \in X THEN "expired" ELSE attStatus[b]]
  /\ stepStatus' = [t \in Steps |->
       IF t = s THEN "leased" ELSE IF t \in Requeued(X) THEN "queued" ELSE stepStatus[t]]
  /\ stepEvent' = [t \in Steps |->
       IF t = s THEN [kind |-> "StepLeased", device |-> d, epoch |-> conn[d].epoch]
       ELSE IF t \in Requeued(X) THEN Unowned("StepQueued") ELSE stepEvent[t]]
  /\ conn' = [conn EXCEPT ![d].seq = @ + 1]
  /\ UNCHANGED <<deviceEvent, cancel, target, paused>>

\* One live attempt ends: by its own result, by expiry, by acknowledgement.
\* q is what its step becomes and e the journal entry.
EndsAs(a, p, q, e) ==
  \/ /\ a \in Leased /\ ~paused
     /\ p \in OutcomeStatus /\ q = p /\ e = OutcomeEvent(a, p)
     /\ StepCap[job[a].step] = CodingCap => job[a].step \in bound /\ artifact[a] # 0
  \/ a \in Leased /\ p = "expired" /\ q = "queued" /\ e = Unowned("StepQueued")
  \/ a \in Pending /\ p = "cancelled" /\ q = "cancelled" /\ e = Unowned("StepCancelled")

Ends(a, p, q, e) ==
  /\ EndsAs(a, p, q, e)
  /\ attStatus' = [attStatus EXCEPT ![a] = p]
  /\ stepStatus' = [stepStatus EXCEPT ![job[a].step] = q]
  /\ stepEvent' = [stepEvent EXCEPT ![job[a].step] = e]
  /\ \A d \in Devices : /\ conn'[d].active = conn[d].active
                        /\ d # job[a].device => conn'[d] = conn[d]
  /\ UNCHANGED <<job, cancel, deviceEvent, target, paused>>

StepEffect ==
  \/ Quiet
  \/ \E d \in Devices : Connects(d)
  \/ \E P, L \in SUBSET Live, D \in SUBSET Devices : Loses(P, L, D)
  \/ \E s \in Steps : Inserts(s)
  \/ \E Q \in SUBSET Steps, A \in SUBSET Live : Asks(Q, A)
  \/ \E d \in Devices, a \in Attempts, s \in Steps, X \in SUBSET Live : Leases(d, a, s, X)
  \/ \E a \in Live, p \in AttemptStatuses, q \in StepStatuses, e \in StepEvents :
       Ends(a, p, q, e)

-----------------------------------------------------------------------------
(* Every transaction is one of the seven *)

\* A disconnect loses the attempts of the devices.
LEMMA DisconnectEffect ==
  ASSUME IInv, NEW D \in SUBSET Devices, DisconnectDevices(D),
         UNCHANGED <<job, cancel, target, paused>>
  PROVE  StepEffect
<1> DEFINE P == HeldBy(D, Pending)
           L == HeldBy(D, Leased)
<1>1. P \subseteq Pending /\ L \subseteq Leased /\ P \in SUBSET Live /\ L \in SUBSET Live
  BY DEF HeldBy, Pending, Leased, Live, LiveStatus
<1>2. Teardown(P, L, D)
  BY DEF DisconnectDevices
<1> HIDE DEF P, L
<1>3. Loses(P, L, D)
  BY <1>1, <1>2 DEF Loses
<1> QED
  BY <1>1, <1>3 DEF StepEffect

\* The deadline reconciliation loses the overdue attempts.
LEMMA ReconcileEffect ==
  ASSUME IInv, ReconcileCancellationDeadlines(OverdueCancellations),
         UNCHANGED <<job, cancel, target, paused>>
  PROVE  StepEffect
<1>1. OverdueCancellations \in SUBSET Live
  BY DEF OverdueCancellations, Pending, Live, LiveStatus
<1>2. DevicesOf(OverdueCancellations) \in SUBSET Devices
  BY <1>1, LiveFacts DEF DevicesOf
<1> QED
  BY <1>2, DisconnectEffect DEF ReconcileCancellationDeadlines

\* A lease, with the expiry of older ones in its transaction, has one effect.
LEMMA LeaseEffect ==
  ASSUME IInv, NEW d \in Devices, NEW a \in Attempts, LeaseNextStep(d, a)
  PROVE  StepEffect
<1> DEFINE X == ExpiredLeases
           queue == {s \in Steps : stepStatus[s] = "queued"} \cup Requeued(X)
           leased(s) ==
             /\ job' = [job EXCEPT ![a] =
                  [step |-> s, device |-> d, epoch |-> conn[d].epoch,
                   seq |-> conn[d].seq + 1, expires |-> now + LeaseDuration]]
             /\ attStatus' = [b \in Attempts |->
                  IF b = a THEN "leased" ELSE IF b \in X THEN "expired" ELSE attStatus[b]]
             /\ stepStatus' = [t \in Steps |->
                  IF t = s THEN "leased" ELSE IF t \in Requeued(X) THEN "queued" ELSE stepStatus[t]]
             /\ stepEvent' = [t \in Steps |->
                  IF t = s THEN [kind |-> "StepLeased", device |-> d, epoch |-> conn[d].epoch]
                  ELSE IF t \in Requeued(X) THEN Unowned("StepQueued") ELSE stepEvent[t]]
             /\ conn' = [conn EXCEPT ![d].seq = @ + 1]
<1>1. X \in SUBSET Leased /\ X \in SUBSET Live
  BY DEF ExpiredLeases, Leased, Live, LiveStatus
<1>2. Requeued(X) \in SUBSET Steps
  BY <1>1, LiveFacts DEF Requeued, StepsOf
<1>3. /\ ~paused /\ conn[d].active /\ DeviceLeases(d) \subseteq X /\ attStatus[a] = "none"
      /\ Cardinality(Live \ X) < MaxJobs
      /\ UNCHANGED <<deviceEvent, cancel, target, paused>>
  BY DEF LeaseNextStep, GlobalLeases
<1>4. \E s \in {t \in queue : Eligible(d, t)} : leased(s)
  BY Zenon DEF LeaseNextStep
<1>5. PICK s \in Steps : /\ stepStatus[s] = "queued" \/ s \in Requeued(X)
                         /\ Eligible(d, s) /\ leased(s)
  <2> HIDE DEF leased
  <2> QED
    BY <1>2, <1>4
<1>6. StepCap[s] = CodingCap => target[s] = d
  BY <1>5 DEF Eligible
<1>7. \A b \in Live \ X : job[b].device # d
  <2> SUFFICES ASSUME NEW b \in Live \ X, job[b].device = d PROVE FALSE
    OBVIOUS
  <2>1. b \in DeviceLeases(d)
    BY LiveFacts DEF DeviceLeases, HeldBy, OnItsConnection
  <2> QED
    BY <2>1, <1>3
<1>8. a \notin Live
  BY <1>3 DEF Live, LiveStatus
<1> HIDE DEF X
<1>9. Leases(d, a, s, X)
  BY <1>1, <1>3, <1>5, <1>6, <1>7, <1>8, Zenon DEF Leases
<1> QED
  BY <1>1, <1>9 DEF StepEffect

\* Counting a message changes one row of the connections.
LEMMA ConnKept ==
  ASSUME IInv, NEW d \in Devices, NEW n \in Nat, conn' = [conn EXCEPT ![d].seq = n]
  PROVE  \A x \in Devices : /\ conn'[x].active = conn[x].active
                            /\ x # d => conn'[x] = conn[x]
  BY SequenceTypes DEF IInv, TypeOK

\* An accepted result ends its attempt.
LEMMA ResultEffect ==
  ASSUME IInv, NEW a \in Attempts, NEW seq \in 1..MaxSeq, NEW outcome \in OutcomeStatus,
         AcceptResult(a, seq, outcome)
  PROVE  StepEffect
<1>1. a \in Live /\ a \in Leased /\ ~paused /\ seq \in Nat /\ seq # 0
  BY DEF AcceptResult, ResultMatchesJob, Leased, Live, LiveStatus
<1>2. job[a] \in Jobs /\ job[a].device \in Devices
  BY <1>1, LiveFacts
<1>3. outcome \in AttemptStatuses /\ outcome \in StepStatuses
  BY DEF AttemptStatuses, StepStatuses
<1>4. OutcomeEvent(a, outcome) \in StepEvents
  BY <1>2 DEF OutcomeEvent, OutcomeStatus, OwnedBy, Unowned, StepEvents, StepEventKinds, Jobs
<1>5. StepCap[job[a].step] = CodingCap => job[a].step \in bound /\ artifact[a] # 0
  BY <1>1 DEF AcceptResult, ResultMatchesJob
<1>6. EndsAs(a, outcome, outcome, OutcomeEvent(a, outcome))
  BY <1>1, <1>5 DEF EndsAs
<1>7. \A d \in Devices : /\ conn'[d].active = conn[d].active
                         /\ d # job[a].device => conn'[d] = conn[d]
  BY <1>1, <1>2, ConnKept DEF AcceptResult
<1>8. Ends(a, outcome, outcome, OutcomeEvent(a, outcome))
  BY <1>6, <1>7 DEF Ends, AcceptResult
<1> QED
  BY <1>1, <1>3, <1>4, <1>8 DEF StepEffect

\* A result that is refused as expired loses its attempt.
LEMMA ExpiryEffect ==
  ASSUME IInv, NEW a \in Attempts, NEW seq, NEW outcome,
         RefuseExpiredResult(a, seq, outcome)
  PROVE  StepEffect
<1> DEFINE e == Unowned("StepQueued")
<1>1. a \in Live /\ a \in Leased
  BY DEF RefuseExpiredResult, ResultMatchesJob, Leased, Live, LiveStatus
<1>2. "expired" \in AttemptStatuses /\ "queued" \in StepStatuses /\ e \in StepEvents
  BY DEF AttemptStatuses, StepStatuses, Unowned, StepEvents, StepEventKinds
<1> HIDE DEF e
<1>3. job[a].step \in Steps /\ Requeued({a}) = {job[a].step}
  BY <1>1, LiveFacts, RequeueOne
<1>4. /\ attStatus' = [attStatus EXCEPT ![a] = "expired"]
      /\ stepStatus' = [s \in Steps |-> IF s \in Requeued({a}) THEN "queued" ELSE stepStatus[s]]
      /\ stepEvent' = [s \in Steps |-> IF s \in Requeued({a}) THEN e ELSE stepEvent[s]]
      /\ UNCHANGED <<job, cancel, conn, deviceEvent, target, paused>>
  BY DEF RefuseExpiredResult, deviceVars, e
<1>5. /\ stepStatus' = [stepStatus EXCEPT ![job[a].step] = "queued"]
      /\ stepEvent' = [stepEvent EXCEPT ![job[a].step] = e]
  BY <1>3, <1>4 DEF IInv, TypeOK
<1>6. EndsAs(a, "expired", "queued", e)
  BY <1>1 DEF EndsAs, e
<1>7. Ends(a, "expired", "queued", e)
  BY <1>4, <1>5, <1>6 DEF Ends
<1> QED
  BY <1>1, <1>2, <1>7 DEF StepEffect

\* An acknowledged cancellation ends its attempt.
LEMMA AckEffect ==
  ASSUME IInv, NEW a \in Attempts, NEW seq \in 1..MaxSeq, AcceptCancellationAck(a, seq)
  PROVE  StepEffect
<1> DEFINE e == Unowned("StepCancelled")
<1>1. a \in Live /\ a \in Pending /\ seq \in Nat
  BY DEF AcceptCancellationAck, Pending, Live, LiveStatus
<1>2. "cancelled" \in AttemptStatuses /\ "cancelled" \in StepStatuses /\ e \in StepEvents
  BY DEF AttemptStatuses, StepStatuses, OutcomeStatus, Unowned, StepEvents, StepEventKinds
<1> HIDE DEF e
<1>3. /\ job[a].step \in Steps /\ job[a].device \in Devices
      /\ Requeued({a}) = {job[a].step}
  BY <1>1, LiveFacts, RequeueOne
<1>4. /\ attStatus' = [attStatus EXCEPT ![a] = "cancelled"]
      /\ stepStatus' = [s \in Steps |-> IF s \in Requeued({a}) THEN "cancelled" ELSE stepStatus[s]]
      /\ stepEvent' = [stepEvent EXCEPT ![job[a].step] = e]
      /\ conn' = [conn EXCEPT ![job[a].device].seq = seq]
      /\ UNCHANGED <<job, cancel, deviceEvent, target, paused>>
  BY DEF AcceptCancellationAck, e
<1>5. stepStatus' = [stepStatus EXCEPT ![job[a].step] = "cancelled"]
  BY <1>3, <1>4 DEF IInv, TypeOK
<1>6. EndsAs(a, "cancelled", "cancelled", e)
  BY <1>1 DEF EndsAs, e
<1>7. \A d \in Devices : /\ conn'[d].active = conn[d].active
                         /\ d # job[a].device => conn'[d] = conn[d]
  BY <1>1, <1>3, <1>4, ConnKept
<1>8. Ends(a, "cancelled", "cancelled", e)
  BY <1>4, <1>5, <1>6, <1>7 DEF Ends
<1> QED
  BY <1>1, <1>2, <1>8 DEF StepEffect

\* Asking nobody changes no attempt and no connection.
LEMMA AskNobody ==
  ASSUME IInv, UNCHANGED <<attStatus, cancel, conn>>
  PROVE  RequestCancellations({})
<1>1. CancelAfterRequest({}) = cancel
  BY DEF CancelAfterRequest, IInv, TypeOK
<1>2. ConnAfterRequest({}) = conn
  BY DEF ConnAfterRequest, DevicesOf, IInv, TypeOK
<1> QED
  BY <1>1, <1>2 DEF RequestCancellations, IInv, TypeOK

\* Cancelling a step cancels it at once or asks its worker to stop.
LEMMA CancelStepEffect ==
  ASSUME IInv, NEW s \in Steps, CancelStep(s)
  PROVE  StepEffect
<1>0. UNCHANGED <<job, target, deviceEvent, paused>>
  BY DEF CancelStep
<1>1. CASE /\ CancelsAtOnce(s)
           /\ stepStatus' = [stepStatus EXCEPT ![s] = "cancelled"]
           /\ stepEvent' = [stepEvent EXCEPT ![s] = Unowned("StepCancelled")]
           /\ UNCHANGED <<attStatus, cancel, conn>>
  <2>1. RequestCancellations({})
    BY <1>1, AskNobody
  <2>2. stepStatus' = [t \in Steps |-> IF t \in {s} THEN "cancelled" ELSE stepStatus[t]]
    BY <1>1 DEF IInv, TypeOK
  <2>3. CancellationEvents({s}, {})
    BY <1>1 DEF CancellationEvents, StepsOf, IInv, TypeOK
  <2>4. Asks({s}, {})
    BY <1>0, <1>1, <2>1, <2>2, <2>3 DEF Asks, CancelsAtOnce
  <2> QED
    BY <2>4 DEF StepEffect
<1>2. CASE \E a \in Leased : /\ RequestCancellations({a})
                              /\ CancellationEvents({}, {a})
                              /\ UNCHANGED stepStatus
  <2>1. PICK a \in Leased : /\ RequestCancellations({a})
                             /\ CancellationEvents({}, {a})
                             /\ UNCHANGED stepStatus
    BY <1>2
  <2>2. stepStatus' = [t \in Steps |-> IF t \in {} THEN "cancelled" ELSE stepStatus[t]]
    BY <2>1 DEF IInv, TypeOK
  <2>3. Asks({}, {a}) /\ {a} \in SUBSET Live
    BY <1>0, <2>1, <2>2 DEF Asks, Leased, Live, LiveStatus
  <2> QED
    BY <2>3 DEF StepEffect
<1> QED
  BY <1>1, <1>2 DEF CancelStep

\* Cancelling a feature does so for all its open steps.
LEMMA CancelFeatureEffect ==
  ASSUME IInv, NEW S \in SUBSET Steps, CancelFeatureCoding(S)
  PROVE  StepEffect
<1> DEFINE A == {a \in Leased : job[a].step \in S}
           Q == {s \in S : stepStatus[s] = "queued"}
<1>1. /\ A \subseteq Leased /\ A \in SUBSET Live
      /\ Q \in SUBSET Steps /\ \A s \in Q : stepStatus[s] = "queued"
  BY DEF Leased, Live, LiveStatus
<1>2. /\ RequestCancellations(A) /\ CancellationEvents(Q, A)
      /\ stepStatus' = [s \in Steps |-> IF s \in Q THEN "cancelled" ELSE stepStatus[s]]
      /\ UNCHANGED <<target, deviceEvent, job, paused>>
  BY DEF CancelFeatureCoding
<1> HIDE DEF A, Q
<1>3. Asks(Q, A)
  BY <1>1, <1>2 DEF Asks
<1> QED
  BY <1>1, <1>3 DEF StepEffect

\* Emergency Pause does so for the work it stops.
LEMMA PauseEffect ==
  ASSUME IInv, ActivateEmergencyPause
  PROVE  StepEffect
<1> DEFINE Q == {s \in Steps : StepCap[s] = CodingCap /\ stepStatus[s] = "queued"}
<1>1. /\ PauseTargets \in SUBSET Leased
      /\ RequestCancellations(PauseTargets)
      /\ CancellationEvents(Q, PauseTargets)
      /\ stepStatus' = [s \in Steps |-> IF s \in Q THEN "cancelled" ELSE stepStatus[s]]
      /\ paused' = TRUE
      /\ UNCHANGED <<deviceEvent, target, job>>
  BY PauseFacts
<1>2. /\ Q \in SUBSET Steps /\ \A s \in Q : stepStatus[s] = "queued"
      /\ PauseTargets \in SUBSET Live
  BY <1>1 DEF Leased, Live, LiveStatus
<1> HIDE DEF Q
<1>3. Asks(Q, PauseTargets)
  BY <1>1, <1>2 DEF Asks
<1> QED
  BY <1>2, <1>3 DEF StepEffect

\* A restart loses every live attempt.
LEMMA RestartEffect ==
  ASSUME IInv, Restart
  PROVE  StepEffect
<1> DEFINE D == {d \in Devices : conn[d].active}
<1>1. /\ Teardown(Pending, Leased, D) /\ D \in SUBSET Devices
      /\ UNCHANGED <<job, target, paused>>
  BY Zenon DEF Restart
<1> HIDE DEF D
<1>2. Pending \in SUBSET Live /\ Leased \in SUBSET Live /\ Live = Pending \cup Leased
  BY DEF Pending, Leased, Live, LiveStatus
<1>3. Loses(Pending, Leased, D)
  BY <1>1, <1>2 DEF Loses
<1> QED
  BY <1>1, <1>2, <1>3 DEF StepEffect

\* A transaction of the kernel has one of the seven effects.
LEMMA Effects ==
  ASSUME IInv, [Next]_vars
  PROVE  StepEffect
<1>1. CASE Quiet
  BY <1>1 DEF StepEffect
<1>2. CASE UNCHANGED vars
  BY <1>1, <1>2 DEF Quiet, vars, deviceVars, stepVars, attemptVars
<1>3. ASSUME NEW d \in Devices, DeviceAction(d) PROVE StepEffect
  <2>1. CASE RegisterDevice(d)
    BY <1>1, <2>1 DEF Quiet, RegisterDevice, stepVars, attemptVars
  <2>2. CASE RevokeDevice(d)
    <3>1. {x \in {d} : conn[x].active} \in SUBSET Devices
      OBVIOUS
    <3> QED
      BY <2>2, <3>1, DisconnectEffect DEF RevokeDevice
  <2>3. CASE AcceptHandshake(d)
    <3>1. Connects(d)
      BY <2>3 DEF Connects, AcceptHandshake, stepVars, attemptVars
    <3> QED
      BY <3>1 DEF StepEffect
  <2>4. CASE \E epoch \in 1..lastEpoch : DisconnectDevice(d, epoch)
    BY <2>4, DisconnectEffect DEF DisconnectDevice
  <2>5. CASE NextCancellation(d)
    BY <2>5, ReconcileEffect DEF NextCancellation
  <2> QED
    BY <1>3, <2>1, <2>2, <2>3, <2>4, <2>5, LeaseEffect DEF DeviceAction
<1>4. ASSUME NEW a \in Attempts, AttemptAction(a) PROVE StepEffect
  <2>1. ASSUME NEW seq, AdmitResultArtifact(a, seq) PROVE StepEffect
    BY <1>1, <2>1 DEF Quiet, AdmitResultArtifact, deviceVars, stepVars
  <2>2. ASSUME NEW seq, RefuseLateCancellationAck(a, seq) PROVE StepEffect
    BY <2>2, ReconcileEffect DEF RefuseLateCancellationAck
  <2> QED
    BY <1>4, <2>1, <2>2, ResultEffect, ExpiryEffect, AckEffect DEF AttemptAction
<1>5. ASSUME NEW s \in Steps, StepAction(s) PROVE StepEffect
  <2>1. CASE EnqueueStep(s)
    <3>1. Inserts(s)
      BY <2>1 DEF EnqueueStep, Inserts, deviceVars, attemptVars
    <3> QED
      BY <3>1 DEF StepEffect
  <2>2. ASSUME NEW d \in Devices, DispatchFeatureCoding(s, d) PROVE StepEffect
    <3>1. Inserts(s)
      BY <2>2 DEF DispatchFeatureCoding, Inserts, deviceVars, attemptVars, IInv, TypeOK
    <3> QED
      BY <3>1 DEF StepEffect
  <2> QED
    BY <1>5, <2>1, <2>2, CancelStepEffect DEF StepAction
<1>6. CASE FeatureAction
  <2>1. \A S \in SUBSET {s \in Open : StepCap[s] = CodingCap} : S \in SUBSET Steps
    BY DEF Open
  <2>2. ASSUME NEW S, CodingBindingLapses(S) PROVE StepEffect
    BY <1>1, <2>2 DEF Quiet, CodingBindingLapses, deviceVars, attemptVars
  <2> QED
    BY <1>6, <2>1, <2>2, CancelFeatureEffect DEF FeatureAction
<1>7. CASE HostAction
  <2>1. CASE ReconciliationTimerFires
    <3>1. CASE ReconcileCancellationDeadlines(OverdueCancellations)
      BY <2>1, <3>1, ReconcileEffect DEF ReconciliationTimerFires
    <3>2. CASE UNCHANGED <<attStatus, stepStatus, stepEvent, conn, deviceEvent>>
      BY <1>1, <2>1, <3>2 DEF ReconciliationTimerFires, Quiet
    <3> QED
      BY <2>1, <3>1, <3>2 DEF ReconciliationTimerFires
  <2>2. CASE RepeatEmergencyPause \/ ResumeEmergencyPause \/ Tick \/ ClockStepsBack
    BY <1>1, <2>2 DEF Quiet, RepeatEmergencyPause, ResumeEmergencyPause, Tick,
       ClockStepsBack, deviceVars, stepVars, attemptVars
  <2> QED
    BY <1>7, <2>1, <2>2, PauseEffect, RestartEffect DEF HostAction
<1> QED
  BY <1>2, <1>3, <1>4, <1>5, <1>6, <1>7 DEF Next

-----------------------------------------------------------------------------
(* The limits *)

\* The sets the two limits count are finite, whatever the identities are.
Bounded == IsFiniteSet(Live) /\ IsFiniteSet(Open) /\ WithinLimits

\* Fewer live attempts and open steps stay within the limits.
LEMMA NoMore ==
  ASSUME Bounded, Live' \subseteq Live, Open' \subseteq Open
  PROVE  Bounded'
<1>1. IsFiniteSet(Live') /\ IsFiniteSet(Open')
  BY FS_Subset DEF Bounded
<1>2. /\ Cardinality(Live') <= Cardinality(Live) /\ Cardinality(Open') <= Cardinality(Open)
      /\ Cardinality(Live) \in Nat /\ Cardinality(Open) \in Nat
      /\ Cardinality(Live') \in Nat /\ Cardinality(Open') \in Nat
  BY <1>1, FS_Subset, FS_CardinalityType DEF Bounded
<1> QED
  BY <1>1, <1>2 DEF Bounded, WithinLimits

\* A set below a limit stays within it with one element more.
LEMMA OneMore ==
  ASSUME NEW S, NEW x, NEW n \in Nat, IsFiniteSet(S), Cardinality(S) < n
  PROVE  IsFiniteSet(S \cup {x}) /\ Cardinality(S \cup {x}) <= n
<1>1. Cardinality(S) \in Nat
  BY FS_CardinalityType
<1>2. /\ IsFiniteSet(S \cup {x})
      /\ Cardinality(S \cup {x}) = IF x \in S THEN Cardinality(S) ELSE Cardinality(S) + 1
  BY FS_AddElement, Zenon
<1> QED
  BY <1>1, <1>2

\* Every effect keeps the limits.
LEMMA StepKeepsLimits ==
  ASSUME IInv, Bounded, StepEffect
  PROVE  Bounded'
<1>1. CASE Quiet
  BY <1>1, NoMore DEF Quiet, Live, Open
<1>2. ASSUME NEW d \in Devices, Connects(d) PROVE Bounded'
  BY <1>2, NoMore DEF Connects, Live, Open
<1>3. ASSUME NEW P \in SUBSET Live, NEW L \in SUBSET Live, NEW D \in SUBSET Devices,
             Loses(P, L, D)
      PROVE  Bounded'
  <2>1. Live' \subseteq Live
    BY <1>3 DEF Loses, Teardown, Live, LiveStatus
  <2>2. Open' \subseteq Open
    BY <1>3, RequeuedAreLeased DEF Loses, Teardown, TeardownSteps, Open
  <2> QED
    BY <2>1, <2>2, NoMore
<1>4. ASSUME NEW s \in Steps, Inserts(s) PROVE Bounded'
  <2>1. Live' = Live
    BY <1>4 DEF Inserts, Live
  <2>2. Open' = Open \cup {s}
    BY <1>4 DEF Inserts, InsertStep, Open, IInv, TypeOK
  <2>3. Cardinality(Open) < MaxSteps
    BY <1>4 DEF Inserts, InsertStep
  <2>4. IsFiniteSet(Open') /\ Cardinality(Open') <= MaxSteps
    BY <2>2, <2>3, OneMore DEF Bounded
  <2> QED
    BY <2>1, <2>4 DEF Bounded, WithinLimits
<1>5. ASSUME NEW Q \in SUBSET Steps, NEW A \in SUBSET Live, Asks(Q, A) PROVE Bounded'
  <2>1. Live' \subseteq Live
    BY <1>5 DEF Asks, RequestCancellations, Live, LiveStatus
  <2>2. Open' \subseteq Open
    BY <1>5 DEF Asks, Open
  <2> QED
    BY <2>1, <2>2, NoMore
<1>6. ASSUME NEW d \in Devices, NEW a \in Attempts, NEW s \in Steps, NEW X \in SUBSET Live,
             Leases(d, a, s, X)
      PROVE  Bounded'
  <2>1. Live' = (Live \ X) \cup {a}
    BY <1>6 DEF Leases, Live, LiveStatus
  <2>2. Open' \subseteq Open
    BY <1>6, RequeuedAreLeased DEF Leases, Open
  <2>3. IsFiniteSet(Live \ X) /\ Cardinality(Live \ X) < MaxJobs
    BY <1>6, FS_Subset DEF Bounded, Leases
  <2>4. IsFiniteSet(Live') /\ Cardinality(Live') <= MaxJobs
    BY <2>1, <2>3, OneMore
  <2>5. IsFiniteSet(Open') /\ Cardinality(Open') <= Cardinality(Open)
    BY <2>2, FS_Subset DEF Bounded
  <2>6. Cardinality(Open) \in Nat /\ Cardinality(Open') \in Nat
    BY <2>5, FS_CardinalityType DEF Bounded
  <2> QED
    BY <2>4, <2>5, <2>6 DEF Bounded, WithinLimits
<1>7. ASSUME NEW a \in Live, NEW p \in AttemptStatuses, NEW q \in StepStatuses,
             NEW e \in StepEvents, Ends(a, p, q, e)
      PROVE  Bounded'
  <2>1. p \notin LiveStatus
    BY <1>7 DEF Ends, EndsAs, LiveStatus, OutcomeStatus
  <2>2. Live' \subseteq Live
    BY <1>7, <2>1 DEF Ends, Live, IInv, TypeOK
  <2>3. Open' \subseteq Open
    BY <1>7, LiveFacts DEF Ends, Open, IInv, TypeOK
  <2> QED
    BY <2>2, <2>3, NoMore
<1> QED
  BY <1>1, <1>2, <1>3, <1>4, <1>5, <1>6, <1>7 DEF StepEffect

\* The master never runs more than MAX_CONCURRENT_JOBS attempts and never has
\* more than MAX_QUEUED_OR_LEASED_STEPS open steps, although only leasing and
\* enqueuing look at the limits.
THEOREM LimitsHold == Spec => []WithinLimits
<1>1. Init => Bounded
  <2> SUFFICES ASSUME Init PROVE Bounded
    OBVIOUS
  <2>1. Live = {} /\ Open = {}
    BY DEF Init, Live, Open, LiveStatus
  <2> QED
    BY <2>1, FS_EmptySet DEF Bounded, WithinLimits
<1>2. IInv /\ Bounded /\ [Next]_vars => Bounded'
  BY Effects, StepKeepsLimits
<1>3. Bounded => WithinLimits
  BY DEF Bounded
<1> QED
  BY <1>1, <1>2, <1>3, Invariance, PTL DEF Spec

-----------------------------------------------------------------------------
(* Sequence numbers *)

\* A connection's number moves only with its one live attempt: when that one
\* is leased, asked to cancel or ends.
LEMMA StepKeepsSequences ==
  ASSUME IInv, IInv', NextMessageIsNeverAReplay, StepEffect
  PROVE  NextMessageIsNeverAReplay'
<1>0. /\ \A a \in Leased : a \in Live /\ job[a].device \in Devices
      /\ \A a \in Pending : a \in Live /\ job[a].device \in Devices
  BY LiveFacts DEF Leased, Pending, Live, LiveStatus
<1>1. CASE Quiet
  BY <1>1 DEF Quiet, NextMessageIsNeverAReplay, Leased, Pending
<1>2. ASSUME NEW d \in Devices, Connects(d) PROVE NextMessageIsNeverAReplay'
  <2>1. \A a \in Live : job[a].device # d
    BY <1>2, LiveFacts DEF Connects
  <2> QED
    BY <1>0, <1>2, <2>1 DEF Connects, NextMessageIsNeverAReplay, Leased, Pending, IInv, TypeOK
<1>3. ASSUME NEW P \in SUBSET Live, NEW L \in SUBSET Live, NEW D \in SUBSET Devices,
             Loses(P, L, D)
      PROVE  NextMessageIsNeverAReplay'
  <2>1. ASSUME NEW d \in Devices PROVE conn'[d].seq = conn[d].seq
    <3>1. conn[d] \in Connections
      BY DEF IInv, TypeOK
    <3>2. [conn[d] EXCEPT !.active = FALSE].seq = conn[d].seq
      BY <3>1, ActiveField
    <3> QED
      BY <1>3, <3>2 DEF Loses, Teardown
  <2>2. /\ \A a \in Leased' : a \in Leased /\ a \notin P \cup L
        /\ \A a \in Pending' : a \in Pending /\ a \notin P \cup L
    BY <1>3 DEF Loses, Teardown, Leased, Pending
  <2> QED
    BY <1>0, <1>3, <2>1, <2>2 DEF Loses, NextMessageIsNeverAReplay
<1>4. ASSUME NEW s \in Steps, Inserts(s) PROVE NextMessageIsNeverAReplay'
  BY <1>4 DEF Inserts, NextMessageIsNeverAReplay, Leased, Pending
<1>5. ASSUME NEW Q \in SUBSET Steps, NEW A \in SUBSET Live, Asks(Q, A)
      PROVE  NextMessageIsNeverAReplay'
  <2>1. /\ conn' = ConnAfterRequest(A) /\ cancel' = CancelAfterRequest(A)
        /\ A \subseteq Leased /\ UNCHANGED job
    BY <1>5 DEF Asks, RequestCancellations
  <2>2. Leased' = Leased \ A /\ Pending' = Pending \cup A /\ A \cap Pending = {}
    BY <1>5 DEF Asks, RequestCancellations, Leased, Pending
  <2>3. \A a \in Live \ A : job[a].device \notin DevicesOf(A)
    BY DEF DevicesOf, IInv, OneAttemptPerDevice
  <2>4. \A a \in Live \ A : conn'[job[a].device] = conn[job[a].device] /\ cancel'[a] = cancel[a]
    BY <2>1, <2>3, LiveFacts DEF ConnAfterRequest, CancelAfterRequest
  <2>5. ASSUME NEW a \in A
        PROVE  /\ conn'[job[a].device].seq = conn[job[a].device].seq + 1
               /\ cancel'[a].seq = conn[job[a].device].seq + 1
    <3>1. job[a].device \in Devices /\ a \in Attempts /\ job[a].device \in DevicesOf(A)
      BY LiveFacts DEF DevicesOf
    <3>2. conn[job[a].device] \in Connections
      BY <3>1 DEF IInv, TypeOK
    <3>3. [conn[job[a].device] EXCEPT !.seq = @ + 1].seq = conn[job[a].device].seq + 1
      BY <3>2 DEF Connections
    <3> QED
      BY <2>1, <3>1, <3>3 DEF ConnAfterRequest, CancelAfterRequest
  <2>6. \A a \in A : /\ conn[job[a].device].seq = job[a].seq
                     /\ job[a].seq \in Nat
    BY <2>1, LiveFacts DEF NextMessageIsNeverAReplay, Jobs
  <2> QED
    BY <1>0, <2>1, <2>2, <2>4, <2>5, <2>6 DEF NextMessageIsNeverAReplay
<1>6. ASSUME NEW d \in Devices, NEW a \in Attempts, NEW s \in Steps, NEW X \in SUBSET Live,
             Leases(d, a, s, X)
      PROVE  NextMessageIsNeverAReplay'
  <2>1. /\ \A b \in Leased' : b = a \/ (b \in Leased /\ b \in Live \ X)
        /\ \A b \in Pending' : b \in Pending /\ b \in Live \ X
    BY <1>6, <1>0 DEF Leases, Leased, Pending
  <2>2. \A b \in Live \ X : /\ b # a /\ job'[b] = job[b]
                            /\ conn'[job[b].device] = conn[job[b].device]
    BY <1>6, LiveFacts DEF Leases, IInv, TypeOK
  <2>3. job'[a].device = d /\ job'[a].seq = conn[d].seq + 1
    BY <1>6 DEF Leases, IInv, TypeOK
  <2>4. conn'[d].seq = conn[d].seq + 1
    <3>1. conn[d] \in Connections
      BY DEF IInv, TypeOK
    <3>2. [conn[d] EXCEPT !.seq = @ + 1].seq = conn[d].seq + 1
      BY <3>1 DEF Connections
    <3> QED
      BY <1>6, <3>2 DEF Leases, IInv, TypeOK
  <2>5. UNCHANGED cancel
    BY <1>6 DEF Leases
  <2> QED
    BY <2>1, <2>2, <2>3, <2>4, <2>5 DEF NextMessageIsNeverAReplay
<1>7. ASSUME NEW a \in Live, NEW p \in AttemptStatuses, NEW q \in StepStatuses,
             NEW e \in StepEvents, Ends(a, p, q, e)
      PROVE  NextMessageIsNeverAReplay'
  <2>1. p \notin LiveStatus
    BY <1>7 DEF Ends, EndsAs, LiveStatus, OutcomeStatus
  <2>2. /\ \A b \in Leased' : b \in Leased /\ b # a
        /\ \A b \in Pending' : b \in Pending /\ b # a
    BY <1>7, <2>1 DEF Ends, Leased, Pending, LiveStatus, IInv, TypeOK
  <2>3. \A b \in Live \ {a} : conn'[job[b].device] = conn[job[b].device]
    BY <1>7, LiveFacts DEF Ends, IInv, OneAttemptPerDevice
  <2> QED
    BY <1>0, <1>7, <2>2, <2>3 DEF Ends, NextMessageIsNeverAReplay
<1> QED
  BY <1>1, <1>2, <1>3, <1>4, <1>5, <1>6, <1>7 DEF StepEffect

\* A worker that numbers its next message one above its job or its stop
\* instruction is never refused as a replay by accept_result_bound or
\* accept_cancellation_ack_bound: nothing else moves its connection's number.
THEOREM WorkersAreNeverReplays == Spec => []NextMessageIsNeverAReplay
<1>1. Init => NextMessageIsNeverAReplay
  BY DEF Init, NextMessageIsNeverAReplay, Leased, Pending
<1>2. IInv /\ IInv' /\ NextMessageIsNeverAReplay /\ [Next]_vars => NextMessageIsNeverAReplay'
  BY Effects, StepKeepsSequences
<1> QED
  BY <1>1, <1>2, Invariance, PTL DEF Spec

-----------------------------------------------------------------------------
(* The journal *)

\* A step whose row, last event and holder stay is still described.
LEMMA EventKept ==
  ASSUME IInv, NEW s \in Steps, StepOfEvent(s),
         stepStatus'[s] = stepStatus[s], stepEvent'[s] = stepEvent[s],
         \A a \in Live : job[a].step = s => attStatus'[a] = attStatus[a] /\ job'[a] = job[a]
  PROVE  StepOfEvent(s)'
<1>1. CASE stepStatus[s] = "leased"
  <2>1. PICK a \in Live : /\ job[a].step = s
                          /\ stepEvent[s] = OwnedBy(IF a \in Leased THEN "StepLeased"
                                                    ELSE "StepCancellationRequested", a)
    BY <1>1 DEF StepOfEvent
  <2>2. a \in Live' /\ job'[a] = job[a] /\ (a \in Leased' <=> a \in Leased)
    BY <2>1 DEF Live, Leased
  <2>3. stepEvent'[s] = OwnedBy(IF a \in Leased THEN "StepLeased"
                                ELSE "StepCancellationRequested", a)'
    BY <2>1, <2>2 DEF OwnedBy
  <2> QED
    BY <1>1, <2>1, <2>2, <2>3 DEF StepOfEvent
<1>2. CASE stepStatus[s] # "leased"
  <2>1. stepStatus[s] \in StepStatuses
    BY DEF IInv, TypeOK
  <2> QED
    BY <1>2, <2>1 DEF StepOfEvent, StepStatuses, OutcomeStatus, Unowned
<1> QED
  BY <1>1, <1>2

\* A queued event agrees with a queued step.
LEMMA EventQueued ==
  ASSUME NEW s \in Steps, stepStatus'[s] = "queued", stepEvent'[s] = Unowned("StepQueued")
  PROVE  StepOfEvent(s)'
  BY DEF StepOfEvent, Unowned

\* A cancelled event agrees with a cancelled step.
LEMMA EventCancelled ==
  ASSUME NEW s \in Steps, stepStatus'[s] = "cancelled", stepEvent'[s] = Unowned("StepCancelled")
  PROVE  StepOfEvent(s)'
  BY DEF StepOfEvent, Unowned

\* Losing attempts keeps the journal accurate.
LEMMA LossKeepsJournal ==
  ASSUME IInv, NEW s \in Steps, StepOfEvent(s),
         NEW P \in SUBSET Live, NEW L \in SUBSET Live, NEW D, Loses(P, L, D)
  PROVE  StepOfEvent(s)'
<1>1. /\ stepStatus'[s] = IF s \in Requeued(P) THEN "cancelled"
                          ELSE IF s \in Requeued(L) THEN "queued" ELSE stepStatus[s]
      /\ stepEvent'[s] = IF s \in StepsOf(P) THEN Unowned("StepCancelled")
                         ELSE IF s \in Requeued(L) THEN Unowned("StepQueued") ELSE stepEvent[s]
      /\ UNCHANGED job
  BY DEF Loses, Teardown, TeardownSteps, TeardownEvents
<1>2. Requeued(P) = StepsOf(P) /\ Requeued(L) = StepsOf(L)
  BY LiveFacts DEF Requeued, StepsOf
<1>3. CASE s \in StepsOf(P)
  BY <1>1, <1>2, <1>3, EventCancelled
<1>4. CASE s \notin StepsOf(P) /\ s \in StepsOf(L)
  BY <1>1, <1>2, <1>4, EventQueued
<1>5. CASE s \notin StepsOf(P) /\ s \notin StepsOf(L)
  <2>1. \A a \in Live : job[a].step = s => a \notin P \cup L
    BY <1>5 DEF StepsOf
  <2>2. \A a \in Live : job[a].step = s => attStatus'[a] = attStatus[a] /\ job'[a] = job[a]
    BY <1>1, <2>1 DEF Loses, Teardown, Live
  <2> QED
    BY <1>1, <1>2, <1>5, <2>2, EventKept
<1> QED
  BY <1>3, <1>4, <1>5

\* Asking attempts to stop keeps the journal accurate.
LEMMA RequestKeepsJournal ==
  ASSUME IInv, NEW s \in Steps, StepOfEvent(s),
         NEW Q \in SUBSET Steps, NEW A \in SUBSET Live, Asks(Q, A)
  PROVE  StepOfEvent(s)'
<1>1. /\ stepStatus'[s] = IF s \in Q THEN "cancelled" ELSE stepStatus[s]
      /\ stepEvent'[s] =
           IF s \in Q THEN Unowned("StepCancelled")
           ELSE IF s \in StepsOf(A)
                THEN OwnedBy("StepCancellationRequested", CHOOSE a \in A : job[a].step = s)
                ELSE stepEvent[s]
      /\ attStatus' = [a \in Attempts |->
           IF a \in A THEN "cancellation_pending" ELSE attStatus[a]]
      /\ UNCHANGED job
  BY DEF Asks, CancellationEvents, RequestCancellations
<1>2. CASE s \in Q
  BY <1>1, <1>2, EventCancelled
<1>3. CASE s \notin Q /\ s \in StepsOf(A)
  <2>1. PICK b \in A : b = (CHOOSE a \in A : job[a].step = s) /\ job[b].step = s
    BY <1>3 DEF StepsOf
  <2>2. b \in Live' /\ b \notin Leased' /\ job'[b] = job[b]
    BY <1>1 DEF Live, Leased, LiveStatus
  <2>3. stepStatus'[s] = "leased"
    BY <1>1, <1>3, <2>1, LiveFacts
  <2>4. stepEvent'[s] = OwnedBy("StepCancellationRequested", b)'
    BY <1>1, <1>3, <2>1, <2>2 DEF OwnedBy
  <2> QED
    BY <2>1, <2>2, <2>3, <2>4 DEF StepOfEvent
<1>4. CASE s \notin Q /\ s \notin StepsOf(A)
  <2>1. \A a \in Live : job[a].step = s => attStatus'[a] = attStatus[a] /\ job'[a] = job[a]
    BY <1>1, <1>4 DEF StepsOf, Live
  <2> QED
    BY <1>1, <1>4, <2>1, EventKept
<1> QED
  BY <1>2, <1>3, <1>4

\* A lease keeps the journal accurate.
LEMMA LeaseKeepsJournal ==
  ASSUME IInv, NEW t \in Steps, StepOfEvent(t),
         NEW d \in Devices, NEW a \in Attempts, NEW s \in Steps, NEW X \in SUBSET Live,
         Leases(d, a, s, X)
  PROVE  StepOfEvent(t)'
<1>1. /\ stepStatus'[t] = IF t = s THEN "leased"
                          ELSE IF t \in Requeued(X) THEN "queued" ELSE stepStatus[t]
      /\ stepEvent'[t] =
           IF t = s THEN [kind |-> "StepLeased", device |-> d, epoch |-> conn[d].epoch]
           ELSE IF t \in Requeued(X) THEN Unowned("StepQueued") ELSE stepEvent[t]
  BY DEF Leases
<1>2. CASE t = s
  <2>1. a \in Live' /\ a \in Leased'
    BY DEF Leases, Live, Leased, LiveStatus
  <2>2. job'[a].step = s /\ job'[a].device = d /\ job'[a].epoch = conn[d].epoch
    BY DEF Leases, IInv, TypeOK
  <2>3. stepEvent'[t] = OwnedBy("StepLeased", a)'
    BY <1>1, <1>2, <2>2 DEF OwnedBy
  <2> QED
    BY <1>1, <1>2, <2>1, <2>2, <2>3 DEF StepOfEvent
<1>3. CASE t # s /\ t \in Requeued(X)
  BY <1>1, <1>3, EventQueued
<1>4. CASE t # s /\ t \notin Requeued(X)
  <2>1. \A b \in X : job[b].step # t
    BY <1>4, LiveFacts DEF Requeued, StepsOf
  <2>2. \A b \in Live : job[b].step = t => attStatus'[b] = attStatus[b] /\ job'[b] = job[b]
    BY <2>1 DEF Leases, Live, IInv, TypeOK
  <2> QED
    BY <1>1, <1>4, <2>2, EventKept
<1> QED
  BY <1>2, <1>3, <1>4

\* Ending an attempt keeps the journal accurate.
LEMMA EndKeepsJournal ==
  ASSUME IInv, NEW s \in Steps, StepOfEvent(s),
         NEW a \in Live, NEW p, NEW q, NEW e, Ends(a, p, q, e)
  PROVE  StepOfEvent(s)'
<1>1. /\ job[a].step \in Steps /\ a \in Attempts
      /\ attStatus \in [Attempts -> AttemptStatuses]
      /\ stepStatus \in [Steps -> StepStatuses] /\ stepEvent \in [Steps -> StepEvents]
  BY LiveFacts DEF IInv, TypeOK
<1>2. CASE s = job[a].step
  <2>1. stepStatus'[s] = q /\ stepEvent'[s] = e
    BY <1>1, <1>2 DEF Ends
  <2>2. \/ p = "succeeded" /\ q = p /\ e = OutcomeEvent(a, p)
        \/ p = "failed" /\ q = p /\ e = OutcomeEvent(a, p)
        \/ q = "cancelled" /\ e = Unowned("StepCancelled")
        \/ q = "queued" /\ e = Unowned("StepQueued")
    BY DEF Ends, EndsAs, OutcomeStatus, OutcomeEvent
  <2>3. CASE p = "succeeded" /\ q = p /\ e = OutcomeEvent(a, p)
    BY <2>1, <2>3 DEF OutcomeEvent, OwnedBy, StepOfEvent
  <2>4. CASE p = "failed" /\ q = p /\ e = OutcomeEvent(a, p)
    BY <2>1, <2>4 DEF OutcomeEvent, OwnedBy, StepOfEvent
  <2> QED
    BY <2>1, <2>2, <2>3, <2>4, EventCancelled, EventQueued
<1>3. CASE s # job[a].step
  <2>1. stepStatus'[s] = stepStatus[s] /\ stepEvent'[s] = stepEvent[s]
    BY <1>1, <1>3 DEF Ends
  <2>2. \A b \in Live : job[b].step = s => attStatus'[b] = attStatus[b] /\ job'[b] = job[b]
    BY <1>1, <1>3 DEF Ends, Live
  <2> QED
    BY <2>1, <2>2, EventKept
<1> QED
  BY <1>2, <1>3

\* Every effect keeps the last event of a step accurate.
LEMMA StepKeepsStepEvents ==
  ASSUME IInv, StepEffect, NEW s \in Steps, StepOfEvent(s)
  PROVE  StepOfEvent(s)'
<1>1. CASE UNCHANGED <<stepStatus, stepEvent, attStatus, job>>
  BY <1>1, EventKept
<1>2. CASE Quiet \/ \E d \in Devices : Connects(d)
  BY <1>1, <1>2 DEF Quiet, Connects
<1>3. ASSUME NEW t \in Steps, Inserts(t) PROVE StepOfEvent(s)'
  <2>1. CASE s = t
    <3>1. stepStatus'[s] = "queued" /\ stepEvent'[s] = Unowned("StepQueued")
      BY <1>3, <2>1 DEF Inserts, InsertStep, IInv, TypeOK
    <3> QED
      BY <3>1, EventQueued
  <2>2. CASE s # t
    <3>1. stepStatus'[s] = stepStatus[s] /\ stepEvent'[s] = stepEvent[s]
      BY <1>3, <2>2 DEF Inserts, InsertStep, IInv, TypeOK
    <3> QED
      BY <1>3, <3>1, EventKept DEF Inserts
  <2> QED
    BY <2>1, <2>2
<1> QED
  BY <1>2, <1>3, LossKeepsJournal, RequestKeepsJournal, LeaseKeepsJournal,
     EndKeepsJournal DEF StepEffect

\* What a device's last event says of its connection.
DeviceOfEvent(d) == conn[d].active <=> deviceEvent[d] = "DeviceConnected"

\* Every effect keeps the last event of a device accurate.
LEMMA StepKeepsDeviceEvents ==
  ASSUME IInv, StepEffect, NEW x \in Devices, DeviceOfEvent(x)
  PROVE  DeviceOfEvent(x)'
<1>0. /\ conn \in [Devices -> Connections]
      /\ deviceEvent \in [Devices -> {"none", "DeviceConnected", "DeviceDisconnected"}]
  BY DEF IInv, TypeOK
<1>1. CASE conn'[x].active = conn[x].active /\ deviceEvent'[x] = deviceEvent[x]
  BY <1>1 DEF DeviceOfEvent
<1>2. CASE Quiet \/ \E s \in Steps : Inserts(s)
  BY <1>1, <1>2 DEF Quiet, Inserts
<1>3. ASSUME NEW d \in Devices, Connects(d) PROVE DeviceOfEvent(x)'
  <2>1. CASE x = d
    <3>1. conn'[x].active = TRUE /\ deviceEvent'[x] = "DeviceConnected"
      BY <1>0, <1>3, <2>1 DEF Connects
    <3> QED
      BY <3>1 DEF DeviceOfEvent
  <2>2. CASE x # d
    BY <1>0, <1>1, <1>3, <2>2 DEF Connects
  <2> QED
    BY <2>1, <2>2
<1>4. ASSUME NEW P \in SUBSET Live, NEW L \in SUBSET Live, NEW D \in SUBSET Devices,
             Loses(P, L, D)
      PROVE  DeviceOfEvent(x)'
  <2>1. CASE x \in D
    <3>1. [conn[x] EXCEPT !.active = FALSE].active = FALSE
      BY <1>0, ActiveField
    <3>2. conn'[x].active = FALSE /\ deviceEvent'[x] = "DeviceDisconnected"
      BY <1>4, <2>1, <3>1 DEF Loses, Teardown
    <3> QED
      BY <3>2 DEF DeviceOfEvent
  <2>2. CASE x \notin D
    BY <1>1, <1>4, <2>2 DEF Loses, Teardown
  <2> QED
    BY <2>1, <2>2
<1>5. ASSUME NEW Q \in SUBSET Steps, NEW A \in SUBSET Live, Asks(Q, A)
      PROVE  DeviceOfEvent(x)'
  BY <1>1, <1>5, RequestTypes DEF Asks, RequestCancellations
<1>6. ASSUME NEW d \in Devices, NEW a \in Attempts, NEW s \in Steps, NEW X \in SUBSET Live,
             Leases(d, a, s, X)
      PROVE  DeviceOfEvent(x)'
  <2>1. conn[d].seq + 1 \in Nat
    BY <1>0 DEF Connections
  <2>2. conn' = [conn EXCEPT ![d].seq = conn[d].seq + 1]
    BY <1>6 DEF Leases
  <2>3. conn'[x].active = conn[x].active
    BY <2>1, <2>2, ConnKept
  <2> QED
    BY <1>1, <1>6, <2>3 DEF Leases
<1>7. ASSUME NEW a \in Live, NEW p \in AttemptStatuses, NEW q \in StepStatuses,
             NEW e \in StepEvents, Ends(a, p, q, e)
      PROVE  DeviceOfEvent(x)'
  BY <1>1, <1>7 DEF Ends
<1> QED
  BY <1>2, <1>3, <1>4, <1>5, <1>6, <1>7 DEF StepEffect

\* Whoever replays master_events knows the tables: every transaction writes
\* the event of what it does to a step or a connection, and the last one names
\* the holder.
THEOREM JournalIsAccurate == Spec => []JournalAgreesWithTables
<1>1. Init => JournalAgreesWithTables
  <2> SUFFICES ASSUME Init PROVE JournalAgreesWithTables
    OBVIOUS
  <2>1. \A s \in Steps : StepOfEvent(s)
    BY DEF Init, StepOfEvent
  <2>2. \A d \in Devices : conn[d].active <=> deviceEvent[d] = "DeviceConnected"
    BY DEF Init
  <2> QED
    BY <2>1, <2>2 DEF JournalAgreesWithTables
<1>2. ASSUME IInv, JournalAgreesWithTables, [Next]_vars
      PROVE  JournalAgreesWithTables'
  <2>1. StepEffect
    BY <1>2, Effects
  <2>2. \A s \in Steps : StepOfEvent(s)'
    BY <1>2, <2>1, StepKeepsStepEvents DEF JournalAgreesWithTables
  <2>3. \A d \in Devices : DeviceOfEvent(d)'
    BY <1>2, <2>1, StepKeepsDeviceEvents DEF JournalAgreesWithTables, DeviceOfEvent
  <2> QED
    BY <2>2, <2>3 DEF JournalAgreesWithTables, DeviceOfEvent
<1> QED
  BY <1>1, <1>2, Invariance, PTL DEF Spec

-----------------------------------------------------------------------------
(* Coding results *)

\* A coding attempt runs on the device its step was dispatched to.
OnItsTarget ==
  \A a \in Live : StepCap[job[a].step] = CodingCap => job[a].device = target[job[a].step]

\* Every effect keeps coding attempts on the device they were dispatched to.
LEMMA StepKeepsTarget ==
  ASSUME IInv, OnItsTarget, StepEffect
  PROVE  OnItsTarget'
<1>1. CASE \A a \in Live' : a \in Live /\ job'[a] = job[a]
                            /\ target'[job[a].step] = target[job[a].step]
  BY <1>1 DEF OnItsTarget
<1>2. CASE Quiet \/ \E d \in Devices : Connects(d)
  BY <1>1, <1>2 DEF Quiet, Connects, Live
<1>3. ASSUME NEW P \in SUBSET Live, NEW L \in SUBSET Live, NEW D, Loses(P, L, D)
      PROVE  OnItsTarget'
  BY <1>1, <1>3 DEF Loses, Teardown, Live, LiveStatus
<1>4. ASSUME NEW s \in Steps, Inserts(s) PROVE OnItsTarget'
  <2>1. \A a \in Live : job[a].step \in Steps \ {s}
    BY <1>4, LiveFacts DEF Inserts, InsertStep
  <2> QED
    BY <1>1, <1>4, <2>1 DEF Inserts, Live
<1>5. ASSUME NEW Q \in SUBSET Steps, NEW A \in SUBSET Live, Asks(Q, A) PROVE OnItsTarget'
  BY <1>1, <1>5 DEF Asks, RequestCancellations, Live, LiveStatus
<1>6. ASSUME NEW d \in Devices, NEW a \in Attempts, NEW s \in Steps, NEW X \in SUBSET Live,
             Leases(d, a, s, X)
      PROVE  OnItsTarget'
  <2>1. \A b \in Live' : b # a => b \in Live /\ job'[b] = job[b]
    BY <1>6 DEF Leases, Live, LiveStatus, IInv, TypeOK
  <2>2. job'[a].step = s /\ job'[a].device = d
    BY <1>6 DEF Leases, IInv, TypeOK
  <2>3. UNCHANGED target /\ (StepCap[s] = CodingCap => target[s] = d)
    BY <1>6 DEF Leases
  <2> QED
    BY <2>1, <2>2, <2>3 DEF OnItsTarget
<1>7. ASSUME NEW a \in Live, NEW p, NEW q, NEW e, Ends(a, p, q, e) PROVE OnItsTarget'
  <2>1. p \notin LiveStatus
    BY <1>7 DEF Ends, EndsAs, LiveStatus, OutcomeStatus
  <2> QED
    BY <1>1, <1>7, <2>1 DEF Ends, Live, IInv, TypeOK
<1> QED
  BY <1>2, <1>3, <1>4, <1>5, <1>6, <1>7 DEF StepEffect

\* Only a result makes a step succeed.
LEMMA SuccessIsAResult ==
  ASSUME IInv, StepEffect, NEW s \in Steps,
         stepStatus'[s] = "succeeded", stepStatus[s] # "succeeded"
  PROVE  \E a \in Leased : /\ job[a].step = s /\ attStatus'[a] = "succeeded"
                           /\ StepCap[s] = CodingCap => s \in bound /\ artifact[a] # 0
<1>1. ~Quiet /\ \A d \in Devices : ~Connects(d)
  BY DEF Quiet, Connects
<1>2. \A P, L, D : ~Loses(P, L, D)
  BY DEF Loses, Teardown, TeardownSteps
<1>3. \A t \in Steps : ~Inserts(t)
  BY DEF Inserts, InsertStep, IInv, TypeOK
<1>4. \A Q, A : ~Asks(Q, A)
  BY DEF Asks
<1>5. \A d, a, t, X : ~Leases(d, a, t, X)
  BY DEF Leases
<1>6. PICK a \in Live, p \in AttemptStatuses, q \in StepStatuses, e \in StepEvents :
        Ends(a, p, q, e)
  BY <1>1, <1>2, <1>3, <1>4, <1>5 DEF StepEffect
<1>7. job[a].step = s /\ q = "succeeded"
  BY <1>6, LiveFacts DEF Ends, IInv, TypeOK
<1>8. a \in Leased /\ p = "succeeded"
      /\ (StepCap[s] = CodingCap => s \in bound /\ artifact[a] # 0)
  BY <1>6, <1>7 DEF Ends, EndsAs
<1>9. attStatus'[a] = "succeeded"
  BY <1>6, <1>8 DEF Ends, Leased, IInv, TypeOK
<1> QED
  BY <1>7, <1>8, <1>9

\* accept_result_bound lets a coding step succeed only under a current binding
\* and only from the attempt of the device it was dispatched to, whose
\* artifact was admitted first.
THEOREM CodingOutcomesAreBacked == Spec => CodingOutcomeIsBoundAndBacked
<1> DEFINE Backed == \A s \in Steps :
       StepCap[s] = CodingCap /\ stepStatus'[s] = "succeeded" /\ ~Terminal(s)
       => /\ s \in bound
          /\ \E a \in Leased : /\ job[a].step = s /\ job[a].device = target[s]
                               /\ artifact[a] # 0 /\ attStatus'[a] = "succeeded"
<1>1. Init => OnItsTarget
  BY DEF Init, OnItsTarget, Live, LiveStatus
<1>2. IInv /\ OnItsTarget /\ [Next]_vars => OnItsTarget'
  BY Effects, StepKeepsTarget
<1>3. ASSUME IInv, OnItsTarget, [Next]_vars PROVE Backed
  <2> SUFFICES ASSUME NEW s \in Steps, StepCap[s] = CodingCap, stepStatus'[s] = "succeeded",
                      ~Terminal(s)
               PROVE  /\ s \in bound
                      /\ \E a \in Leased : /\ job[a].step = s /\ job[a].device = target[s]
                                           /\ artifact[a] # 0 /\ attStatus'[a] = "succeeded"
    OBVIOUS
  <2>1. stepStatus[s] # "succeeded" /\ StepEffect
    BY <1>3, Effects DEF Terminal, OutcomeStatus
  <2>2. PICK a \in Leased : /\ job[a].step = s /\ attStatus'[a] = "succeeded"
                            /\ s \in bound /\ artifact[a] # 0
    BY <1>3, <2>1, SuccessIsAResult
  <2>3. job[a].device = target[s]
    BY <1>3, <2>2 DEF OnItsTarget, Leased, Live, LiveStatus
  <2> QED
    BY <2>2, <2>3
<1>4. IInv /\ OnItsTarget /\ [Next]_vars => [Backed]_vars
  BY <1>3
<1> QED
  BY <1>1, <1>2, <1>4, Invariance, PTL DEF Spec, CodingOutcomeIsBoundAndBacked

-----------------------------------------------------------------------------
(* StepLifecycle *)

\* What the mapping shows of one step.
ViewOf(s) ==
  /\ \A a \in Leased : job[a].step = s => Phase[s] = "running" /\ Holder[s] = job[a].device
  /\ \A a \in Pending : job[a].step = s => Phase[s] = "stopping" /\ Holder[s] = job[a].device
  /\ stepStatus[s] # "leased" => Phase[s] = stepStatus[s] /\ Holder[s] = NoDevice
  /\ stepStatus[s] = "leased" => \E a \in Live : job[a].step = s

View ==
  /\ Phase = [s \in Steps |-> Phase[s]] /\ Holder = [s \in Steps |-> Holder[s]]
  /\ Live = Leased \cup Pending
  /\ \A s \in Steps : ViewOf(s)

\* The invariant determines phase and holder of every step.
LEMMA ViewHolds == IInv => View
<1> SUFFICES ASSUME IInv PROVE View
  OBVIOUS
<1>1. Live = Leased \cup Pending
  BY DEF Live, Leased, Pending, LiveStatus
<1>2. Phase = [s \in Steps |-> Phase[s]] /\ Holder = [s \in Steps |-> Holder[s]]
  BY DEF Phase, Holder
<1>3. ASSUME NEW s \in Steps PROVE ViewOf(s)
  <2>1. \A a, b \in Live : job[a].step = job[b].step => a = b
    BY DEF IInv, StepLeasedIffLiveAttempt
  <2>2. stepStatus[s] = "leased" <=> \E a \in Live : job[a].step = s
    BY DEF IInv, StepLeasedIffLiveAttempt, StepsOf
  <2>3. ASSUME NEW a \in Live, job[a].step = s PROVE Holder[s] = job[a].device
    <3>1. s \in StepsOf(Live) /\ (CHOOSE b \in Live : job[b].step = s) = a
      BY <2>1, <2>3 DEF StepsOf
    <3> QED
      BY <3>1 DEF Holder
  <2>4. ASSUME NEW a \in Leased, job[a].step = s PROVE Phase[s] = "running"
    <3>1. s \in StepsOf(Leased)
      BY <2>4 DEF StepsOf
    <3>2. s \notin StepsOf(Pending)
      BY <1>1, <2>1, <2>4 DEF StepsOf, Leased, Pending
    <3> QED
      BY <3>1, <3>2 DEF Phase
  <2>5. ASSUME NEW a \in Pending, job[a].step = s PROVE Phase[s] = "stopping"
    <3>1. s \in StepsOf(Pending)
      BY <2>5 DEF StepsOf
    <3>2. s \notin StepsOf(Leased)
      BY <1>1, <2>1, <2>5 DEF StepsOf, Leased, Pending
    <3> QED
      BY <3>1, <3>2 DEF Phase
  <2>6. ASSUME stepStatus[s] # "leased" PROVE Phase[s] = stepStatus[s] /\ Holder[s] = NoDevice
    <3>1. s \notin StepsOf(Live) /\ s \notin StepsOf(Leased) /\ s \notin StepsOf(Pending)
      BY <1>1, <2>2, <2>6 DEF StepsOf
    <3> QED
      BY <3>1 DEF Phase, Holder
  <2> QED
    BY <1>1, <2>2, <2>3, <2>4, <2>5, <2>6 DEF ViewOf
<1> QED
  BY <1>1, <1>2, <1>3 DEF View

\* The same for the next state.
LEMMA ViewHoldsNext == IInv' => View'
  BY ViewHolds, PTL

LifecycleStep == [Lifecycle!Next]_<<Phase, Holder, paused>>

\* A step whose row and holder stay looks the same.
LEMMA ViewKept ==
  ASSUME View, View', NEW s \in Steps, stepStatus'[s] = stepStatus[s],
         \A a \in Live : job[a].step = s => attStatus'[a] = attStatus[a] /\ job'[a] = job[a]
  PROVE  Phase'[s] = Phase[s] /\ Holder'[s] = Holder[s]
<1>1. ViewOf(s) /\ ViewOf(s)' /\ Live = Leased \cup Pending
  BY DEF View
<1>2. CASE stepStatus[s] = "leased"
  <2>1. PICK a \in Live : job[a].step = s
    BY <1>1, <1>2 DEF ViewOf
  <2>2. job'[a] = job[a] /\ (a \in Leased => a \in Leased') /\ (a \in Pending => a \in Pending')
    BY <2>1 DEF Leased, Pending
  <2> QED
    BY <1>1, <2>1, <2>2 DEF ViewOf
<1>3. CASE stepStatus[s] # "leased"
  BY <1>1, <1>3 DEF ViewOf
<1> QED
  BY <1>2, <1>3

\* Phase and holder depend on the steps, the attempts and their jobs only.
LEMMA SameView ==
  ASSUME View, View', UNCHANGED <<stepStatus, attStatus, job>>
  PROVE  UNCHANGED <<Phase, Holder>>
<1>1. \A s \in Steps : Phase'[s] = Phase[s] /\ Holder'[s] = Holder[s]
  BY ViewKept
<1> QED
  BY <1>1 DEF View

\* Steps of leased attempts are running, steps of pending ones stopping.
LEMMA StepsInPhase ==
  ASSUME IInv, View
  PROVE  /\ \A A \in SUBSET Leased : StepsOf(A) \in SUBSET Lifecycle!In("running")
         /\ \A A \in SUBSET Pending : StepsOf(A) \in SUBSET Lifecycle!In("stopping")
<1>1. ASSUME NEW a \in Leased
      PROVE  job[a].step \in Lifecycle!In("running")
  <2>1. job[a].step \in Steps
    BY LiveFacts DEF Leased, Live, LiveStatus
  <2> QED
    BY <2>1 DEF View, ViewOf, Lifecycle!In
<1>2. ASSUME NEW a \in Pending
      PROVE  job[a].step \in Lifecycle!In("stopping")
  <2>1. job[a].step \in Steps
    BY LiveFacts DEF Pending, Live, LiveStatus
  <2> QED
    BY <2>1 DEF View, ViewOf, Lifecycle!In
<1> QED
  BY <1>1, <1>2 DEF StepsOf

\* Lost connections are lost workers.
LEMMA LossImplements ==
  ASSUME IInv, View, View',
         NEW P \in SUBSET Live, NEW L \in SUBSET Live, NEW D, Loses(P, L, D)
  PROVE  LifecycleStep
<1>1. /\ \A s \in Steps : stepStatus'[s] =
           IF s \in Requeued(P) THEN "cancelled"
           ELSE IF s \in Requeued(L) THEN "queued" ELSE stepStatus[s]
      /\ attStatus' = [a \in Attempts |-> IF a \in P \cup L THEN "abandoned" ELSE attStatus[a]]
      /\ UNCHANGED <<job, paused>> /\ P \in SUBSET Pending /\ L \in SUBSET Leased
  BY DEF Loses, Teardown, TeardownSteps
<1>2. Requeued(P) = StepsOf(P) /\ Requeued(L) = StepsOf(L)
  BY LiveFacts DEF Requeued, StepsOf
<1>3. /\ StepsOf(L) \in SUBSET Lifecycle!In("running")
      /\ StepsOf(P) \in SUBSET Lifecycle!In("stopping")
  BY <1>1, StepsInPhase
<1>4. ASSUME NEW s \in Steps
      PROVE  /\ Phase'[s] = IF s \in StepsOf(L) THEN "queued"
                            ELSE IF s \in StepsOf(P) THEN "cancelled" ELSE Phase[s]
             /\ Holder'[s] = IF s \in StepsOf(L) \cup StepsOf(P) THEN NoDevice ELSE Holder[s]
  <2>0. ViewOf(s)'
    BY DEF View
  <2>1. ~(s \in StepsOf(L) /\ s \in StepsOf(P))
    BY <1>3 DEF Lifecycle!In
  <2>2. CASE s \in StepsOf(L) \/ s \in StepsOf(P)
    BY <1>1, <1>2, <2>0, <2>1, <2>2 DEF ViewOf
  <2>3. CASE s \notin StepsOf(L) /\ s \notin StepsOf(P)
    <3>1. \A a \in Live : job[a].step = s => a \notin P \cup L
      BY <2>3 DEF StepsOf
    <3>2. \A a \in Live : job[a].step = s => attStatus'[a] = attStatus[a] /\ job'[a] = job[a]
      BY <1>1, <3>1 DEF Live
    <3> QED
      BY <1>1, <1>2, <2>3, <3>2, ViewKept
  <2> QED
    BY <2>2, <2>3
<1>5. Lifecycle!Lose(StepsOf(L), StepsOf(P))
  BY <1>1, <1>4 DEF Lifecycle!Lose, View
<1> QED
  BY <1>3, <1>5 DEF LifecycleStep, Lifecycle!Next

\* Inserting a step is a step of the lifecycle.
LEMMA InsertImplements ==
  ASSUME IInv, View, View', NEW s \in Steps, Inserts(s)
  PROVE  LifecycleStep
<1>1. /\ stepStatus[s] = "absent"
      /\ stepStatus' = [stepStatus EXCEPT ![s] = "queued"]
      /\ UNCHANGED <<attStatus, job, paused>>
  BY DEF Inserts, InsertStep
<1>2. ViewOf(s) /\ ViewOf(s)' /\ stepStatus'[s] = "queued"
  BY <1>1 DEF View, IInv, TypeOK
<1>3. Phase[s] = "absent" /\ Phase'[s] = "queued" /\ Holder'[s] = NoDevice
  BY <1>1, <1>2 DEF ViewOf
<1>4. \A t \in Steps : t # s => Phase'[t] = Phase[t] /\ Holder'[t] = Holder[t]
  BY <1>1, ViewKept DEF IInv, TypeOK
<1>5. Lifecycle!Submit(s)
  BY <1>1, <1>3, <1>4 DEF Lifecycle!Submit, Lifecycle!Release, View
<1> QED
  BY <1>5 DEF LifecycleStep, Lifecycle!Next

\* A request asks running steps to stop and ends waiting ones.
LEMMA RequestImplements ==
  ASSUME IInv, View, View', NEW Q \in SUBSET Steps, NEW A \in SUBSET Live, Asks(Q, A)
  PROVE  LifecycleStep
<1>1. /\ stepStatus' = [s \in Steps |-> IF s \in Q THEN "cancelled" ELSE stepStatus[s]]
      /\ attStatus' = [a \in Attempts |->
           IF a \in A THEN "cancellation_pending" ELSE attStatus[a]]
      /\ UNCHANGED job /\ A \in SUBSET Leased /\ \A s \in Q : stepStatus[s] = "queued"
      /\ paused' \in {paused, TRUE}
  BY DEF Asks, RequestCancellations
<1>2. StepsOf(A) \in SUBSET Lifecycle!In("running")
  BY <1>1, StepsInPhase
<1>3. \A s \in Q : Phase[s] = "queued" /\ Holder[s] = NoDevice
  BY <1>1 DEF View, ViewOf
<1>4. Q \in SUBSET Lifecycle!In("queued")
  BY <1>3 DEF Lifecycle!In
<1>5. ASSUME NEW s \in Steps
      PROVE  /\ Phase'[s] = IF s \in StepsOf(A) THEN "stopping"
                            ELSE IF s \in Q THEN "cancelled" ELSE Phase[s]
             /\ Holder'[s] = Holder[s]
  <2>0. ViewOf(s) /\ ViewOf(s)'
    BY DEF View
  <2>1. CASE s \in StepsOf(A)
    <3>1. PICK a \in A : job[a].step = s
      BY <2>1 DEF StepsOf
    <3>2. a \in Leased /\ a \in Pending' /\ job'[a] = job[a]
      BY <1>1 DEF Leased, Pending
    <3> QED
      BY <2>0, <2>1, <3>1, <3>2 DEF ViewOf
  <2>2. CASE s \in Q
    <3>1. s \notin StepsOf(A)
      BY <1>2, <1>3, <2>2 DEF Lifecycle!In
    <3> QED
      BY <1>1, <1>3, <2>0, <2>2, <3>1 DEF ViewOf
  <2>3. CASE s \notin Q /\ s \notin StepsOf(A)
    <3>1. \A a \in Live : job[a].step = s => attStatus'[a] = attStatus[a] /\ job'[a] = job[a]
      BY <1>1, <2>3 DEF StepsOf, Live
    <3> QED
      BY <1>1, <2>3, <3>1, ViewKept
  <2> QED
    BY <2>1, <2>2, <2>3
<1>6. Lifecycle!Stop(StepsOf(A), Q)
  BY <1>5 DEF Lifecycle!Stop, View
<1> QED
  BY <1>1, <1>2, <1>4, <1>6 DEF LifecycleStep, Lifecycle!Next

\* A lease is granted to a worker that holds nothing but expired leases.
LEMMA LeaseImplements ==
  ASSUME IInv, View, View',
         NEW d \in Devices, NEW a \in Attempts, NEW s \in Steps, NEW X \in SUBSET Live,
         Leases(d, a, s, X)
  PROVE  LifecycleStep
<1>1. /\ stepStatus' = [t \in Steps |->
           IF t = s THEN "leased" ELSE IF t \in Requeued(X) THEN "queued" ELSE stepStatus[t]]
      /\ attStatus' = [b \in Attempts |->
           IF b = a THEN "leased" ELSE IF b \in X THEN "expired" ELSE attStatus[b]]
      /\ X \in SUBSET Leased /\ a \notin Live /\ ~paused /\ UNCHANGED paused
      /\ stepStatus[s] = "queued" \/ s \in Requeued(X)
      /\ \A b \in Live \ X : job[b].device # d
  BY DEF Leases
<1>2. job'[a].step = s /\ job'[a].device = d /\ \A b \in Live : job'[b] = job[b]
  BY <1>1 DEF Leases, Live, IInv, TypeOK
<1>3. Requeued(X) = StepsOf(X)
  BY LiveFacts DEF Requeued, StepsOf
<1>4. StepsOf(X) \in SUBSET Lifecycle!In("running")
  BY <1>1, StepsInPhase
<1>5. s \in Lifecycle!In("queued") \cup StepsOf(X)
  BY <1>1, <1>3 DEF View, ViewOf, Lifecycle!In
<1>6. ASSUME NEW t \in Lifecycle!Holding \ StepsOf(X)
      PROVE  Holder[t] # d
  <2>1. t \in Steps /\ Phase[t] \in {"running", "stopping"}
    BY DEF Lifecycle!Holding, Lifecycle!In
  <2>2. ViewOf(t) /\ Live = Leased \cup Pending /\ stepStatus[t] \in StepStatuses
    BY <2>1 DEF View, IInv, TypeOK
  <2>3. stepStatus[t] = "leased"
    BY <2>1, <2>2 DEF ViewOf, StepStatuses, OutcomeStatus
  <2>4. PICK b \in Live : job[b].step = t
    BY <2>2, <2>3 DEF ViewOf
  <2>5. b \notin X
    BY <2>4 DEF StepsOf
  <2>6. Holder[t] = job[b].device
    BY <2>2, <2>4 DEF ViewOf
  <2> QED
    BY <1>1, <2>5, <2>6
<1>7. ASSUME NEW t \in Steps
      PROVE  /\ Phase'[t] = IF t = s THEN "running"
                            ELSE IF t \in StepsOf(X) THEN "queued" ELSE Phase[t]
             /\ Holder'[t] = IF t = s THEN d
                             ELSE IF t \in StepsOf(X) THEN NoDevice ELSE Holder[t]
  <2>0. ViewOf(t)'
    BY DEF View
  <2>1. CASE t = s
    <3>1. a \in Leased'
      BY <1>1 DEF Leased
    <3> QED
      BY <1>2, <2>0, <2>1, <3>1 DEF ViewOf
  <2>2. CASE t # s /\ t \in StepsOf(X)
    BY <1>1, <1>3, <2>0, <2>2 DEF ViewOf
  <2>3. CASE t # s /\ t \notin StepsOf(X)
    <3>1. \A b \in Live : job[b].step = t => b \notin X /\ b # a
      BY <1>1, <2>3 DEF StepsOf
    <3>2. \A b \in Live : job[b].step = t => attStatus'[b] = attStatus[b] /\ job'[b] = job[b]
      BY <1>1, <1>2, <3>1 DEF Live
    <3> QED
      BY <1>1, <1>3, <2>3, <3>2, ViewKept
  <2> QED
    BY <2>1, <2>2, <2>3
<1>8. Lifecycle!Grant(StepsOf(X), s, d)
  BY <1>1, <1>5, <1>6, <1>7 DEF Lifecycle!Grant, View
<1> QED
  BY <1>4, <1>8 DEF LifecycleStep, Lifecycle!Next

\* An attempt's end is its holder's outcome, a lost lease or a stopped step.
LEMMA EndImplements ==
  ASSUME IInv, View, View', NEW a \in Live, NEW p, NEW q, NEW e, Ends(a, p, q, e)
  PROVE  LifecycleStep
<1>0. PICK s \in Steps : s = job[a].step
  BY LiveFacts
<1>1. /\ attStatus' = [attStatus EXCEPT ![a] = p]
      /\ stepStatus' = [stepStatus EXCEPT ![s] = q]
      /\ UNCHANGED <<job, paused>> /\ EndsAs(a, p, q, e)
  BY <1>0 DEF Ends
<1>2. q # "leased"
  BY <1>1 DEF EndsAs, OutcomeStatus
<1>3. Phase'[s] = q /\ Holder'[s] = NoDevice
  <2>1. ViewOf(s)' /\ stepStatus'[s] = q
    BY <1>1, <1>2 DEF View, IInv, TypeOK
  <2> QED
    BY <1>2, <2>1 DEF ViewOf
<1>4. ASSUME NEW t \in Steps, t # s PROVE Phase'[t] = Phase[t] /\ Holder'[t] = Holder[t]
  <2>1. stepStatus'[t] = stepStatus[t]
    BY <1>1, <1>4 DEF IInv, TypeOK
  <2>2. \A b \in Live : job[b].step = t => attStatus'[b] = attStatus[b] /\ job'[b] = job[b]
    BY <1>0, <1>1, <1>4 DEF Live, IInv, TypeOK
  <2> QED
    BY <2>1, <2>2, ViewKept
<1>5. Lifecycle!Release({s}, q)
  BY <1>2, <1>3, <1>4 DEF Lifecycle!Release, View
<1>6. CASE a \in Leased /\ ~paused /\ q \in OutcomeStatus
  <2>1. Phase[s] = "running"
    BY <1>0, <1>6 DEF View, ViewOf
  <2>2. Lifecycle!Finish(s, q)
    BY <1>1, <1>5, <1>6, <2>1 DEF Lifecycle!Finish
  <2>3. q \in Lifecycle!Outcomes
    BY <1>6 DEF OutcomeStatus, Lifecycle!Outcomes
  <2> QED
    BY <1>2, <2>2, <2>3 DEF LifecycleStep, Lifecycle!Next
<1>7. CASE a \in Leased /\ q = "queued"
  <2>1. Phase[s] = "running"
    BY <1>0, <1>7 DEF View, ViewOf
  <2>2. Lifecycle!Lose({s}, {})
    BY <1>1, <1>5, <1>7 DEF Lifecycle!Lose, Lifecycle!Release
  <2>3. {s} \in SUBSET Lifecycle!In("running")
    BY <1>2, <2>1 DEF Lifecycle!In
  <2> QED
    BY <2>2, <2>3 DEF LifecycleStep, Lifecycle!Next
<1>8. CASE a \in Pending /\ q = "cancelled"
  <2>1. Phase[s] = "stopping"
    BY <1>0, <1>8 DEF View, ViewOf
  <2>2. Lifecycle!Lose({}, {s})
    BY <1>1, <1>5, <1>8 DEF Lifecycle!Lose, Lifecycle!Release
  <2>3. {s} \in SUBSET Lifecycle!In("stopping")
    BY <1>2, <2>1 DEF Lifecycle!In
  <2> QED
    BY <2>2, <2>3 DEF LifecycleStep, Lifecycle!Next
<1> QED
  BY <1>1, <1>6, <1>7, <1>8 DEF EndsAs

\* Every effect is a step of the lifecycle or a stutter.
LEMMA StepImplements ==
  ASSUME IInv, View, View', StepEffect
  PROVE  LifecycleStep
<1>1. CASE Quiet
  <2>1. UNCHANGED <<Phase, Holder>> /\ paused' \in {paused, FALSE}
    BY <1>1, SameView DEF Quiet
  <2> QED
    BY <2>1 DEF LifecycleStep, Lifecycle!Next
<1>2. ASSUME NEW d \in Devices, Connects(d) PROVE LifecycleStep
  <2>1. UNCHANGED <<Phase, Holder, paused>>
    BY <1>2, SameView DEF Connects
  <2> QED
    BY <2>1 DEF LifecycleStep
<1> QED
  BY <1>1, <1>2, LossImplements, InsertImplements, RequestImplements, LeaseImplements,
     EndImplements DEF StepEffect

\* Every transaction of the kernel is a step of StepLifecycle or leaves it
\* alone: a step has one holder, a worker holds one step, the outcome is the
\* holder's, a step asked to stop only ends cancelled, and Emergency Pause
\* lets none start and none deliver.
THEOREM LifecycleImplemented == Spec => ImplementsLifecycle
<1>1. Init => Lifecycle!Init
  <2> SUFFICES ASSUME Init PROVE Lifecycle!Init
    OBVIOUS
  <2>1. Leased = {} /\ Pending = {} /\ Live = {}
    BY DEF Init, Leased, Pending, Live, LiveStatus
  <2>2. StepsOf(Leased) = {} /\ StepsOf(Pending) = {} /\ StepsOf(Live) = {}
    BY <2>1 DEF StepsOf
  <2> QED
    BY <2>2 DEF Init, Lifecycle!Init, Phase, Holder
<1>2. IInv /\ IInv' /\ [Next]_vars => [Lifecycle!Next]_<<Phase, Holder, paused>>
  BY ViewHolds, ViewHoldsNext, Effects, StepImplements DEF LifecycleStep
<1> QED
  BY <1>1, <1>2, Invariance, PTL
     DEF Spec, ImplementsLifecycle, Lifecycle!Spec, Lifecycle!lifecycleVars
=============================================================================
