------------------------- MODULE StepKernel_proofs --------------------------
(***************************************************************************)
(* Proofs about StepKernel, for every set of devices, steps and attempts   *)
(* and every value of the limits, durations and bounds.                    *)
(***************************************************************************)
EXTENDS StepKernel, TLAPS

\* A handed-out attempt has the job it was leased with.
JobsKnown == \A a \in Attempts : attStatus[a] # "none" => job[a] \in Jobs

\* The inductive invariant.
IInv ==
  /\ TypeOK
  /\ JobsKnown
  /\ LiveAttemptsOnActiveConnection
  /\ StepLeasedIffLiveAttempt
  /\ OneAttemptPerDevice

USE ConstantsAssumption DEF CodingCap, RemoteCaps

\* An empty database satisfies the invariant.
LEMMA InitEstablishes == Init => IInv
<1> SUFFICES ASSUME Init PROVE IInv
  OBVIOUS
<1>1. TypeOK
  BY DEF Init, TypeOK, Connections, StepStatuses, AttemptStatuses, LiveStatus,
         OutcomeStatus, Cancellations, NoCancellation, StepEvents,
         StepEventKinds, Unowned
<1>2. Live = {}
  BY DEF Init, Live, LiveStatus
<1>3. JobsKnown
  BY DEF Init, JobsKnown
<1>4. StepLeasedIffLiveAttempt
  BY <1>2 DEF Init, StepLeasedIffLiveAttempt, StepsOf
<1> QED
  BY <1>1, <1>2, <1>3, <1>4
     DEF IInv, LiveAttemptsOnActiveConnection, OneAttemptPerDevice

\* The facts about one live attempt, drawn from the invariant.
LEMMA LiveFacts ==
  ASSUME IInv, NEW a \in Live
  PROVE  /\ a \in Attempts
         /\ job[a] \in Jobs
         /\ job[a].step \in Steps /\ job[a].device \in Devices
         /\ conn[job[a].device].active
         /\ conn[job[a].device].epoch = job[a].epoch
         /\ stepStatus[job[a].step] = "leased"
  BY DEF IInv, Live, LiveStatus, JobsKnown, Jobs, LiveAttemptsOnActiveConnection,
         OnItsConnection, StepLeasedIffLiveAttempt, StepsOf, TypeOK

\* Setting the active flag, field by field.
LEMMA ActiveField ==
  ASSUME NEW c \in Connections, NEW x
  PROVE  [c EXCEPT !.active = x] = [epoch |-> c.epoch, active |-> x, seq |-> c.seq]
  BY DEF Connections

\* Disconnecting or counting a message gives a connection row again.
LEMMA ConnectionRecords ==
  ASSUME NEW c \in Connections, NEW n \in Nat
  PROVE  /\ [c EXCEPT !.active = FALSE] \in Connections
         /\ [c EXCEPT !.seq = n] \in Connections
<1>1. /\ c = [epoch |-> c.epoch, active |-> c.active, seq |-> c.seq]
      /\ c.epoch \in Nat /\ c.active \in BOOLEAN /\ c.seq \in Nat
  BY Zenon DEF Connections
<1>2. [c EXCEPT !.active = FALSE] = [epoch |-> c.epoch, active |-> FALSE, seq |-> c.seq]
  BY ActiveField, Zenon
<1>3. [c EXCEPT !.seq = n] = [epoch |-> c.epoch, active |-> c.active, seq |-> n]
  BY <1>1
<1>4. FALSE \in BOOLEAN
  OBVIOUS
<1> QED
  BY <1>1, <1>2, <1>3, <1>4, Zenon DEF Connections

\* Tearing down attempts and connections keeps the types.
LEMMA TeardownTypes ==
  ASSUME IInv, NEW P \in SUBSET Pending, NEW L \in SUBSET Leased,
         NEW D \in SUBSET Devices, Teardown(P, L, D)
  PROVE  /\ attStatus' \in [Attempts -> AttemptStatuses]
         /\ stepStatus' \in [Steps -> StepStatuses]
         /\ stepEvent' \in [Steps -> StepEvents]
         /\ conn' \in [Devices -> Connections]
         /\ deviceEvent' \in [Devices -> {"none", "DeviceConnected", "DeviceDisconnected"}]
<1>1. attStatus' \in [Attempts -> AttemptStatuses]
  BY DEF IInv, TypeOK, Teardown, AttemptStatuses
<1>2. stepStatus' \in [Steps -> StepStatuses]
  BY DEF IInv, TypeOK, Teardown, TeardownSteps, StepStatuses, OutcomeStatus
<1>3. stepEvent' \in [Steps -> StepEvents]
  <2>1. Unowned("StepCancelled") \in StepEvents /\ Unowned("StepQueued") \in StepEvents
    BY DEF Unowned, StepEvents, StepEventKinds
  <2> QED
    BY <2>1 DEF IInv, TypeOK, Teardown, TeardownEvents
<1>4. conn' \in [Devices -> Connections]
  BY ConnectionRecords DEF IInv, TypeOK, Teardown
<1>5. deviceEvent' \in [Devices -> {"none", "DeviceConnected", "DeviceDisconnected"}]
  BY DEF IInv, TypeOK, Teardown
<1> QED
  BY <1>1, <1>2, <1>3, <1>4, <1>5

\* Nearly every operation only ends attempts: the step of each attempt that is
\* gone leaves the leased state, and the others keep their connection.
LEMMA Shrink ==
  ASSUME IInv, TypeOK', JobsKnown',
         NEW gone \in SUBSET Live,
         Live' = Live \ gone,
         \A a \in Live \ gone : job'[a] = job[a],
         \A a \in Live \ gone : OnItsConnection(a)',
         \A s \in Steps : stepStatus'[s] = "leased"
                           <=> stepStatus[s] = "leased" /\ s \notin StepsOf(gone)
  PROVE  IInv'
<1>1. LiveAttemptsOnActiveConnection'
  BY DEF LiveAttemptsOnActiveConnection
<1>2. OneAttemptPerDevice'
  BY DEF OneAttemptPerDevice, IInv
<1>3. \A a, b \in Live' : job'[a].step = job'[b].step => a = b
  BY DEF IInv, StepLeasedIffLiveAttempt
<1>4. ASSUME NEW s \in Steps
      PROVE  stepStatus'[s] = "leased" <=> s \in StepsOf(Live)'
  <2>0. s \in StepsOf(Live)' <=> \E a \in Live' : job'[a].step = s
    BY Zenon DEF StepsOf
  <2>1. s \in StepsOf(Live)' <=> \E a \in Live \ gone : job[a].step = s
    BY <2>0
  <2>2. stepStatus[s] = "leased" <=> \E a \in Live : job[a].step = s
    BY DEF IInv, StepLeasedIffLiveAttempt, StepsOf
  <2>3. s \in StepsOf(gone) <=> \E a \in gone : job[a].step = s
    BY DEF StepsOf
  <2> QED
    BY <2>1, <2>2, <2>3 DEF IInv, StepLeasedIffLiveAttempt
<1> QED
  BY <1>1, <1>2, <1>3, <1>4 DEF IInv, StepLeasedIffLiveAttempt

\* Tearing down attempts and connections preserves the invariant.
LEMMA TeardownPreserves ==
  ASSUME IInv, TypeOK', UNCHANGED job,
         NEW P \in SUBSET Pending, NEW L \in SUBSET Leased, NEW D \in SUBSET Devices,
         \A a \in Live : job[a].device \in D => a \in P \cup L,
         Teardown(P, L, D)
  PROVE  IInv'
<1>1. P \cup L \in SUBSET Live
  BY DEF Live, Leased, Pending, LiveStatus
<1>2. Live' = Live \ (P \cup L)
  BY <1>1 DEF Teardown, Live, LiveStatus
<1>3. JobsKnown'
  BY <1>1, LiveFacts DEF IInv, JobsKnown, Teardown, Live, LiveStatus, TypeOK
<1>4. \A a \in Live \ (P \cup L) : OnItsConnection(a)'
  BY LiveFacts DEF Teardown, OnItsConnection
<1>5. ASSUME NEW s \in Steps
      PROVE  stepStatus'[s] = "leased"
             <=> stepStatus[s] = "leased" /\ s \notin StepsOf(P \cup L)
  <2>1. s \in StepsOf(P \cup L) <=> s \in StepsOf(P) \/ s \in StepsOf(L)
    BY DEF StepsOf
  <2> QED
    BY <2>1 DEF Teardown, TeardownSteps, Requeued
<1> QED
  BY <1>1, <1>2, <1>3, <1>4, <1>5, Shrink

\* Closing connections ends every attempt on them.
LEMMA DisconnectPreserves ==
  ASSUME IInv, TypeOK', UNCHANGED job, NEW D \in SUBSET Devices, DisconnectDevices(D)
  PROVE  IInv'
<1>1. \A a \in Live : job[a].device \in D
                     => a \in HeldBy(D, Pending) \cup HeldBy(D, Leased)
  BY DEF HeldBy, IInv, LiveAttemptsOnActiveConnection, Live, Leased, Pending, LiveStatus
<1>2. HeldBy(D, Pending) \in SUBSET Pending /\ HeldBy(D, Leased) \in SUBSET Leased
  BY DEF HeldBy
<1> QED
  BY <1>1, <1>2, TeardownPreserves DEF DisconnectDevices

\* Disconnecting devices keeps the types.
LEMMA DisconnectTypes ==
  ASSUME IInv, NEW D \in SUBSET Devices, DisconnectDevices(D)
  PROVE  /\ attStatus' \in [Attempts -> AttemptStatuses]
         /\ stepStatus' \in [Steps -> StepStatuses]
         /\ stepEvent' \in [Steps -> StepEvents]
         /\ conn' \in [Devices -> Connections]
         /\ deviceEvent' \in [Devices -> {"none", "DeviceConnected", "DeviceDisconnected"}]
<1>1. HeldBy(D, Pending) \in SUBSET Pending /\ HeldBy(D, Leased) \in SUBSET Leased
  BY DEF HeldBy
<1> QED
  BY <1>1, TeardownTypes DEF DisconnectDevices

\* A step that changes nothing the invariant reads preserves it.
LEMMA StutterPreserves ==
  ASSUME IInv, TypeOK', UNCHANGED <<attStatus, job, conn, stepStatus>>
  PROVE  IInv'
  BY DEF IInv, JobsKnown, LiveAttemptsOnActiveConnection, StepLeasedIffLiveAttempt,
         OneAttemptPerDevice, Live, StepsOf, OnItsConnection

-----------------------------------------------------------------------------
(* Devices and connections *)

\* Register preserves the invariant.
LEMMA RegisterPreserves ==
  ASSUME IInv, NEW d \in Devices, RegisterDevice(d)
  PROVE  IInv'
<1>1. TypeOK'
  BY DEF IInv, TypeOK, RegisterDevice, stepVars, attemptVars, hostVars
<1> QED
  BY <1>1, StutterPreserves DEF RegisterDevice, stepVars, attemptVars

\* Revoke preserves the invariant.
LEMMA RevokePreserves ==
  ASSUME IInv, NEW d \in Devices, RevokeDevice(d)
  PROVE  IInv'
<1> DEFINE D == {x \in {d} : conn[x].active}
<1>1. D \in SUBSET Devices /\ DisconnectDevices(D)
  BY DEF RevokeDevice
<1> HIDE DEF D
<1>2. TypeOK'
  <2>1. registry' \in [Devices -> {"absent", "enrolled", "revoked"}]
    BY DEF IInv, TypeOK, RevokeDevice
  <2>2. bound' \in SUBSET Steps
    BY DEF IInv, TypeOK, RevokeDevice
  <2>3. UNCHANGED <<lastEpoch, createdAt, target, job, cancel, artifact, paused, now, timers>>
    BY DEF RevokeDevice, hostVars
  <2> QED
    BY <1>1, <2>1, <2>2, <2>3, DisconnectTypes DEF IInv, TypeOK
<1>3. UNCHANGED job
  BY DEF RevokeDevice
<1> QED
  BY <1>1, <1>2, <1>3, DisconnectPreserves

\* Handshake preserves the invariant.
LEMMA HandshakePreserves ==
  ASSUME IInv, NEW d \in Devices, AcceptHandshake(d)
  PROVE  IInv'
<1>1. conn' \in [Devices -> Connections]
  <2>1. [epoch |-> lastEpoch + 1, active |-> TRUE, seq |-> 0] \in Connections
    <3>1. lastEpoch + 1 \in Nat /\ 0 \in Nat
      BY DEF IInv, TypeOK
    <3> QED
      BY <3>1, Zenon DEF Connections
  <2> QED
    BY <2>1 DEF IInv, TypeOK, AcceptHandshake
<1>2. TypeOK'
  BY <1>1 DEF IInv, TypeOK, AcceptHandshake, stepVars, attemptVars, hostVars
<1>3. UNCHANGED <<attStatus, job, stepStatus>> /\ ~conn[d].active
  BY DEF AcceptHandshake, stepVars, attemptVars
<1>4. Live' = Live \ {}
  BY <1>3 DEF Live
<1>5. \A a \in Live \ {} : OnItsConnection(a)'
  BY <1>3, LiveFacts DEF AcceptHandshake, OnItsConnection, IInv, TypeOK
<1>6. JobsKnown'
  BY <1>3 DEF IInv, JobsKnown
<1>7. \A s \in Steps : stepStatus'[s] = "leased"
                        <=> stepStatus[s] = "leased" /\ s \notin StepsOf({})
  BY <1>3 DEF StepsOf
<1> QED
  BY <1>2, <1>3, <1>4, <1>5, <1>6, <1>7, Shrink

\* DisconnectDevice preserves the invariant.
LEMMA DisconnectDevicePreserves ==
  ASSUME IInv, NEW d \in Devices, NEW epoch, DisconnectDevice(d, epoch)
  PROVE  IInv'
<1>1. {d} \in SUBSET Devices /\ DisconnectDevices({d})
  BY DEF DisconnectDevice
<1>2. UNCHANGED <<registry, lastEpoch, createdAt, target, bound, job, cancel, artifact,
                  paused, now, timers>>
  BY DEF DisconnectDevice, hostVars
<1>3. TypeOK'
  BY <1>1, <1>2, DisconnectTypes DEF IInv, TypeOK
<1> QED
  BY <1>1, <1>2, <1>3, DisconnectPreserves

-----------------------------------------------------------------------------
(* Steps *)

\* Insert preserves the invariant.
LEMMA InsertPreserves ==
  ASSUME IInv, NEW s \in Steps, InsertStep(s), UNCHANGED <<deviceVars, attemptVars, paused, hostVars>>,
         bound' \in SUBSET Steps, target' \in [Steps -> Devices \cup {NoDevice}]
  PROVE  IInv'
<1>1. UNCHANGED <<registry, conn, lastEpoch, deviceEvent, attStatus, job, cancel, artifact,
                  paused, now, timers>>
  BY DEF deviceVars, attemptVars, hostVars
<1>2. stepEvent' \in [Steps -> StepEvents]
  <2>1. Unowned("StepQueued") \in StepEvents
    BY DEF Unowned, StepEvents, StepEventKinds
  <2> QED
    BY <2>1 DEF InsertStep, IInv, TypeOK
<1>3. stepStatus' \in [Steps -> StepStatuses] /\ createdAt' \in [Steps -> Nat]
  BY DEF InsertStep, IInv, TypeOK, StepStatuses
<1>4. TypeOK'
  BY <1>1, <1>2, <1>3 DEF IInv, TypeOK
<1>5. Live' = Live \ {} /\ JobsKnown'
  BY <1>1 DEF Live, IInv, JobsKnown
<1>6. \A a \in Live \ {} : OnItsConnection(a)'
  BY <1>1, LiveFacts DEF OnItsConnection
<1>7. \A t \in Steps : stepStatus'[t] = "leased"
                        <=> stepStatus[t] = "leased" /\ t \notin StepsOf({})
  BY DEF InsertStep, StepsOf, IInv, TypeOK
<1> QED
  BY <1>1, <1>4, <1>5, <1>6, <1>7, Shrink

\* Enqueue preserves the invariant.
LEMMA EnqueuePreserves ==
  ASSUME IInv, NEW s \in Steps, EnqueueStep(s)
  PROVE  IInv'
  BY InsertPreserves DEF EnqueueStep, IInv, TypeOK

\* Dispatch preserves the invariant.
LEMMA DispatchPreserves ==
  ASSUME IInv, NEW s \in Steps, NEW d \in Devices, DispatchFeatureCoding(s, d)
  PROVE  IInv'
<1>1. bound' \in SUBSET Steps /\ target' \in [Steps -> Devices \cup {NoDevice}]
  BY DEF DispatchFeatureCoding, IInv, TypeOK
<1> QED
  BY <1>1, InsertPreserves DEF DispatchFeatureCoding

\* Lapse preserves the invariant.
LEMMA LapsePreserves ==
  ASSUME IInv, NEW S \in SUBSET bound, CodingBindingLapses(S)
  PROVE  IInv'
<1>1. TypeOK'
  BY DEF IInv, TypeOK, CodingBindingLapses, deviceVars, attemptVars, hostVars
<1> QED
  BY <1>1, StutterPreserves DEF CodingBindingLapses, deviceVars, attemptVars

-----------------------------------------------------------------------------
(* Requests to cancel *)

\* The events a request writes name attempts of A, whichever CHOOSE picks.
LEMMA RequestTypes ==
  ASSUME IInv, NEW A \in SUBSET Leased
  PROVE  /\ CancelAfterRequest(A) \in [Attempts -> Cancellations]
         /\ ConnAfterRequest(A) \in [Devices -> Connections]
         /\ \A d \in Devices : /\ ConnAfterRequest(A)[d].active = conn[d].active
                               /\ ConnAfterRequest(A)[d].epoch = conn[d].epoch
<1>1. A \in SUBSET Live
  BY DEF Live, Leased, LiveStatus
<1>2. CancelAfterRequest(A) \in [Attempts -> Cancellations]
  <2>1. \A a \in A : conn[job[a].device].seq + 1 \in Nat
    BY <1>1, LiveFacts DEF IInv, TypeOK, Connections
  <2>2. now + AckDeadline \in Nat
    BY DEF IInv, TypeOK
  <2> QED
    BY <2>1, <2>2 DEF CancelAfterRequest, Cancellations, IInv, TypeOK
<1>3. \A d \in Devices : [conn[d] EXCEPT !.seq = @ + 1] \in Connections
  <2>1. \A d \in Devices : conn[d] \in Connections /\ conn[d].seq + 1 \in Nat
    BY DEF IInv, TypeOK, Connections
  <2> QED
    BY <2>1, ConnectionRecords
<1>4. ConnAfterRequest(A) \in [Devices -> Connections]
  BY <1>3 DEF ConnAfterRequest, IInv, TypeOK
<1>5. ASSUME NEW d \in Devices
      PROVE  /\ ConnAfterRequest(A)[d].active = conn[d].active
             /\ ConnAfterRequest(A)[d].epoch = conn[d].epoch
  <2>1. conn[d] = [epoch |-> conn[d].epoch, active |-> conn[d].active, seq |-> conn[d].seq]
    BY DEF IInv, TypeOK, Connections
  <2> QED
    BY <2>1 DEF ConnAfterRequest
<1> QED
  BY <1>2, <1>4, <1>5

\* The events of a cancellation are journal events.
LEMMA EventTypes ==
  ASSUME IInv, NEW A \in SUBSET Leased, NEW Q \in SUBSET Steps, CancellationEvents(Q, A)
  PROVE  stepEvent' \in [Steps -> StepEvents]
<1>1. A \in SUBSET Live
  BY DEF Live, Leased, LiveStatus
<1>2. Unowned("StepCancelled") \in StepEvents
  BY DEF Unowned, StepEvents, StepEventKinds
<1>3. \A a \in A : OwnedBy("StepCancellationRequested", a) \in StepEvents
  BY <1>1, LiveFacts DEF OwnedBy, StepEvents, StepEventKinds, Jobs
<1>4. ASSUME NEW s \in StepsOf(A)
      PROVE  (CHOOSE a \in A : job[a].step = s) \in A
  BY DEF StepsOf
<1> QED
  BY <1>2, <1>3, <1>4 DEF CancellationEvents, IInv, TypeOK

\* A request ends no attempt.
LEMMA RequestKeepsLive ==
  ASSUME IInv, NEW A \in SUBSET Leased, UNCHANGED job, RequestCancellations(A)
  PROVE  /\ attStatus' \in [Attempts -> AttemptStatuses]
         /\ Live' = Live \ {}
         /\ JobsKnown'
         /\ \A a \in Live \ {} : OnItsConnection(a)'
<1>1. attStatus' \in [Attempts -> AttemptStatuses]
  BY DEF RequestCancellations, IInv, TypeOK, AttemptStatuses, LiveStatus
<1>2. A \in SUBSET Live
  BY DEF Live, Leased, LiveStatus
<1>3. Live' = Live \ {}
  BY <1>2 DEF RequestCancellations, Live, LiveStatus
<1>4. JobsKnown'
  BY <1>2, LiveFacts DEF IInv, JobsKnown, RequestCancellations, TypeOK
<1>5. \A a \in Live \ {} : OnItsConnection(a)'
  BY LiveFacts, RequestTypes DEF RequestCancellations, OnItsConnection
<1> QED
  BY <1>1, <1>3, <1>4, <1>5

\* CancelFeature preserves the invariant.
LEMMA CancelFeaturePreserves ==
  ASSUME IInv, NEW S \in SUBSET Steps, CancelFeatureCoding(S)
  PROVE  IInv'
<1> DEFINE A == {a \in Leased : job[a].step \in S}
           Q == {s \in S : stepStatus[s] = "queued"}
<1>1. A \in SUBSET Leased /\ Q \in SUBSET Steps
  OBVIOUS
<1>2. /\ RequestCancellations(A) /\ CancellationEvents(Q, A) /\ bound' = {}
      /\ stepStatus' = [s \in Steps |-> IF s \in Q THEN "cancelled" ELSE stepStatus[s]]
      /\ UNCHANGED <<createdAt, target, registry, lastEpoch, deviceEvent, job,
                     artifact, paused, now, timers>>
  BY DEF CancelFeatureCoding, hostVars
<1>3. \A s \in Q : stepStatus[s] = "queued"
  OBVIOUS
<1> HIDE DEF A, Q
<1>4. stepStatus' \in [Steps -> StepStatuses]
  BY <1>2 DEF IInv, TypeOK, StepStatuses, OutcomeStatus
<1>5. TypeOK'
  BY <1>1, <1>2, <1>4, RequestTypes, EventTypes, RequestKeepsLive
     DEF IInv, TypeOK, RequestCancellations
<1>6. \A s \in Steps : stepStatus'[s] = "leased"
                        <=> stepStatus[s] = "leased" /\ s \notin StepsOf({})
  BY <1>2, <1>3 DEF StepsOf
<1> QED
  BY <1>1, <1>2, <1>5, <1>6, RequestKeepsLive, Shrink

\* CancelStep preserves the invariant.
LEMMA CancelStepPreserves ==
  ASSUME IInv, NEW s \in Steps, CancelStep(s)
  PROVE  IInv'
<1>1. /\ timers' \in SUBSET Nat
      /\ UNCHANGED <<registry, lastEpoch, deviceEvent, createdAt, target, bound,
                     job, artifact, paused, now>>
  BY DEF CancelStep, ScheduleReconciliation, IInv, TypeOK
<1>2. CASE /\ CancelsAtOnce(s)
           /\ stepStatus' = [stepStatus EXCEPT ![s] = "cancelled"]
           /\ stepEvent' = [stepEvent EXCEPT ![s] = Unowned("StepCancelled")]
           /\ UNCHANGED <<attStatus, cancel, conn>>
  <2>1. Unowned("StepCancelled") \in StepEvents
    BY DEF Unowned, StepEvents, StepEventKinds
  <2>2. TypeOK'
    BY <1>1, <1>2, <2>1 DEF IInv, TypeOK, StepStatuses, OutcomeStatus
  <2>3. Live' = Live \ {} /\ JobsKnown'
    BY <1>1, <1>2 DEF Live, IInv, JobsKnown
  <2>4. \A a \in Live \ {} : OnItsConnection(a)'
    BY <1>1, <1>2, LiveFacts DEF OnItsConnection
  <2>5. \A t \in Steps : stepStatus'[t] = "leased"
                          <=> stepStatus[t] = "leased" /\ t \notin StepsOf({})
    BY <1>2 DEF StepsOf, IInv, TypeOK, CancelsAtOnce
  <2> QED
    BY <1>1, <2>2, <2>3, <2>4, <2>5, Shrink
<1>3. CASE \E a \in Leased : /\ RequestCancellations({a})
                              /\ CancellationEvents({}, {a})
                              /\ UNCHANGED stepStatus
  <2>1. PICK a \in Leased : /\ RequestCancellations({a})
                             /\ CancellationEvents({}, {a})
                             /\ UNCHANGED stepStatus
    BY <1>3
  <2>2. {a} \in SUBSET Leased /\ {} \in SUBSET Steps
    OBVIOUS
  <2>3. TypeOK'
    BY <1>1, <2>1, <2>2, RequestTypes, EventTypes, RequestKeepsLive
       DEF IInv, TypeOK, RequestCancellations
  <2>4. \A t \in Steps : stepStatus'[t] = "leased"
                          <=> stepStatus[t] = "leased" /\ t \notin StepsOf({})
    BY <2>1 DEF StepsOf
  <2> QED
    BY <1>1, <2>1, <2>2, <2>3, <2>4, RequestKeepsLive, Shrink
<1> QED
  BY <1>2, <1>3 DEF CancelStep

-----------------------------------------------------------------------------
(* Leases *)

\* The one operation that adds a live attempt.  The device has none left
\* besides expired ones, because those it has are all on its connection.
LEMMA LeasePreserves ==
  ASSUME IInv, NEW d \in Devices, NEW a \in Attempts, LeaseNextStep(d, a)
  PROVE  IInv'
<1> DEFINE X == ExpiredLeases
           j(s) == [step |-> s, device |-> d, epoch |-> conn[d].epoch,
                    seq |-> conn[d].seq + 1, expires |-> now + LeaseDuration]
<1>0. Requeued(X) \in SUBSET Steps
  <2>1. X \in SUBSET Live
    BY DEF ExpiredLeases, Leased, Live, LiveStatus
  <2> QED
    BY <2>1, LiveFacts DEF Requeued, StepsOf
<1> DEFINE queue == {s \in Steps : stepStatus[s] = "queued"} \cup Requeued(X)
           leased(s) ==
             /\ job' = [job EXCEPT ![a] = j(s)]
             /\ attStatus' = [b \in Attempts |->
                  IF b = a THEN "leased" ELSE IF b \in X THEN "expired" ELSE attStatus[b]]
             /\ stepStatus' = [t \in Steps |->
                  IF t = s THEN "leased" ELSE IF t \in Requeued(X) THEN "queued" ELSE stepStatus[t]]
             /\ stepEvent' = [t \in Steps |->
                  IF t = s THEN [kind |-> "StepLeased", device |-> d, epoch |-> conn[d].epoch]
                  ELSE IF t \in Requeued(X) THEN Unowned("StepQueued") ELSE stepEvent[t]]
             /\ conn' = [conn EXCEPT ![d].seq = @ + 1]
<1>1. PICK s \in Steps : (stepStatus[s] = "queued" \/ s \in Requeued(X)) /\ leased(s)
  <2>1. \E s \in {t \in queue : Eligible(d, t)} : leased(s)
    BY Zenon DEF LeaseNextStep
  <2> HIDE DEF leased
  <2> QED
    BY <1>0, <2>1
<1>2. /\ conn[d].active /\ DeviceLeases(d) \subseteq X /\ attStatus[a] = "none"
      /\ UNCHANGED <<registry, lastEpoch, deviceEvent, createdAt, target, bound,
                     cancel, artifact, paused, now, timers>>
  BY DEF LeaseNextStep, hostVars
<1>3. X \in SUBSET Leased /\ X \in SUBSET Live /\ a \notin Live
  BY <1>2 DEF ExpiredLeases, Leased, Live, LiveStatus
<1> HIDE DEF X
<1>4. conn[d] = [epoch |-> conn[d].epoch, active |-> conn[d].active, seq |-> conn[d].seq]
      /\ conn[d].epoch \in Nat /\ conn[d].seq + 1 \in Nat /\ conn[d] \in Connections
  BY DEF IInv, TypeOK, Connections
<1>5. j(s) \in Jobs
  BY <1>4 DEF Jobs, IInv, TypeOK
<1>6. conn' \in [Devices -> Connections]
  <2>1. [conn[d] EXCEPT !.seq = @ + 1] \in Connections
    BY <1>4, ConnectionRecords
  <2> QED
    BY <1>1, <2>1 DEF IInv, TypeOK
<1>7. stepEvent' \in [Steps -> StepEvents]
  <2>1. /\ [kind |-> "StepLeased", device |-> d, epoch |-> conn[d].epoch] \in StepEvents
        /\ Unowned("StepQueued") \in StepEvents
    BY <1>4 DEF Unowned, StepEvents, StepEventKinds
  <2> QED
    BY <1>1, <2>1 DEF IInv, TypeOK
<1>8. attStatus' \in [Attempts -> AttemptStatuses] /\ stepStatus' \in [Steps -> StepStatuses]
  BY <1>1 DEF IInv, TypeOK, AttemptStatuses, StepStatuses, LiveStatus
<1>9. job' \in [Attempts -> Jobs \cup {NoJob}]
  BY <1>1, <1>5 DEF IInv, TypeOK
<1>10. TypeOK'
  BY <1>2, <1>6, <1>7, <1>8, <1>9 DEF IInv, TypeOK
<1>11. Live' = (Live \ X) \cup {a}
  BY <1>1, <1>3 DEF Live, LiveStatus
<1>12. job'[a] = j(s) /\ \A b \in Live \ X : job'[b] = job[b] /\ b # a
  BY <1>1, <1>3 DEF IInv, TypeOK, Live
<1>13. JobsKnown'
  <2> SUFFICES ASSUME NEW b \in Attempts, attStatus'[b] # "none"
               PROVE  job'[b] \in Jobs
    BY DEF JobsKnown
  <2>1. CASE b = a
    BY <2>1, <1>12, <1>5
  <2>2. CASE b # a
    <3>1. attStatus[b] # "none"
      BY <2>2, <1>1, <1>3 DEF Leased
    <3> QED
      BY <2>2, <3>1, <1>1 DEF IInv, JobsKnown, TypeOK
  <2> QED
    BY <2>1, <2>2
<1>14. \A b \in Live \ X : job[b].device # d
  <2> SUFFICES ASSUME NEW b \in Live \ X, job[b].device = d PROVE FALSE
    OBVIOUS
  <2>1. b \in DeviceLeases(d)
    BY LiveFacts DEF DeviceLeases, HeldBy, OnItsConnection
  <2> QED
    BY <2>1, <1>2
<1>15. conn'[d].active = conn[d].active /\ conn'[d].epoch = conn[d].epoch
  BY <1>1, <1>4 DEF IInv, TypeOK
<1>16. LiveAttemptsOnActiveConnection'
  <2>1. \A b \in Live \ X : OnItsConnection(b)'
    BY <1>1, <1>12, <1>14, LiveFacts DEF OnItsConnection, IInv, TypeOK
  <2>2. OnItsConnection(a)'
    <3>1. job'[a].device = d /\ job'[a].epoch = conn[d].epoch
      BY <1>12
    <3> QED
      BY <3>1, <1>2, <1>15, Zenon DEF OnItsConnection
  <2> QED
    BY <2>1, <2>2, <1>11 DEF LiveAttemptsOnActiveConnection
<1>17. OneAttemptPerDevice'
  BY <1>11, <1>12, <1>14 DEF OneAttemptPerDevice, IInv
<1>18. \A t \in Steps : t \in Requeued(X) <=> \E b \in X : job[b].step = t
  BY <1>3, LiveFacts DEF Requeued, StepsOf
<1>19. \A t \in Steps : stepStatus[t] = "leased" <=> \E b \in Live : job[b].step = t
  BY DEF IInv, StepLeasedIffLiveAttempt, StepsOf
<1>20. \A b, c \in Live : job[b].step = job[c].step => b = c
  BY DEF IInv, StepLeasedIffLiveAttempt
<1>21. \A b \in Live \ X : job[b].step # s
  BY <1>1, <1>3, <1>18, <1>19, <1>20, LiveFacts
<1>22. ASSUME NEW t \in Steps
       PROVE  stepStatus'[t] = "leased" <=> \E b \in Live' : job'[b].step = t
  <2>1. CASE t = s
    BY <2>1, <1>1, <1>11, <1>12
  <2>2. CASE t # s
    <3>1. (\E b \in Live' : job'[b].step = t) <=> \E b \in Live \ X : job[b].step = t
      BY <2>2, <1>11, <1>12
    <3>2. stepStatus'[t] = "leased" <=> stepStatus[t] = "leased" /\ t \notin Requeued(X)
      BY <2>2, <1>1
    <3> QED
      BY <3>1, <3>2, <1>3, <1>18, <1>19, <1>20
  <2> QED
    BY <2>1, <2>2
<1>23. \A b, c \in Live' : job'[b].step = job'[c].step => b = c
  BY <1>11, <1>12, <1>20, <1>21
<1>24. StepLeasedIffLiveAttempt'
  <2>1. \A t : t \in StepsOf(Live)' <=> \E b \in Live' : job'[b].step = t
    BY Zenon DEF StepsOf
  <2> QED
    BY <2>1, <1>22, <1>23 DEF StepLeasedIffLiveAttempt
<1> QED
  BY <1>10, <1>13, <1>16, <1>17, <1>24 DEF IInv

\* Artifact preserves the invariant.
LEMMA ArtifactPreserves ==
  ASSUME IInv, NEW a \in Attempts, NEW seq \in Nat, AdmitResultArtifact(a, seq)
  PROVE  IInv'
<1>1. TypeOK'
  BY DEF IInv, TypeOK, AdmitResultArtifact, deviceVars, stepVars, hostVars
<1> QED
  BY <1>1, StutterPreserves DEF AdmitResultArtifact, deviceVars, stepVars

-----------------------------------------------------------------------------
(* Results, acknowledgements and deadlines *)

\* One live attempt ends and its step leaves the leased state for status q.
LEMMA EndOneAttempt ==
  ASSUME IInv, TypeOK', NEW a \in Live, UNCHANGED job,
         NEW p \in OutcomeStatus \cup {"expired"},
         NEW q \in {"queued"} \cup OutcomeStatus,
         attStatus' = [attStatus EXCEPT ![a] = p],
         stepStatus' = [stepStatus EXCEPT ![job[a].step] = q],
         \A d \in Devices : conn'[d].active = conn[d].active /\ conn'[d].epoch = conn[d].epoch
  PROVE  IInv'
<1>1. job[a].step \in Steps /\ a \in Attempts
  BY LiveFacts
<1>2. {a} \in SUBSET Live /\ Live' = Live \ {a}
  BY <1>1 DEF Live, LiveStatus, OutcomeStatus, IInv, TypeOK
<1>3. JobsKnown'
  BY <1>1, LiveFacts DEF IInv, JobsKnown, TypeOK
<1>4. \A b \in Live \ {a} : OnItsConnection(b)'
  BY LiveFacts DEF OnItsConnection
<1>5. \A s \in Steps : stepStatus'[s] = "leased"
                        <=> stepStatus[s] = "leased" /\ s \notin StepsOf({a})
  <2>1. \A s : s \in StepsOf({a}) <=> s = job[a].step
    BY DEF StepsOf
  <2> QED
    BY <1>1, <2>1 DEF IInv, TypeOK, OutcomeStatus
<1> QED
  BY <1>2, <1>3, <1>4, <1>5, Shrink

\* Taking a sequence number leaves the connection's epoch and state alone.
LEMMA SequenceTypes ==
  ASSUME IInv, NEW d \in Devices, NEW n \in Nat, conn' = [conn EXCEPT ![d].seq = n]
  PROVE  /\ conn' \in [Devices -> Connections]
         /\ \A x \in Devices : conn'[x].active = conn[x].active /\ conn'[x].epoch = conn[x].epoch
<1>1. conn[d] \in Connections /\ [conn[d] EXCEPT !.seq = n] \in Connections
  BY ConnectionRecords DEF IInv, TypeOK
<1>2. conn' \in [Devices -> Connections]
  BY <1>1 DEF IInv, TypeOK
<1>3. conn[d] = [epoch |-> conn[d].epoch, active |-> conn[d].active, seq |-> conn[d].seq]
  BY <1>1 DEF Connections
<1>4. \A x \in Devices : conn'[x].active = conn[x].active /\ conn'[x].epoch = conn[x].epoch
  BY <1>3 DEF IInv, TypeOK
<1> QED
  BY <1>2, <1>4

\* An attempt's step is the only one that Requeued({a}) can hold.
LEMMA RequeueOne ==
  ASSUME IInv, NEW a \in Live
  PROVE  Requeued({a}) = {job[a].step}
  BY LiveFacts DEF Requeued, StepsOf

\* Result preserves the invariant.
LEMMA ResultPreserves ==
  ASSUME IInv, NEW a \in Attempts, NEW seq \in Nat, NEW outcome \in OutcomeStatus,
         AcceptResult(a, seq, outcome)
  PROVE  IInv'
<1>1. a \in Live
  BY DEF AcceptResult, ResultMatchesJob, Leased, Live, LiveStatus
<1>2. job[a] \in Jobs /\ job[a].step \in Steps /\ job[a].device \in Devices
  BY <1>1, LiveFacts
<1>3. /\ attStatus' = [attStatus EXCEPT ![a] = outcome]
      /\ stepStatus' = [stepStatus EXCEPT ![job[a].step] = outcome]
      /\ stepEvent' = [stepEvent EXCEPT ![job[a].step] = OutcomeEvent(a, outcome)]
      /\ conn' = [conn EXCEPT ![job[a].device].seq = seq]
      /\ UNCHANGED <<registry, lastEpoch, deviceEvent, createdAt, target, bound,
                     job, cancel, artifact, paused, now, timers>>
  BY DEF AcceptResult, hostVars
<1>4. OutcomeEvent(a, outcome) \in StepEvents
  <2>1. /\ OwnedBy("StepSucceeded", a) \in StepEvents /\ OwnedBy("StepFailed", a) \in StepEvents
        /\ Unowned("StepCancelled") \in StepEvents
    BY <1>2 DEF OwnedBy, Unowned, StepEvents, StepEventKinds, Jobs
  <2> QED
    BY <2>1 DEF OutcomeEvent, OutcomeStatus
<1>5. TypeOK'
  <2>1. stepEvent' \in [Steps -> StepEvents]
    BY <1>2, <1>3, <1>4 DEF IInv, TypeOK
  <2>2. attStatus' \in [Attempts -> AttemptStatuses] /\ stepStatus' \in [Steps -> StepStatuses]
    BY <1>2, <1>3 DEF IInv, TypeOK, AttemptStatuses, StepStatuses, OutcomeStatus
  <2>3. conn' \in [Devices -> Connections]
    BY <1>2, <1>3, SequenceTypes
  <2> QED
    BY <1>3, <2>1, <2>2, <2>3 DEF IInv, TypeOK
<1> QED
  BY <1>1, <1>2, <1>3, <1>5, SequenceTypes, EndOneAttempt

\* RefuseExpired preserves the invariant.
LEMMA RefuseExpiredPreserves ==
  ASSUME IInv, NEW a \in Attempts, NEW seq, NEW outcome, RefuseExpiredResult(a, seq, outcome)
  PROVE  IInv'
<1>1. a \in Live
  BY DEF RefuseExpiredResult, ResultMatchesJob, Leased, Live, LiveStatus
<1>2. job[a].step \in Steps
  BY <1>1, LiveFacts
<1>3. /\ attStatus' = [attStatus EXCEPT ![a] = "expired"]
      /\ stepStatus' = [s \in Steps |-> IF s \in {job[a].step} THEN "queued" ELSE stepStatus[s]]
      /\ stepEvent' = [s \in Steps |->
           IF s \in {job[a].step} THEN Unowned("StepQueued") ELSE stepEvent[s]]
      /\ UNCHANGED <<registry, conn, lastEpoch, deviceEvent, createdAt, target, bound,
                     job, cancel, artifact, paused, now, timers>>
  BY <1>1, RequeueOne DEF RefuseExpiredResult, deviceVars, hostVars
<1>4. stepStatus' = [stepStatus EXCEPT ![job[a].step] = "queued"]
  BY <1>2, <1>3 DEF IInv, TypeOK
<1>5. TypeOK'
  <2>1. Unowned("StepQueued") \in StepEvents
    BY DEF Unowned, StepEvents, StepEventKinds
  <2>2. stepEvent' \in [Steps -> StepEvents]
    BY <1>3, <2>1 DEF IInv, TypeOK
  <2>3. attStatus' \in [Attempts -> AttemptStatuses] /\ stepStatus' \in [Steps -> StepStatuses]
    BY <1>3 DEF IInv, TypeOK, AttemptStatuses, StepStatuses
  <2> QED
    BY <1>3, <2>2, <2>3 DEF IInv, TypeOK
<1> QED
  BY <1>1, <1>3, <1>4, <1>5, EndOneAttempt

\* Ack preserves the invariant.
LEMMA AckPreserves ==
  ASSUME IInv, NEW a \in Attempts, NEW seq \in Nat, AcceptCancellationAck(a, seq)
  PROVE  IInv'
<1>1. a \in Live
  BY DEF AcceptCancellationAck, Pending, Live, LiveStatus
<1>2. job[a].step \in Steps /\ job[a].device \in Devices
  BY <1>1, LiveFacts
<1>3. /\ attStatus' = [attStatus EXCEPT ![a] = "cancelled"]
      /\ stepStatus' = [s \in Steps |-> IF s \in {job[a].step} THEN "cancelled" ELSE stepStatus[s]]
      /\ stepEvent' = [stepEvent EXCEPT ![job[a].step] = Unowned("StepCancelled")]
      /\ conn' = [conn EXCEPT ![job[a].device].seq = seq]
      /\ UNCHANGED <<registry, lastEpoch, deviceEvent, createdAt, target, bound,
                     job, cancel, artifact, paused, now, timers>>
  BY <1>1, RequeueOne DEF AcceptCancellationAck, hostVars
<1>4. stepStatus' = [stepStatus EXCEPT ![job[a].step] = "cancelled"]
  BY <1>2, <1>3 DEF IInv, TypeOK
<1>5. TypeOK'
  <2>1. Unowned("StepCancelled") \in StepEvents
    BY DEF Unowned, StepEvents, StepEventKinds
  <2>2. stepEvent' \in [Steps -> StepEvents]
    BY <1>2, <1>3, <2>1 DEF IInv, TypeOK
  <2>3. attStatus' \in [Attempts -> AttemptStatuses] /\ stepStatus' \in [Steps -> StepStatuses]
    BY <1>3 DEF IInv, TypeOK, AttemptStatuses, StepStatuses, OutcomeStatus
  <2>4. conn' \in [Devices -> Connections]
    BY <1>2, <1>3, SequenceTypes
  <2> QED
    BY <1>3, <2>2, <2>3, <2>4 DEF IInv, TypeOK
<1>6. "cancelled" \in OutcomeStatus
  BY DEF OutcomeStatus
<1> QED
  BY <1>1, <1>2, <1>3, <1>4, <1>5, <1>6, SequenceTypes, EndOneAttempt

\* The reconciliation of overdue cancellations, whoever triggers it.
LEMMA ReconcilePreserves ==
  ASSUME IInv, ReconcileCancellationDeadlines(OverdueCancellations),
         timers' \in SUBSET Nat,
         UNCHANGED <<registry, lastEpoch, createdAt, target, bound, job, cancel,
                     artifact, paused, now>>
  PROVE  IInv'
<1>1. DevicesOf(OverdueCancellations) \in SUBSET Devices
  <2>1. OverdueCancellations \in SUBSET Live
    BY DEF OverdueCancellations, Pending, Live, LiveStatus
  <2> QED
    BY <2>1, LiveFacts DEF DevicesOf
<1>2. TypeOK'
  BY <1>1, DisconnectTypes DEF IInv, TypeOK, ReconcileCancellationDeadlines
<1> QED
  BY <1>1, <1>2, DisconnectPreserves DEF ReconcileCancellationDeadlines

\* NextCancellation preserves the invariant.
LEMMA NextCancellationPreserves ==
  ASSUME IInv, NEW d \in Devices, NextCancellation(d)
  PROVE  IInv'
  BY ReconcilePreserves DEF NextCancellation, hostVars, IInv, TypeOK

\* LateAck preserves the invariant.
LEMMA LateAckPreserves ==
  ASSUME IInv, NEW a \in Attempts, NEW seq, RefuseLateCancellationAck(a, seq)
  PROVE  IInv'
  BY ReconcilePreserves DEF RefuseLateCancellationAck, hostVars, IInv, TypeOK

\* Timer preserves the invariant.
LEMMA TimerPreserves ==
  ASSUME IInv, ReconciliationTimerFires
  PROVE  IInv'
<1>1. /\ timers' \in SUBSET Nat
      /\ UNCHANGED <<registry, lastEpoch, createdAt, target, bound, job, cancel,
                     artifact, paused, now>>
  BY DEF ReconciliationTimerFires, IInv, TypeOK
<1>2. CASE ReconcileCancellationDeadlines(OverdueCancellations)
  BY <1>1, <1>2, ReconcilePreserves
<1>3. CASE UNCHANGED <<attStatus, stepStatus, stepEvent, conn, deviceEvent>>
  <2>1. TypeOK'
    BY <1>1, <1>3 DEF IInv, TypeOK
  <2> QED
    BY <1>1, <1>3, <2>1, StutterPreserves
<1> QED
  BY <1>2, <1>3 DEF ReconciliationTimerFires

-----------------------------------------------------------------------------
(* Emergency Pause, restart and time *)

\* Under the invariant no selected attempt is off its connection, so the pause
\* abandons nothing: it asks.
LEMMA PauseAsksAll ==
  ASSUME IInv
  PROVE  PauseTargets = {a \in PauseTargets : OnItsConnection(a)}
  BY DEF PauseTargets, Leased, Live, LiveStatus, IInv, LiveAttemptsOnActiveConnection

\* Emergency Pause cancels queued coding steps and asks its targets to stop.
LEMMA PauseFacts ==
  ASSUME IInv, ActivateEmergencyPause
  PROVE  LET Q == {s \in Steps : StepCap[s] = CodingCap /\ stepStatus[s] = "queued"}
         IN /\ PauseTargets \in SUBSET Leased
            /\ RequestCancellations(PauseTargets)
            /\ CancellationEvents(Q, PauseTargets)
            /\ stepStatus' = [s \in Steps |-> IF s \in Q THEN "cancelled" ELSE stepStatus[s]]
            /\ bound' = {} /\ paused' = TRUE /\ ScheduleReconciliation
            /\ UNCHANGED <<registry, lastEpoch, deviceEvent, createdAt, target, job,
                           artifact, now>>
<1> DEFINE Q == {s \in Steps : StepCap[s] = CodingCap /\ stepStatus[s] = "queued"}
           asked == {a \in PauseTargets : OnItsConnection(a)}
           lost == PauseTargets \ asked
<1>1. asked = PauseTargets /\ lost = {} /\ PauseTargets \in SUBSET Leased
  BY PauseAsksAll DEF PauseTargets
<1>2. Q \cup StepsOf(lost) = Q
  BY <1>1 DEF StepsOf
<1>3. /\ attStatus' = [a \in Attempts |->
           IF a \in asked THEN "cancellation_pending"
           ELSE IF a \in lost THEN "abandoned" ELSE attStatus[a]]
      /\ cancel' = CancelAfterRequest(asked)
      /\ conn' = ConnAfterRequest(asked)
      /\ stepStatus' = [s \in Steps |->
           IF s \in Q \cup StepsOf(lost) THEN "cancelled" ELSE stepStatus[s]]
      /\ CancellationEvents(Q \cup StepsOf(lost), asked)
      /\ bound' = {} /\ paused' = TRUE /\ ScheduleReconciliation
      /\ UNCHANGED <<registry, lastEpoch, deviceEvent, createdAt, target, job,
                     artifact, now>>
  BY Zenon DEF ActivateEmergencyPause
<1> HIDE DEF Q, asked, lost
<1>4. RequestCancellations(PauseTargets)
  BY <1>1, <1>3 DEF RequestCancellations
<1>5. CancellationEvents(Q, PauseTargets)
  BY <1>1, <1>2, <1>3, Zenon
<1>6. stepStatus' = [s \in Steps |-> IF s \in Q THEN "cancelled" ELSE stepStatus[s]]
  BY <1>2, <1>3
<1> QED
  BY <1>1, <1>3, <1>4, <1>5, <1>6 DEF Q

\* Pause preserves the invariant.
LEMMA PausePreserves ==
  ASSUME IInv, ActivateEmergencyPause
  PROVE  IInv'
<1> DEFINE Q == {s \in Steps : StepCap[s] = CodingCap /\ stepStatus[s] = "queued"}
<1>1. /\ PauseTargets \in SUBSET Leased
      /\ RequestCancellations(PauseTargets)
      /\ CancellationEvents(Q, PauseTargets)
      /\ stepStatus' = [s \in Steps |-> IF s \in Q THEN "cancelled" ELSE stepStatus[s]]
      /\ bound' = {} /\ paused' = TRUE /\ ScheduleReconciliation
      /\ UNCHANGED <<registry, lastEpoch, deviceEvent, createdAt, target, job,
                     artifact, now>>
  BY PauseFacts
<1>2. Q \in SUBSET Steps /\ \A s \in Q : stepStatus[s] = "queued"
  OBVIOUS
<1> HIDE DEF Q
<1>3. TypeOK'
  <2>1. stepStatus' \in [Steps -> StepStatuses]
    BY <1>1 DEF IInv, TypeOK, StepStatuses, OutcomeStatus
  <2>2. timers' \in SUBSET Nat /\ paused' \in BOOLEAN /\ bound' \in SUBSET Steps
    BY <1>1 DEF ScheduleReconciliation, IInv, TypeOK
  <2>3. stepEvent' \in [Steps -> StepEvents]
    BY <1>1, <1>2, EventTypes
  <2>4. attStatus' \in [Attempts -> AttemptStatuses]
    BY <1>1, RequestKeepsLive
  <2>5. conn' \in [Devices -> Connections] /\ cancel' \in [Attempts -> Cancellations]
    BY <1>1, RequestTypes DEF RequestCancellations
  <2> QED
    BY <1>1, <2>1, <2>2, <2>3, <2>4, <2>5 DEF IInv, TypeOK
<1>4. \A s \in Steps : stepStatus'[s] = "leased"
                        <=> stepStatus[s] = "leased" /\ s \notin StepsOf({})
  BY <1>1, <1>2 DEF StepsOf
<1> QED
  BY <1>1, <1>3, <1>4, RequestKeepsLive, Shrink

\* Restart preserves the invariant.
LEMMA RestartPreserves ==
  ASSUME IInv, Restart
  PROVE  IInv'
<1> DEFINE D == {d \in Devices : conn[d].active}
<1>1. /\ Pending \in SUBSET Pending /\ Leased \in SUBSET Leased /\ D \in SUBSET Devices
      /\ Teardown(Pending, Leased, D)
      /\ cancel' = [a \in Attempts |->
           IF a \in Pending THEN [cancel[a] EXCEPT !.deadline = now] ELSE cancel[a]]
      /\ bound' = {} /\ timers' = {}
      /\ UNCHANGED <<registry, lastEpoch, createdAt, target, job, artifact, paused, now>>
  BY Zenon DEF Restart
<1>2. \A a \in Live : a \in Pending \cup Leased
  BY DEF Live, Pending, Leased, LiveStatus
<1> HIDE DEF D
<1>3. TypeOK'
  <2>1. cancel' \in [Attempts -> Cancellations]
    BY <1>1 DEF IInv, TypeOK, Cancellations
  <2> QED
    BY <1>1, <2>1, TeardownTypes DEF IInv, TypeOK
<1> QED
  BY <1>1, <1>2, <1>3, TeardownPreserves

\* Repeated pauses, resumes and the clock preserve the invariant.
LEMMA QuietStepsPreserve ==
  ASSUME IInv, RepeatEmergencyPause \/ ResumeEmergencyPause \/ Tick \/ ClockStepsBack
  PROVE  IInv'
<1>1. CASE RepeatEmergencyPause
  <2>1. TypeOK'
    BY <1>1 DEF IInv, TypeOK, RepeatEmergencyPause, ScheduleReconciliation,
                deviceVars, stepVars, attemptVars
  <2> QED
    BY <1>1, <2>1, StutterPreserves DEF RepeatEmergencyPause, deviceVars, stepVars, attemptVars
<1>2. CASE ResumeEmergencyPause
  <2>1. TypeOK'
    BY <1>2 DEF IInv, TypeOK, ResumeEmergencyPause, deviceVars, attemptVars, hostVars
  <2> QED
    BY <1>2, <2>1, StutterPreserves DEF ResumeEmergencyPause, deviceVars, attemptVars
<1>3. CASE Tick
  <2>1. now' \in Nat /\ timers' \in SUBSET Nat
    BY <1>3 DEF IInv, TypeOK, Tick
  <2>2. TypeOK'
    BY <1>3, <2>1 DEF IInv, TypeOK, Tick, deviceVars, stepVars, attemptVars
  <2> QED
    BY <1>3, <2>2, StutterPreserves DEF Tick, deviceVars, stepVars, attemptVars
<1>4. CASE ClockStepsBack
  <2>1. now' \in Nat
    BY <1>4 DEF IInv, TypeOK, ClockStepsBack
  <2>2. TypeOK'
    BY <1>4, <2>1 DEF IInv, TypeOK, ClockStepsBack, deviceVars, stepVars, attemptVars
  <2> QED
    BY <1>4, <2>2, StutterPreserves DEF ClockStepsBack, deviceVars, stepVars, attemptVars
<1> QED
  BY <1>1, <1>2, <1>3, <1>4

-----------------------------------------------------------------------------
(* The theorems *)

\* Every transaction preserves the invariant.
LEMMA NextPreserves == IInv /\ [Next]_vars => IInv'
<1> SUFFICES ASSUME IInv, [Next]_vars PROVE IInv'
  OBVIOUS
<1>1. CASE UNCHANGED vars
  <2>1. TypeOK'
    BY <1>1 DEF IInv, TypeOK, vars, deviceVars, stepVars, attemptVars, hostVars
  <2> QED
    BY <1>1, <2>1, StutterPreserves DEF vars, deviceVars, stepVars, attemptVars
<1>2. ASSUME NEW d \in Devices, DeviceAction(d) PROVE IInv'
  BY <1>2, RegisterPreserves, RevokePreserves, HandshakePreserves,
     DisconnectDevicePreserves, LeasePreserves, NextCancellationPreserves DEF DeviceAction
<1>3. ASSUME NEW a \in Attempts, AttemptAction(a) PROVE IInv'
  <2>1. 1..MaxSeq \in SUBSET Nat
    OBVIOUS
  <2> QED
    BY <1>3, <2>1, ArtifactPreserves, ResultPreserves, RefuseExpiredPreserves,
       AckPreserves, LateAckPreserves DEF AttemptAction
<1>4. ASSUME NEW s \in Steps, StepAction(s) PROVE IInv'
  BY <1>4, EnqueuePreserves, CancelStepPreserves, DispatchPreserves DEF StepAction
<1>5. CASE FeatureAction
  <2>1. \A S \in SUBSET {s \in Open : StepCap[s] = CodingCap} : S \in SUBSET Steps
    BY DEF Open
  <2> QED
    BY <1>5, <2>1, LapsePreserves, CancelFeaturePreserves DEF FeatureAction
<1>6. CASE HostAction
  BY <1>6, TimerPreserves, PausePreserves, RestartPreserves, QuietStepsPreserve
     DEF HostAction
<1> QED
  BY <1>1, <1>2, <1>3, <1>4, <1>5, <1>6 DEF Next

\* The inductive invariant holds after every sequence of transactions, timer
\* firings and restarts of the kernel.
THEOREM Invariance == Spec => []IInv
  BY InitEstablishes, NextPreserves, PTL DEF Spec

\* Every table keeps its type through every transaction, restart and retry.
THEOREM TypeCorrect == Spec => []TypeOK
<1>1. IInv => TypeOK
  BY DEF IInv
<1> QED
  BY <1>1, Invariance, PTL

\* The connection invariant that reconcile_cancellation_deadlines_tx and the
\* start of the process rely on without checking it anywhere else.
THEOREM ConnectionsHoldLiveAttempts == Spec => []LiveAttemptsOnActiveConnection
<1>1. IInv => LiveAttemptsOnActiveConnection
  BY DEF IInv
<1> QED
  BY <1>1, Invariance, PTL

\* A step is leased exactly while one attempt for it is live.
THEOREM LeaseExclusion == Spec => []StepLeasedIffLiveAttempt
<1>1. IInv => StepLeasedIffLiveAttempt
  BY DEF IInv
<1> QED
  BY <1>1, Invariance, PTL

\* A device runs one attempt at a time, although lease_next_step_bound counts
\* only the rows of the device's present epoch.
THEOREM DeviceExclusion == Spec => []OneAttemptPerDevice
<1>1. IInv => OneAttemptPerDevice
  BY DEF IInv
<1> QED
  BY <1>1, Invariance, PTL

-----------------------------------------------------------------------------
(* Terminal steps *)

\* Only leased steps go back to the queue.
LEMMA RequeuedAreLeased ==
  ASSUME NEW A PROVE \A s \in Requeued(A) : stepStatus[s] = "leased"
  BY DEF Requeued

\* Tearing down attempts leaves finished steps alone.
LEMMA TeardownKeepsTerminal ==
  ASSUME NEW P, NEW L, NEW D, Teardown(P, L, D), NEW s \in Steps, Terminal(s)
  PROVE  stepStatus'[s] = stepStatus[s]
  BY RequeuedAreLeased DEF Teardown, TeardownSteps, Terminal, OutcomeStatus

\* Every step of the kernel leaves finished steps alone.
LEMMA StepKeepsTerminal ==
  ASSUME IInv, [Next]_vars, NEW s \in Steps, Terminal(s)
  PROVE  stepStatus'[s] = stepStatus[s]
<1>1. stepStatus[s] \notin {"absent", "queued", "leased"}
  BY DEF Terminal, OutcomeStatus
<1>2. CASE UNCHANGED stepStatus
  BY <1>2
<1>3. CASE \E D : DisconnectDevices(D)
  BY <1>3, TeardownKeepsTerminal DEF DisconnectDevices
<1>4. ASSUME NEW t \in Steps, InsertStep(t)
      PROVE  stepStatus'[s] = stepStatus[s]
  BY <1>1, <1>4 DEF InsertStep, IInv, TypeOK
<1>5. ASSUME NEW d \in Devices, NEW a \in Attempts, LeaseNextStep(d, a)
      PROVE  stepStatus'[s] = stepStatus[s]
  <2> DEFINE X == ExpiredLeases
             queue == {t \in Steps : stepStatus[t] = "queued"} \cup Requeued(X)
  <2>1. \E t \in {u \in queue : Eligible(d, u)} :
          stepStatus' = [u \in Steps |->
            IF u = t THEN "leased" ELSE IF u \in Requeued(X) THEN "queued" ELSE stepStatus[u]]
    BY <1>5, Zenon DEF LeaseNextStep
  <2> QED
    BY <2>1, <1>1, RequeuedAreLeased
<1>6. ASSUME NEW d \in Devices, DeviceAction(d)
      PROVE  stepStatus'[s] = stepStatus[s]
  BY <1>6, <1>2, <1>3, <1>5 DEF DeviceAction, RegisterDevice, RevokeDevice, AcceptHandshake,
     DisconnectDevice, NextCancellation, ReconcileCancellationDeadlines, stepVars
<1>7. ASSUME NEW a \in Attempts, AttemptAction(a)
      PROVE  stepStatus'[s] = stepStatus[s]
  <2>1. ASSUME NEW seq, AdmitResultArtifact(a, seq) PROVE stepStatus'[s] = stepStatus[s]
    BY <2>1 DEF AdmitResultArtifact, stepVars
  <2>2. ASSUME NEW seq, NEW outcome, AcceptResult(a, seq, outcome)
        PROVE  stepStatus'[s] = stepStatus[s]
    BY <1>1, <2>2 DEF AcceptResult, IInv, TypeOK
  <2>3. ASSUME NEW seq, NEW outcome, RefuseExpiredResult(a, seq, outcome)
        PROVE  stepStatus'[s] = stepStatus[s]
    BY <1>1, <2>3, RequeuedAreLeased DEF RefuseExpiredResult
  <2>4. ASSUME NEW seq, AcceptCancellationAck(a, seq) PROVE stepStatus'[s] = stepStatus[s]
    BY <1>1, <2>4, RequeuedAreLeased DEF AcceptCancellationAck
  <2>5. ASSUME NEW seq, RefuseLateCancellationAck(a, seq)
        PROVE  stepStatus'[s] = stepStatus[s]
    BY <1>3, <2>5 DEF RefuseLateCancellationAck, ReconcileCancellationDeadlines
  <2> QED
    BY <1>7, <2>1, <2>2, <2>3, <2>4, <2>5 DEF AttemptAction
<1>8. ASSUME NEW t \in Steps, StepAction(t)
      PROVE  stepStatus'[s] = stepStatus[s]
  <2>1. CASE CancelStep(t)
    BY <1>1, <2>1 DEF CancelStep, CancelsAtOnce, IInv, TypeOK
  <2> QED
    BY <1>4, <1>8, <2>1 DEF StepAction, EnqueueStep, DispatchFeatureCoding
<1>9. CASE FeatureAction
  BY <1>1, <1>9 DEF FeatureAction, CodingBindingLapses, CancelFeatureCoding
<1>10. CASE ActivateEmergencyPause
  BY <1>1, <1>10, PauseFacts
<1>11. CASE HostAction
  <2>1. CASE ReconciliationTimerFires
    BY <1>3, <2>1 DEF ReconciliationTimerFires, ReconcileCancellationDeadlines
  <2>2. CASE Restart
    BY <2>2, TeardownKeepsTerminal DEF Restart
  <2> QED
    BY <1>2, <1>10, <1>11, <2>1, <2>2 DEF HostAction, RepeatEmergencyPause,
       ResumeEmergencyPause, Tick, ClockStepsBack, stepVars
<1> QED
  BY <1>2, <1>6, <1>7, <1>8, <1>9, <1>11 DEF Next, vars, stepVars

\* A step that succeeded, failed or was cancelled stays so.
THEOREM TerminalStepsAreFinal == Spec => TerminalStepsStay
<1>1. IInv /\ [Next]_vars
      => [\A s \in Steps : Terminal(s) => stepStatus'[s] = stepStatus[s]]_vars
  BY StepKeepsTerminal
<1> QED
  BY <1>1, Invariance, PTL DEF Spec, TerminalStepsStay

-----------------------------------------------------------------------------
(* Emergency Pause *)

\* Requeuing is harmless while the pause holds: only leased attempts lose their
\* step to the queue, and none of those is a coding attempt.
LEMMA PauseKept ==
  ASSUME PauseQuiescesRemoteWork, paused' => paused,
         \A a \in Leased' : a \in Leased /\ job'[a] = job[a],
         \A s \in Steps : stepStatus'[s] = "queued" =>
           stepStatus[s] = "queued" \/ StepCap[s] # CodingCap \/ s \in StepsOf(Leased)
  PROVE  PauseQuiescesRemoteWork'
<1> SUFFICES ASSUME paused'
             PROVE  /\ \A a \in Leased' : StepCap[job'[a].step] \notin RemoteCaps
                    /\ \A s \in Steps : StepCap[s] = CodingCap => stepStatus'[s] # "queued"
  BY DEF PauseQuiescesRemoteWork
<1>1. \A a \in Leased' : StepCap[job'[a].step] \notin RemoteCaps
  BY DEF PauseQuiescesRemoteWork
<1>2. \A s \in Steps : s \in StepsOf(Leased) => StepCap[s] # CodingCap
  BY DEF PauseQuiescesRemoteWork, StepsOf
<1>3. \A s \in Steps : StepCap[s] = CodingCap => stepStatus'[s] # "queued"
  BY <1>2 DEF PauseQuiescesRemoteWork
<1> QED
  BY <1>1, <1>3

\* Tearing down attempts starts no remote work.
LEMMA TeardownKeepsPause ==
  ASSUME IInv, PauseQuiescesRemoteWork, UNCHANGED <<paused, job>>,
         NEW P \in SUBSET Pending, NEW L \in SUBSET Leased, NEW D, Teardown(P, L, D)
  PROVE  PauseQuiescesRemoteWork'
<1>1. \A a \in Leased' : a \in Leased /\ job'[a] = job[a]
  BY DEF Teardown, Leased
<1>2. \A s \in Steps : stepStatus'[s] = "queued" =>
        stepStatus[s] = "queued" \/ StepCap[s] # CodingCap \/ s \in StepsOf(Leased)
  BY DEF Teardown, TeardownSteps, Requeued, StepsOf
<1> QED
  BY <1>1, <1>2, PauseKept

\* Every step of the kernel keeps paused remote work quiesced.
LEMMA StepKeepsPause ==
  ASSUME IInv, PauseQuiescesRemoteWork, [Next]_vars
  PROVE  PauseQuiescesRemoteWork'
<1>1. CASE UNCHANGED <<paused, attStatus, job, stepStatus>>
  BY <1>1, PauseKept DEF Leased
<1>2. CASE ~paused'
  BY <1>2 DEF PauseQuiescesRemoteWork
<1>3. CASE UNCHANGED <<paused, job>> /\ \E D : DisconnectDevices(D)
  <2>1. PICK D : DisconnectDevices(D)
    BY <1>3
  <2>2. HeldBy(D, Pending) \in SUBSET Pending /\ HeldBy(D, Leased) \in SUBSET Leased
    BY DEF HeldBy
  <2> QED
    BY <1>3, <2>1, <2>2, TeardownKeepsPause DEF DisconnectDevices
<1>4. ASSUME NEW d \in Devices, DeviceAction(d) PROVE PauseQuiescesRemoteWork'
  <2>1. ASSUME NEW a \in Attempts, LeaseNextStep(d, a) PROVE ~paused'
    BY <2>1 DEF LeaseNextStep
  <2> QED
    BY <1>1, <1>2, <1>3, <1>4, <2>1 DEF DeviceAction, RegisterDevice, RevokeDevice,
       AcceptHandshake, DisconnectDevice, NextCancellation,
       ReconcileCancellationDeadlines, stepVars, attemptVars
<1>5. ASSUME NEW a \in Attempts, AttemptAction(a) PROVE PauseQuiescesRemoteWork'
  <2>1. ASSUME NEW seq, AcceptCancellationAck(a, seq) PROVE PauseQuiescesRemoteWork'
    <3>1. \A b \in Leased' : b \in Leased /\ job'[b] = job[b]
      BY <2>1 DEF AcceptCancellationAck, Leased, IInv, TypeOK
    <3>2. \A s \in Steps : stepStatus'[s] = "queued" => stepStatus[s] = "queued"
      BY <2>1 DEF AcceptCancellationAck
    <3>3. paused' = paused
      BY <2>1 DEF AcceptCancellationAck
    <3> QED
      BY <3>1, <3>2, <3>3, PauseKept
  <2>2. ASSUME NEW seq, RefuseLateCancellationAck(a, seq) PROVE PauseQuiescesRemoteWork'
    BY <1>3, <2>2 DEF RefuseLateCancellationAck, ReconcileCancellationDeadlines
  <2>3. ASSUME NEW seq, AdmitResultArtifact(a, seq) PROVE ~paused'
    BY <2>3 DEF AdmitResultArtifact
  <2>4. ASSUME NEW seq, NEW outcome,
               AcceptResult(a, seq, outcome) \/ RefuseExpiredResult(a, seq, outcome)
        PROVE  ~paused'
    BY <2>4 DEF AcceptResult, RefuseExpiredResult, ResultMatchesJob
  <2> QED
    BY <1>2, <1>5, <2>1, <2>2, <2>3, <2>4 DEF AttemptAction
<1>6. ASSUME NEW A \in SUBSET Leased, RequestCancellations(A), UNCHANGED <<job, paused>>,
             \A s \in Steps : stepStatus'[s] = "queued" => stepStatus[s] = "queued"
      PROVE  PauseQuiescesRemoteWork'
  <2>1. \A b \in Leased' : b \in Leased /\ job'[b] = job[b]
    BY <1>6 DEF RequestCancellations, Leased
  <2> QED
    BY <1>6, <2>1, PauseKept
<1>7. ASSUME NEW s \in Steps, StepAction(s) PROVE PauseQuiescesRemoteWork'
  <2>1. CASE EnqueueStep(s)
    <3>1. \A a \in Leased' : a \in Leased /\ job'[a] = job[a]
      BY <2>1 DEF EnqueueStep, attemptVars, Leased
    <3>2. \A t \in Steps : stepStatus'[t] = "queued" =>
            stepStatus[t] = "queued" \/ StepCap[t] # CodingCap
      BY <2>1 DEF EnqueueStep, InsertStep, IInv, TypeOK
    <3>3. paused' = paused
      BY <2>1 DEF EnqueueStep
    <3> QED
      BY <3>1, <3>2, <3>3, PauseKept
  <2>2. CASE CancelStep(s)
    <3>1. UNCHANGED <<job, paused>>
      BY <2>2 DEF CancelStep
    <3>2. CASE /\ stepStatus' = [stepStatus EXCEPT ![s] = "cancelled"]
               /\ UNCHANGED attStatus
      <4>1. \A b \in Leased' : b \in Leased /\ job'[b] = job[b]
        BY <3>1, <3>2 DEF Leased
      <4>2. \A t \in Steps : stepStatus'[t] = "queued" => stepStatus[t] = "queued"
        BY <3>2 DEF IInv, TypeOK
      <4> QED
        BY <3>1, <4>1, <4>2, PauseKept
    <3>3. CASE UNCHANGED stepStatus /\ \E a \in Leased : RequestCancellations({a})
      <4>1. PICK a \in Leased : RequestCancellations({a})
        BY <3>3
      <4>2. {a} \in SUBSET Leased
        OBVIOUS
      <4> QED
        BY <1>6, <3>1, <3>3, <4>1, <4>2
    <3> QED
      BY <2>2, <3>2, <3>3 DEF CancelStep
  <2>3. ASSUME NEW d, DispatchFeatureCoding(s, d) PROVE ~paused'
    BY <2>3 DEF DispatchFeatureCoding
  <2> QED
    BY <1>2, <1>7, <2>1, <2>2, <2>3 DEF StepAction
<1>8. CASE FeatureAction
  <2>1. ASSUME NEW S, CodingBindingLapses(S) PROVE PauseQuiescesRemoteWork'
    BY <1>1, <2>1 DEF CodingBindingLapses, attemptVars
  <2>2. ASSUME NEW S, CancelFeatureCoding(S) PROVE PauseQuiescesRemoteWork'
    <3> DEFINE A == {a \in Leased : job[a].step \in S}
    <3>1. A \in SUBSET Leased /\ RequestCancellations(A)
      BY <2>2 DEF CancelFeatureCoding
    <3>2. UNCHANGED <<job, paused>>
          /\ \A s \in Steps : stepStatus'[s] = "queued" => stepStatus[s] = "queued"
      BY <2>2 DEF CancelFeatureCoding
    <3> HIDE DEF A
    <3> QED
      BY <1>6, <3>1, <3>2
  <2> QED
    BY <1>8, <2>1, <2>2 DEF FeatureAction
<1>9. CASE ActivateEmergencyPause
  <2>1. \A a \in Leased' : StepCap[job'[a].step] \notin RemoteCaps
    <3> SUFFICES ASSUME NEW a \in Leased' PROVE StepCap[job'[a].step] \notin RemoteCaps
      OBVIOUS
    <3>1. a \in Leased /\ a \notin PauseTargets /\ job'[a] = job[a]
      BY <1>9, PauseFacts DEF RequestCancellations, Leased
    <3>2. stepStatus[job[a].step] = "leased"
      BY <3>1, LiveFacts DEF Leased, Live, LiveStatus
    <3> QED
      BY <3>1, <3>2 DEF PauseTargets
  <2>2. \A s \in Steps : StepCap[s] = CodingCap => stepStatus'[s] # "queued"
    BY <1>9, PauseFacts
  <2> QED
    BY <2>1, <2>2 DEF PauseQuiescesRemoteWork
<1>10. CASE Restart
  <2>1. Pending \in SUBSET Pending /\ Leased \in SUBSET Leased
    OBVIOUS
  <2> QED
    BY <1>10, <2>1, TeardownKeepsPause DEF Restart
<1>11. CASE ReconciliationTimerFires
  BY <1>1, <1>3, <1>11 DEF ReconciliationTimerFires, ReconcileCancellationDeadlines
<1>12. CASE HostAction
  BY <1>1, <1>2, <1>9, <1>10, <1>11, <1>12 DEF HostAction, RepeatEmergencyPause,
     ResumeEmergencyPause, Tick, ClockStepsBack, stepVars, attemptVars
<1> QED
  BY <1>1, <1>4, <1>5, <1>7, <1>8, <1>12 DEF Next, vars, stepVars, attemptVars

\* While Emergency Pause is on, nothing that could deliver a remote result runs
\* and no coding step waits, however devices and the process come and go.
THEOREM PauseQuiesces == Spec => []PauseQuiescesRemoteWork
<1>1. Init => PauseQuiescesRemoteWork
  BY DEF Init, PauseQuiescesRemoteWork
<1>2. IInv /\ PauseQuiescesRemoteWork /\ [Next]_vars => PauseQuiescesRemoteWork'
  BY StepKeepsPause
<1> QED
  BY <1>1, <1>2, Invariance, PTL DEF Spec

=============================================================================
