----------------------------- MODULE StepKernel -----------------------------
(***************************************************************************)
(* The distributed-step kernel of the Windows master: enrolled devices,    *)
(* their connections and epochs, queued steps, the attempts that lease     *)
(* them, cancellation with an acknowledgement deadline, Emergency Pause,   *)
(* the event journal and the reconciliation a restart performs.            *)
(*                                                                         *)
(* Source: crates/assemblywright-master/src/lib.rs (MasterKernel) and the  *)
(* HTTP host in main.rs that schedules deadline reconciliation.  Every     *)
(* kernel operation is one immediate SQLite transaction taken under one    *)
(* process mutex: an operation that returns an error rolls everything back *)
(* and is a stuttering step here, so an action's guard is the conjunction  *)
(* of the conditions under which the transaction commits.  Requests carry  *)
(* arbitrary inputs: a late, duplicated or reordered message is the same   *)
(* call made with an old attempt or sequence number.                       *)
(***************************************************************************)
EXTENDS Naturals, FiniteSets

CONSTANTS
  Devices,            \* device identities that may enrol
  NoDevice,           \* "no device" in an event's identity
  Steps,              \* step identities; their order stands for the UUID order
  Attempts,           \* fresh attempt identities (UUIDs)
  NoJob,              \* an attempt identity not handed out yet
  DeviceCaps,         \* capabilities each device registers
  StepCap,            \* capability each step needs
  LeaseDuration,      \* NewStep.lease_duration_ms
  AckDeadline,        \* CANCELLATION_ACK_DEADLINE_MS
  MaxDevices,         \* MAX_ENROLLED_DEVICES
  MaxSteps,           \* MAX_QUEUED_OR_LEASED_STEPS
  MaxJobs,            \* MAX_CONCURRENT_JOBS
  ClockMayStepBack,   \* whether the wall clock may be set back
  MaxTime,            \* bound: wall clock
  MaxEpoch,           \* bound: connection epochs
  MaxSeq              \* bound: sequence numbers of one connection

CodingCap == "coding"

\* The capabilities Emergency Pause cancels: fixture.reasoning, mlx.reasoning
\* and local coding.  A step of another capability keeps its lease.
RemoteCaps == {"fixture", "mlx", CodingCap}

ASSUME ConstantsAssumption ==
  /\ NoDevice \notin Devices
  /\ Steps \subseteq Nat
  /\ DeviceCaps \in [Devices -> SUBSET (RemoteCaps \cup {"other"})]
  /\ StepCap \in [Steps -> RemoteCaps \cup {"other"}]
  /\ LeaseDuration \in Nat \ {0}
  /\ AckDeadline \in Nat \ {0}
  /\ MaxDevices \in Nat /\ MaxSteps \in Nat /\ MaxJobs \in Nat
  /\ ClockMayStepBack \in BOOLEAN
  /\ MaxTime \in Nat /\ MaxEpoch \in Nat /\ MaxSeq \in Nat

VARIABLES
  registry,     \* master_devices: absent, enrolled or revoked
  conn,         \* master_connections: epoch, active, last_sequence
  lastEpoch,    \* master_metadata.next_connection_epoch
  stepStatus,   \* master_steps.status
  createdAt,    \* master_steps.created_at_ms
  target,       \* feature_coding_dispatches.device_id
  bound,        \* coding steps whose Feature Conveyor binding is current
  attStatus,    \* master_attempts.status
  job,          \* master_attempts.job_json and lease_expires_at_ms
  cancel,       \* cancellation_sequence, cancellation_deadline_at_ms
  artifact,     \* feature_result_artifacts.sequence, 0 without a row
  paused,       \* master_metadata.emergency_paused
  stepEvent,    \* master_events: the last event about each step
  deviceEvent,  \* master_events: the last event about each device
  now,          \* current_time_ms(), the wall clock
  timers        \* reconciliation tasks: monotonic time each still sleeps

deviceVars  == <<registry, conn, lastEpoch, deviceEvent>>
stepVars    == <<stepStatus, createdAt, target, bound, stepEvent>>
attemptVars == <<attStatus, job, cancel, artifact>>
hostVars    == <<now, timers>>
vars == <<deviceVars, stepVars, attemptVars, paused, hostVars>>

-----------------------------------------------------------------------------
(* Types *)

LiveStatus     == {"leased", "cancellation_pending"}
OutcomeStatus  == {"succeeded", "failed", "cancelled"}
StepStatuses   == {"absent", "queued", "leased"} \cup OutcomeStatus
AttemptStatuses ==
  {"none"} \cup LiveStatus \cup OutcomeStatus \cup {"expired", "abandoned"}
Connections == [epoch: Nat, active: BOOLEAN, seq: Nat]
Jobs == [step: Steps, device: Devices, epoch: Nat, seq: Nat, expires: Nat]
Cancellations == [seq: Nat, deadline: Nat]
NoCancellation == [seq |-> 0, deadline |-> 0]
StepEventKinds ==
  {"none", "StepQueued", "StepLeased", "StepSucceeded", "StepFailed",
   "StepCancelled", "StepCancellationRequested"}
StepEvents ==
  [kind: StepEventKinds, device: Devices \cup {NoDevice}, epoch: Nat]

TypeOK ==
  /\ registry \in [Devices -> {"absent", "enrolled", "revoked"}]
  /\ conn \in [Devices -> Connections]
  /\ lastEpoch \in Nat
  /\ stepStatus \in [Steps -> StepStatuses]
  /\ createdAt \in [Steps -> Nat]
  /\ target \in [Steps -> Devices \cup {NoDevice}]
  /\ bound \in SUBSET Steps
  /\ attStatus \in [Attempts -> AttemptStatuses]
  /\ job \in [Attempts -> Jobs \cup {NoJob}]
  /\ cancel \in [Attempts -> Cancellations]
  /\ artifact \in [Attempts -> Nat]
  /\ paused \in BOOLEAN
  /\ stepEvent \in [Steps -> StepEvents]
  /\ deviceEvent \in [Devices -> {"none", "DeviceConnected", "DeviceDisconnected"}]
  /\ now \in Nat
  /\ timers \in SUBSET Nat

-----------------------------------------------------------------------------
(* Views of the tables *)

Open == {s \in Steps : stepStatus[s] \in {"queued", "leased"}}
Live == {a \in Attempts : attStatus[a] \in LiveStatus}
Leased == {a \in Attempts : attStatus[a] = "leased"}
Pending == {a \in Attempts : attStatus[a] = "cancellation_pending"}
StepsOf(A) == {job[a].step : a \in A}
DevicesOf(A) == {job[a].device : a \in A}

\* connection_state, with the active and epoch checks every caller makes.
OnItsConnection(a) ==
  /\ conn[job[a].device].active
  /\ conn[job[a].device].epoch = job[a].epoch

\* The attempts that belong to the present connections of the devices in D.
HeldBy(D, A) == {a \in A : job[a].device \in D /\ OnItsConnection(a)}

ExpiredLeases_PendingToo == {a \in Live : job[a].expires <= now}
ExpiredLeases == {a \in Leased : job[a].expires <= now}
OverdueCancellations == {a \in Pending : cancel[a].deadline <= now}

\* StepQueued and StepCancelled name no device; the others name the holder.
Unowned(kind) == [kind |-> kind, device |-> NoDevice, epoch |-> 0]
OwnedBy(kind, a) ==
  [kind |-> kind, device |-> job[a].device, epoch |-> job[a].epoch]

-----------------------------------------------------------------------------
(* Transaction helpers shared by several operations *)

Requeued_Forgotten(A) == {s \in StepsOf(A) : stepStatus[s] = "queued"}
\* Steps of A that go back to the queue: only rows still marked leased change.
Requeued(A) == {s \in StepsOf(A) : stepStatus[s] = "leased"}

TeardownEvents_NoQueued(P, L) ==
  [s \in Steps |-> IF s \in StepsOf(P) THEN Unowned("StepCancelled") ELSE stepEvent[s]]

\* The last journal entry each step gets when P is cancelled and L is lost.
TeardownEvents(P, L) ==
  [s \in Steps |->
     IF s \in StepsOf(P) THEN Unowned("StepCancelled")
     ELSE IF s \in Requeued(L) THEN Unowned("StepQueued") ELSE stepEvent[s]]

TeardownSteps_RequeueAll(P, L) ==
  [s \in Steps |-> IF s \in Requeued(P \cup L) THEN "queued" ELSE stepStatus[s]]

\* What becomes of the steps: a requested cancellation is final.
TeardownSteps(P, L) ==
  [s \in Steps |->
     IF s \in Requeued(P) THEN "cancelled"
     ELSE IF s \in Requeued(L) THEN "queued" ELSE stepStatus[s]]

\* disconnect_device_tx for every device of D, reconcile_cancellation_
\* deadlines_tx and reconcile_interrupted_state all come down to this: the
\* attempts P that were asked to cancel are abandoned with their steps
\* cancelled, the leased attempts L are abandoned with their steps requeued,
\* and the connections of D close.
Teardown(P, L, D) ==
  /\ attStatus' = [a \in Attempts |->
       IF a \in P \cup L THEN "abandoned" ELSE attStatus[a]]
  /\ stepStatus' = TeardownSteps(P, L)
  /\ stepEvent' = TeardownEvents(P, L)
  /\ conn' = [d \in Devices |->
       IF d \in D THEN [conn[d] EXCEPT !.active = FALSE] ELSE conn[d]]
  /\ deviceEvent' = [d \in Devices |->
       IF d \in D THEN "DeviceDisconnected" ELSE deviceEvent[d]]

DisconnectDevices_LeasedOnly(D) == Teardown({}, HeldBy(D, Leased), D)
DisconnectDevices(D) == Teardown(HeldBy(D, Pending), HeldBy(D, Leased), D)

\* reconcile_cancellation_deadlines_tx fails as a whole when an overdue
\* attempt is not on its device's present connection.
ReconcileCommits(A) == \A a \in A : OnItsConnection(a)

ReconcileCancellationDeadlines(A) ==
  DisconnectDevices(DevicesOf(A))

ConnAfterRequest_NotAdvanced(A) == conn

\* request_leased_step_cancellation_tx for each attempt of A: the instruction
\* takes the connection's next sequence number.
ConnAfterRequest(A) ==
  [d \in Devices |->
     IF d \in DevicesOf(A) THEN [conn[d] EXCEPT !.seq = @ + 1] ELSE conn[d]]

CancelAfterRequest(A) ==
  [a \in Attempts |->
     IF a \in A
     THEN [seq |-> conn[job[a].device].seq + 1, deadline |-> now + AckDeadline]
     ELSE cancel[a]]

RequestCancellations(A) ==
  /\ attStatus' = [a \in Attempts |->
       IF a \in A THEN "cancellation_pending" ELSE attStatus[a]]
  /\ cancel' = CancelAfterRequest(A)
  /\ conn' = ConnAfterRequest(A)

\* The journal entries of a cancellation of the queued steps Q and of a
\* cancellation request to the attempts A.
CancellationEvents(Q, A) ==
  stepEvent' = [s \in Steps |->
    IF s \in Q THEN Unowned("StepCancelled")
    ELSE IF s \in StepsOf(A)
         THEN OwnedBy("StepCancellationRequested", CHOOSE a \in A : job[a].step = s)
         ELSE stepEvent[s]]

SeqAvailable(A) == \A a \in A : conn[job[a].device].seq < MaxSeq

-----------------------------------------------------------------------------
(* Initial state: an empty database after migration *)

Init ==
  /\ registry = [d \in Devices |-> "absent"]
  /\ conn = [d \in Devices |-> [epoch |-> 0, active |-> FALSE, seq |-> 0]]
  /\ lastEpoch = 0
  /\ stepStatus = [s \in Steps |-> "absent"]
  /\ createdAt = [s \in Steps |-> 0]
  /\ target = [s \in Steps |-> NoDevice]
  /\ bound = {}
  /\ attStatus = [a \in Attempts |-> "none"]
  /\ job = [a \in Attempts |-> NoJob]
  /\ cancel = [a \in Attempts |-> NoCancellation]
  /\ artifact = [a \in Attempts |-> 0]
  /\ paused = FALSE
  /\ stepEvent = [s \in Steps |-> Unowned("none")]
  /\ deviceEvent = [d \in Devices |-> "none"]
  /\ now = 0
  /\ timers = {}

-----------------------------------------------------------------------------
(* Devices and connections *)

RegisterDevice(d) ==
  /\ registry[d] = "absent"
  /\ Cardinality({x \in Devices : registry[x] # "absent"}) < MaxDevices
  /\ registry' = [registry EXCEPT ![d] = "enrolled"]
  /\ UNCHANGED <<conn, lastEpoch, deviceEvent, stepVars, attemptVars, paused, hostVars>>

\* Revocation closes the device's connection in the same transaction, and a
\* coding binding names a device that is not revoked.
RevokeDevice(d) ==
  /\ registry[d] # "absent"
  /\ registry' = [registry EXCEPT ![d] = "revoked"]
  /\ DisconnectDevices({x \in {d} : conn[x].active})
  /\ bound' = {s \in bound : target[s] # d}
  /\ UNCHANGED <<lastEpoch, createdAt, target, job, cancel, artifact, paused, hostVars>>

\* A device with an active connection is turned away; an accepted one gets an
\* epoch no connection of any device has had, and starts its sequence at 0.
AcceptHandshake(d) ==
  /\ registry[d] = "enrolled"
  /\ ~conn[d].active
  /\ lastEpoch < MaxEpoch
  /\ lastEpoch' = lastEpoch + 1
  /\ conn' = [conn EXCEPT ![d] = [epoch |-> lastEpoch + 1, active |-> TRUE, seq |-> 0]]
  /\ deviceEvent' = [deviceEvent EXCEPT ![d] = "DeviceConnected"]
  /\ UNCHANGED <<registry, stepVars, attemptVars, paused, hostVars>>

\* The host calls this when a TCP connection ends, with the epoch that
\* connection was accepted under: a late call names an old epoch.
DisconnectDevice(d, epoch) ==
  /\ conn[d].active
  /\ conn[d].epoch = epoch
  /\ DisconnectDevices({d})
  /\ UNCHANGED <<registry, lastEpoch, createdAt, target, bound, job, cancel,
                 artifact, paused, hostVars>>

-----------------------------------------------------------------------------
(* Steps *)

InsertStep(s) ==
  /\ stepStatus[s] = "absent"
  /\ Cardinality(Open) < MaxSteps
  /\ stepStatus' = [stepStatus EXCEPT ![s] = "queued"]
  /\ createdAt' = [createdAt EXCEPT ![s] = now]
  /\ stepEvent' = [stepEvent EXCEPT ![s] = Unowned("StepQueued")]

\* enqueue_step refuses the coding capability.  It does not look at Emergency
\* Pause: the host checks that in an earlier critical section, so the pause
\* may have begun in between.
EnqueueStep(s) ==
  /\ StepCap[s] # CodingCap
  /\ InsertStep(s)
  /\ UNCHANGED <<target, bound, deviceVars, attemptVars, paused, hostVars>>

\* dispatch_feature_coding: its step is bound to one device and to the
\* feature's present revisions.
DispatchFeatureCoding(s, d) ==
  /\ ~paused
  /\ StepCap[s] = CodingCap
  /\ registry[d] = "enrolled"
  /\ DeviceCaps[d] = {CodingCap}
  /\ InsertStep(s)
  /\ target' = [target EXCEPT ![s] = d]
  /\ bound' = bound \cup {s}
  /\ UNCHANGED <<deviceVars, attemptVars, paused, hostVars>>

\* A Feature Conveyor transaction that moves a revision the binding names
\* (lifecycle, queue, specification, lease, registry) leaves it stale.
CodingBindingLapses(S) ==
  /\ S # {}
  /\ bound' = bound \ S
  /\ UNCHANGED <<stepStatus, createdAt, target, stepEvent, deviceVars,
                 attemptVars, paused, hostVars>>

\* cancel_feature_coding_dispatches_tx over S, the open dispatches of the
\* cancelled feature.  A leased step needs an attempt that is still leased:
\* one whose cancellation is already pending fails the transaction.
CancelFeatureCoding(S) ==
  LET A == {a \in Leased : job[a].step \in S}
      Q == {s \in S : stepStatus[s] = "queued"}
  IN /\ \A s \in S : stepStatus[s] = "leased" => s \in StepsOf(A)
     /\ ReconcileCommits(A)
     /\ SeqAvailable(A)
     /\ RequestCancellations(A)
     /\ stepStatus' = [s \in Steps |-> IF s \in Q THEN "cancelled" ELSE stepStatus[s]]
     /\ CancellationEvents(Q, A)
     /\ bound' = {}
     /\ UNCHANGED <<createdAt, target, registry, lastEpoch, deviceEvent, job,
                    artifact, paused, hostVars>>

-----------------------------------------------------------------------------
(* Leases *)

\* A step this device may lease.  Coding is leased only under the coding
\* contract, which a device meets by registering exactly that capability,
\* and only while the binding that names the device is current.
Eligible(d, s) ==
  /\ StepCap[s] \in DeviceCaps[d]
  /\ StepCap[s] = CodingCap =>
       DeviceCaps[d] = {CodingCap} /\ s \in bound /\ target[s] = d

\* ORDER BY created_at_ms ASC, step_id ASC
Before(s, t) ==
  \/ createdAt[s] < createdAt[t]
  \/ createdAt[s] = createdAt[t] /\ s < t

DeviceLeases_LeasedOnly(d) == HeldBy({d}, Leased)
GlobalLeases_LeasedOnly == Leased

\* The rows the two limits count: live attempts on the device's present
\* connection, and live attempts of the whole master.
DeviceLeases(d) == HeldBy({d}, Live)
GlobalLeases == Live

\* lease_next_step_bound: expired leases are reconciled first, in the same
\* transaction, so the reconciliation is lost when no step is eligible.
LeaseNextStep(d, a) ==
  LET X == ExpiredLeases
      queued == {s \in Steps : stepStatus[s] = "queued"} \cup Requeued(X)
      eligible == {s \in queued : Eligible(d, s)}
  IN /\ ~paused
     /\ conn[d].active
     /\ DeviceLeases(d) \subseteq X
     /\ Cardinality(GlobalLeases \ X) < MaxJobs
     /\ registry[d] = "enrolled"
     /\ attStatus[a] = "none"
     /\ conn[d].seq < MaxSeq
     /\ \E s \in eligible :
          /\ \A t \in eligible \ {s} : Before(s, t)
          /\ job' = [job EXCEPT ![a] =
               [step |-> s, device |-> d, epoch |-> conn[d].epoch,
                seq |-> conn[d].seq + 1, expires |-> now + LeaseDuration]]
          /\ attStatus' = [b \in Attempts |->
               IF b = a THEN "leased" ELSE IF b \in X THEN "expired" ELSE attStatus[b]]
          /\ stepStatus' = [t \in Steps |->
               IF t = s THEN "leased" ELSE IF t \in Requeued(X) THEN "queued" ELSE stepStatus[t]]
          /\ stepEvent' = [t \in Steps |->
               IF t = s THEN [kind |-> "StepLeased", device |-> d, epoch |-> conn[d].epoch]
               ELSE IF t \in Requeued(X) THEN Unowned("StepQueued") ELSE stepEvent[t]]
          /\ conn' = [conn EXCEPT ![d].seq = @ + 1]
     /\ UNCHANGED <<registry, lastEpoch, deviceEvent, createdAt, target, bound,
                    cancel, artifact, paused, hostVars>>

\* finalize_local_coding_result_artifact rechecks in its own transaction all
\* that the authorising read saw before the file was written.  An exact retry
\* changes nothing; another sequence for the same attempt collides.
AdmitResultArtifact(a, seq) ==
  /\ ~paused
  /\ a \in Leased
  /\ StepCap[job[a].step] = CodingCap
  /\ now < job[a].expires
  /\ OnItsConnection(a)
  /\ seq > conn[job[a].device].seq
  /\ stepStatus[job[a].step] = "leased"
  /\ job[a].step \in bound
  /\ artifact[a] = 0
  /\ artifact' = [artifact EXCEPT ![a] = seq]
  /\ UNCHANGED <<deviceVars, stepVars, attStatus, job, cancel, paused, hostVars>>

-----------------------------------------------------------------------------
(* Results *)

ResultMatchesJob_Unbound(a, seq, outcome) ==
  /\ ~paused
  /\ a \in Leased
  /\ seq > job[a].seq
  /\ StepCap[job[a].step] = CodingCap => artifact[a] = seq /\ outcome = "succeeded"

\* What accept_result_bound requires before it looks at the clock.  A coding
\* result needs a current binding and the artifact admitted under its own
\* sequence number, and is always a completion.
ResultMatchesJob(a, seq, outcome) ==
  /\ ~paused
  /\ a \in Leased
  /\ seq > job[a].seq
  /\ StepCap[job[a].step] = CodingCap =>
       job[a].step \in bound /\ artifact[a] = seq /\ outcome = "succeeded"

OutcomeEvent_FailedAsExpired(a, outcome) ==
  CASE outcome = "succeeded" -> OwnedBy("StepSucceeded", a)
    [] outcome = "failed"    -> OwnedBy("StepLeaseExpired", a)
    [] outcome = "cancelled" -> Unowned("StepCancelled")

OutcomeEvent(a, outcome) ==
  CASE outcome = "succeeded" -> OwnedBy("StepSucceeded", a)
    [] outcome = "failed"    -> OwnedBy("StepFailed", a)
    [] outcome = "cancelled" -> Unowned("StepCancelled")

AcceptResult(a, seq, outcome) ==
  /\ ResultMatchesJob(a, seq, outcome)
  /\ now < job[a].expires
  /\ OnItsConnection(a)
  /\ seq > conn[job[a].device].seq
  /\ registry[job[a].device] = "enrolled"
  /\ stepStatus[job[a].step] = "leased"
  /\ attStatus' = [attStatus EXCEPT ![a] = outcome]
  /\ stepStatus' = [stepStatus EXCEPT ![job[a].step] = outcome]
  /\ stepEvent' = [stepEvent EXCEPT ![job[a].step] = OutcomeEvent(a, outcome)]
  /\ conn' = [conn EXCEPT ![job[a].device].seq = seq]
  /\ UNCHANGED <<registry, lastEpoch, deviceEvent, createdAt, target, bound,
                 job, cancel, artifact, paused, hostVars>>

\* A result at or after the lease's expiry is refused, and the refusal
\* commits the expiry of that one lease.
RefuseExpiredResult(a, seq, outcome) ==
  /\ ResultMatchesJob(a, seq, outcome)
  /\ job[a].expires <= now
  /\ attStatus' = [attStatus EXCEPT ![a] = "expired"]
  /\ stepStatus' = [s \in Steps |-> IF s \in Requeued({a}) THEN "queued" ELSE stepStatus[s]]
  /\ stepEvent' = [s \in Steps |->
       IF s \in Requeued({a}) THEN Unowned("StepQueued") ELSE stepEvent[s]]
  /\ UNCHANGED <<deviceVars, createdAt, target, bound, job, cancel, artifact,
                 paused, hostVars>>

-----------------------------------------------------------------------------
(* Cancellation *)

ScheduleReconciliation_Never == timers' = timers

\* schedule_cancellation_deadline_reconciliation: one task that sleeps for
\* the acknowledgement deadline, reconciles once and ends.
ScheduleReconciliation == timers' = timers \cup {AckDeadline}

CancelsAtOnce_AnyNotLeased(s) == stepStatus[s] \notin {"absent", "leased"}

\* The queued arm of cancel_step; a terminal step is not cancellable.
CancelsAtOnce(s) == stepStatus[s] = "queued"

\* cancel_development_step: cancel_step and, when it succeeds, the timer.
CancelStep(s) ==
  /\ \/ /\ CancelsAtOnce(s)
        /\ stepStatus' = [stepStatus EXCEPT ![s] = "cancelled"]
        /\ stepEvent' = [stepEvent EXCEPT ![s] = Unowned("StepCancelled")]
        /\ UNCHANGED <<attStatus, cancel, conn>>
     \/ /\ stepStatus[s] = "leased"
        /\ \E a \in Leased :
             /\ job[a].step = s
             /\ OnItsConnection(a)
             /\ SeqAvailable({a})
             /\ RequestCancellations({a})
             /\ CancellationEvents({}, {a})
        /\ UNCHANGED stepStatus
  /\ ScheduleReconciliation
  /\ UNCHANGED <<registry, lastEpoch, deviceEvent, createdAt, target, bound,
                 job, artifact, paused, now>>

\* next_cancellation_bound by device d: reconciles every overdue
\* cancellation, unless that would close d's own connection, in which case
\* the call fails and rolls the reconciliation back.
NextCancellation(d) ==
  /\ OverdueCancellations # {}
  /\ ReconcileCommits(OverdueCancellations)
  /\ conn[d].active
  /\ d \notin DevicesOf(OverdueCancellations)
  /\ ReconcileCancellationDeadlines(OverdueCancellations)
  /\ UNCHANGED <<registry, lastEpoch, createdAt, target, bound, job, cancel,
                 artifact, paused, hostVars>>

\* accept_cancellation_ack_bound, in time.  Emergency Pause does not gate it.
AcceptCancellationAck(a, seq) ==
  /\ a \in Pending
  /\ seq > cancel[a].seq
  /\ now < cancel[a].deadline
  /\ OnItsConnection(a)
  /\ seq > conn[job[a].device].seq
  /\ attStatus' = [attStatus EXCEPT ![a] = "cancelled"]
  /\ stepStatus' = [s \in Steps |-> IF s \in Requeued({a}) THEN "cancelled" ELSE stepStatus[s]]
  /\ stepEvent' = [stepEvent EXCEPT ![job[a].step] = Unowned("StepCancelled")]
  /\ conn' = [conn EXCEPT ![job[a].device].seq = seq]
  /\ UNCHANGED <<registry, lastEpoch, deviceEvent, createdAt, target, bound,
                 job, cancel, artifact, paused, hostVars>>

\* A late acknowledgement is refused, and the refusal commits the
\* reconciliation of every overdue cancellation.
RefuseLateCancellationAck(a, seq) ==
  /\ a \in OverdueCancellations
  /\ seq > cancel[a].seq
  /\ ReconcileCommits(OverdueCancellations)
  /\ ReconcileCancellationDeadlines(OverdueCancellations)
  /\ UNCHANGED <<registry, lastEpoch, createdAt, target, bound, job, cancel,
                 artifact, paused, hostVars>>

\* The scheduled task wakes; an error of the reconciliation is dropped.
ReconciliationTimerFires ==
  /\ 0 \in timers
  /\ timers' = timers \ {0}
  /\ IF ReconcileCommits(OverdueCancellations)
     THEN ReconcileCancellationDeadlines(OverdueCancellations)
     ELSE UNCHANGED <<attStatus, stepStatus, stepEvent, conn, deviceEvent>>
  /\ UNCHANGED <<registry, lastEpoch, createdAt, target, bound, job, cancel,
                 artifact, paused, now>>

-----------------------------------------------------------------------------
(* Emergency Pause *)

\* The leased attempts request_active_remote_work_cancellations_tx selects.
PauseTargets ==
  {a \in Leased : StepCap[job[a].step] \in RemoteCaps
                  /\ stepStatus[job[a].step] = "leased"}

\* Queued coding steps are cancelled.  A leased attempt of a remote
\* capability is asked to cancel, or, when it is not on its device's present
\* connection, abandoned with its step cancelled.  The pause revision that
\* every coding binding names moves on.
ActivateEmergencyPause ==
  LET Q == {s \in Steps : StepCap[s] = CodingCap /\ stepStatus[s] = "queued"}
      asked == {a \in PauseTargets : OnItsConnection(a)}
      lost == PauseTargets \ asked
  IN /\ ~paused
     /\ SeqAvailable(asked)
     /\ attStatus' = [a \in Attempts |->
          IF a \in asked THEN "cancellation_pending"
          ELSE IF a \in lost THEN "abandoned" ELSE attStatus[a]]
     /\ cancel' = CancelAfterRequest(asked)
     /\ conn' = ConnAfterRequest(asked)
     /\ stepStatus' = [s \in Steps |->
          IF s \in Q \cup StepsOf(lost) THEN "cancelled" ELSE stepStatus[s]]
     /\ CancellationEvents(Q \cup StepsOf(lost), asked)
     /\ bound' = {}
     /\ paused' = TRUE
     /\ ScheduleReconciliation
     /\ UNCHANGED <<registry, lastEpoch, deviceEvent, createdAt, target, job,
                    artifact, now>>

\* Activating the pause again changes no row; the host still starts a timer.
RepeatEmergencyPause ==
  /\ paused
  /\ ScheduleReconciliation
  /\ UNCHANGED <<deviceVars, stepVars, attemptVars, paused, now>>

\* Resuming also moves the pause revision.
ResumeEmergencyPause ==
  /\ paused
  /\ paused' = FALSE
  /\ bound' = {}
  /\ UNCHANGED <<deviceVars, stepStatus, createdAt, target, stepEvent,
                 attemptVars, hostVars>>

-----------------------------------------------------------------------------
(* Restart and time *)

\* The process dies at any point between transactions and starts again.
\* reconcile_interrupted_state makes every pending cancellation overdue,
\* reconciles it, abandons every leased attempt, closes every connection and
\* requeues the steps; the conveyor's own reconciliation then quarantines the
\* active feature, which leaves no coding binding current.  Timers are lost.
\* When the reconciliation fails the master does not start at all.
Restart ==
  /\ ReconcileCommits(Pending)
  /\ Teardown(Pending, Leased, {d \in Devices : conn[d].active})
  /\ cancel' = [a \in Attempts |->
       IF a \in Pending THEN [cancel[a] EXCEPT !.deadline = now] ELSE cancel[a]]
  /\ bound' = {}
  /\ timers' = {}
  /\ UNCHANGED <<registry, lastEpoch, createdAt, target, job, artifact, paused, now>>

\* Wall clock and monotonic clock advance together.
Tick ==
  /\ now < MaxTime
  /\ now' = now + 1
  /\ timers' = {IF t = 0 THEN 0 ELSE t - 1 : t \in timers}
  /\ UNCHANGED <<deviceVars, stepVars, attemptVars, paused>>

\* The wall clock is set back; sleeping tasks do not notice.
ClockStepsBack ==
  /\ ClockMayStepBack
  /\ now > 0
  /\ now' = now - 1
  /\ UNCHANGED <<deviceVars, stepVars, attemptVars, paused, timers>>

-----------------------------------------------------------------------------

DeviceAction(d) ==
  \/ RegisterDevice(d) \/ RevokeDevice(d) \/ AcceptHandshake(d)
  \/ \E epoch \in 1..lastEpoch : DisconnectDevice(d, epoch)
  \/ \E a \in Attempts : LeaseNextStep(d, a)
  \/ NextCancellation(d)

AttemptAction(a) ==
  \E seq \in 1..MaxSeq :
    \/ AdmitResultArtifact(a, seq)
    \/ \E outcome \in OutcomeStatus :
         AcceptResult(a, seq, outcome) \/ RefuseExpiredResult(a, seq, outcome)
    \/ AcceptCancellationAck(a, seq) \/ RefuseLateCancellationAck(a, seq)

StepAction(s) ==
  \/ EnqueueStep(s) \/ CancelStep(s)
  \/ \E d \in Devices : DispatchFeatureCoding(s, d)

\* The open dispatches of one feature: every dispatch whose binding is
\* current belongs to the feature that holds the active lease.
FeatureAction ==
  \/ \E S \in SUBSET bound : CodingBindingLapses(S)
  \/ \E S \in SUBSET {s \in Open : StepCap[s] = CodingCap} :
       bound \cap Open \subseteq S /\ CancelFeatureCoding(S)

HostAction ==
  \/ ReconciliationTimerFires \/ ActivateEmergencyPause
  \/ RepeatEmergencyPause \/ ResumeEmergencyPause
  \/ Restart \/ Tick \/ ClockStepsBack

Next ==
  \/ \E d \in Devices : DeviceAction(d)
  \/ \E a \in Attempts : AttemptAction(a)
  \/ \E s \in Steps : StepAction(s)
  \/ FeatureAction
  \/ HostAction

Spec == Init /\ [][Next]_vars

\* Time passes and a task that has slept long enough is run.  Workers, owners
\* and the network owe nothing.
FairSpec == Spec /\ WF_vars(Tick) /\ WF_vars(ReconciliationTimerFires)

-----------------------------------------------------------------------------
(* Properties *)

Terminal(s) == stepStatus[s] \in OutcomeStatus

\* Every attempt that still runs or still owes an acknowledgement belongs to
\* the connection its device has now.  reconcile_cancellation_deadlines_tx and
\* with it the start of the process fail without this, and no table constraint
\* states it: it is kept by disconnecting, expiring and reconnecting in step.
LiveAttemptsOnActiveConnection == \A a \in Live : OnItsConnection(a)

\* A step is marked leased exactly while one attempt for it is live, and never
\* has two: an expired, requeued and leased again step has one holder only,
\* whatever results and acknowledgements of earlier attempts still arrive.
StepLeasedIffLiveAttempt ==
  /\ \A s \in Steps : stepStatus[s] = "leased" <=> s \in StepsOf(Live)
  /\ \A a, b \in Live : job[a].step = job[b].step => a = b

\* A device runs one attempt at a time.  lease_next_step_bound counts only the
\* rows of the device's present epoch, so this also needs every live attempt
\* to be on the present connection; no table constraint states it.
OneAttemptPerDevice ==
  \A a, b \in Live : job[a].device = job[b].device => a = b

\* The master stays within MAX_CONCURRENT_JOBS and MAX_QUEUED_OR_LEASED_STEPS,
\* although only leasing and enqueuing check the limits while expiry,
\* disconnects, restarts and cancellations move rows between the states.
WithinLimits ==
  /\ Cardinality(Live) <= MaxJobs
  /\ Cardinality(Open) <= MaxSteps

\* While Emergency Pause is on no attempt of a remote capability may deliver a
\* result and no coding step waits to be leased: nothing requeues what the
\* pause stopped, not a disconnect, an expiry, a restart or a late result.
PauseQuiescesRemoteWork ==
  paused =>
    /\ \A a \in Leased : StepCap[job[a].step] \notin RemoteCaps
    /\ \A s \in Steps : StepCap[s] = CodingCap => stepStatus[s] # "queued"

\* Nothing moves a connection's sequence while an attempt on it is leased or
\* owes an acknowledgement, so a worker that numbers its next message one
\* above the job or the instruction is never refused as a replay.
NextMessageIsNeverAReplay ==
  /\ \A a \in Leased : conn[job[a].device].seq = job[a].seq
  /\ \A a \in Pending : /\ conn[job[a].device].seq = cancel[a].seq
                         /\ cancel[a].seq > job[a].seq

\* A consumer that replays master_events knows the tables: the last event about
\* a step says what the step is doing and names its holder, and the last event
\* about a device says whether it is connected.
StepOfEvent(s) ==
  CASE stepStatus[s] = "absent"    -> stepEvent[s] = Unowned("none")
    [] stepStatus[s] = "queued"    -> stepEvent[s] = Unowned("StepQueued")
    [] stepStatus[s] = "cancelled" -> stepEvent[s] = Unowned("StepCancelled")
    [] stepStatus[s] = "succeeded" -> stepEvent[s].kind = "StepSucceeded"
    [] stepStatus[s] = "failed"    -> stepEvent[s].kind = "StepFailed"
    [] stepStatus[s] = "leased"    ->
         \E a \in Live :
           /\ job[a].step = s
           /\ stepEvent[s] = OwnedBy(IF a \in Leased THEN "StepLeased"
                                     ELSE "StepCancellationRequested", a)

JournalAgreesWithTables ==
  /\ \A s \in Steps : StepOfEvent(s)
  /\ \A d \in Devices : conn[d].active <=> deviceEvent[d] = "DeviceConnected"

\* A step that succeeded, failed or was cancelled stays so: a late result, a
\* second acknowledgement, a disconnect or a restart never reopens it.
TerminalStepsStay ==
  [][\A s \in Steps : Terminal(s) => stepStatus'[s] = stepStatus[s]]_vars

\* A coding step is accepted only from an attempt of the device it was
\* dispatched to, whose result artifact was admitted first, and never after a
\* pause, a restart, a revocation or a feature transition came between.
CodingOutcomeIsBoundAndBacked ==
  [][\A s \in Steps :
       StepCap[s] = CodingCap /\ stepStatus'[s] = "succeeded" /\ ~Terminal(s)
       => /\ s \in bound
          /\ \E a \in Leased : /\ job[a].step = s /\ job[a].device = target[s]
                               /\ artifact[a] # 0 /\ attStatus'[a] = "succeeded"]_vars

\* A cancellation of a reasoning step whose deadline the clock reaches is
\* resolved although the worker never answers, never polls and never
\* disconnects.  It rests on the one task that cancel_development_step and
\* activate_emergency_pause start; cancelling a feature starts none, which is
\* why coding steps are left out here.
PendingCancellationResolves ==
  \A a \in Attempts :
    (/\ a \in Pending
     /\ StepCap[job[a].step] # CodingCap
     /\ cancel[a].deadline <= MaxTime) ~> a \notin Pending

-----------------------------------------------------------------------------
(* StepLifecycle, as the tables show it *)

\* A step whose attempt is leased is running, one whose attempt owes an
\* acknowledgement is stopping, and the device of that attempt holds it.
Phase ==
  [s \in Steps |->
     CASE s \in StepsOf(Leased)  -> "running"
       [] s \in StepsOf(Pending) -> "stopping"
       [] OTHER                  -> stepStatus[s]]

Holder ==
  [s \in Steps |->
     IF s \in StepsOf(Live)
     THEN job[CHOOSE a \in Live : job[a].step = s].device ELSE NoDevice]

Lifecycle ==
  INSTANCE StepLifecycle WITH
    Workers <- Devices, Nobody <- NoDevice,
    phase <- Phase, holder <- Holder, halted <- paused

\* The kernel does what StepLifecycle promises, at every transaction.
ImplementsLifecycle == Lifecycle!Spec

=============================================================================
