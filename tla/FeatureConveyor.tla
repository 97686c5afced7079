-------------------------- MODULE FeatureConveyor ---------------------------
(***************************************************************************)
(* The Feature Conveyor of the Windows master: the durable feature queue,  *)
(* the singleton active-feature lease, the coding packets of the active    *)
(* feature, the integration, validation, review and publication gates, the *)
(* transition ledger, owner cancellation and abandonment, orchestration    *)
(* checkpoints with owner pause and resume, Emergency Pause, and restart.  *)
(*                                                                         *)
(* Source: crates/assemblywright-master/src/lib.rs (MasterKernel) and the  *)
(* host in main.rs that calls the review provider and GitHub between two   *)
(* kernel transactions.  A kernel operation is one SQLite transaction; one *)
(* that returns an error rolls back and is a stuttering step.  A request   *)
(* carries the revisions its caller last saw: the request that commits is  *)
(* the one that names the present ones, so only calls that span several    *)
(* transactions (a review call, a publication) carry a binding here.       *)
(*                                                                         *)
(* A coding packet is a step of the step kernel, seen as StepLifecycle     *)
(* describes it; StepKernel models the leases behind it.  A feature is     *)
(* claimed at most once, so its lease id and snapshot are the feature.     *)
(***************************************************************************)
EXTENDS Naturals, Sequences, FiniteSets

CONSTANTS
  Features,          \* feature identities
  NoFeature,         \* no active lease
  DependsOn,         \* feature_dependencies
  Packets,           \* coding work packet identities
  NoRow,             \* a table row that does not exist
  MaxNonterminal,    \* MAX_CONVEYOR_NONTERMINAL_FEATURES
  MaxPackets,        \* packets of one integrated candidate (3)
  MaxReviewCalls,    \* review calls of one candidate (3)
  OrchestrationEvidence, \* whether the activation evidence is complete
  MaxLifecycle,      \* bound: lifecycle revision reached by owner pauses
  MaxQueueRev,       \* bound: queue revision reached by reordering
  MaxPauseRev        \* bound: Emergency Pause revision

ASSUME ConveyorAssumption ==
  /\ NoFeature \notin Features
  /\ DependsOn \in [Features -> SUBSET Features]
  /\ MaxNonterminal \in Nat /\ MaxPackets \in Nat /\ MaxReviewCalls \in Nat
  /\ OrchestrationEvidence \in BOOLEAN
  /\ MaxLifecycle \in Nat /\ MaxQueueRev \in Nat /\ MaxPauseRev \in Nat

VARIABLES
  status,       \* feature_conveyor_features.status
  lrev,         \* feature_conveyor_features.lifecycle_revision
  position,     \* feature_conveyor_queue.queue_position, 0 for no row
  queueRev,     \* feature_conveyor_state.queue_revision
  lease,        \* feature_active_lease
  ledger,       \* feature_transition_evidence of each feature, by revision
  paused,       \* master_metadata.emergency_paused
  pauseRev,     \* master_metadata.emergency_pause_revision
  granted,      \* the grant revisions the approved specification names hold
  packet,       \* feature_coding_dispatches and the status of their steps
  integration,  \* feature_artifact_integrations
  validation,   \* feature_validation_attempts and _completions
  review,       \* feature_review_calls, _call_outcomes and _decisions
  publication,  \* feature_publications, _action_intents and _outcomes
  activated,    \* feature_orchestration_activation
  orch,         \* feature_orchestration_state and its checkpoint
  reviewer,     \* the host thread waiting for the review provider
  publisher,    \* the host thread publishing a candidate
  remote        \* what GitHub executed for each feature, in order

conveyorVars == <<status, lrev, position, queueRev, lease, ledger>>
authorityVars == <<paused, pauseRev, granted>>
gateVars == <<integration, validation, review, publication>>
orchVars == <<activated, orch>>
hostVars == <<reviewer, publisher, remote>>
vars == <<conveyorVars, authorityVars, packet, gateVars, orchVars, hostVars>>

-----------------------------------------------------------------------------
(* Types *)

Gated == {"implementing", "validating", "reviewing", "publishing",
          "verifying_main", "repairing"}
\* FeatureLifecycleStatus::is_active_execution
Active == Gated \cup {"paused"}
\* The statuses abandon_and_advance resolves.
Resolvable == {"cancelled", "quarantined", "attention_required", "failed"}
Released == {"succeeded", "abandoned"}
Statuses == {"absent", "queued"} \cup Active \cup Resolvable \cup Released

Bindings == [lrev: Nat, qrev: Nat, prev: Nat]
LedgerRows == [from: Statuses, to: Statuses, snapshot: BOOLEAN,
               accepted: BOOLEAN, healthy: BOOLEAN]
PacketStates ==
  {"queued", "running", "stopping", "succeeded", "failed", "cancelled"}
\* PublicationActionKind::ORDERED has seven members, the fifth is the merge.
LastAction == 7
MergeAction == 5
ReviewRows == [calls: Nat, outcomes: Nat, backoff: BOOLEAN, retry: BOOLEAN,
               decision: {"none", "approved", "rejected"}, decidedAt: Nat]
OrchRows == [stage: Statuses, resume: Gated \cup {"none"},
             kind: {"none", "owner", "provider"}, effect: BOOLEAN, lrev: Nat]

\* A row is never the absent row.
ASSUME NoRowAssumption == NoRow \notin [at: Bindings, done: 0 .. LastAction]

TypeOK ==
  /\ status \in [Features -> Statuses]
  /\ lrev \in [Features -> Nat]
  /\ position \in [Features -> Nat]
  /\ queueRev \in Nat /\ pauseRev \in Nat
  /\ lease \in Features \cup {NoFeature}
  /\ ledger \in [Features -> Seq(LedgerRows)]
  /\ paused \in BOOLEAN /\ activated \in BOOLEAN
  /\ granted \in [Features -> BOOLEAN]
  /\ packet \in [Packets -> {NoRow} \cup
       [feature: Features, at: Bindings, state: PacketStates]]
  /\ integration \in [Features -> {NoRow} \cup Bindings]
  /\ validation \in [Features -> {NoRow} \cup
       [at: Bindings, result: {"running", "passed", "failed"}]]
  /\ review \in [Features -> ReviewRows]
  /\ publication \in [Features -> {NoRow} \cup [at: Bindings, done: 0 .. LastAction]]
  /\ orch \in [Features -> {NoRow} \cup OrchRows]
  /\ reviewer \in {NoRow} \cup [feature: Features, at: Bindings]
  /\ publisher \in {NoRow} \cup
       [feature: Features, at: Bindings, action: 1 .. LastAction,
        phase: {"check", "execute", "report", "quarantine"}]
  /\ remote \in [Features -> Seq(1 .. LastAction)]

-----------------------------------------------------------------------------
(* Shared parts of the transactions *)

Now(f) == [lrev |-> lrev[f], qrev |-> queueRev, prev |-> pauseRev]

Existing == {f \in Features : status[f] # "absent"}
Nonterminal ==
  {f \in Existing : status[f] \notin {"succeeded", "cancelled", "abandoned"}}
IsQueued(f) == status[f] = "queued"
QueuedRows == {f \in Features : IsQueued(f) /\ position[f] # 0}

\* SELECT COALESCE(MAX(queue_position), 0) over the rows of S.
IsLastPosition(S, m) ==
  /\ m \in {0} \cup {position[f] : f \in S}
  /\ \A f \in S : position[f] <= m
Positions == {0} \cup {position[f] : f \in Features}

\* A lifecycle change: the status, the next revision and its ledger row.
MoveWith(f, to, snapshot, accepted, healthy) ==
  /\ status' = [status EXCEPT ![f] = to]
  /\ lrev' = [lrev EXCEPT ![f] = @ + 1]
  /\ ledger' = [ledger EXCEPT ![f] = Append(@,
       [from |-> status[f], to |-> to, snapshot |-> snapshot,
        accepted |-> accepted, healthy |-> healthy])]

\* Most rows record no digest, or only the accepted evidence.
Move(f, to, accepted) == MoveWith(f, to, FALSE, accepted, FALSE)

\* The queue row and the lease are deleted and the queue revision moves on.
Release(f) ==
  /\ lease' = NoFeature
  /\ position' = [position EXCEPT ![f] = 0]
  /\ queueRev' = queueRev + 1

\* What integration, validation, review and publication all require.
Authorized(f) == ~paused /\ lease = f /\ granted[f]

\* The steps in `from` of the packets of f go to `to`.
StatePackets(f, st) ==
  {p \in Packets :
     packet[p] # NoRow /\ packet[p].feature = f /\ packet[p].state \in st}
SetPackets(P, Q) ==
  packet' = [p \in Packets |->
    IF p \in P THEN [packet[p] EXCEPT !.state = "stopping"]
    ELSE IF p \in Q THEN [packet[p] EXCEPT !.state = "cancelled"]
    ELSE packet[p]]

NoReview == [calls |-> 0, outcomes |-> 0, backoff |-> FALSE, retry |-> FALSE,
             decision |-> "none", decidedAt |-> 0]

Init ==
  /\ status = [f \in Features |-> "absent"]
  /\ lrev = [f \in Features |-> 0]
  /\ position = [f \in Features |-> 0] /\ queueRev = 0
  /\ lease = NoFeature
  /\ ledger = [f \in Features |-> <<>>]
  /\ paused = FALSE /\ pauseRev = 0
  /\ granted = [f \in Features |-> TRUE]
  /\ packet = [p \in Packets |-> NoRow]
  /\ integration = [f \in Features |-> NoRow]
  /\ validation = [f \in Features |-> NoRow]
  /\ review = [f \in Features |-> NoReview]
  /\ publication = [f \in Features |-> NoRow]
  /\ activated = FALSE
  /\ orch = [f \in Features |-> NoRow]
  /\ reviewer = NoRow /\ publisher = NoRow
  /\ remote = [f \in Features |-> <<>>]

-----------------------------------------------------------------------------
(* The queue and the lease *)

\* enqueue_feature: the grants hold, there is room, dependencies exist.
EnqueueFeature(f) ==
  /\ status[f] = "absent"
  /\ granted[f]
  /\ Cardinality(Nonterminal) < MaxNonterminal
  /\ DependsOn[f] \subseteq Existing
  /\ status' = [status EXCEPT ![f] = "queued"]
  /\ lrev' = [lrev EXCEPT ![f] = 1]
  /\ \E last \in Positions :
       /\ IsLastPosition(Features, last)
       /\ position' = [position EXCEPT ![f] = last + 1]
  /\ queueRev' = queueRev + 1
  /\ UNCHANGED <<lease, ledger, authorityVars, packet, gateVars, orchVars, hostVars>>

\* The owner's list names every queued feature exactly once: rank is the place
\* of each in it.
IsQueueOrder(rank) ==
  /\ rank \in [QueuedRows -> 1 .. Cardinality(QueuedRows)]
  /\ \A f, g \in QueuedRows : rank[f] = rank[g] => f = g

\* Variant: the queued rows are renumbered from the first position.
ReorderQueuedFeatures_FromFirst(rank) ==
  /\ queueRev < MaxQueueRev
  /\ IsQueueOrder(rank)
  /\ position' = [f \in Features |->
       IF f \in QueuedRows THEN rank[f] ELSE position[f]]
  /\ queueRev' = queueRev + 1
  /\ UNCHANGED <<status, lrev, lease, ledger, authorityVars, packet, gateVars,
                 orchVars, hostVars>>

\* reorder_queued_features: the queued rows move behind the others, in any
\* order the owner asks for.
ReorderQueuedFeatures(rank) ==
  /\ queueRev < MaxQueueRev
  /\ IsQueueOrder(rank)
  /\ \E active \in Positions :
       /\ IsLastPosition({f \in Features : ~IsQueued(f)}, active)
       /\ position' = [f \in Features |->
            IF f \in QueuedRows THEN active + rank[f] ELSE position[f]]
  /\ queueRev' = queueRev + 1
  /\ UNCHANGED <<status, lrev, lease, ledger, authorityVars, packet, gateVars,
                 orchVars, hostVars>>

\* Variant: a dependency that was given up counts as finished.
DependenciesMet_AnyReleased(f) == \A d \in DependsOn[f] : status[d] \in Released

\* require_snapshot_claim_plan_tx: every dependency succeeded.
DependenciesMet(f) == \A d \in DependsOn[f] : status[d] = "succeeded"

\* The strict queue head.
IsQueueHead(f) ==
  f \in QueuedRows /\ \A g \in QueuedRows : position[f] <= position[g]

\* Variant: the claim trusts the lease check its preparation made.
ClaimFeature_LeaseNotRechecked(f) ==
  /\ ~paused
  /\ IsQueueHead(f)
  /\ DependenciesMet(f)
  /\ granted[f]
  /\ lease' = f
  /\ status' = [status EXCEPT ![f] = "implementing"]
  /\ lrev' = [lrev EXCEPT ![f] = @ + 1]
  /\ queueRev' = queueRev + 1
  /\ UNCHANGED <<position, ledger, authorityVars, packet, gateVars, orchVars, hostVars>>

\* finalize_repository_snapshot_claim: the whole plan is checked again in the
\* transaction that takes the lease, so what preparation saw does not matter.
ClaimFeature(f) ==
  /\ ~paused
  /\ lease = NoFeature
  /\ IsQueueHead(f)
  /\ DependenciesMet(f)
  /\ granted[f]
  /\ lease' = f
  /\ status' = [status EXCEPT ![f] = "implementing"]
  /\ lrev' = [lrev EXCEPT ![f] = @ + 1]
  /\ queueRev' = queueRev + 1
  /\ UNCHANGED <<position, ledger, authorityVars, packet, gateVars, orchVars, hostVars>>

\* A grant is revoked, expires, or is granted again at another revision.
GrantLapses(f) ==
  /\ granted[f]
  /\ granted' = [granted EXCEPT ![f] = FALSE]
  /\ UNCHANGED <<conveyorVars, paused, pauseRev, packet, gateVars, orchVars, hostVars>>

-----------------------------------------------------------------------------
(* Coding packets *)

PacketVarsOnly == UNCHANGED <<conveyorVars, authorityVars, gateVars, orchVars, hostVars>>

\* coding_job_binding_is_current_tx
PacketCurrent(p) ==
  LET f == packet[p].feature IN
  /\ lease = f
  /\ status[f] = "implementing"
  /\ packet[p].at = Now(f)

\* dispatch_feature_coding: no grant is looked at.
DispatchFeatureCoding(p, f) ==
  /\ packet[p] = NoRow
  /\ ~paused
  /\ lease = f /\ status[f] = "implementing"
  /\ packet' = [packet EXCEPT ![p] =
       [feature |-> f, at |-> Now(f), state |-> "queued"]]
  /\ PacketVarsOnly

\* lease_next_step hands the packet to the device it was dispatched to.
LeasePacket(p) ==
  /\ packet[p] # NoRow /\ packet[p].state = "queued"
  /\ ~paused
  /\ PacketCurrent(p)
  /\ packet' = [packet EXCEPT ![p].state = "running"]
  /\ PacketVarsOnly

\* accept_result, with the admitted result artifact if the packet succeeded.
FinishPacket(p, outcome) ==
  /\ packet[p] # NoRow /\ packet[p].state = "running"
  /\ ~paused
  /\ PacketCurrent(p)
  /\ packet' = [packet EXCEPT ![p].state = outcome]
  /\ PacketVarsOnly

\* A disconnect, an expired lease or a missed acknowledgement deadline: work
\* waits for another lease, work that was asked to stop is cancelled.  The
\* acknowledgement itself also ends it cancelled.
LosePacket(p) ==
  /\ packet[p] # NoRow
  /\ \/ /\ packet[p].state = "running"
        /\ packet' = [packet EXCEPT ![p].state = "queued"]
     \/ /\ packet[p].state = "stopping"
        /\ packet' = [packet EXCEPT ![p].state = "cancelled"]
  /\ PacketVarsOnly

\* The owner cancels the step itself rather than the feature.
StopPacket(p) ==
  /\ packet[p] # NoRow
  /\ \/ packet[p].state = "queued" /\ SetPackets({}, {p})
     \/ packet[p].state = "running" /\ SetPackets({p}, {})
  /\ PacketVarsOnly

-----------------------------------------------------------------------------
(* The gates *)

PacketsOf(f) == StatePackets(f, PacketStates)

\* finalize_artifact_integration: every packet the feature ever dispatched
\* succeeded at the present lifecycle revision, and there are not too many.
IntegrationReady(f) ==
  /\ Authorized(f) /\ status[f] = "implementing"
  /\ PacketsOf(f) # {} /\ Cardinality(PacketsOf(f)) <= MaxPackets
  /\ \A p \in PacketsOf(f) :
       packet[p].state = "succeeded" /\ packet[p].at.lrev = lrev[f]

FinalizeIntegration(f) ==
  /\ IntegrationReady(f)
  /\ integration' = [integration EXCEPT ![f] = Now(f)]
  /\ Move(f, "validating", TRUE)
  /\ UNCHANGED <<position, queueRev, lease, authorityVars, packet, validation, review,
                 publication, orchVars, hostVars>>

\* validate_validation_gate_binding_tx
ValidationCurrent(f) ==
  /\ Authorized(f) /\ status[f] = "validating"
  /\ integration[f] # NoRow
  /\ Now(f) = [integration[f] EXCEPT !.lrev = @ + 1]

\* begin_validation_gate: one attempt per candidate, by a UNIQUE constraint.
BeginValidation(f) ==
  /\ ValidationCurrent(f)
  /\ validation[f] = NoRow
  /\ validation' = [validation EXCEPT ![f] = [at |-> Now(f), result |-> "running"]]
  /\ UNCHANGED <<conveyorVars, authorityVars, packet, integration, review,
                 publication, orchVars, hostVars>>

\* finalize_validation_gate: a failure is recorded and moves nothing.
FinalizeValidation(f, passed) ==
  /\ ValidationCurrent(f)
  /\ validation[f] # NoRow
  /\ validation[f].at = Now(f) /\ validation[f].result = "running"
  /\ validation' = [validation EXCEPT ![f].result =
       IF passed THEN "passed" ELSE "failed"]
  /\ \/ passed /\ MoveWith(f, "reviewing", TRUE, TRUE, FALSE)
     \/ ~passed /\ UNCHANGED <<status, lrev, ledger>>
  /\ UNCHANGED <<position, queueRev, lease, authorityVars, packet, integration, review,
                 publication, orchVars, hostVars>>

\* review_gateway_plan_tx for the request whose binding is `at`.
ReviewCurrent(f, at) ==
  /\ Authorized(f) /\ at = Now(f)
  /\ integration[f] # NoRow
  /\ at = [integration[f] EXCEPT !.lrev = @ + 2]
  /\ validation[f] # NoRow /\ validation[f].result = "passed"
  /\ at = [validation[f].at EXCEPT !.lrev = @ + 1]
  /\ status[f] = "reviewing"

\* begin_review_gateway opens a durable call before the provider is asked.
BeginReview(f) ==
  /\ reviewer = NoRow
  /\ ReviewCurrent(f, Now(f))
  /\ review[f].decision = "none"
  /\ review[f].calls < MaxReviewCalls
  /\ ~review[f].backoff
  /\ review' = [review EXCEPT ![f].calls = @ + 1]
  /\ reviewer' = [feature |-> f, at |-> Now(f)]
  /\ UNCHANGED <<conveyorVars, authorityVars, packet, integration, validation,
                 publication, orchVars, publisher, remote>>

\* finalize_review_transport_failure: only the call itself must be open.
ReviewTransportFails(f) ==
  /\ reviewer # NoRow /\ reviewer.feature = f
  /\ reviewer' = NoRow
  /\ review' = [review EXCEPT ![f].outcomes = @ + 1, ![f].backoff = TRUE,
                              ![f].retry = TRUE]
  /\ UNCHANGED <<conveyorVars, authorityVars, packet, integration, validation,
                 publication, orchVars, publisher, remote>>

\* The time next_retry_at_ms names is reached.
RetryTimeReached(f) ==
  /\ review[f].backoff
  /\ review' = [review EXCEPT ![f].backoff = FALSE]
  /\ UNCHANGED <<conveyorVars, authorityVars, packet, integration, validation,
                 publication, orchVars, hostVars>>

\* finalize_interrupted_review_call: the feature is quarantined only if it is
\* still where the call left it.
ReviewInterrupted(f) ==
  /\ reviewer # NoRow /\ reviewer.feature = f
  /\ reviewer' = NoRow
  /\ review' = [review EXCEPT ![f].outcomes = @ + 1]
  /\ IF status[f] = "reviewing" /\ lrev[f] = reviewer.at.lrev
       THEN Move(f, "quarantined", FALSE)
       ELSE UNCHANGED <<status, lrev, ledger>>
  /\ UNCHANGED <<position, queueRev, lease, authorityVars, packet, integration,
                 validation, publication, orchVars, publisher, remote>>

\* Variant: the decision is applied without checking the binding again.
ReviewDecides_NotRechecked(f, decision) ==
  /\ reviewer # NoRow /\ reviewer.feature = f
  /\ reviewer' = NoRow
  /\ review' = [review EXCEPT ![f].outcomes = @ + 1, ![f].decision = decision,
       ![f].decidedAt = IF decision = "approved" THEN lrev[f] + 1 ELSE lrev[f]]
  /\ \/ decision = "approved" /\ MoveWith(f, "publishing", TRUE, TRUE, FALSE)
     \/ decision = "rejected" /\ UNCHANGED <<status, lrev, ledger>>
  /\ UNCHANGED <<position, queueRev, lease, authorityVars, packet, integration,
                 validation, publication, orchVars, publisher, remote>>

\* finalize_review_decision; the host reports an interruption if it fails.
ReviewDecides(f, decision) ==
  /\ reviewer # NoRow /\ reviewer.feature = f
  /\ ReviewCurrent(f, reviewer.at)
  /\ reviewer' = NoRow
  /\ review' = [review EXCEPT ![f].outcomes = @ + 1, ![f].decision = decision,
       ![f].decidedAt = IF decision = "approved" THEN lrev[f] + 1 ELSE lrev[f]]
  /\ \/ decision = "approved" /\ MoveWith(f, "publishing", TRUE, TRUE, FALSE)
     \/ decision = "rejected" /\ UNCHANGED <<status, lrev, ledger>>
  /\ UNCHANGED <<position, queueRev, lease, authorityVars, packet, integration,
                 validation, publication, orchVars, publisher, remote>>

-----------------------------------------------------------------------------
(* Publication *)

\* Variant: the review may have approved an earlier revision.
PublicationCurrent_AnyApproval(f, at) ==
  /\ Authorized(f)
  /\ at.qrev = queueRev /\ at.prev = pauseRev
  /\ \/ status[f] = "publishing" /\ lrev[f] = at.lrev
     \/ status[f] = "verifying_main" /\ lrev[f] = at.lrev + 1
  /\ review[f].decision = "approved"

\* publication_plan_tx for the request whose binding is `at`.
PublicationCurrent(f, at) ==
  /\ Authorized(f)
  /\ at.qrev = queueRev /\ at.prev = pauseRev
  /\ \/ status[f] = "publishing" /\ lrev[f] = at.lrev
     \/ status[f] = "verifying_main" /\ lrev[f] = at.lrev + 1
  /\ review[f].decision = "approved" /\ review[f].decidedAt = at.lrev

\* An intent without an outcome: the remote may or may not have acted.
Unresolved(f) == publication[f] # NoRow /\ publication[f].done < LastAction

\* Variant: only a merge with a recorded outcome counts.
MergeIntended_OutcomeOnly(f) == publication[f] # NoRow /\ publication[f].done >= MergeAction

\* publication_merge_effect_possible_tx
MergeIntended(f) == publication[f] # NoRow /\ publication[f].done >= MergeAction - 1

\* begin_publication records the publication and the intent to push.
BeginPublication(f) ==
  /\ publisher = NoRow
  /\ PublicationCurrent(f, Now(f))
  /\ publication[f] = NoRow
  /\ publication' = [publication EXCEPT ![f] = [at |-> Now(f), done |-> 0]]
  /\ publisher' = [feature |-> f, at |-> Now(f), action |-> 1, phase |-> "check"]
  /\ UNCHANGED <<conveyorVars, authorityVars, packet, integration, validation, review,
                 orchVars, reviewer, remote>>

PublisherAt(f, phase) ==
  publisher # NoRow /\ publisher.feature = f /\ publisher.phase = phase

\* publication_execution_is_current, asked before each action.
CheckPublication(f) ==
  /\ PublisherAt(f, "check")
  /\ publisher' = [publisher EXCEPT !.phase =
       IF /\ PublicationCurrent(f, publisher.at)
          /\ publication[f].done + 1 = publisher.action
         THEN "execute" ELSE "quarantine"]
  /\ UNCHANGED <<conveyorVars, authorityVars, packet, gateVars, orchVars, reviewer, remote>>

\* adapter.execute, outside every lock: GitHub acts or not; only an action
\* that happened can yield evidence, but it may also fail after it happened,
\* be cancelled, or run past its deadline.
ExecutePublication(f, acted, reported) ==
  /\ PublisherAt(f, "execute")
  /\ reported => acted
  /\ remote' = IF acted THEN [remote EXCEPT ![f] = Append(@, publisher.action)]
                        ELSE remote
  /\ publisher' = [publisher EXCEPT !.phase =
       IF reported THEN "report" ELSE "quarantine"]
  /\ UNCHANGED <<conveyorVars, authorityVars, packet, gateVars, orchVars, reviewer>>

PublicationReportable(f) ==
  /\ PublicationCurrent(f, publisher.at)
  /\ publication[f].done + 1 = publisher.action

\* Variant: the loop over the actions runs one too far.
CompletePublicationAction_OneMore(f) ==
  /\ PublisherAt(f, "report")
  /\ PublicationReportable(f)
  /\ publication' = [publication EXCEPT ![f].done = @ + 1]
  /\ UNCHANGED <<conveyorVars, authorityVars, packet, integration, validation, review,
                 orchVars, reviewer, remote>>
  /\ publisher' = [publisher EXCEPT !.action = @ + 1, !.phase = "check"]

\* complete_publication_action: the outcome, the next intent, and for the
\* merge and the last action the lifecycle change.
CompletePublicationAction(f) ==
  /\ PublisherAt(f, "report")
  /\ PublicationReportable(f)
  /\ publication' = [publication EXCEPT ![f].done = @ + 1]
  /\ \/ /\ publisher.action = MergeAction
        /\ status[f] = "publishing"
        /\ Move(f, "verifying_main", TRUE)
        /\ UNCHANGED <<position, queueRev, lease>>
     \/ /\ publisher.action = LastAction
        /\ status[f] = "verifying_main"
        /\ MoveWith(f, "succeeded", FALSE, FALSE, TRUE)
        /\ Release(f)
     \/ publisher.action \notin {MergeAction, LastAction} /\ UNCHANGED conveyorVars
  /\ publisher' = IF publisher.action = LastAction THEN NoRow
       ELSE [publisher EXCEPT !.action = @ + 1, !.phase = "check"]
  /\ UNCHANGED <<authorityVars, packet, integration, validation, review, orchVars,
                 reviewer, remote>>

\* The poll after the call fails, or the completion is refused.
DropPublicationReport(f) ==
  /\ PublisherAt(f, "report")
  /\ publisher' = [publisher EXCEPT !.phase = "quarantine"]
  /\ UNCHANGED <<conveyorVars, authorityVars, packet, gateVars, orchVars, reviewer, remote>>

\* Variant: an ambiguous action is tried again.
QuarantinePublication_Retries(f) ==
  /\ PublisherAt(f, "quarantine")
  /\ publisher' = [publisher EXCEPT !.phase = "check"]
  /\ UNCHANGED <<conveyorVars, authorityVars, packet, gateVars, orchVars,
                 reviewer, remote>>

\* Variant: only a feature that still publishes is quarantined.
QuarantinePublication_PublishingOnly(f) ==
  /\ PublisherAt(f, "quarantine")
  /\ publisher' = NoRow
  /\ IF status[f] = "publishing"
       THEN Move(f, "quarantined", FALSE)
       ELSE UNCHANGED <<status, lrev, ledger>>
  /\ UNCHANGED <<position, queueRev, lease, authorityVars, packet, gateVars, orchVars,
                 reviewer, remote>>

\* quarantine_ambiguous_publication looks at the status alone; whatever it
\* answers, the host stops publishing.
QuarantinePublication(f) ==
  /\ PublisherAt(f, "quarantine")
  /\ publisher' = NoRow
  /\ IF status[f] \in {"publishing", "verifying_main"}
       THEN Move(f, "quarantined", FALSE)
       ELSE UNCHANGED <<status, lrev, ledger>>
  /\ UNCHANGED <<position, queueRev, lease, authorityVars, packet, gateVars, orchVars,
                 reviewer, remote>>

-----------------------------------------------------------------------------
(* Owner resolution *)

\* Variant: the cancellation writes no transition evidence.
CancelActiveFeature_NoLedgerRow(f) ==
  /\ lease = f
  /\ status[f] \in Active
  /\ StatePackets(f, {"stopping"}) = {}
  /\ status' = [status EXCEPT ![f] = "cancelled"]
  /\ lrev' = [lrev EXCEPT ![f] = @ + 1]
  /\ SetPackets(StatePackets(f, {"running"}), StatePackets(f, {"queued"}))
  /\ UNCHANGED <<position, queueRev, lease, ledger, authorityVars, gateVars, orchVars,
                 hostVars>>

\* cancel_active_feature, also while Emergency Paused.  Queued packets are
\* cancelled and running ones asked to stop; one that was already asked to
\* stop fails the whole transaction, because no leased attempt is found.
CancelActiveFeature(f) ==
  /\ lease = f
  /\ status[f] \in Active
  /\ StatePackets(f, {"stopping"}) = {}
  /\ Move(f, "cancelled", FALSE)
  /\ SetPackets(StatePackets(f, {"running"}), StatePackets(f, {"queued"}))
  /\ UNCHANGED <<position, queueRev, lease, authorityVars, gateVars, orchVars, hostVars>>

LedgerRow(f, rev) == ledger[f][rev - 2]
HasLedgerRow(f, rev) == rev - 2 \in DOMAIN ledger[f]

\* feature_resolution_origin_tx: the row of the blocking transition is bare,
\* and one that left verifying_main follows the merge's full evidence row.
ResolutionOriginKnown(f) ==
  /\ HasLedgerRow(f, lrev[f])
  /\ LET row == LedgerRow(f, lrev[f]) IN
     /\ row.to = status[f] /\ row.from \in Active
     /\ ~row.snapshot /\ ~row.accepted /\ ~row.healthy
     /\ row.from = "verifying_main" =>
          /\ HasLedgerRow(f, lrev[f] - 1)
          /\ LET prior == LedgerRow(f, lrev[f] - 1) IN
             /\ prior.from = "publishing" /\ prior.to = "verifying_main"
             /\ prior.snapshot /\ prior.accepted /\ ~prior.healthy

HealthyMainRequired(f) ==
  LedgerRow(f, lrev[f]).from = "verifying_main" \/ MergeIntended(f)

\* abandon_and_advance: `healthy` is the owner's claim that the merge was
\* reconciled and main verified healthy.  Outstanding packets and a host
\* thread still at work are not looked at.
AbandonAndAdvance(f, healthy) ==
  /\ lease = f
  /\ status[f] \in Resolvable
  /\ ResolutionOriginKnown(f)
  /\ HealthyMainRequired(f) => healthy
  /\ MoveWith(f, "abandoned", FALSE, FALSE, healthy)
  /\ Release(f)
  /\ UNCHANGED <<authorityVars, packet, gateVars, orchVars, hostVars>>

-----------------------------------------------------------------------------
(* Orchestration checkpoints *)

\* activate_feature_orchestration_from_owner_bridge
ActivateOrchestration ==
  /\ OrchestrationEvidence
  /\ ~paused /\ ~activated
  /\ activated' = TRUE
  /\ UNCHANGED <<conveyorVars, authorityVars, packet, gateVars, orch, hostVars>>

Decided(stage, accepted) ==
  [stage |-> stage, kind |-> "none", accepted |-> accepted, effect |-> FALSE]
Ambiguous ==
  [stage |-> "quarantined", kind |-> "none", accepted |-> FALSE, effect |-> TRUE]

\* What the review tables say about a feature in review.
ReviewStage(f) ==
  IF review[f].calls > review[f].outcomes THEN Ambiguous
  ELSE IF review[f].decision = "rejected" THEN Decided("repairing", TRUE)
  ELSE IF review[f].outcomes >= MaxReviewCalls THEN Decided("attention_required", FALSE)
  ELSE IF review[f].retry /\ review[f].backoff
    THEN [Decided("paused", TRUE) EXCEPT !.kind = "provider"]
  ELSE Decided("reviewing", review[f].retry)

\* derive_orchestration_decision_tx
Decision(f) ==
  CASE status[f] \in {"publishing", "verifying_main"} /\ Unresolved(f) -> Ambiguous
    [] status[f] = "quarantined" -> Ambiguous
    [] status[f] = "paused" ->
         IF orch[f].kind = "provider" /\ ~review[f].backoff
           THEN Decided(orch[f].resume, FALSE)
           ELSE [Decided("paused", FALSE) EXCEPT !.kind = orch[f].kind]
    [] status[f] = "validating" ->
         IF validation[f] # NoRow /\ validation[f].result = "failed"
           THEN Decided("repairing", TRUE) ELSE Decided("validating", FALSE)
    [] status[f] = "reviewing" -> ReviewStage(f)
    [] status[f] = "repairing" -> Decided("attention_required", FALSE)
    [] OTHER -> Decided(status[f], FALSE)

\* coordinate_feature_orchestration.  A checkpoint that would record a pause
\* of a paused feature violates a CHECK of feature_orchestration_state and is
\* rolled back.  `exhausted`: the active-processing budget ran out, which
\* needs an earlier checkpoint to have started the clock.
CoordinateOrchestration(f, exhausted) ==
  LET d == IF exhausted /\ Decision(f).stage # "quarantined"
             THEN Decided("attention_required", FALSE) ELSE Decision(f)
      moves == d.stage # status[f]
  IN
  /\ ~paused /\ activated
  /\ lease = f
  /\ status[f] \in Active \cup {"quarantined"}
  /\ exhausted => orch[f] # NoRow
  /\ status[f] = "paused" => orch[f] # NoRow
  /\ ~(d.stage = "paused" /\ status[f] = "paused")
  /\ \/ moves /\ Move(f, d.stage, d.accepted)
     \/ ~moves /\ UNCHANGED <<status, lrev, ledger>>
  /\ orch' = [orch EXCEPT ![f] =
       [stage |-> d.stage, kind |-> d.kind, effect |-> d.effect, lrev |-> lrev'[f],
        resume |-> IF d.stage = "paused" THEN status[f] ELSE "none"]]
  /\ UNCHANGED <<position, queueRev, lease, authorityVars, packet, gateVars, activated,
                 hostVars>>

\* pause_feature_orchestration_from_owner_bridge.  It trusts the last
\* checkpoint: neither the present status nor the effect tables are looked at.
OwnerPause(f) ==
  /\ lrev[f] < MaxLifecycle
  /\ ~paused /\ activated
  /\ lease = f
  /\ orch[f] # NoRow /\ ~orch[f].effect
  /\ status[f] # "paused" /\ orch[f].stage \in Gated
  /\ Move(f, "paused", FALSE)
  /\ orch' = [orch EXCEPT ![f] =
       [stage |-> "paused", resume |-> orch[f].stage, kind |-> "owner",
        effect |-> FALSE, lrev |-> lrev'[f]]]
  /\ UNCHANGED <<position, queueRev, lease, authorityVars, packet, gateVars, activated,
                 hostVars>>

\* resume_feature_orchestration_from_owner_bridge
OwnerResume(f) ==
  /\ ~paused /\ activated
  /\ lease = f
  /\ orch[f] # NoRow /\ ~orch[f].effect
  /\ status[f] = "paused" /\ orch[f].stage = "paused" /\ orch[f].kind = "owner"
  /\ Move(f, orch[f].resume, FALSE)
  /\ orch' = [orch EXCEPT ![f] =
       [stage |-> orch[f].resume, resume |-> "none", kind |-> "none",
        effect |-> FALSE, lrev |-> lrev'[f]]]
  /\ UNCHANGED <<position, queueRev, lease, authorityVars, packet, gateVars, activated,
                 hostVars>>

-----------------------------------------------------------------------------
(* Emergency Pause and restart *)

\* set_emergency_paused_at: coding work that is running is asked to stop.
SetEmergencyPaused(on) ==
  /\ pauseRev < MaxPauseRev
  /\ paused # on
  /\ paused' = on
  /\ pauseRev' = pauseRev + 1
  /\ IF on THEN SetPackets({p \in Packets : packet[p] # NoRow /\ packet[p].state = "running"}, {})
           ELSE UNCHANGED packet
  /\ UNCHANGED <<conveyorVars, granted, gateVars, orchVars, hostVars>>

\* orchestration_paused_checkpoint_is_restart_safe_tx
RestartSafe(f) ==
  /\ status[f] = "paused"
  /\ activated /\ orch[f] # NoRow
  /\ orch[f].stage = "paused" /\ ~orch[f].effect
  /\ orch[f].lrev = lrev[f]

\* The process dies at any moment and starts again: host threads are gone,
\* leased packets wait again, pending cancellations end
\* (reconcile_startup_connections), and the active feature is quarantined
\* (reconcile_feature_conveyor_startup).
Restart ==
  /\ reviewer' = NoRow /\ publisher' = NoRow
  /\ packet' = [p \in Packets |->
       IF packet[p] = NoRow THEN NoRow ELSE
       CASE packet[p].state = "running" -> [packet[p] EXCEPT !.state = "queued"]
         [] packet[p].state = "stopping" -> [packet[p] EXCEPT !.state = "cancelled"]
         [] OTHER -> packet[p]]
  /\ IF lease # NoFeature /\ status[lease] \in Active /\ ~RestartSafe(lease)
       THEN Move(lease, "quarantined", FALSE)
       ELSE UNCHANGED <<status, lrev, ledger>>
  /\ UNCHANGED <<position, queueRev, lease, authorityVars, gateVars, orchVars, remote>>

-----------------------------------------------------------------------------
(* The specification *)

QueueAction(f) == EnqueueFeature(f) \/ ClaimFeature(f) \/ GrantLapses(f)

PacketAction(p) ==
  \/ \E f \in Features : DispatchFeatureCoding(p, f)
  \/ LeasePacket(p) \/ LosePacket(p) \/ StopPacket(p)
  \/ \E outcome \in {"succeeded", "failed", "cancelled"} : FinishPacket(p, outcome)

GateAction(f) ==
  \/ FinalizeIntegration(f)
  \/ BeginValidation(f)
  \/ \E passed \in BOOLEAN : FinalizeValidation(f, passed)
  \/ BeginReview(f)
  \/ ReviewTransportFails(f) \/ RetryTimeReached(f) \/ ReviewInterrupted(f)
  \/ \E decision \in {"approved", "rejected"} : ReviewDecides(f, decision)

PublisherAction(f) ==
  \/ CheckPublication(f)
  \/ \E acted, reported \in BOOLEAN : ExecutePublication(f, acted, reported)
  \/ CompletePublicationAction(f)
  \/ DropPublicationReport(f)
  \/ QuarantinePublication(f)

OwnerAction(f) ==
  \/ CancelActiveFeature(f)
  \/ \E healthy \in BOOLEAN : AbandonAndAdvance(f, healthy)

OrchestrationAction(f) ==
  \/ \E exhausted \in BOOLEAN : CoordinateOrchestration(f, exhausted)
  \/ OwnerPause(f) \/ OwnerResume(f)

Next ==
  \/ \E f \in Features :
       \/ QueueAction(f) \/ GateAction(f)
       \/ BeginPublication(f) \/ PublisherAction(f)
       \/ OwnerAction(f) \/ OrchestrationAction(f)
  \/ \E rank \in [QueuedRows -> 1 .. Cardinality(QueuedRows)] :
       ReorderQueuedFeatures(rank)
  \/ \E p \in Packets : PacketAction(p)
  \/ \E on \in BOOLEAN : SetEmergencyPaused(on)
  \/ ActivateOrchestration
  \/ Restart

Spec == Init /\ [][Next]_vars

\* The host thread that publishes runs on until it ends: every step it takes
\* is its own, and each call to GitHub has a deadline.
FairSpec == Spec /\ \A f \in Features : WF_vars(PublisherAction(f))

-----------------------------------------------------------------------------
(* Properties *)

\* The singleton lease: it is held by a feature from its claim until it
\* succeeded or was abandoned, through failures, cancellation, pauses and
\* restarts, and no other feature is under way meanwhile.
LeaseHeldUntilReleased ==
  \A f \in Features :
    lease = f <=> status[f] \notin {"absent", "queued"} \cup Released

\* The queue holds exactly the unfinished features, each at a position of its
\* own, and the lease holder heads it, whatever was enqueued, reordered or
\* released around it.
QueueMatchesLease ==
  /\ \A f \in Features : position[f] # 0 <=> status[f] = "queued" \/ lease = f
  /\ \A f, g \in Features : position[f] # 0 /\ position[f] = position[g] => f = g
  /\ lease # NoFeature =>
       \A f \in Features : position[f] # 0 => position[lease] <= position[f]

\* A feature is worked on only after everything it depends on succeeded, and
\* never after a dependency was cancelled, quarantined or given up.
DependentsWaitForSuccess ==
  \A f \in Features : lease = f \/ status[f] \in Released =>
    \A d \in DependsOn[f] : status[d] = "succeeded"

\* The transition ledger explains the present status of every claimed feature:
\* one row per revision, each starting where the last one ended.
LedgerExplainsStatus ==
  \A f \in Features : lease = f \/ status[f] \in Released =>
    LET rows == ledger[f] IN
    /\ Len(rows) = lrev[f] - 2
    /\ rows # <<>> => rows[1].from = "implementing" /\ rows[Len(rows)].to = status[f]
    /\ \A i \in 1 .. Len(rows) - 1 : rows[i].to = rows[i + 1].from

\* Nothing is merged that was not integrated, validated and approved, each at
\* the lifecycle revision the gate before it produced; and what is merged holds
\* everything that was coded for the feature until then: no such packet is
\* unfinished, failed or of another revision.
MergeBackedByGates ==
  \A f \in Features : MergeAction \in {remote[f][i] : i \in DOMAIN remote[f]} =>
    /\ review[f].decision = "approved"
    /\ validation[f] # NoRow /\ validation[f].result = "passed"
    /\ integration[f] # NoRow
    /\ validation[f].at.lrev = integration[f].lrev + 1
    /\ review[f].decidedAt = integration[f].lrev + 3
    /\ publication[f].at.lrev = review[f].decidedAt
    /\ LET coded == {p \in PacketsOf(f) : packet[p].at.lrev <= integration[f].lrev} IN
       /\ coded # {}
       /\ \A p \in coded :
            packet[p].state = "succeeded" /\ packet[p].at.lrev = integration[f].lrev

\* GitHub is asked for each publication action at most once and in order:
\* a lost answer, a crash or a cancellation never makes the host repeat one.
EffectsOnceInOrder ==
  \A f \in Features :
    \A i \in DOMAIN remote[f] : remote[f][i] = i

\* A feature whose merge reached the remote is given up only with a healthy
\* main verified, however the outcome of the merge call was lost.
MergedThenAbandonedIsReconciled ==
  \A f \in Features :
    status[f] = "abandoned" /\ Len(remote[f]) >= MergeAction =>
      ledger[f][Len(ledger[f])].healthy

\* A feature that was cancelled or quarantined stays so until it is abandoned:
\* no late review, publication or restart brings it back.
ResolutionIsFinal ==
  [][\A f \in Features :
       status[f] \in {"cancelled", "quarantined"} =>
         status'[f] \in {status[f], "abandoned"}]_vars

\* The publishing host leaves no feature behind: one whose publication began
\* eventually succeeds or waits for its owner.
PublicationSettles ==
  \A f \in Features :
    publication[f] # NoRow ~> status[f] \in Released \cup Resolvable

\* Owner cancellation stays available while Emergency Paused: an active
\* feature can be cancelled in whatever state its packets are.
OwnerCancelAvailable ==
  \A f \in Features :
    paused /\ lease = f /\ status[f] \in Active => ENABLED CancelActiveFeature(f)

\* After exact reconciliation the owner may abandon: with a healthy main
\* verified, no blocked feature keeps the lease for ever.
ReconciledFeatureCanBeAbandoned ==
  \A f \in Features :
    lease = f /\ status[f] \in Resolvable => ResolutionOriginKnown(f)

\* Startup resumes only paused work whose effects are known.
RestartQuarantinesUnresolvedEffects ==
  [][Restart => \A f \in Features :
       Unresolved(f) => status'[f] \in Resolvable \cup Released]_vars

\* A paused feature is safely resumable: a feature back in review after a
\* provider backoff has its next review call admitted.
ResumedReviewIsAdmitted ==
  \A f \in Features :
    /\ Authorized(f) /\ status[f] = "reviewing"
    /\ orch[f] # NoRow /\ orch[f].stage = "reviewing" /\ orch[f].lrev = lrev[f]
    /\ ~review[f].backoff /\ review[f].calls < MaxReviewCalls
    /\ review[f].decision = "none"
    /\ integration[f] # NoRow
    /\ integration[f].qrev = queueRev /\ integration[f].prev = pauseRev
    => ReviewCurrent(f, Now(f))

=============================================================================
