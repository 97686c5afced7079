------------------------- MODULE FeatureGates_proofs -------------------------
(***************************************************************************)
(* The queue, the dependencies, the gates before a merge and the finality  *)
(* of a resolution, proved on top of the conveyor's invariant.             *)
(*                                                                         *)
(* Two views of a step carry the proofs.  For the queue and the lifecycle  *)
(* every step is one of six line effects; for the gates it either leaves   *)
(* the gate rows alone or is one of the five operations that write them,   *)
(* and no step changes a coding packet that has succeeded.                 *)
(***************************************************************************)
EXTENDS FeatureConveyor_proofs

USE ConveyorAssumption
    DEF Gated, Active, Resolvable, Released, Statuses, LastAction, MergeAction

-----------------------------------------------------------------------------
(* The line: status, revision, lease and queue position *)

lineVars == <<status, lrev, lease, position>>

\* One feature goes to another status, at the next revision.
Moved(f, to) ==
  /\ status' = [status EXCEPT ![f] = to]
  /\ lrev' = [lrev EXCEPT ![f] = @ + 1]

Resolved == {"cancelled", "quarantined"}

\* The holder of the lease moves on and keeps it.
HolderMoves(f, to) ==
  /\ lease = f /\ to \in Blocking
  /\ Moved(f, to)
  /\ UNCHANGED <<lease, position>>
  /\ status[f] \in Resolved => to = status[f] \/ OwnerPause(f)

\* The holder of the lease gives it up, and its place in the queue.
HolderLeaves(f, to) ==
  /\ lease = f /\ to \in Released
  /\ Moved(f, to)
  /\ lease' = NoFeature
  /\ position' = [position EXCEPT ![f] = 0]
  /\ status[f] \in Resolved => to = "abandoned"

LineEffect ==
  \/ UNCHANGED lineVars
  \/ \E f \in Features : EnqueueFeature(f) \/ ClaimFeature(f)
  \/ \E rank : ReorderQueuedFeatures(rank)
  \/ \E f \in Features, to \in Blocking : HolderMoves(f, to)
  \/ \E f \in Features, to \in Released : HolderLeaves(f, to)

\* The MoveWith of an operation, for a holder that is not yet resolved.
LEMMA MoveIsLineEffect ==
  ASSUME NEW f \in Features, NEW to \in Blocking, NEW s, NEW a, NEW h,
         lease = f, MoveWith(f, to, s, a, h), UNCHANGED <<lease, position>>,
         status[f] \in Resolved => to = status[f] \/ OwnerPause(f)
  PROVE  LineEffect
<1>1. HolderMoves(f, to)
  BY DEF HolderMoves, Moved, MoveWith
<1> QED
  BY <1>1 DEF LineEffect

\* Coding packets and the gates: only the feature at the gate moves.
LEMMA GateLineEffects ==
  ASSUME IInv, NEW f \in Features, GateAction(f)
  PROVE  LineEffect
<1> USE DEF conveyorVars, lineVars
<1>1. CASE FinalizeIntegration(f)
  BY <1>1, MoveIsLineEffect
     DEF FinalizeIntegration, IntegrationReady, Authorized, Move, Blocking, Resolved
<1>2. CASE BeginValidation(f) \/ BeginReview(f) \/ ReviewTransportFails(f)
             \/ RetryTimeReached(f)
  BY <1>2 DEF BeginValidation, BeginReview, ReviewTransportFails, RetryTimeReached,
     LineEffect
<1>3. ASSUME NEW passed \in BOOLEAN, FinalizeValidation(f, passed) PROVE LineEffect
  <2>1. CASE passed
    BY <1>3, <2>1, MoveIsLineEffect
       DEF FinalizeValidation, ValidationCurrent, Authorized, Blocking, Resolved
  <2>2. CASE ~passed
    BY <1>3, <2>2 DEF FinalizeValidation, LineEffect
  <2> QED
    BY <2>1, <2>2
<1>4. CASE ReviewInterrupted(f)
  <2>1. CASE status[f] = "reviewing" /\ lrev[f] = reviewer.at.lrev
    <3>1. lease = f
      BY <2>1, HolderFacts DEF Blocking
    <3> QED
      BY <1>4, <2>1, <3>1, MoveIsLineEffect
         DEF ReviewInterrupted, Move, Blocking, Resolved
  <2>2. CASE ~(status[f] = "reviewing" /\ lrev[f] = reviewer.at.lrev)
    BY <1>4, <2>2 DEF ReviewInterrupted, LineEffect
  <2> QED
    BY <2>1, <2>2
<1>5. ASSUME NEW decision \in {"approved", "rejected"}, ReviewDecides(f, decision)
      PROVE  LineEffect
  <2>1. CASE decision = "approved"
    BY <1>5, <2>1, MoveIsLineEffect
       DEF ReviewDecides, ReviewCurrent, Authorized, Blocking, Resolved
  <2>2. CASE decision = "rejected"
    BY <1>5, <2>2 DEF ReviewDecides, LineEffect
  <2> QED
    BY <2>1, <2>2
<1> QED
  BY <1>1, <1>2, <1>3, <1>4, <1>5 DEF GateAction

\* The publishing thread moves a feature that publishes, or none.
LEMMA PublisherLineEffects ==
  ASSUME IInv, NEW f \in Features, PublisherAction(f)
  PROVE  LineEffect
<1> USE DEF conveyorVars, lineVars
<1>1. CASE CheckPublication(f) \/ DropPublicationReport(f)
  BY <1>1 DEF CheckPublication, DropPublicationReport, LineEffect
<1>2. ASSUME NEW acted, NEW reported, ExecutePublication(f, acted, reported)
      PROVE  LineEffect
  BY <1>2 DEF ExecutePublication, LineEffect
<1>3. CASE QuarantinePublication(f)
  <2>1. CASE status[f] \in {"publishing", "verifying_main"}
    <3>1. lease = f
      BY <2>1, HolderFacts DEF Blocking
    <3> QED
      BY <1>3, <2>1, <3>1, MoveIsLineEffect
         DEF QuarantinePublication, Move, Blocking, Resolved
  <2>2. CASE status[f] \notin {"publishing", "verifying_main"}
    BY <1>3, <2>2 DEF QuarantinePublication, LineEffect
  <2> QED
    BY <2>1, <2>2
<1>4. CASE CompletePublicationAction(f)
  <2>1. lease = f /\ status[f] \in {"publishing", "verifying_main"}
    BY <1>4, CompletionFacts
  <2>2. CASE publisher.action = MergeAction
    <3>1. HolderMoves(f, "verifying_main")
      BY <1>4, <2>1, <2>2 DEF CompletePublicationAction, Move, MoveWith, HolderMoves, Moved,
         Resolved, Blocking
    <3>2. "verifying_main" \in Blocking
      BY DEF Blocking
    <3> QED
      BY <3>1, <3>2 DEF LineEffect
  <2>3. CASE publisher.action = LastAction
    <3>1. HolderLeaves(f, "succeeded")
      BY <1>4, <2>1, <2>3
         DEF CompletePublicationAction, MoveWith, Release, HolderLeaves, Moved, Resolved
    <3> QED
      BY <3>1 DEF LineEffect
  <2>4. CASE publisher.action \notin {MergeAction, LastAction}
    BY <1>4, <2>4 DEF CompletePublicationAction, LineEffect
  <2> QED
    BY <2>2, <2>3, <2>4
<1> QED
  BY <1>1, <1>2, <1>3, <1>4 DEF PublisherAction

\* The owner cancels an active feature and gives up a blocked one.
LEMMA OwnerLineEffects ==
  ASSUME IInv, NEW f \in Features, OwnerAction(f)
  PROVE  LineEffect
<1>1. CASE CancelActiveFeature(f)
  BY <1>1, MoveIsLineEffect DEF CancelActiveFeature, Move, Blocking, Resolved
<1>2. ASSUME NEW healthy \in BOOLEAN, AbandonAndAdvance(f, healthy) PROVE LineEffect
  <2>1. HolderLeaves(f, "abandoned")
    BY <1>2 DEF AbandonAndAdvance, MoveWith, Release, HolderLeaves, Moved
  <2> QED
    BY <2>1 DEF LineEffect
<1> QED
  BY <1>1, <1>2 DEF OwnerAction

\* A checkpoint never moves a resolved feature; an owner pause may.
LEMMA OrchestrationLineEffects ==
  ASSUME IInv, NEW f \in Features, OrchestrationAction(f)
  PROVE  LineEffect
<1>1. ASSUME NEW exhausted \in BOOLEAN, CoordinateOrchestration(f, exhausted)
      PROVE  LineEffect
  <2> DEFINE d == IF exhausted /\ Decision(f).stage # "quarantined"
                    THEN Decided("attention_required", FALSE) ELSE Decision(f)
  <2>1. /\ lease = f /\ status[f] \in Active \cup {"quarantined"}
        /\ status[f] = "paused" => orch[f] # NoRow
        /\ UNCHANGED <<lease, position>>
    BY <1>1 DEF CoordinateOrchestration
  <2>2. \/ Move(f, d.stage, d.accepted)
        \/ UNCHANGED <<status, lrev, ledger>>
    BY <1>1 DEF CoordinateOrchestration
  <2>3. d.stage \in Blocking /\ (status[f] = "quarantined" => d.stage = "quarantined")
    <3>1. DecisionOK(f, Decision(f))
      BY <2>1, DecisionSound
    <3> QED
      BY <3>1 DEF DecisionOK, Decided, Blocking
  <2> HIDE DEF d
  <2>4. CASE Move(f, d.stage, d.accepted)
    BY <2>1, <2>3, <2>4, MoveIsLineEffect DEF Move, Resolved
  <2>5. CASE UNCHANGED <<status, lrev, ledger>>
    BY <2>1, <2>5 DEF LineEffect, lineVars
  <2> QED
    BY <2>2, <2>4, <2>5
<1>2. CASE OwnerPause(f)
  BY <1>2, MoveIsLineEffect DEF OwnerPause, Move, Blocking
<1>3. CASE OwnerResume(f)
  <2>1. orch[f].resume \in Blocking
    BY <1>3 DEF OwnerResume, IInv, PausesResumable, Blocking
  <2> QED
    BY <1>3, <2>1, MoveIsLineEffect DEF OwnerResume, Move, Resolved
<1> QED
  BY <1>1, <1>2, <1>3 DEF OrchestrationAction

\* A restart quarantines an active holder and nobody else.
LEMMA RestartLineEffect == ASSUME IInv, Restart PROVE LineEffect
<1>1. CASE lease # NoFeature /\ status[lease] \in Active /\ ~RestartSafe(lease)
  <2>1. lease \in Features /\ Move(lease, "quarantined", FALSE)
    BY <1>1 DEF Restart, IInv, RowTypes
  <2> QED
    BY <1>1, <2>1, MoveIsLineEffect DEF Restart, Move, Blocking, Resolved
<1>2. CASE ~(lease # NoFeature /\ status[lease] \in Active /\ ~RestartSafe(lease))
  BY <1>2 DEF Restart, LineEffect, lineVars
<1> QED
  BY <1>1, <1>2

\* Every step has one of the six effects on the line.
LEMMA LineEffects == IInv /\ [Next]_vars => LineEffect
<1> SUFFICES ASSUME IInv, [Next]_vars PROVE LineEffect
  OBVIOUS
<1> USE DEF conveyorVars, lineVars
<1>1. ASSUME NEW f \in Features, BeginPublication(f) \/ GrantLapses(f)
      PROVE  LineEffect
  BY <1>1 DEF BeginPublication, GrantLapses, LineEffect
<1>2. ASSUME NEW f \in Features, EnqueueFeature(f) \/ ClaimFeature(f) PROVE LineEffect
  BY <1>2 DEF LineEffect
<1>3. ASSUME NEW rank, ReorderQueuedFeatures(rank) PROVE LineEffect
  BY <1>3 DEF LineEffect
<1>4. ASSUME NEW on, SetEmergencyPaused(on) PROVE LineEffect
  BY <1>4 DEF SetEmergencyPaused, LineEffect
<1>5. CASE ActivateOrchestration \/ UNCHANGED vars
  BY <1>5 DEF ActivateOrchestration, vars, LineEffect
<1>6. ASSUME NEW p \in Packets, PacketAction(p) PROVE LineEffect
  <2>1. PacketVarsOnly
    BY <1>6 DEF PacketAction, DispatchFeatureCoding, LeasePacket, LosePacket, StopPacket,
       FinishPacket
  <2> QED
    BY <2>1 DEF PacketVarsOnly, LineEffect
<1> QED
  BY <1>1, <1>2, <1>3, <1>4, <1>5, <1>6, GateLineEffects, PublisherLineEffects,
     OwnerLineEffects, OrchestrationLineEffects, RestartLineEffect DEF Next, QueueAction

\* Only the feature of the effect changes its status, and how.
LEMMA MovedStatus ==
  ASSUME IInv, NEW f \in Features, NEW to \in Statuses, Moved(f, to)
  PROVE  /\ status'[f] = to /\ lrev'[f] = lrev[f] + 1
         /\ \A g \in Features \ {f} : status'[g] = status[g] /\ lrev'[g] = lrev[g]
  BY DEF Moved, IInv, RowTypes

-----------------------------------------------------------------------------
(* The queue *)

QueueInv == position \in [Features -> Nat] /\ QueueMatchesLease

\* enqueue_feature appends behind every row.
LEMMA EnqueueKeepsQueue ==
  ASSUME IInv, QueueInv, NEW f \in Features, EnqueueFeature(f)
  PROVE  QueueInv'
<1>1. PICK last \in Positions :
        IsLastPosition(Features, last) /\ position' = [position EXCEPT ![f] = last + 1]
  BY DEF EnqueueFeature
<1>2. /\ last \in Nat /\ \A g \in Features : position[g] <= last
      /\ position \in [Features -> Nat]
  BY <1>1 DEF Positions, IsLastPosition, QueueInv
<1>3. /\ status[f] = "absent" /\ status' = [status EXCEPT ![f] = "queued"]
      /\ lease' = lease /\ lease # f
  BY DEF EnqueueFeature, IInv, LeaseHeldUntilReleased
<1>4. /\ position' \in [Features -> Nat] /\ position'[f] = last + 1
      /\ \A g \in Features \ {f} : position'[g] = position[g]
  BY <1>1, <1>2
<1>5. status'[f] = "queued" /\ \A g \in Features \ {f} : status'[g] = status[g]
  BY <1>3 DEF IInv, RowTypes
<1>6. lease \in Features \cup {NoFeature}
  BY DEF IInv, RowTypes
<1>7. \A g \in Features : position'[g] # 0 <=> status'[g] = "queued" \/ lease' = g
  BY <1>2, <1>3, <1>4, <1>5 DEF QueueInv, QueueMatchesLease
<1>8. \A g, h \in Features : position'[g] # 0 /\ position'[g] = position'[h] => g = h
  <2> SUFFICES ASSUME NEW g \in Features, NEW h \in Features, position'[g] # 0,
                      position'[g] = position'[h]
               PROVE  g = h
    OBVIOUS
  <2>1. g # f => position'[g] <= last
    BY <1>2, <1>4
  <2>2. h # f => position'[h] <= last
    BY <1>2, <1>4
  <2>3. g = f <=> h = f
    BY <1>2, <1>4, <2>1, <2>2
  <2> QED
    BY <1>4, <2>3 DEF QueueInv, QueueMatchesLease
<1>9. lease' # NoFeature =>
        \A g \in Features : position'[g] # 0 => position'[lease'] <= position'[g]
  <2> SUFFICES ASSUME lease # NoFeature, NEW g \in Features, position'[g] # 0
               PROVE  position'[lease] <= position'[g]
    BY <1>3
  <2>1. lease \in Features /\ position'[lease] = position[lease] /\ position[lease] <= last
    BY <1>2, <1>3, <1>4, <1>6
  <2>2. position[lease] \in Nat
    BY <1>2, <2>1
  <2>3. CASE g = f
    BY <1>2, <1>4, <2>1, <2>2, <2>3
  <2>4. CASE g # f
    BY <1>4, <2>1, <2>4 DEF QueueInv, QueueMatchesLease
  <2> QED
    BY <2>3, <2>4
<1> QED
  BY <1>4, <1>7, <1>8, <1>9 DEF QueueInv, QueueMatchesLease

\* The claim takes the head of a queue in which every row waits.
LEMMA ClaimKeepsQueue ==
  ASSUME IInv, QueueInv, NEW f \in Features, ClaimFeature(f)
  PROVE  QueueInv'
<1>1. /\ lease = NoFeature /\ lease' = f /\ position' = position
      /\ f \in QueuedRows /\ \A g \in QueuedRows : position[f] <= position[g]
      /\ status' = [status EXCEPT ![f] = "implementing"]
  BY DEF ClaimFeature, IsQueueHead
<1>2. status[f] = "queued" /\ position[f] # 0
  BY <1>1 DEF QueuedRows, IsQueued
<1>3. \A g \in Features : position[g] # 0 => g \in QueuedRows
  BY <1>1 DEF QueueInv, QueueMatchesLease, QueuedRows, IsQueued
<1>4. status'[f] = "implementing" /\ \A g \in Features \ {f} : status'[g] = status[g]
  BY <1>1 DEF IInv, RowTypes
<1>5. \A g \in Features : position'[g] # 0 <=> status'[g] = "queued" \/ lease' = g
  BY <1>1, <1>2, <1>4 DEF QueueInv, QueueMatchesLease
<1> QED
  BY <1>1, <1>3, <1>5 DEF QueueInv, QueueMatchesLease

\* reorder_queued_features renumbers the waiting rows behind the active one.
LEMMA ReorderKeepsQueue ==
  ASSUME IInv, QueueInv, NEW rank, ReorderQueuedFeatures(rank)
  PROVE  QueueInv'
<1> DEFINE Others == {f \in Features : ~IsQueued(f)}
<1>1. PICK active \in Positions :
        /\ IsLastPosition(Others, active)
        /\ position' = [f \in Features |->
             IF f \in QueuedRows THEN active + rank[f] ELSE position[f]]
  BY DEF ReorderQueuedFeatures
<1>2. /\ active \in Nat /\ \A f \in Others : position[f] <= active
      /\ position \in [Features -> Nat]
  BY <1>1 DEF Positions, IsLastPosition, QueueInv
<1>3. /\ \A f \in QueuedRows : rank[f] \in Nat /\ rank[f] > 0
      /\ \A f, g \in QueuedRows : rank[f] = rank[g] => f = g
      /\ UNCHANGED <<status, lease>>
  BY DEF ReorderQueuedFeatures, IsQueueOrder
<1>4. \A f \in Features : f \in QueuedRows <=> f \notin Others
  BY DEF QueuedRows, IsQueued, QueueInv, QueueMatchesLease
<1>5. QueuedRows \subseteq Features /\ Others \subseteq Features
  BY DEF QueuedRows
<1>6. \A f \in QueuedRows : position'[f] = active + rank[f] /\ position'[f] > active
  BY <1>1, <1>2, <1>3, <1>5
<1>7. \A f \in Others : position'[f] = position[f] /\ position'[f] <= active
  BY <1>1, <1>2, <1>4, <1>5
<1>8. position' \in [Features -> Nat]
  BY <1>1, <1>2, <1>3, <1>5
<1>9. \A f \in QueuedRows : status[f] = "queued"
  BY DEF QueuedRows, IsQueued
<1>10. \A f \in Others : status[f] # "queued"
  BY DEF IsQueued
<1> HIDE DEF Others
<1>11. \A f \in Features : position'[f] # 0 <=> status'[f] = "queued" \/ lease' = f
  <2> SUFFICES ASSUME NEW f \in Features
               PROVE  position'[f] # 0 <=> status'[f] = "queued" \/ lease' = f
    OBVIOUS
  <2>1. CASE f \in QueuedRows
    BY <1>2, <1>3, <1>6, <1>9, <2>1
  <2>2. CASE f \in Others
    BY <1>3, <1>7, <2>2 DEF QueueInv, QueueMatchesLease
  <2> QED
    BY <1>4, <2>1, <2>2
<1>12. \A f, g \in Features : position'[f] # 0 /\ position'[f] = position'[g] => f = g
  <2> SUFFICES ASSUME NEW f \in Features, NEW g \in Features, position'[f] # 0,
                      position'[f] = position'[g]
               PROVE  f = g
    OBVIOUS
  <2>1. position'[f] \in Nat /\ position'[g] \in Nat
    BY <1>8
  <2>2. f \in QueuedRows <=> g \in QueuedRows
    BY <1>2, <1>4, <1>6, <1>7, <2>1
  <2>3. CASE f \in QueuedRows
    <3>1. active + rank[f] = active + rank[g]
      BY <1>6, <2>2, <2>3
    <3>2. rank[f] = rank[g]
      BY <1>2, <1>3, <2>2, <2>3, <3>1
    <3> QED
      BY <1>3, <2>2, <2>3, <3>2
  <2>4. CASE f \in Others
    BY <1>4, <1>7, <2>2, <2>4 DEF QueueInv, QueueMatchesLease
  <2> QED
    BY <1>4, <2>3, <2>4
<1>13. lease' # NoFeature =>
         \A f \in Features : position'[f] # 0 => position'[lease'] <= position'[f]
  <2> SUFFICES ASSUME lease # NoFeature, NEW f \in Features, position'[f] # 0
               PROVE  position'[lease] <= position'[f]
    BY <1>3
  <2>1. lease \in Features /\ status[lease] # "queued"
    BY DEF IInv, RowTypes, LeaseHeldUntilReleased
  <2>2. lease \in Others
    BY <1>4, <1>9, <2>1
  <2>3. CASE f \in QueuedRows
    BY <1>2, <1>6, <1>7, <1>8, <2>1, <2>2, <2>3
  <2>4. CASE f \in Others
    BY <1>7, <2>2, <2>4 DEF QueueInv, QueueMatchesLease
  <2> QED
    BY <1>4, <2>3, <2>4
<1> QED
  BY <1>8, <1>11, <1>12, <1>13 DEF QueueInv, QueueMatchesLease

\* The holder moves: its row and those behind it stay.
LEMMA MoveKeepsQueue ==
  ASSUME IInv, QueueInv, NEW f \in Features, NEW to \in Blocking, HolderMoves(f, to)
  PROVE  QueueInv'
<1>1. to \in Statuses /\ to # "queued"
  BY DEF Blocking
<1>2. status'[f] = to /\ \A g \in Features \ {f} : status'[g] = status[g]
  BY <1>1, MovedStatus DEF HolderMoves
<1>3. lease = f /\ UNCHANGED <<lease, position>>
  BY DEF HolderMoves
<1> QED
  BY <1>1, <1>2, <1>3 DEF QueueInv, QueueMatchesLease

\* The holder leaves: only waiting rows are left.
LEMMA LeaveKeepsQueue ==
  ASSUME IInv, QueueInv, NEW f \in Features, NEW to \in Released, HolderLeaves(f, to)
  PROVE  QueueInv'
<1>1. status'[f] = to /\ \A g \in Features \ {f} : status'[g] = status[g]
  BY MovedStatus DEF HolderLeaves
<1>2. lease = f /\ lease' = NoFeature /\ position' = [position EXCEPT ![f] = 0]
  BY DEF HolderLeaves
<1>3. /\ position' \in [Features -> Nat] /\ position'[f] = 0
      /\ \A g \in Features \ {f} : position'[g] = position[g]
  BY <1>2 DEF QueueInv
<1> QED
  BY <1>1, <1>2, <1>3 DEF QueueInv, QueueMatchesLease

\* Every line effect keeps the queue in order.
LEMMA QueuePreserved == IInv /\ QueueInv /\ LineEffect => QueueInv'
<1> SUFFICES ASSUME IInv, QueueInv, LineEffect PROVE QueueInv'
  OBVIOUS
<1>1. CASE UNCHANGED lineVars
  BY <1>1 DEF lineVars, QueueInv, QueueMatchesLease
<1> QED
  BY <1>1, EnqueueKeepsQueue, ClaimKeepsQueue, ReorderKeepsQueue, MoveKeepsQueue,
     LeaveKeepsQueue DEF LineEffect

\* The queue holds the unfinished features, each at a position of its own, with
\* the holder of the lease in front, for any number of features and whatever
\* order the owner asks for.
THEOREM QueueSafety == Spec => []QueueMatchesLease
<1>1. Init => QueueInv
  BY DEF Init, QueueInv, QueueMatchesLease
<1>2. QueueInv => QueueMatchesLease
  BY DEF QueueInv
<1> QED
  BY <1>1, <1>2, LineEffects, QueuePreserved, ConveyorInvariant, PTL DEF Spec

-----------------------------------------------------------------------------
(* Dependencies *)

\* What was finished stays finished, and only a claim starts a feature.
LEMMA DependenciesPreserved ==
  IInv /\ IInv' /\ DependentsWaitForSuccess /\ LineEffect => DependentsWaitForSuccess'
<1> SUFFICES ASSUME IInv, IInv', DependentsWaitForSuccess, LineEffect
             PROVE  DependentsWaitForSuccess'
  OBVIOUS
<1>1. ASSUME \A g \in Features : status[g] = "succeeded" => status'[g] = "succeeded",
             \A g \in Features : status'[g] \in Blocking \cup Released =>
               status[g] \in Blocking \cup Released \/ DependenciesMet(g)
      PROVE  DependentsWaitForSuccess'
  <2> SUFFICES ASSUME NEW g \in Features, lease' = g \/ status'[g] \in Released,
                      NEW d \in DependsOn[g]
               PROVE  status'[d] = "succeeded"
    BY DEF DependentsWaitForSuccess
  <2>1. status'[g] \in Blocking \cup Released
    BY DEF IInv, LeaseHeldUntilReleased, RowTypes, Blocking
  <2>2. d \in Features
    OBVIOUS
  <2>3. status[g] \in Blocking \cup Released => lease = g \/ status[g] \in Released
    BY HolderFacts
  <2>4. status[d] = "succeeded"
    BY <1>1, <2>1, <2>3 DEF DependentsWaitForSuccess, DependenciesMet
  <2> QED
    BY <1>1, <2>2, <2>4
<1>2. CASE UNCHANGED lineVars
  BY <1>2 DEF lineVars, DependentsWaitForSuccess
<1>3. ASSUME NEW f \in Features, EnqueueFeature(f) PROVE DependentsWaitForSuccess'
  BY <1>1, <1>3 DEF EnqueueFeature, IInv, RowTypes, Blocking
<1>4. ASSUME NEW f \in Features, ClaimFeature(f) PROVE DependentsWaitForSuccess'
  BY <1>1, <1>4 DEF ClaimFeature, IsQueueHead, QueuedRows, IsQueued, IInv, RowTypes
<1>5. ASSUME NEW rank, ReorderQueuedFeatures(rank) PROVE DependentsWaitForSuccess'
  BY <1>5 DEF ReorderQueuedFeatures, DependentsWaitForSuccess
<1>6. ASSUME NEW f \in Features, NEW to \in Blocking \cup Released, lease = f, Moved(f, to)
      PROVE  DependentsWaitForSuccess'
  <2>1. to \in Statuses /\ status[f] \in Blocking /\ status[f] # "succeeded"
    BY <1>6, HolderFacts DEF Blocking
  <2>2. status'[f] = to /\ \A g \in Features \ {f} : status'[g] = status[g]
    BY <1>6, <2>1, MovedStatus
  <2> QED
    BY <1>1, <2>1, <2>2
<1> QED
  BY <1>2, <1>3, <1>4, <1>5, <1>6 DEF LineEffect, HolderMoves, HolderLeaves

\* A feature is worked on only after everything it depends on succeeded, for
\* any dependency graph.
THEOREM DependencySafety == Spec => []DependentsWaitForSuccess
<1>1. Init => DependentsWaitForSuccess
  BY DEF Init, DependentsWaitForSuccess
<1> QED
  BY <1>1, LineEffects, DependenciesPreserved, ConveyorInvariant, PTL DEF Spec

-----------------------------------------------------------------------------
(* Resolution *)

\* A cancelled or quarantined feature changes only by being given up, unless
\* the owner pauses it through the orchestration bridge.
OnlyOwnerPauseReopens ==
  [][\A f \in Features :
       status[f] \in Resolved =>
         status'[f] \in {status[f], "abandoned"} \/ OwnerPause(f)]_vars

\* The line effects leave resolved features as they are.
LEMMA ResolvedStays ==
  IInv /\ LineEffect =>
    \A f \in Features : status[f] \in Resolved =>
      status'[f] \in {status[f], "abandoned"} \/ OwnerPause(f)
<1> SUFFICES ASSUME IInv, LineEffect, NEW f \in Features, status[f] \in Resolved
             PROVE  status'[f] \in {status[f], "abandoned"} \/ OwnerPause(f)
  OBVIOUS
<1>1. CASE UNCHANGED lineVars
  BY <1>1 DEF lineVars
<1>2. ASSUME NEW g \in Features, EnqueueFeature(g)
      PROVE  status'[f] = status[f]
  BY <1>2 DEF EnqueueFeature, IInv, RowTypes, Resolved
<1>3. ASSUME NEW g \in Features, ClaimFeature(g)
      PROVE  status'[f] = status[f]
  BY <1>3 DEF ClaimFeature, IsQueueHead, QueuedRows, IsQueued, IInv, RowTypes, Resolved
<1>4. ASSUME NEW rank, ReorderQueuedFeatures(rank)
      PROVE  status'[f] = status[f]
  BY <1>4 DEF ReorderQueuedFeatures
<1>5. ASSUME NEW g \in Features, NEW to \in Blocking, HolderMoves(g, to)
      PROVE  status'[f] = status[f] \/ OwnerPause(f)
  <2>1. status'[g] = to /\ \A h \in Features \ {g} : status'[h] = status[h]
    BY <1>5, MovedStatus DEF HolderMoves, Blocking
  <2> QED
    BY <1>5, <2>1 DEF HolderMoves
<1>6. ASSUME NEW g \in Features, NEW to \in Released, HolderLeaves(g, to)
      PROVE  status'[f] \in {status[f], "abandoned"}
  <2>1. status'[g] = to /\ \A h \in Features \ {g} : status'[h] = status[h]
    BY <1>6, MovedStatus DEF HolderLeaves
  <2> QED
    BY <1>6, <2>1 DEF HolderLeaves
<1> QED
  BY <1>1, <1>2, <1>3, <1>4, <1>5, <1>6 DEF LineEffect

\* Nothing but abandonment or an owner pause changes a cancelled or quarantined
\* feature: no late review, publication, checkpoint or restart does.
THEOREM OnlyOwnerReopens == Spec => OnlyOwnerPauseReopens
<1>1. IInv /\ [Next]_vars =>
        [\A f \in Features : status[f] \in Resolved =>
           status'[f] \in {status[f], "abandoned"} \/ OwnerPause(f)]_vars
  BY LineEffects, ResolvedStays
<1> QED
  BY <1>1, ConveyorInvariant, PTL DEF Spec, OnlyOwnerPauseReopens

\* Only the activation operation switches orchestration on.
LEMMA ActivationOnly == [Next]_vars => UNCHANGED activated \/ ActivateOrchestration
<1> SUFFICES ASSUME [Next]_vars PROVE UNCHANGED activated \/ ActivateOrchestration
  OBVIOUS
<1> USE DEF orchVars
<1>1. ASSUME NEW f \in Features, QueueAction(f) \/ BeginPublication(f) PROVE UNCHANGED activated
  BY <1>1 DEF QueueAction, EnqueueFeature, ClaimFeature, GrantLapses, BeginPublication
<1>2. ASSUME NEW f \in Features, GateAction(f) PROVE UNCHANGED activated
  BY <1>2 DEF GateAction, FinalizeIntegration, BeginValidation, FinalizeValidation,
     BeginReview, ReviewTransportFails, RetryTimeReached, ReviewInterrupted, ReviewDecides
<1>3. ASSUME NEW f \in Features, PublisherAction(f) PROVE UNCHANGED activated
  BY <1>3 DEF PublisherAction, CheckPublication, ExecutePublication,
     CompletePublicationAction, DropPublicationReport, QuarantinePublication
<1>4. ASSUME NEW f \in Features, OwnerAction(f) PROVE UNCHANGED activated
  BY <1>4 DEF OwnerAction, CancelActiveFeature, AbandonAndAdvance
<1>5. ASSUME NEW f \in Features, OrchestrationAction(f) PROVE UNCHANGED activated
  BY <1>5 DEF OrchestrationAction, CoordinateOrchestration, OwnerPause, OwnerResume
<1>6. ASSUME NEW p \in Packets, PacketAction(p) PROVE UNCHANGED activated
  BY <1>6 DEF PacketAction, DispatchFeatureCoding, LeasePacket, LosePacket, StopPacket,
     FinishPacket, PacketVarsOnly
<1>7. ASSUME NEW rank, ReorderQueuedFeatures(rank) PROVE UNCHANGED activated
  BY <1>7 DEF ReorderQueuedFeatures
<1>8. ASSUME NEW on, SetEmergencyPaused(on) PROVE UNCHANGED activated
  BY <1>8 DEF SetEmergencyPaused
<1>9. CASE Restart \/ UNCHANGED vars
  BY <1>9 DEF Restart, vars
<1> QED
  BY <1>1, <1>2, <1>3, <1>4, <1>5, <1>6, <1>7, <1>8, <1>9 DEF Next

\* Without complete activation evidence orchestration stays inactive.
ActivationEvidenced == activated => OrchestrationEvidence

\* activate_feature_orchestration_from_owner_bridge asks for the evidence.
LEMMA ActivationNeedsEvidence == Spec => []ActivationEvidenced
<1>1. Init => ActivationEvidenced
  BY DEF Init, ActivationEvidenced
<1>2. ActivationEvidenced /\ [Next]_vars => ActivationEvidenced'
  BY ActivationOnly DEF ActivationEvidenced, ActivateOrchestration
<1> QED
  BY <1>1, <1>2, PTL DEF Spec

\* While the activation evidence is incomplete, a cancelled or quarantined
\* feature stays so until it is given up.
THEOREM ResolutionFinal == ~OrchestrationEvidence => (Spec => ResolutionIsFinal)
<1> SUFFICES ASSUME ~OrchestrationEvidence PROVE Spec => ResolutionIsFinal
  OBVIOUS
<1>1. IInv /\ ActivationEvidenced /\ [Next]_vars =>
        [\A f \in Features : status[f] \in {"cancelled", "quarantined"} =>
           status'[f] \in {status[f], "abandoned"}]_vars
  BY LineEffects, ResolvedStays DEF ActivationEvidenced, OwnerPause, Resolved
<1> QED
  BY <1>1, ConveyorInvariant, ActivationNeedsEvidence, PTL DEF Spec, ResolutionIsFinal

-----------------------------------------------------------------------------
(* The types of the remaining tables *)

PacketRows == [feature: Features, at: Bindings, state: PacketStates]
ValidationRows == [at: Bindings, result: {"running", "passed", "failed"}]

GateTypes ==
  /\ packet \in [Packets -> {NoRow} \cup PacketRows]
  /\ integration \in [Features -> {NoRow} \cup Bindings]
  /\ validation \in [Features -> {NoRow} \cup ValidationRows]
  /\ review \in [Features -> ReviewRows]

HostTypes ==
  /\ paused \in BOOLEAN /\ activated \in BOOLEAN
  /\ granted \in [Features -> BOOLEAN]
  /\ reviewer \in {NoRow} \cup [feature: Features, at: Bindings]

\* The revisions of a feature as a request carries them.
LEMMA NowTyped == ASSUME IInv, NEW f \in Features PROVE Now(f) \in Bindings
  BY DEF Now, Bindings, IInv, RowTypes

-----------------------------------------------------------------------------
(* Coding packets: what succeeded stays, and what is new is of the present *)

PacketKept(p) ==
  \/ /\ packet[p] = NoRow
     /\ packet'[p] # NoRow => packet'[p].at.lrev = lrev[packet'[p].feature]
  \/ /\ packet[p] # NoRow
     /\ packet'[p].feature = packet[p].feature /\ packet'[p].at = packet[p].at
     /\ packet[p].state = "succeeded" => packet'[p] = packet[p]

PacketsKept ==
  /\ packet' \in [Packets -> {NoRow} \cup PacketRows]
  /\ \A p \in Packets : PacketKept(p)

\* One packet that has not succeeded changes its state.
LEMMA StateChangeKept ==
  ASSUME GateTypes, NEW p \in Packets, packet[p] # NoRow, packet[p].state # "succeeded",
         NEW st \in PacketStates, packet' = [packet EXCEPT ![p].state = st]
  PROVE  PacketsKept
<1>1. packet[p] \in PacketRows
  BY DEF GateTypes
<1> DEFINE new == [packet[p] EXCEPT !.state = st]
<1>2. new \in PacketRows /\ new.feature = packet[p].feature /\ new.at = packet[p].at
  BY <1>1 DEF PacketRows
<1>3. packet' = [packet EXCEPT ![p] = new]
  OBVIOUS
<1> HIDE DEF new
<1> QED
  BY <1>2, <1>3 DEF GateTypes, PacketsKept, PacketKept

\* Packets of P are asked to stop, those of Q are cancelled.
LEMMA SetPacketsKept ==
  ASSUME GateTypes, NEW P, NEW Q, SetPackets(P, Q),
         \A p \in (P \cup Q) \cap Packets : packet[p] # NoRow /\ packet[p].state # "succeeded"
  PROVE  PacketsKept
<1> SUFFICES ASSUME NEW p \in Packets
             PROVE  packet'[p] \in {NoRow} \cup PacketRows /\ PacketKept(p)
  BY DEF PacketsKept, SetPackets
<1>1. packet'[p] = IF p \in P THEN [packet[p] EXCEPT !.state = "stopping"]
                   ELSE IF p \in Q THEN [packet[p] EXCEPT !.state = "cancelled"]
                   ELSE packet[p]
  BY DEF SetPackets
<1>2. CASE p \in P \cup Q
  <2>1. packet[p] \in PacketRows /\ packet[p] # NoRow /\ packet[p].state # "succeeded"
    BY <1>2 DEF GateTypes
  <2>2. /\ packet'[p] \in PacketRows /\ packet'[p].feature = packet[p].feature
        /\ packet'[p].at = packet[p].at
    BY <1>1, <1>2, <2>1 DEF PacketRows, PacketStates
  <2> QED
    BY <2>1, <2>2 DEF PacketKept
<1>3. CASE p \notin P \cup Q
  BY <1>1, <1>3 DEF PacketKept, GateTypes
<1> QED
  BY <1>2, <1>3

\* The step kernel's side of a packet.
LEMMA PacketActionKeeps ==
  ASSUME IInv, GateTypes, NEW p \in Packets, PacketAction(p)
  PROVE  PacketsKept
<1> USE DEF PacketStates
<1>1. ASSUME NEW f \in Features, DispatchFeatureCoding(p, f) PROVE PacketsKept
  <2> DEFINE new == [feature |-> f, at |-> Now(f), state |-> "queued"]
  <2>1. new \in PacketRows
    BY NowTyped DEF PacketRows
  <2>2. new.at.lrev = lrev[new.feature]
    BY DEF Now
  <2>3. packet[p] = NoRow /\ packet' = [packet EXCEPT ![p] = new]
    BY <1>1 DEF DispatchFeatureCoding
  <2> HIDE DEF new
  <2> QED
    BY <2>1, <2>2, <2>3 DEF GateTypes, PacketsKept, PacketKept
<1>2. CASE LeasePacket(p)
  BY <1>2, StateChangeKept DEF LeasePacket
<1>3. ASSUME NEW outcome \in {"succeeded", "failed", "cancelled"}, FinishPacket(p, outcome)
      PROVE  PacketsKept
  BY <1>3, StateChangeKept DEF FinishPacket
<1>4. CASE LosePacket(p)
  BY <1>4, StateChangeKept DEF LosePacket
<1>5. CASE StopPacket(p)
  <2>1. PICK P, Q : SetPackets(P, Q) /\ P \cup Q = {p}
    BY <1>5 DEF StopPacket
  <2>2. packet[p] # NoRow /\ packet[p].state # "succeeded"
    BY <1>5 DEF StopPacket
  <2> QED
    BY <2>1, <2>2, SetPacketsKept
<1> QED
  BY <1>1, <1>2, <1>3, <1>4, <1>5 DEF PacketAction

\* A restart requeues the running packets and ends the stopping ones.
LEMMA RestartKeepsPackets == ASSUME GateTypes, Restart PROVE PacketsKept
<1> SUFFICES ASSUME NEW p \in Packets
             PROVE  packet'[p] \in {NoRow} \cup PacketRows /\ PacketKept(p)
  BY DEF PacketsKept, Restart
<1>1. packet'[p] =
       IF packet[p] = NoRow THEN NoRow ELSE
       CASE packet[p].state = "running" -> [packet[p] EXCEPT !.state = "queued"]
         [] packet[p].state = "stopping" -> [packet[p] EXCEPT !.state = "cancelled"]
         [] OTHER -> packet[p]
  BY DEF Restart
<1>2. packet[p] = NoRow \/ packet[p] \in PacketRows
  BY DEF GateTypes
<1>3. CASE packet[p] = NoRow
  BY <1>1, <1>3 DEF PacketKept
<1>4. CASE packet[p] # NoRow /\ packet[p].state = "running"
  <2>1. packet'[p] = [packet[p] EXCEPT !.state = "queued"]
    BY <1>1, <1>4
  <2>2. /\ packet'[p] \in PacketRows /\ packet'[p].feature = packet[p].feature
        /\ packet'[p].at = packet[p].at
    BY <1>2, <1>4, <2>1 DEF PacketRows, PacketStates
  <2> QED
    BY <1>4, <2>2 DEF PacketKept
<1>5. CASE packet[p] # NoRow /\ packet[p].state = "stopping"
  <2>1. packet'[p] = [packet[p] EXCEPT !.state = "cancelled"]
    BY <1>1, <1>5
  <2>2. /\ packet'[p] \in PacketRows /\ packet'[p].feature = packet[p].feature
        /\ packet'[p].at = packet[p].at
    BY <1>2, <1>5, <2>1 DEF PacketRows, PacketStates
  <2> QED
    BY <1>5, <2>2 DEF PacketKept
<1>6. CASE packet[p] # NoRow /\ packet[p].state \notin {"running", "stopping"}
  <2>1. packet'[p] = packet[p]
    BY <1>1, <1>6
  <2> QED
    BY <1>2, <1>6, <2>1 DEF PacketKept
<1> QED
  BY <1>3, <1>4, <1>5, <1>6

\* No step changes a packet that succeeded, or the revision of any.
LEMMA PacketsAreKept == IInv /\ GateTypes /\ [Next]_vars => PacketsKept
<1> SUFFICES ASSUME IInv, GateTypes, [Next]_vars PROVE PacketsKept
  OBVIOUS
<1>1. CASE UNCHANGED packet
  <2> SUFFICES ASSUME NEW p \in Packets PROVE PacketKept(p)
    BY <1>1 DEF GateTypes, PacketsKept
  <2>1. packet'[p] = packet[p]
    BY <1>1
  <2> QED
    BY <2>1 DEF PacketKept
<1>2. ASSUME NEW f \in Features, QueueAction(f) \/ BeginPublication(f) PROVE PacketsKept
  BY <1>1, <1>2 DEF QueueAction, EnqueueFeature, ClaimFeature, GrantLapses, BeginPublication
<1>3. ASSUME NEW f \in Features, GateAction(f) PROVE PacketsKept
  BY <1>1, <1>3 DEF GateAction, FinalizeIntegration, BeginValidation, FinalizeValidation,
     BeginReview, ReviewTransportFails, RetryTimeReached, ReviewInterrupted, ReviewDecides
<1>4. ASSUME NEW f \in Features, PublisherAction(f) PROVE PacketsKept
  BY <1>1, <1>4 DEF PublisherAction, CheckPublication, ExecutePublication,
     CompletePublicationAction, DropPublicationReport, QuarantinePublication
<1>5. ASSUME NEW f \in Features, OwnerAction(f) PROVE PacketsKept
  <2>1. CASE CancelActiveFeature(f)
    BY <2>1, SetPacketsKept DEF CancelActiveFeature, StatePackets
  <2>2. CASE ~CancelActiveFeature(f)
    BY <1>1, <1>5, <2>2 DEF OwnerAction, AbandonAndAdvance
  <2> QED
    BY <2>1, <2>2
<1>6. ASSUME NEW f \in Features, OrchestrationAction(f) PROVE PacketsKept
  BY <1>1, <1>6 DEF OrchestrationAction, CoordinateOrchestration, OwnerPause, OwnerResume
<1>7. ASSUME NEW rank, ReorderQueuedFeatures(rank) PROVE PacketsKept
  BY <1>1, <1>7 DEF ReorderQueuedFeatures
<1>8. ASSUME NEW on \in BOOLEAN, SetEmergencyPaused(on) PROVE PacketsKept
  BY <1>1, <1>8, SetPacketsKept DEF SetEmergencyPaused
<1>9. CASE ActivateOrchestration \/ UNCHANGED vars
  BY <1>1, <1>9 DEF ActivateOrchestration, vars
<1> QED
  BY <1>2, <1>3, <1>4, <1>5, <1>6, <1>7, <1>8, <1>9, PacketActionKeeps,
     RestartKeepsPackets DEF Next

-----------------------------------------------------------------------------
(* The gate rows *)

\* The rows a merge rests on stay: a review call, a retry and the progress of a
\* publication change none of what was decided.
GatesKept ==
  /\ UNCHANGED <<integration, validation>>
  /\ review' \in [Features -> ReviewRows]
  /\ \A f \in Features : /\ review'[f].decision = review[f].decision
                         /\ review'[f].decidedAt = review[f].decidedAt
  /\ \A f \in Features : publication'[f] # NoRow =>
       publication[f] # NoRow /\ publication'[f].at = publication[f].at

GateEffect ==
  \/ GatesKept
  \/ \E f \in Features :
       \/ FinalizeIntegration(f) \/ BeginValidation(f) \/ BeginPublication(f)
       \/ \E passed \in BOOLEAN : FinalizeValidation(f, passed)
       \/ \E decision \in {"approved", "rejected"} : ReviewDecides(f, decision)

\* A review row is replaced by one with the same decision.
LEMMA ReviewRowKept ==
  ASSUME GateTypes, NEW f \in Features, NEW new \in ReviewRows,
         new.decision = review[f].decision, new.decidedAt = review[f].decidedAt,
         review' = [review EXCEPT ![f] = new],
         UNCHANGED <<integration, validation, publication>>
  PROVE  GatesKept
  BY DEF GateTypes, GatesKept

\* No gate row changes at all.
LEMMA UntouchedGatesKept ==
  ASSUME GateTypes, UNCHANGED gateVars
  PROVE  GateEffect
  BY DEF GateTypes, gateVars, GatesKept, GateEffect

\* The review calls that decide nothing.
LEMMA ReviewCallsKeep ==
  ASSUME IInv, GateTypes, NEW f \in Features,
         BeginReview(f) \/ ReviewTransportFails(f) \/ RetryTimeReached(f)
           \/ ReviewInterrupted(f)
  PROVE  GateEffect
<1>1. /\ review[f] \in ReviewRows /\ review[f].calls \in Nat /\ review[f].outcomes \in Nat
  BY DEF GateTypes, ReviewRows
<1>2. UNCHANGED <<integration, validation, publication>>
  BY DEF BeginReview, ReviewTransportFails, RetryTimeReached, ReviewInterrupted
<1>3. CASE BeginReview(f)
  <2> DEFINE new == [review[f] EXCEPT !.calls = review[f].calls + 1]
  <2>1. review' = [review EXCEPT ![f] = new]
    BY <1>3 DEF BeginReview
  <2>2. /\ new \in ReviewRows /\ new.decision = review[f].decision
        /\ new.decidedAt = review[f].decidedAt
    BY <1>1 DEF ReviewRows
  <2> HIDE DEF new
  <2> QED
    BY <1>2, <2>1, <2>2, ReviewRowKept DEF GateEffect
<1>4. CASE ReviewTransportFails(f)
  <2> DEFINE counted == [review[f] EXCEPT !.outcomes = review[f].outcomes + 1]
             waiting == [counted EXCEPT !.backoff = TRUE]
             new == [waiting EXCEPT !.retry = TRUE]
  <2>1. review' = [review EXCEPT ![f] = new]
    BY <1>4 DEF ReviewTransportFails, GateTypes
  <2>2. /\ counted \in ReviewRows /\ counted.decision = review[f].decision
        /\ counted.decidedAt = review[f].decidedAt
    BY <1>1 DEF ReviewRows
  <2> HIDE DEF counted
  <2>3. /\ waiting \in ReviewRows /\ waiting.decision = review[f].decision
        /\ waiting.decidedAt = review[f].decidedAt
    BY <2>2 DEF ReviewRows
  <2> HIDE DEF waiting
  <2>4. /\ new \in ReviewRows /\ new.decision = review[f].decision
        /\ new.decidedAt = review[f].decidedAt
    BY <2>3 DEF ReviewRows
  <2> HIDE DEF new
  <2> QED
    BY <1>2, <2>1, <2>4, ReviewRowKept DEF GateEffect
<1>5. CASE RetryTimeReached(f)
  <2> DEFINE new == [review[f] EXCEPT !.backoff = FALSE]
  <2>1. review' = [review EXCEPT ![f] = new]
    BY <1>5 DEF RetryTimeReached
  <2>2. /\ new \in ReviewRows /\ new.decision = review[f].decision
        /\ new.decidedAt = review[f].decidedAt
    BY <1>1 DEF ReviewRows
  <2> HIDE DEF new
  <2> QED
    BY <1>2, <2>1, <2>2, ReviewRowKept DEF GateEffect
<1>6. CASE ReviewInterrupted(f)
  <2> DEFINE new == [review[f] EXCEPT !.outcomes = review[f].outcomes + 1]
  <2>1. review' = [review EXCEPT ![f] = new]
    BY <1>6 DEF ReviewInterrupted
  <2>2. /\ new \in ReviewRows /\ new.decision = review[f].decision
        /\ new.decidedAt = review[f].decidedAt
    BY <1>1 DEF ReviewRows
  <2> HIDE DEF new
  <2> QED
    BY <1>2, <2>1, <2>2, ReviewRowKept DEF GateEffect
<1> QED
  BY <1>3, <1>4, <1>5, <1>6

\* An outcome is recorded and the publication keeps its binding.
LEMMA CompletionKeepsGates ==
  ASSUME IInv, GateTypes, NEW f \in Features, CompletePublicationAction(f)
  PROVE  GateEffect
<1>1. /\ UNCHANGED <<integration, validation, review>>
      /\ PublisherAt(f, "report")
      /\ publication' = [publication EXCEPT ![f].done = @ + 1]
  BY DEF CompletePublicationAction
<1>2. publication[f] # NoRow /\ publication[f] \in PublicationRows
  BY <1>1, PublisherFacts
<1>3. /\ publication'[f].at = publication[f].at
      /\ \A g \in Features \ {f} : publication'[g] = publication[g]
  BY <1>1, <1>2 DEF IInv, RowTypes, PublicationRows
<1> QED
  BY <1>1, <1>2, <1>3 DEF GateTypes, GatesKept, GateEffect

\* Every step keeps the gate rows or is one of the operations that write them.
LEMMA GateEffects == IInv /\ GateTypes /\ [Next]_vars => GateEffect
<1> SUFFICES ASSUME IInv, GateTypes, [Next]_vars PROVE GateEffect
  OBVIOUS
<1>1. ASSUME NEW f \in Features, QueueAction(f) PROVE GateEffect
  BY <1>1, UntouchedGatesKept DEF QueueAction, EnqueueFeature, ClaimFeature, GrantLapses
<1>2. ASSUME NEW f \in Features, BeginPublication(f) PROVE GateEffect
  BY <1>2 DEF GateEffect
<1>3. ASSUME NEW f \in Features, GateAction(f) PROVE GateEffect
  <2>1. CASE BeginReview(f) \/ ReviewTransportFails(f) \/ RetryTimeReached(f)
               \/ ReviewInterrupted(f)
    BY <2>1, ReviewCallsKeep
  <2> QED
    BY <1>3, <2>1 DEF GateAction, GateEffect
<1>4. ASSUME NEW f \in Features, PublisherAction(f) PROVE GateEffect
  BY <1>4, UntouchedGatesKept, CompletionKeepsGates DEF PublisherAction, CheckPublication,
     ExecutePublication, DropPublicationReport, QuarantinePublication
<1>5. ASSUME NEW f \in Features, OwnerAction(f) PROVE GateEffect
  BY <1>5, UntouchedGatesKept DEF OwnerAction, CancelActiveFeature, AbandonAndAdvance
<1>6. ASSUME NEW f \in Features, OrchestrationAction(f) PROVE GateEffect
  BY <1>6, UntouchedGatesKept DEF OrchestrationAction, CoordinateOrchestration, OwnerPause,
     OwnerResume
<1>7. ASSUME NEW rank, ReorderQueuedFeatures(rank) PROVE GateEffect
  BY <1>7, UntouchedGatesKept DEF ReorderQueuedFeatures
<1>8. ASSUME NEW on, SetEmergencyPaused(on) PROVE GateEffect
  BY <1>8, UntouchedGatesKept DEF SetEmergencyPaused
<1>9. ASSUME NEW p \in Packets, PacketAction(p) PROVE GateEffect
  BY <1>9, UntouchedGatesKept DEF PacketAction, DispatchFeatureCoding, LeasePacket,
     LosePacket, StopPacket, FinishPacket, PacketVarsOnly
<1>10. CASE ActivateOrchestration \/ Restart \/ UNCHANGED vars
  BY <1>10, UntouchedGatesKept DEF ActivateOrchestration, Restart, vars
<1> QED
  BY <1>1, <1>2, <1>3, <1>4, <1>5, <1>6, <1>7, <1>8, <1>9, <1>10 DEF Next

\* What a decision leaves in the review row of its feature.
LEMMA DecisionRow ==
  ASSUME IInv, GateTypes, NEW f \in Features, NEW decision \in {"approved", "rejected"},
         ReviewDecides(f, decision)
  PROVE  /\ review' \in [Features -> ReviewRows]
         /\ review'[f].decision = decision
         /\ decision = "approved" => review'[f].decidedAt = lrev[f] + 1
         /\ \A g \in Features \ {f} : review'[g] = review[g]
<1>1. /\ review[f] \in ReviewRows /\ review[f].outcomes \in Nat /\ lrev[f] \in Nat
  BY DEF GateTypes, ReviewRows, IInv, RowTypes
<1> DEFINE rev == IF decision = "approved" THEN lrev[f] + 1 ELSE lrev[f]
           counted == [review[f] EXCEPT !.outcomes = review[f].outcomes + 1]
           decided == [counted EXCEPT !.decision = decision]
           new == [decided EXCEPT !.decidedAt = rev]
<1>2. review' = [review EXCEPT ![f] = new]
  BY DEF ReviewDecides, GateTypes
<1>3. rev \in Nat /\ (decision = "approved" => rev = lrev[f] + 1)
  BY <1>1
<1> HIDE DEF rev
<1>4. counted \in ReviewRows
  BY <1>1 DEF ReviewRows
<1> HIDE DEF counted
<1>5. decided \in ReviewRows /\ decided.decision = decision
  BY <1>4 DEF ReviewRows
<1> HIDE DEF decided
<1>6. new \in ReviewRows /\ new.decision = decision /\ new.decidedAt = rev
  BY <1>3, <1>5 DEF ReviewRows
<1> HIDE DEF new
<1> QED
  BY <1>2, <1>3, <1>6 DEF GateTypes

\* The operations that write gate rows write rows of the right type.
LEMMA GateTypesPreserved ==
  IInv /\ GateTypes /\ PacketsKept /\ GateEffect => GateTypes'
<1> SUFFICES ASSUME IInv, GateTypes, PacketsKept, GateEffect PROVE GateTypes'
  OBVIOUS
<1>0. packet' \in [Packets -> {NoRow} \cup PacketRows]
  BY DEF PacketsKept
<1>1. CASE GatesKept
  BY <1>0, <1>1 DEF GatesKept, GateTypes
<1>2. ASSUME NEW f \in Features, FinalizeIntegration(f) PROVE GateTypes'
  BY <1>0, <1>2, NowTyped DEF FinalizeIntegration, GateTypes
<1>3. ASSUME NEW f \in Features, BeginValidation(f) PROVE GateTypes'
  <2>1. [at |-> Now(f), result |-> "running"] \in ValidationRows
    BY NowTyped DEF ValidationRows
  <2> QED
    BY <1>0, <1>3, <2>1 DEF BeginValidation, GateTypes
<1>4. ASSUME NEW f \in Features, BeginPublication(f) PROVE GateTypes'
  BY <1>0, <1>4 DEF BeginPublication, GateTypes
<1>5. ASSUME NEW f \in Features, NEW passed \in BOOLEAN, FinalizeValidation(f, passed)
      PROVE  GateTypes'
  <2> DEFINE new == [validation[f] EXCEPT !.result = IF passed THEN "passed" ELSE "failed"]
  <2>1. validation' = [validation EXCEPT ![f] = new] /\ validation[f] # NoRow
    BY <1>5 DEF FinalizeValidation
  <2>2. new \in ValidationRows
    BY <2>1 DEF GateTypes, ValidationRows
  <2> HIDE DEF new
  <2> QED
    BY <1>0, <1>5, <2>1, <2>2 DEF FinalizeValidation, GateTypes
<1>6. ASSUME NEW f \in Features, NEW decision \in {"approved", "rejected"},
             ReviewDecides(f, decision)
      PROVE  GateTypes'
  BY <1>0, <1>6, DecisionRow DEF ReviewDecides, GateTypes
<1> QED
  BY <1>1, <1>2, <1>3, <1>4, <1>5, <1>6 DEF GateEffect

-----------------------------------------------------------------------------
(* The chain of gates *)

CodedBy(f, rev) == {p \in PacketsOf(f) : packet[p].at.lrev <= rev}

\* What was coded up to a revision is there, succeeded, and of that revision.
CodedAt(f, rev) ==
  /\ CodedBy(f, rev) # {}
  /\ \A p \in CodedBy(f, rev) :
       packet[p].state = "succeeded" /\ packet[p].at.lrev = rev

\* An integration took everything coded until then, before the present revision.
IntegrationHolds(f) ==
  integration[f] # NoRow =>
    /\ status[f] \in Blocking \cup Released
    /\ integration[f].lrev < lrev[f]
    /\ CodedAt(f, integration[f].lrev)

\* A validation was of the integrated candidate.
ValidationHolds(f) ==
  validation[f] # NoRow =>
    integration[f] # NoRow /\ validation[f].at.lrev = integration[f].lrev + 1

\* An approval was of the validated candidate, and no later decision can come.
ApprovalHolds(f) ==
  review[f].decision = "approved" =>
    /\ integration[f] # NoRow
    /\ validation[f] # NoRow /\ validation[f].result = "passed"
    /\ review[f].decidedAt = integration[f].lrev + 3
    /\ review[f].decidedAt <= lrev[f]

\* A publication is of the approved candidate.
PublicationHolds(f) ==
  publication[f] # NoRow =>
    review[f].decision = "approved" /\ publication[f].at.lrev = review[f].decidedAt

Chain(f) ==
  IntegrationHolds(f) /\ ValidationHolds(f) /\ ApprovalHolds(f) /\ PublicationHolds(f)

\* A claimed feature never goes back to the queue, nor its revision down.
Onward(f) ==
  status[f] \in Blocking \cup Released =>
    status'[f] \in Blocking \cup Released /\ lrev'[f] >= lrev[f]

\* Every line effect takes every feature onward.
LEMMA LineOnward ==
  ASSUME IInv, LineEffect, NEW f \in Features
  PROVE  Onward(f)
<1> SUFFICES ASSUME status[f] \in Blocking \cup Released
             PROVE  status'[f] \in Blocking \cup Released /\ lrev'[f] >= lrev[f]
  BY DEF Onward
<1>0. lrev[f] \in Nat /\ status[f] \notin {"absent", "queued"}
  BY DEF IInv, RowTypes, Blocking
<1>1. CASE UNCHANGED lineVars
  BY <1>0, <1>1 DEF lineVars
<1>2. ASSUME NEW g \in Features, EnqueueFeature(g)
      PROVE  status'[f] = status[f] /\ lrev'[f] = lrev[f]
  BY <1>0, <1>2 DEF EnqueueFeature, IInv, RowTypes
<1>3. ASSUME NEW g \in Features, ClaimFeature(g)
      PROVE  status'[f] = status[f] /\ lrev'[f] = lrev[f]
  BY <1>0, <1>3 DEF ClaimFeature, IsQueueHead, QueuedRows, IsQueued, IInv, RowTypes
<1>4. ASSUME NEW rank, ReorderQueuedFeatures(rank)
      PROVE  status'[f] = status[f] /\ lrev'[f] = lrev[f]
  BY <1>4 DEF ReorderQueuedFeatures
<1>5. ASSUME NEW g \in Features, NEW to \in Blocking \cup Released, Moved(g, to)
      PROVE  status'[f] \in Blocking \cup Released /\ lrev'[f] >= lrev[f]
  <2>1. to \in Statuses
    BY DEF Blocking
  <2>2. /\ status'[g] = to /\ lrev'[g] = lrev[g] + 1
        /\ \A h \in Features \ {g} : status'[h] = status[h] /\ lrev'[h] = lrev[h]
    BY <1>5, <2>1, MovedStatus
  <2> QED
    BY <1>0, <2>2
<1> QED
  BY <1>0, <1>1, <1>2, <1>3, <1>4, <1>5 DEF LineEffect, HolderMoves, HolderLeaves

\* A packet row, before and after a step.
LEMMA PacketFacts ==
  ASSUME GateTypes, NEW f, NEW p
  PROVE  p \in PacketsOf(f) <=>
           p \in Packets /\ packet[p] # NoRow /\ packet[p].feature = f
  BY DEF PacketsOf, StatePackets, GateTypes, PacketRows

\* The same after the step.
LEMMA PacketFactsNext ==
  ASSUME GateTypes', NEW f, NEW p
  PROVE  p \in PacketsOf(f)' <=>
           p \in Packets /\ packet'[p] # NoRow /\ packet'[p].feature = f
  BY DEF PacketsOf, StatePackets, GateTypes, PacketRows

\* What was coded up to an earlier revision is not added to and not changed.
LEMMA CodedKept ==
  ASSUME GateTypes, GateTypes', PacketsKept, NEW f \in Features, NEW rev \in Nat,
         lrev[f] \in Nat, rev < lrev[f], CodedAt(f, rev)
  PROVE  CodedAt(f, rev)'
<1>1. ASSUME NEW p \in CodedBy(f, rev)
      PROVE  p \in CodedBy(f, rev)' /\ packet'[p] = packet[p]
  <2>1. p \in Packets /\ packet[p] # NoRow /\ packet[p].feature = f
    BY <1>1, PacketFacts DEF CodedBy
  <2>2. packet'[p] = packet[p]
    BY <1>1, <2>1 DEF CodedAt, PacketsKept, PacketKept
  <2>3. p \in PacketsOf(f)'
    BY <2>1, <2>2, PacketFactsNext
  <2> QED
    BY <1>1, <2>2, <2>3 DEF CodedBy
<1>2. ASSUME NEW p \in CodedBy(f, rev)' PROVE p \in CodedBy(f, rev)
  <2>1. /\ p \in Packets /\ packet'[p] # NoRow /\ packet'[p].feature = f
        /\ packet'[p].at.lrev <= rev
    BY <1>2, PacketFactsNext DEF CodedBy
  <2>2. packet[p] # NoRow
    BY <2>1 DEF PacketsKept, PacketKept
  <2>3. packet[p].feature = f /\ packet[p].at = packet'[p].at
    BY <2>1, <2>2 DEF PacketsKept, PacketKept
  <2>4. p \in PacketsOf(f)
    BY <2>1, <2>2, <2>3, PacketFacts
  <2> QED
    BY <2>1, <2>3, <2>4 DEF CodedBy
<1>3. CodedBy(f, rev)' # {}
  BY <1>1 DEF CodedAt
<1> QED
  BY <1>1, <1>2, <1>3 DEF CodedAt

\* The integration row of a feature is kept by every step that does not write it.
LEMMA IntegrationKept ==
  ASSUME IInv, IInv', GateTypes, GateTypes', PacketsKept, NEW f \in Features, Onward(f),
         IntegrationHolds(f), integration'[f] = integration[f]
  PROVE  IntegrationHolds(f)'
<1> SUFFICES ASSUME integration[f] # NoRow
             PROVE  /\ status'[f] \in Blocking \cup Released
                    /\ integration[f].lrev < lrev'[f]
                    /\ CodedAt(f, integration[f].lrev)'
  BY DEF IntegrationHolds, CodedAt, CodedBy, PacketsOf, StatePackets
<1>1. lrev[f] \in Nat /\ lrev'[f] \in Nat /\ integration[f].lrev \in Nat
  BY DEF IInv, RowTypes, GateTypes, Bindings
<1>2. /\ status[f] \in Blocking \cup Released /\ integration[f].lrev < lrev[f]
      /\ CodedAt(f, integration[f].lrev)
  BY DEF IntegrationHolds
<1>3. PICK rev \in Nat : rev = integration[f].lrev
  BY <1>1
<1>4. CodedAt(f, rev)'
  BY <1>1, <1>2, <1>3, CodedKept
<1>5. CodedAt(f, integration[f].lrev)' <=> CodedAt(f, rev)'
  BY <1>3 DEF CodedAt, CodedBy, PacketsOf, StatePackets
<1> QED
  BY <1>1, <1>2, <1>4, <1>5 DEF Onward

\* A feature whose gate rows are kept keeps its chain.
LEMMA ChainKept ==
  ASSUME IInv, IInv', GateTypes, GateTypes', PacketsKept, NEW f \in Features, Onward(f),
         Chain(f), integration'[f] = integration[f], validation'[f] = validation[f],
         review'[f].decision = review[f].decision,
         review'[f].decidedAt = review[f].decidedAt,
         publication'[f] # NoRow =>
           publication[f] # NoRow /\ publication'[f].at = publication[f].at
  PROVE  Chain(f)'
<1>1. IntegrationHolds(f)'
  BY IntegrationKept DEF Chain
<1>2. ValidationHolds(f)' /\ PublicationHolds(f)'
  BY DEF Chain, ValidationHolds, PublicationHolds
<1>3. ApprovalHolds(f)'
  <2> SUFFICES ASSUME review[f].decision = "approved"
               PROVE  review[f].decidedAt <= lrev'[f]
    BY DEF Chain, ApprovalHolds
  <2>1. /\ review[f].decidedAt \in Nat /\ lrev[f] \in Nat /\ lrev'[f] \in Nat
    BY DEF IInv, RowTypes, GateTypes, ReviewRows
  <2>2. review[f].decidedAt <= lrev[f] /\ status[f] \in Blocking \cup Released
    BY DEF Chain, ApprovalHolds, IntegrationHolds
  <2> QED
    BY <2>1, <2>2 DEF Onward
<1> QED
  BY <1>1, <1>2, <1>3 DEF Chain

\* finalize_artifact_integration happens once, and takes all there is.
LEMMA IntegrationChains ==
  ASSUME IInv, IInv', GateTypes, GateTypes', PacketsKept, NEW f \in Features, Chain(f),
         FinalizeIntegration(f)
  PROVE  Chain(f)'
<1>1. /\ status[f] = "implementing" /\ PacketsOf(f) # {}
      /\ \A p \in PacketsOf(f) :
           packet[p].state = "succeeded" /\ packet[p].at.lrev = lrev[f]
      /\ integration'[f] = Now(f)
      /\ UNCHANGED <<packet, validation, review, publication>>
      /\ status'[f] = "validating" /\ lrev'[f] = lrev[f] + 1
  BY DEF FinalizeIntegration, IntegrationReady, Move, MoveWith, GateTypes, IInv, RowTypes
<1>2. lrev[f] \in Nat /\ integration'[f].lrev = lrev[f]
  BY <1>1 DEF IInv, RowTypes, Now
<1>3. integration[f] = NoRow
  <2> SUFFICES ASSUME integration[f] # NoRow PROVE FALSE
    OBVIOUS
  <2>1. PICK p \in PacketsOf(f) : packet[p].at.lrev = integration[f].lrev
    BY DEF Chain, IntegrationHolds, CodedAt, CodedBy
  <2>2. integration[f].lrev < lrev[f] /\ integration[f].lrev \in Nat
    BY DEF Chain, IntegrationHolds, GateTypes, Bindings
  <2> QED
    BY <1>1, <1>2, <2>1, <2>2
<1>4. validation[f] = NoRow /\ review[f].decision # "approved" /\ publication[f] = NoRow
  BY <1>3 DEF Chain, ValidationHolds, ApprovalHolds, PublicationHolds
<1>5. PacketsOf(f)' = PacketsOf(f)
  BY <1>1 DEF PacketsOf, StatePackets
<1>6. CodedBy(f, integration[f].lrev)' = PacketsOf(f)
  BY <1>1, <1>2, <1>5 DEF CodedBy
<1>7. IntegrationHolds(f)'
  BY <1>1, <1>2, <1>6 DEF IntegrationHolds, CodedAt, Blocking
<1> QED
  BY <1>1, <1>4, <1>7 DEF Chain, ValidationHolds, ApprovalHolds, PublicationHolds

\* plan_validation_gate binds the attempt to the integrated candidate.
LEMMA ValidationChains ==
  ASSUME IInv, IInv', GateTypes, GateTypes', PacketsKept, NEW f \in Features, Onward(f),
         Chain(f), BeginValidation(f)
  PROVE  Chain(f)'
<1>1. /\ integration[f] # NoRow /\ Now(f) = [integration[f] EXCEPT !.lrev = @ + 1]
      /\ validation[f] = NoRow
      /\ validation'[f] = [at |-> Now(f), result |-> "running"]
      /\ UNCHANGED <<integration, review, publication, lrev>>
  BY DEF BeginValidation, ValidationCurrent, conveyorVars, GateTypes
<1>2. Now(f).lrev = integration[f].lrev + 1
  BY <1>1 DEF GateTypes, Bindings
<1>3. review[f].decision # "approved" /\ publication[f] = NoRow
  BY <1>1 DEF Chain, ApprovalHolds, PublicationHolds
<1>4. IntegrationHolds(f)'
  BY <1>1, IntegrationKept DEF Chain
<1>5. validation'[f].at = Now(f) /\ integration'[f] = integration[f]
  BY <1>1
<1>6. ValidationHolds(f)'
  <2>1. validation'[f].at.lrev = integration'[f].lrev + 1
    BY <1>2, <1>5
  <2> QED
    BY <1>1, <2>1 DEF ValidationHolds
<1>7. ApprovalHolds(f)' /\ PublicationHolds(f)'
  BY <1>1, <1>3 DEF ApprovalHolds, PublicationHolds
<1> QED
  BY <1>4, <1>6, <1>7 DEF Chain

\* finalize_validation_gate ends an attempt nothing was approved upon.
LEMMA ValidationResultChains ==
  ASSUME IInv, IInv', GateTypes, GateTypes', PacketsKept, NEW f \in Features, Onward(f),
         Chain(f), NEW passed \in BOOLEAN, FinalizeValidation(f, passed)
  PROVE  Chain(f)'
<1>1. /\ validation[f] # NoRow /\ validation[f].result = "running"
      /\ validation' = [validation EXCEPT ![f].result = IF passed THEN "passed" ELSE "failed"]
      /\ UNCHANGED <<integration, review, publication>>
  BY DEF FinalizeValidation
<1>2. validation'[f].at = validation[f].at
  BY <1>1 DEF GateTypes, ValidationRows
<1>3. review[f].decision # "approved" /\ publication[f] = NoRow
  BY <1>1 DEF Chain, ApprovalHolds, PublicationHolds
<1>4. IntegrationHolds(f)'
  BY <1>1, IntegrationKept DEF Chain
<1> QED
  BY <1>1, <1>2, <1>3, <1>4 DEF Chain, ValidationHolds, ApprovalHolds, PublicationHolds

\* finalize_review_decision checks the binding again, so it never replaces an
\* approval, and an approval is of the validated candidate.
LEMMA DecisionChains ==
  ASSUME IInv, IInv', GateTypes, GateTypes', PacketsKept, NEW f \in Features, Onward(f),
         Chain(f), NEW decision \in {"approved", "rejected"}, ReviewDecides(f, decision)
  PROVE  Chain(f)'
<1>1. /\ ReviewCurrent(f, reviewer.at)
      /\ UNCHANGED <<integration, validation, publication>>
  BY DEF ReviewDecides
<1>2. /\ integration[f] # NoRow /\ validation[f] # NoRow /\ validation[f].result = "passed"
      /\ Now(f) = [integration[f] EXCEPT !.lrev = @ + 2]
  BY <1>1 DEF ReviewCurrent
<1>3. lrev[f] = integration[f].lrev + 2 /\ integration[f].lrev \in Nat /\ lrev[f] \in Nat
  <2>1. integration[f] \in Bindings /\ lrev[f] \in Nat
    BY <1>2 DEF GateTypes, IInv, RowTypes
  <2>2. Now(f).lrev = integration[f].lrev + 2
    BY <1>2, <2>1 DEF Bindings
  <2> QED
    BY <2>1, <2>2 DEF Now, Bindings
<1>4. review[f].decision # "approved"
  BY <1>3 DEF Chain, ApprovalHolds
<1>5. publication[f] = NoRow
  BY <1>4 DEF Chain, PublicationHolds
<1>6. /\ review'[f].decision = decision
      /\ decision = "approved" => review'[f].decidedAt = lrev[f] + 1
  BY DecisionRow
<1>7. decision = "approved" => lrev'[f] = lrev[f] + 1
  BY DEF ReviewDecides, MoveWith, IInv, RowTypes
<1>8. IntegrationHolds(f)'
  BY <1>1, IntegrationKept DEF Chain
<1>9. ValidationHolds(f)' /\ PublicationHolds(f)'
  BY <1>1, <1>5 DEF Chain, ValidationHolds, PublicationHolds
<1>10. ApprovalHolds(f)'
  BY <1>1, <1>2, <1>3, <1>6, <1>7 DEF ApprovalHolds
<1> QED
  BY <1>8, <1>9, <1>10 DEF Chain

\* begin_publication binds the publication to the approved revision.
LEMMA PublicationChains ==
  ASSUME IInv, IInv', GateTypes, GateTypes', PacketsKept, NEW f \in Features, Onward(f),
         Chain(f), BeginPublication(f)
  PROVE  Chain(f)'
<1>1. /\ review[f].decision = "approved" /\ review[f].decidedAt = Now(f).lrev
      /\ publication'[f] = [at |-> Now(f), done |-> 0]
      /\ UNCHANGED <<integration, validation, review, lrev>>
  BY DEF BeginPublication, PublicationCurrent, conveyorVars, IInv, RowTypes
<1>2. IntegrationHolds(f)'
  BY <1>1, IntegrationKept DEF Chain
<1>3. ValidationHolds(f)' /\ ApprovalHolds(f)'
  BY <1>1 DEF Chain, ValidationHolds, ApprovalHolds
<1>4. PublicationHolds(f)'
  BY <1>1 DEF PublicationHolds
<1> QED
  BY <1>2, <1>3, <1>4 DEF Chain

\* An operation on one feature leaves the gate rows of the others alone.
LEMMA OthersKept ==
  ASSUME IInv, GateTypes, NEW f \in Features, NEW g \in Features \ {f},
         \/ FinalizeIntegration(f) \/ BeginValidation(f) \/ BeginPublication(f)
         \/ \E passed \in BOOLEAN : FinalizeValidation(f, passed)
         \/ \E decision \in {"approved", "rejected"} : ReviewDecides(f, decision)
  PROVE  /\ integration'[g] = integration[g] /\ validation'[g] = validation[g]
         /\ review'[g] = review[g] /\ publication'[g] = publication[g]
<1>1. CASE FinalizeIntegration(f)
  BY <1>1 DEF FinalizeIntegration, GateTypes
<1>2. CASE BeginValidation(f)
  BY <1>2 DEF BeginValidation, GateTypes
<1>3. CASE BeginPublication(f)
  BY <1>3 DEF BeginPublication, IInv, RowTypes
<1>4. ASSUME NEW passed \in BOOLEAN, FinalizeValidation(f, passed)
      PROVE  /\ integration'[g] = integration[g] /\ validation'[g] = validation[g]
             /\ review'[g] = review[g] /\ publication'[g] = publication[g]
  BY <1>4 DEF FinalizeValidation, GateTypes
<1>5. ASSUME NEW decision \in {"approved", "rejected"}, ReviewDecides(f, decision)
      PROVE  /\ integration'[g] = integration[g] /\ validation'[g] = validation[g]
             /\ review'[g] = review[g] /\ publication'[g] = publication[g]
  BY <1>5, DecisionRow DEF ReviewDecides
<1> QED
  BY <1>1, <1>2, <1>3, <1>4, <1>5

GateChain == \A f \in Features : Chain(f)

\* The chain of every feature is preserved by every step.
LEMMA ChainPreserved ==
  IInv /\ IInv' /\ GateTypes /\ GateChain /\ LineEffect /\ PacketsKept /\ GateEffect
    => GateChain'
<1> SUFFICES ASSUME IInv, IInv', GateTypes, GateChain, LineEffect, PacketsKept, GateEffect,
                    NEW g \in Features
             PROVE  Chain(g)'
  BY DEF GateChain
<1>1. GateTypes' /\ Onward(g) /\ Chain(g)
  BY GateTypesPreserved, LineOnward DEF GateChain
<1>2. CASE GatesKept
  BY <1>1, <1>2, ChainKept DEF GatesKept
<1>3. ASSUME NEW f \in Features,
             \/ FinalizeIntegration(f) \/ BeginValidation(f) \/ BeginPublication(f)
             \/ \E passed \in BOOLEAN : FinalizeValidation(f, passed)
             \/ \E decision \in {"approved", "rejected"} : ReviewDecides(f, decision)
      PROVE  Chain(g)'
  <2>1. CASE g = f
    BY <1>1, <1>3, <2>1, IntegrationChains, ValidationChains, ValidationResultChains,
       DecisionChains, PublicationChains
  <2>2. CASE g # f
    <3>1. /\ integration'[g] = integration[g] /\ validation'[g] = validation[g]
          /\ review'[g] = review[g] /\ publication'[g] = publication[g]
      BY <1>3, <2>2, OthersKept
    <3> QED
      BY <1>1, <3>1, ChainKept
  <2> QED
    BY <2>1, <2>2
<1> QED
  BY <1>2, <1>3 DEF GateEffect

\* Everything the theorems of the gates rest on.
GatesInv == IInv /\ GateTypes /\ GateChain

\* The conveyor's invariant and the chain hold of every behaviour.
LEMMA GatesInvariant == Spec => []GatesInv
<1>1. Init => GateTypes /\ GateChain
  <2> SUFFICES ASSUME Init PROVE GateTypes /\ GateChain
    OBVIOUS
  <2>1. NoReview \in ReviewRows /\ NoReview.decision = "none"
    BY DEF NoReview, ReviewRows
  <2>2. GateTypes
    BY <2>1 DEF Init, GateTypes
  <2>3. GateChain
    BY <2>1 DEF Init, GateChain, Chain, IntegrationHolds, ValidationHolds, ApprovalHolds,
       PublicationHolds
  <2> QED
    BY <2>2, <2>3
<1>2. IInv /\ IInv' /\ GateTypes /\ GateChain /\ [Next]_vars => GateTypes' /\ GateChain'
  <2> SUFFICES ASSUME IInv, IInv', GateTypes, GateChain, [Next]_vars
               PROVE  GateTypes' /\ GateChain'
    OBVIOUS
  <2>1. LineEffect /\ PacketsKept /\ GateEffect
    BY LineEffects, PacketsAreKept, GateEffects
  <2> QED
    BY <2>1, GateTypesPreserved, ChainPreserved
<1> QED
  BY <1>1, <1>2, ConveyorInvariant, PTL DEF Spec, GatesInv

\* Whatever reached main was integrated, validated and approved, each at the
\* revision the gate before it produced, and holds all that was coded until
\* then: for any number of packets, review calls, pauses and restarts.
THEOREM MergeSafety == Spec => []MergeBackedByGates
<1>1. ASSUME GatesInv PROVE MergeBackedByGates
  <2> SUFFICES ASSUME NEW f \in Features, NEW i \in DOMAIN remote[f]
               PROVE  /\ review[f].decision = "approved"
                      /\ validation[f] # NoRow /\ validation[f].result = "passed"
                      /\ integration[f] # NoRow
                      /\ validation[f].at.lrev = integration[f].lrev + 1
                      /\ review[f].decidedAt = integration[f].lrev + 3
                      /\ publication[f].at.lrev = review[f].decidedAt
                      /\ CodedAt(f, integration[f].lrev)
    BY DEF MergeBackedByGates, CodedAt, CodedBy
  <2>1. Chain(f) /\ IInv
    BY <1>1 DEF GatesInv, GateChain
  <2>2. remote[f] \in Seq(1 .. LastAction) /\ Len(remote[f]) <= Intended(f)
    BY <2>1 DEF IInv, RowTypes, EffectsIntended
  <2>3. Len(remote[f]) > 0
    BY <2>2
  <2>4. publication[f] # NoRow
    BY <2>2, <2>3 DEF Intended
  <2> QED
    BY <2>1, <2>4 DEF Chain, IntegrationHolds, ValidationHolds, ApprovalHolds,
       PublicationHolds
<1> QED
  BY <1>1, GatesInvariant, PTL

-----------------------------------------------------------------------------
(* The whole type invariant *)

\* The rows outside the gates and the line.
LEMMA HostTypesPreserved == IInv /\ HostTypes /\ [Next]_vars => HostTypes'
<1> SUFFICES ASSUME IInv, HostTypes, [Next]_vars PROVE HostTypes'
  OBVIOUS
<1> USE DEF HostTypes, authorityVars, orchVars, hostVars
<1>1. ASSUME NEW f \in Features, QueueAction(f) \/ BeginPublication(f) PROVE HostTypes'
  BY <1>1 DEF QueueAction, EnqueueFeature, ClaimFeature, GrantLapses, BeginPublication
<1>2. ASSUME NEW f \in Features, GateAction(f) PROVE HostTypes'
  <2>1. CASE BeginReview(f)
    BY <2>1, NowTyped DEF BeginReview
  <2>2. CASE ~BeginReview(f)
    BY <1>2, <2>2 DEF GateAction, FinalizeIntegration, BeginValidation, FinalizeValidation,
       ReviewTransportFails, RetryTimeReached, ReviewInterrupted, ReviewDecides
  <2> QED
    BY <2>1, <2>2
<1>3. ASSUME NEW f \in Features, PublisherAction(f) PROVE HostTypes'
  BY <1>3 DEF PublisherAction, CheckPublication, ExecutePublication,
     CompletePublicationAction, DropPublicationReport, QuarantinePublication
<1>4. ASSUME NEW f \in Features, OwnerAction(f) PROVE HostTypes'
  BY <1>4 DEF OwnerAction, CancelActiveFeature, AbandonAndAdvance
<1>5. ASSUME NEW f \in Features, OrchestrationAction(f) PROVE HostTypes'
  BY <1>5 DEF OrchestrationAction, CoordinateOrchestration, OwnerPause, OwnerResume
<1>6. ASSUME NEW p \in Packets, PacketAction(p) PROVE HostTypes'
  BY <1>6 DEF PacketAction, DispatchFeatureCoding, LeasePacket, LosePacket, StopPacket,
     FinishPacket, PacketVarsOnly
<1>7. ASSUME NEW rank, ReorderQueuedFeatures(rank) PROVE HostTypes'
  BY <1>7 DEF ReorderQueuedFeatures
<1>8. ASSUME NEW on \in BOOLEAN, SetEmergencyPaused(on) PROVE HostTypes'
  BY <1>8 DEF SetEmergencyPaused
<1>9. CASE Restart \/ ActivateOrchestration \/ UNCHANGED vars
  BY <1>9 DEF Restart, ActivateOrchestration, vars
<1> QED
  BY <1>1, <1>2, <1>3, <1>4, <1>5, <1>6, <1>7, <1>8, <1>9 DEF Next

\* Every table of the conveyor keeps to its column types and constraints.
THEOREM ConveyorTyped == Spec => []TypeOK
<1>1. Init => HostTypes
  BY DEF Init, HostTypes
<1>a. Init => QueueInv
  BY DEF Init, QueueInv, QueueMatchesLease
<1>2. GatesInv /\ HostTypes /\ QueueInv => TypeOK
  BY DEF GatesInv, IInv, RowTypes, GateTypes, HostTypes, QueueInv, TypeOK, PacketRows,
     ValidationRows, PublicationRows, PublisherRows
<1>3. GatesInv => IInv
  BY DEF GatesInv
<1> QED
  BY <1>1, <1>a, <1>2, <1>3, GatesInvariant, HostTypesPreserved, LineEffects,
     QueuePreserved, PTL DEF Spec
=============================================================================
