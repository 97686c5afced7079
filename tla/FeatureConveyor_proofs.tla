----------------------- MODULE FeatureConveyor_proofs -----------------------
(***************************************************************************)
(* The lease, the transition ledger and the effects on GitHub, proved for  *)
(* any number of features, packets, review calls and revisions.            *)
(***************************************************************************)
EXTENDS FeatureConveyor, TLAPS

USE ConveyorAssumption, NoRowAssumption
    DEF Gated, Active, Resolvable, Released, Statuses, LastAction, MergeAction

-----------------------------------------------------------------------------
(* The inductive invariant *)

Blocking == Active \cup Resolvable
PublicationRows == [at: Bindings, done: 0 .. LastAction]
PublisherRows ==
  [feature: Features, at: Bindings, action: 1 .. LastAction,
   phase: {"check", "execute", "report", "quarantine"}]

\* The types of the tables the properties are about.
RowTypes ==
  /\ status \in [Features -> Statuses]
  /\ lrev \in [Features -> Nat]
  /\ queueRev \in Nat /\ pauseRev \in Nat
  /\ lease \in Features \cup {NoFeature}
  /\ ledger \in [Features -> Seq(LedgerRows)]
  /\ orch \in [Features -> {NoRow} \cup OrchRows]
  /\ publication \in [Features -> {NoRow} \cup PublicationRows]
  /\ publisher \in {NoRow} \cup PublisherRows
  /\ remote \in [Features -> Seq(1 .. LastAction)]

\* A checkpoint that records a pause also records where to resume.
PausesResumable ==
  \A f \in Features :
    orch[f] # NoRow /\ orch[f].kind # "none" => orch[f].resume \in Gated

\* The ledger of one feature, from the moment it was enqueued.
LedgerSound(f) ==
  /\ status[f] = "absent" => ledger[f] = <<>>
  /\ status[f] = "queued" => ledger[f] = <<>> /\ lrev[f] = 1
  /\ status[f] \in Blocking \cup Released =>
       /\ lrev[f] = Len(ledger[f]) + 2
       /\ ledger[f] = <<>> => status[f] = "implementing"
       /\ ledger[f] # <<>> => /\ ledger[f][1].from = "implementing"
                              /\ ledger[f][Len(ledger[f])].to = status[f]
       /\ \A i \in 1 .. Len(ledger[f]) - 1 : ledger[f][i].to = ledger[f][i + 1].from

\* How many actions GitHub may have been asked for: those with an intent.
Intended(f) == IF publication[f] = NoRow THEN 0 ELSE publication[f].done + 1

\* GitHub did what the tables intend, at most, and nothing twice.
EffectsIntended ==
  \A f \in Features :
    /\ Len(remote[f]) <= Intended(f)
    /\ \A i \in DOMAIN remote[f] : remote[f][i] = i

\* What the publishing thread knows: its action is the one intended, and the
\* action was executed if the thread holds evidence, and not before.
PublisherKnows ==
  publisher # NoRow =>
    /\ publication[publisher.feature] # NoRow
    /\ publication[publisher.feature].done + 1 = publisher.action
    /\ publisher.phase \in {"check", "execute"} =>
         Len(remote[publisher.feature]) + 1 = publisher.action
    /\ publisher.phase = "report" =>
         Len(remote[publisher.feature]) = publisher.action

\* A feature given up with an intent to merge has a healthy main on record.
AbandonedReconciled ==
  \A f \in Features :
    status[f] = "abandoned" /\ Intended(f) >= MergeAction =>
      /\ ledger[f] # <<>>
      /\ ledger[f][Len(ledger[f])].healthy

IInv ==
  /\ RowTypes
  /\ PausesResumable
  /\ LeaseHeldUntilReleased
  /\ \A f \in Features : LedgerSound(f)
  /\ EffectsIntended
  /\ PublisherKnows
  /\ AbandonedReconciled

\* The empty master satisfies the invariant.
LEMMA InitEstablishes == Init => IInv
<1> SUFFICES ASSUME Init PROVE IInv
  OBVIOUS
<1>1. RowTypes
  BY DEF Init, RowTypes
<1>2. PausesResumable
  BY DEF Init, PausesResumable
<1>3. LeaseHeldUntilReleased
  BY DEF Init, LeaseHeldUntilReleased
<1>4. \A f \in Features : LedgerSound(f)
  BY DEF Init, LedgerSound, Blocking
<1>5. EffectsIntended
  BY DEF Init, EffectsIntended, Intended
<1>6. PublisherKnows
  BY DEF Init, PublisherKnows
<1>7. AbandonedReconciled
  BY DEF Init, AbandonedReconciled
<1> QED
  BY <1>1, <1>2, <1>3, <1>4, <1>5, <1>6, <1>7 DEF IInv

-----------------------------------------------------------------------------
(* Steps that leave the tables of the invariant alone *)

\* A step that touches none of the tables of the invariant preserves it.
LEMMA QuietPreserves ==
  ASSUME IInv, queueRev' \in Nat, pauseRev' \in Nat,
         UNCHANGED <<status, lrev, lease, ledger, orch, publication, publisher, remote>>
  PROVE  IInv'
<1>1. RowTypes'
  BY DEF IInv, RowTypes
<1>2. PausesResumable' /\ LeaseHeldUntilReleased'
  BY DEF IInv, PausesResumable, LeaseHeldUntilReleased
<1>3. (\A f \in Features : LedgerSound(f))'
  BY DEF IInv, LedgerSound
<1>4. EffectsIntended' /\ PublisherKnows' /\ AbandonedReconciled'
  BY DEF IInv, EffectsIntended, PublisherKnows, AbandonedReconciled, Intended
<1> QED
  BY <1>1, <1>2, <1>3, <1>4 DEF IInv

-----------------------------------------------------------------------------
(* Lifecycle moves *)

\* A row appended to a sound ledger keeps it sound.
LEMMA MoveKeepsLedger ==
  ASSUME IInv, NEW f \in Features, NEW to \in Blocking \cup Released,
         NEW row \in LedgerRows, row.from = status[f], row.to = to, lease = f,
         status' = [status EXCEPT ![f] = to],
         lrev' = [lrev EXCEPT ![f] = lrev[f] + 1],
         ledger' = [ledger EXCEPT ![f] = Append(ledger[f], row)]
  PROVE  /\ status' \in [Features -> Statuses]
         /\ lrev' \in [Features -> Nat]
         /\ ledger' \in [Features -> Seq(LedgerRows)]
         /\ \A g \in Features : LedgerSound(g)'
         /\ ledger'[f] # <<>>
         /\ ledger'[f][Len(ledger'[f])] = row
<1>1. status[f] \in Blocking
  BY DEF IInv, LeaseHeldUntilReleased, RowTypes, Blocking
<1>3. ledger[f] \in Seq(LedgerRows)
  BY DEF IInv, RowTypes
<1>4. ledger'[f] = Append(ledger[f], row) /\ Append(ledger[f], row) \in Seq(LedgerRows)
  BY <1>3 DEF IInv, RowTypes
<1>5. /\ \A g \in Features \ {f} : ledger'[g] = ledger[g]
      /\ lrev[f] \in Nat
  BY DEF IInv, RowTypes
<1>7. /\ Len(ledger'[f]) = Len(ledger[f]) + 1
      /\ ledger'[f][Len(ledger[f]) + 1] = row
      /\ \A i \in 1 .. Len(ledger[f]) : ledger'[f][i] = ledger[f][i]
  BY <1>3, <1>4
<1>8. LedgerSound(f)'
  <2>1. lrev'[f] = Len(ledger'[f]) + 2 /\ status'[f] = to
    BY <1>1, <1>3, <1>5, <1>7 DEF IInv, LedgerSound, RowTypes
  <2>2. ledger'[f][1].from = "implementing"
    <3>1. CASE ledger[f] = <<>>
      BY <3>1, <1>1, <1>7 DEF IInv, LedgerSound
    <3>2. CASE ledger[f] # <<>>
      <4>1. Len(ledger[f]) \in Nat \ {0}
        BY <3>2, <1>3
      <4> QED
        BY <4>1, <3>2, <1>1, <1>7 DEF IInv, LedgerSound
    <3> QED
      BY <3>1, <3>2
  <2>3. \A i \in 1 .. Len(ledger'[f]) - 1 : ledger'[f][i].to = ledger'[f][i + 1].from
    <3> SUFFICES ASSUME NEW i \in 1 .. Len(ledger[f])
                 PROVE  ledger'[f][i].to = ledger'[f][i + 1].from
      <4>1. Len(ledger'[f]) - 1 = Len(ledger[f])
        BY <1>3, <1>7
      <4> QED
        BY <4>1
    <3>1. CASE i = Len(ledger[f])
      <4>1. ledger[f] # <<>>
        BY <3>1, <1>3
      <4> QED
        BY <4>1, <3>1, <1>1, <1>7 DEF IInv, LedgerSound
    <3>2. CASE i # Len(ledger[f])
      <4>1. i \in 1 .. Len(ledger[f]) - 1 /\ i + 1 \in 1 .. Len(ledger[f])
        BY <3>2, <1>3
      <4>2. ledger[f][i].to = ledger[f][i + 1].from
        BY <4>1, <1>1 DEF IInv, LedgerSound
      <4> QED
        BY <4>1, <4>2, <1>7
    <3> QED
      BY <3>1, <3>2
  <2>4. ledger'[f] # <<>> /\ ledger'[f][Len(ledger'[f])].to = status'[f]
    BY <1>3, <1>4, <1>7, <2>1
  <2> QED
    BY <2>1, <2>2, <2>3, <2>4 DEF LedgerSound, Blocking
<1>9. \A g \in Features \ {f} : LedgerSound(g)'
  <2> SUFFICES ASSUME NEW g \in Features \ {f} PROVE LedgerSound(g)'
    OBVIOUS
  <2>1. status'[g] = status[g] /\ lrev'[g] = lrev[g] /\ ledger'[g] = ledger[g]
    BY <1>5 DEF IInv, RowTypes
  <2>2. LedgerSound(g)
    BY DEF IInv
  <2> QED
    BY <2>1, <2>2 DEF LedgerSound
<1>10. /\ status' \in [Features -> Statuses] /\ lrev' \in [Features -> Nat]
       /\ ledger' \in [Features -> Seq(LedgerRows)]
  BY <1>4, <1>5 DEF IInv, RowTypes, Blocking
<1>11. ledger'[f] # <<>> /\ ledger'[f][Len(ledger'[f])] = row
  BY <1>3, <1>4, <1>7
<1>12. \A g \in Features : LedgerSound(g)'
  BY <1>8, <1>9
<1> QED
  BY <1>10, <1>11, <1>12

\* The holder of the lease moves on and keeps it; the publishing thread goes
\* on or is gone.
LEMMA RowPreserves ==
  ASSUME IInv, NEW f \in Features, NEW to \in Blocking,
         NEW row \in LedgerRows, row.from = status[f], row.to = to, lease = f,
         status' = [status EXCEPT ![f] = to],
         lrev' = [lrev EXCEPT ![f] = lrev[f] + 1],
         ledger' = [ledger EXCEPT ![f] = Append(ledger[f], row)],
         UNCHANGED <<lease, queueRev, pauseRev, publication, remote>>,
         publisher' \in {publisher, NoRow},
         orch' \in [Features -> {NoRow} \cup OrchRows], PausesResumable'
  PROVE  IInv'
<1>1. /\ status' \in [Features -> Statuses] /\ lrev' \in [Features -> Nat]
      /\ ledger' \in [Features -> Seq(LedgerRows)]
      /\ \A g \in Features : LedgerSound(g)'
  BY MoveKeepsLedger
<1>2. RowTypes'
  BY <1>1 DEF IInv, RowTypes
<1>3. \A g \in Features \ {f} : ledger'[g] = ledger[g]
  BY DEF IInv, RowTypes
<1>4. LeaseHeldUntilReleased'
  BY DEF IInv, RowTypes, LeaseHeldUntilReleased, Blocking
<1>5. EffectsIntended' /\ PublisherKnows'
  BY DEF IInv, EffectsIntended, PublisherKnows, Intended
<1>6. AbandonedReconciled'
  BY <1>3 DEF IInv, RowTypes, AbandonedReconciled, Intended, Blocking
<1> QED
  BY <1>1, <1>2, <1>4, <1>5, <1>6 DEF IInv

\* The same for the MoveWith of the operations.
LEMMA MovePreserves ==
  ASSUME IInv, NEW f \in Features, NEW to \in Blocking,
         NEW s \in BOOLEAN, NEW a \in BOOLEAN, NEW h \in BOOLEAN,
         lease = f, MoveWith(f, to, s, a, h),
         UNCHANGED <<lease, queueRev, pauseRev, publication, remote>>,
         publisher' \in {publisher, NoRow},
         orch' \in [Features -> {NoRow} \cup OrchRows], PausesResumable'
  PROVE  IInv'
<1> DEFINE row == [from |-> status[f], to |-> to, snapshot |-> s,
                   accepted |-> a, healthy |-> h]
<1>1. row \in LedgerRows /\ row.from = status[f] /\ row.to = to
  BY DEF LedgerRows, Blocking, IInv, RowTypes
<1>2. /\ status' = [status EXCEPT ![f] = to]
      /\ lrev' = [lrev EXCEPT ![f] = lrev[f] + 1]
      /\ ledger' = [ledger EXCEPT ![f] = Append(ledger[f], row)]
  BY DEF MoveWith
<1> HIDE DEF row
<1> QED
  BY <1>1, <1>2, RowPreserves

\* Nothing moves, but the publishing thread may be gone.
LEMMA StayPreserves ==
  ASSUME IInv,
         UNCHANGED <<status, lrev, ledger, lease, queueRev, pauseRev, publication, remote>>,
         publisher' \in {publisher, NoRow},
         orch' \in [Features -> {NoRow} \cup OrchRows], PausesResumable'
  PROVE  IInv'
<1>1. RowTypes' /\ LeaseHeldUntilReleased'
  BY DEF IInv, RowTypes, LeaseHeldUntilReleased
<1>2. (\A f \in Features : LedgerSound(f))'
  BY DEF IInv, LedgerSound
<1>3. EffectsIntended' /\ PublisherKnows' /\ AbandonedReconciled'
  BY DEF IInv, EffectsIntended, PublisherKnows, AbandonedReconciled, Intended
<1> QED
  BY <1>1, <1>2, <1>3 DEF IInv

\* A feature in execution, or blocked, holds the lease.
LEMMA HolderFacts ==
  ASSUME IInv, NEW f \in Features
  PROVE  /\ lease = f => status[f] \in Blocking
         /\ status[f] \in Blocking => lease = f
  BY DEF IInv, LeaseHeldUntilReleased, RowTypes, Blocking

\* Operations outside orchestration leave the checkpoints as they are.
LEMMA OrchUnchanged ==
  ASSUME IInv, UNCHANGED orch
  PROVE  orch' \in [Features -> {NoRow} \cup OrchRows] /\ PausesResumable'
  BY DEF IInv, RowTypes, PausesResumable

-----------------------------------------------------------------------------
(* The queue and the coding packets *)

\* enqueue_feature starts a feature with an empty ledger and no lease.
LEMMA EnqueuePreserves ==
  ASSUME IInv, NEW f \in Features, EnqueueFeature(f)
  PROVE  IInv'
<1>1. /\ status[f] = "absent" /\ lease # f
      /\ status' = [status EXCEPT ![f] = "queued"]
      /\ lrev' = [lrev EXCEPT ![f] = 1]
      /\ queueRev' \in Nat
      /\ UNCHANGED <<lease, ledger, pauseRev, orch, publication, publisher, remote>>
  BY DEF EnqueueFeature, authorityVars, gateVars, orchVars, hostVars, IInv, RowTypes,
         LeaseHeldUntilReleased
<1>2. RowTypes' /\ LeaseHeldUntilReleased'
  BY <1>1 DEF IInv, RowTypes, LeaseHeldUntilReleased
<1>3. ASSUME NEW g \in Features PROVE LedgerSound(g)'
  <2>1. LedgerSound(g)
    BY DEF IInv
  <2>2. CASE g = f
    BY <1>1, <2>1, <2>2 DEF LedgerSound, Blocking, IInv, RowTypes
  <2>3. CASE g # f
    <3>1. status'[g] = status[g] /\ lrev'[g] = lrev[g] /\ ledger'[g] = ledger[g]
      BY <1>1, <2>3 DEF IInv, RowTypes
    <3> QED
      BY <2>1, <3>1 DEF LedgerSound
  <2> QED
    BY <2>2, <2>3
<1>4. EffectsIntended' /\ PublisherKnows' /\ PausesResumable'
  BY <1>1 DEF IInv, EffectsIntended, PublisherKnows, Intended, PausesResumable
<1>5. AbandonedReconciled'
  BY <1>1 DEF IInv, RowTypes, AbandonedReconciled, Intended
<1> QED
  BY <1>2, <1>3, <1>4, <1>5 DEF IInv

\* The claim takes a free lease, and revision 2 needs no row.
LEMMA ClaimPreserves ==
  ASSUME IInv, NEW f \in Features, ClaimFeature(f)
  PROVE  IInv'
<1>1. /\ status[f] = "queued" /\ lease = NoFeature /\ lease' = f
      /\ status' = [status EXCEPT ![f] = "implementing"]
      /\ lrev' = [lrev EXCEPT ![f] = lrev[f] + 1]
      /\ queueRev' \in Nat
      /\ UNCHANGED <<ledger, pauseRev, orch, publication, publisher, remote>>
  BY DEF ClaimFeature, IsQueueHead, QueuedRows, IsQueued, authorityVars, gateVars,
     orchVars, hostVars, IInv, RowTypes
<1>2. RowTypes' /\ LeaseHeldUntilReleased'
  BY <1>1 DEF IInv, RowTypes, LeaseHeldUntilReleased
<1>3. ASSUME NEW g \in Features PROVE LedgerSound(g)'
  <2>1. LedgerSound(g)
    BY DEF IInv
  <2>2. CASE g = f
    <3>1. ledger'[f] = <<>> /\ lrev'[f] = 2 /\ status'[f] = "implementing"
      BY <1>1, <2>1, <2>2 DEF LedgerSound, IInv, RowTypes
    <3> QED
      BY <2>2, <3>1 DEF LedgerSound, Blocking
  <2>3. CASE g # f
    <3>1. status'[g] = status[g] /\ lrev'[g] = lrev[g] /\ ledger'[g] = ledger[g]
      BY <1>1, <2>3 DEF IInv, RowTypes
    <3> QED
      BY <2>1, <3>1 DEF LedgerSound
  <2> QED
    BY <2>2, <2>3
<1>4. EffectsIntended' /\ PublisherKnows' /\ PausesResumable'
  BY <1>1 DEF IInv, EffectsIntended, PublisherKnows, Intended, PausesResumable
<1>5. AbandonedReconciled'
  BY <1>1 DEF IInv, RowTypes, AbandonedReconciled, Intended
<1> QED
  BY <1>2, <1>3, <1>4, <1>5 DEF IInv

\* Enqueueing, claiming and losing a grant.
LEMMA QueueActionPreserves ==
  ASSUME IInv, NEW f \in Features, QueueAction(f)
  PROVE  IInv'
<1>1. CASE GrantLapses(f)
  BY <1>1, QuietPreserves DEF GrantLapses, conveyorVars, gateVars, orchVars, hostVars,
     IInv, RowTypes
<1> QED
  BY <1>1, EnqueuePreserves, ClaimPreserves DEF QueueAction

\* Coding packets never touch the feature they belong to.
LEMMA PacketActionPreserves ==
  ASSUME IInv, NEW p \in Packets, PacketAction(p)
  PROVE  IInv'
<1>1. PacketVarsOnly
  BY DEF PacketAction, DispatchFeatureCoding, LeasePacket, LosePacket, StopPacket,
     FinishPacket
<1> QED
  BY <1>1, QuietPreserves DEF PacketVarsOnly, conveyorVars, authorityVars, gateVars,
     orchVars, hostVars, IInv, RowTypes

-----------------------------------------------------------------------------
(* The gates *)

\* Integration, validation and review move the holder of the lease only.
LEMMA GateActionPreserves ==
  ASSUME IInv, NEW f \in Features, GateAction(f)
  PROVE  IInv'
<1> USE DEF conveyorVars, authorityVars, orchVars, hostVars
<1>0. queueRev \in Nat /\ pauseRev \in Nat
  BY DEF IInv, RowTypes
<1>1. CASE FinalizeIntegration(f)
  BY <1>1, MovePreserves, OrchUnchanged
     DEF FinalizeIntegration, IntegrationReady, Authorized, Move, Blocking
<1>2. CASE BeginValidation(f)
  BY <1>0, <1>2, QuietPreserves DEF BeginValidation
<1>3. ASSUME NEW passed \in BOOLEAN, FinalizeValidation(f, passed) PROVE IInv'
  <2>1. CASE passed
    BY <1>3, <2>1, MovePreserves, OrchUnchanged
       DEF FinalizeValidation, ValidationCurrent, Authorized, Blocking
  <2>2. CASE ~passed
    BY <1>0, <1>3, <2>2, QuietPreserves DEF FinalizeValidation
  <2> QED
    BY <2>1, <2>2
<1>4. CASE BeginReview(f)
  BY <1>0, <1>4, QuietPreserves DEF BeginReview
<1>5. CASE ReviewTransportFails(f) \/ RetryTimeReached(f)
  BY <1>0, <1>5, QuietPreserves DEF ReviewTransportFails, RetryTimeReached
<1>6. CASE ReviewInterrupted(f)
  <2>1. CASE status[f] = "reviewing" /\ lrev[f] = reviewer.at.lrev
    <3>1. lease = f
      BY <2>1, HolderFacts DEF Blocking
    <3> QED
      BY <1>6, <2>1, <3>1, MovePreserves, OrchUnchanged
         DEF ReviewInterrupted, Move, Blocking
  <2>2. CASE ~(status[f] = "reviewing" /\ lrev[f] = reviewer.at.lrev)
    BY <1>0, <1>6, <2>2, QuietPreserves DEF ReviewInterrupted
  <2> QED
    BY <2>1, <2>2
<1>7. ASSUME NEW decision \in {"approved", "rejected"}, ReviewDecides(f, decision)
      PROVE  IInv'
  <2>1. CASE decision = "approved"
    BY <1>7, <2>1, MovePreserves, OrchUnchanged
       DEF ReviewDecides, ReviewCurrent, Authorized, Blocking
  <2>2. CASE decision = "rejected"
    BY <1>0, <1>7, <2>2, QuietPreserves DEF ReviewDecides
  <2> QED
    BY <2>1, <2>2
<1> QED
  BY <1>1, <1>2, <1>3, <1>4, <1>5, <1>6, <1>7 DEF GateAction

-----------------------------------------------------------------------------
(* Publication *)

\* The publishing thread works on, and no feature moves.
LEMMA HostPreserves ==
  ASSUME IInv,
         UNCHANGED <<status, lrev, ledger, lease, queueRev, pauseRev, orch>>,
         publication' \in [Features -> {NoRow} \cup PublicationRows],
         publisher' \in {NoRow} \cup PublisherRows,
         remote' \in [Features -> Seq(1 .. LastAction)],
         \A g \in Features : status[g] = "abandoned" => publication'[g] = publication[g],
         EffectsIntended', PublisherKnows'
  PROVE  IInv'
<1>1. RowTypes' /\ LeaseHeldUntilReleased' /\ PausesResumable'
  BY DEF IInv, RowTypes, LeaseHeldUntilReleased, PausesResumable
<1>2. (\A f \in Features : LedgerSound(f))'
  BY DEF IInv, LedgerSound
<1>3. AbandonedReconciled'
  BY DEF IInv, AbandonedReconciled, Intended
<1> QED
  BY <1>1, <1>2, <1>3 DEF IInv

\* begin_publication intends an action before GitHub was asked for any.
LEMMA BeginPublicationPreserves ==
  ASSUME IInv, NEW f \in Features, BeginPublication(f)
  PROVE  IInv'
<1> DEFINE new == [at |-> Now(f), done |-> 0]
<1>1. /\ publication[f] = NoRow
      /\ publication' = [publication EXCEPT ![f] = new]
      /\ publisher' = [feature |-> f, at |-> Now(f), action |-> 1, phase |-> "check"]
      /\ UNCHANGED <<status, lrev, ledger, lease, queueRev, pauseRev, orch, remote>>
      /\ status[f] # "abandoned"
  BY DEF BeginPublication, PublicationCurrent, conveyorVars, authorityVars, orchVars
<1>2. Now(f) \in Bindings
  BY DEF Now, Bindings, IInv, RowTypes
<1>3. new \in PublicationRows /\ new # NoRow
  BY <1>2 DEF PublicationRows
<1>4. publisher' \in PublisherRows
  BY <1>1, <1>2 DEF PublisherRows
<1>5. publication' \in [Features -> {NoRow} \cup PublicationRows]
  BY <1>1, <1>3 DEF IInv, RowTypes
<1>6. Len(remote[f]) = 0
  BY <1>1 DEF IInv, RowTypes, EffectsIntended, Intended
<1>7. publication'[f] = new /\ \A g \in Features \ {f} : publication'[g] = publication[g]
  BY <1>1 DEF IInv, RowTypes
<1>8. EffectsIntended'
  BY <1>1, <1>3, <1>6, <1>7 DEF IInv, EffectsIntended, Intended
<1>9. PublisherKnows'
  BY <1>1, <1>3, <1>6, <1>7 DEF PublisherKnows
<1> HIDE DEF new
<1> QED
  BY <1>1, <1>4, <1>5, <1>7, <1>8, <1>9, HostPreserves DEF IInv, RowTypes

\* The thread's own row and its table row.
LEMMA PublisherFacts ==
  ASSUME IInv, NEW f \in Features, NEW phase, PublisherAt(f, phase)
  PROVE  /\ publisher \in PublisherRows /\ publisher.feature = f
         /\ publisher.phase = phase /\ publisher.action \in 1 .. LastAction
         /\ publication[f] \in PublicationRows /\ publication[f] # NoRow
         /\ publication[f].done \in 0 .. LastAction
         /\ publication[f].done + 1 = publisher.action
         /\ phase \in {"check", "execute"} => Len(remote[f]) + 1 = publisher.action
         /\ phase = "report" => Len(remote[f]) = publisher.action
         /\ remote[f] \in Seq(1 .. LastAction)
<1>1. publisher \in PublisherRows /\ publisher.feature = f /\ publisher.phase = phase
      /\ publisher # NoRow
  BY DEF PublisherAt, IInv, RowTypes
<1>2. publication[f] # NoRow /\ publication[f] \in PublicationRows
  BY <1>1 DEF IInv, RowTypes, PublisherKnows
<1>3. publisher.action \in 1 .. LastAction /\ publication[f].done \in 0 .. LastAction
  BY <1>1, <1>2 DEF PublisherRows, PublicationRows
<1> QED
  BY <1>1, <1>2, <1>3 DEF IInv, RowTypes, PublisherKnows

\* The thread goes to another phase that claims no more about the remote.
LEMMA PhasePreserves ==
  ASSUME IInv, NEW f \in Features, NEW from, PublisherAt(f, from),
         NEW to \in {"check", "execute", "report", "quarantine"},
         to \in {"check", "execute"} => Len(remote'[f]) + 1 = publisher.action,
         to = "report" => Len(remote'[f]) = publisher.action,
         publisher' = [publisher EXCEPT !.phase = to],
         remote' \in [Features -> Seq(1 .. LastAction)], EffectsIntended',
         UNCHANGED <<status, lrev, ledger, lease, queueRev, pauseRev, orch, publication>>
  PROVE  IInv'
<1>1. /\ publisher \in PublisherRows /\ publisher.feature = f
      /\ publication[f] # NoRow /\ publication[f].done + 1 = publisher.action
  BY PublisherFacts
<1>2. /\ publisher' \in PublisherRows /\ publisher'.feature = f
      /\ publisher'.action = publisher.action /\ publisher'.phase = to
  BY <1>1 DEF PublisherRows
<1>3. PublisherKnows'
  BY <1>1, <1>2 DEF PublisherKnows
<1> QED
  BY <1>2, <1>3, HostPreserves DEF IInv, RowTypes

\* Asking whether the publication is current asks GitHub for nothing.
LEMMA CheckPreserves ==
  ASSUME IInv, NEW f \in Features, CheckPublication(f)
  PROVE  IInv'
<1>1. /\ PublisherAt(f, "check") /\ Len(remote[f]) + 1 = publisher.action
      /\ UNCHANGED <<status, lrev, ledger, lease, queueRev, pauseRev, orch, publication,
                     remote>>
  BY PublisherFacts DEF CheckPublication, conveyorVars, authorityVars, gateVars, orchVars
<1>2. remote' \in [Features -> Seq(1 .. LastAction)] /\ EffectsIntended'
  BY <1>1 DEF IInv, RowTypes, EffectsIntended, Intended
<1>3. PICK to \in {"execute", "quarantine"} : publisher' = [publisher EXCEPT !.phase = to]
  BY DEF CheckPublication
<1> QED
  BY <1>1, <1>2, <1>3, PhasePreserves

\* A lost report leaves the action executed and its outcome open.
LEMMA DropPreserves ==
  ASSUME IInv, NEW f \in Features, DropPublicationReport(f)
  PROVE  IInv'
<1>1. /\ PublisherAt(f, "report")
      /\ publisher' = [publisher EXCEPT !.phase = "quarantine"]
      /\ UNCHANGED <<status, lrev, ledger, lease, queueRev, pauseRev, orch, publication,
                     remote>>
  BY DEF DropPublicationReport, conveyorVars, authorityVars, gateVars, orchVars
<1>2. remote' \in [Features -> Seq(1 .. LastAction)] /\ EffectsIntended'
  BY <1>1 DEF IInv, RowTypes, EffectsIntended, Intended
<1> QED
  BY <1>1, <1>2, PhasePreserves

\* GitHub executes at most the one action that is intended.
LEMMA ExecutePreserves ==
  ASSUME IInv, NEW f \in Features, NEW acted \in BOOLEAN, NEW reported \in BOOLEAN,
         ExecutePublication(f, acted, reported)
  PROVE  IInv'
<1>1. /\ PublisherAt(f, "execute")
      /\ UNCHANGED <<status, lrev, ledger, lease, queueRev, pauseRev, orch, publication>>
      /\ remote \in [Features -> Seq(1 .. LastAction)]
  BY DEF ExecutePublication, conveyorVars, authorityVars, gateVars, orchVars, IInv, RowTypes
<1>2. /\ publisher.action \in 1 .. LastAction
      /\ Len(remote[f]) + 1 = publisher.action
      /\ publication[f] # NoRow /\ publication[f].done + 1 = publisher.action
      /\ remote[f] \in Seq(1 .. LastAction)
  BY <1>1, PublisherFacts
<1>3. CASE acted
  <2>1. remote' = [remote EXCEPT ![f] = Append(remote[f], publisher.action)]
    BY <1>3 DEF ExecutePublication
  <2>2. /\ Append(remote[f], publisher.action) \in Seq(1 .. LastAction)
        /\ Len(Append(remote[f], publisher.action)) = publisher.action
        /\ \A i \in 1 .. Len(remote[f]) : Append(remote[f], publisher.action)[i] = remote[f][i]
        /\ Append(remote[f], publisher.action)[publisher.action] = publisher.action
        /\ DOMAIN Append(remote[f], publisher.action) = 1 .. publisher.action
    BY <1>2
  <2>3. /\ remote'[f] = Append(remote[f], publisher.action)
        /\ \A g \in Features \ {f} : remote'[g] = remote[g]
        /\ remote' \in [Features -> Seq(1 .. LastAction)]
    BY <1>1, <2>1, <2>2
  <2>4. ASSUME NEW i \in DOMAIN remote'[f] PROVE remote'[f][i] = i
    <3>1. CASE i = publisher.action
      BY <2>2, <2>3, <3>1
    <3>2. CASE i # publisher.action
      <4>1. i \in 1 .. Len(remote[f])
        BY <1>2, <2>2, <2>3, <3>2
      <4>2. i \in DOMAIN remote[f]
        BY <1>2, <4>1
      <4> QED
        BY <2>2, <2>3, <4>1, <4>2 DEF IInv, EffectsIntended
    <3> QED
      BY <3>1, <3>2
  <2>5. Len(remote'[f]) <= Intended(f)'
    BY <1>1, <1>2, <2>2, <2>3 DEF Intended
  <2>6. EffectsIntended'
    BY <1>1, <2>3, <2>4, <2>5 DEF IInv, EffectsIntended, Intended
  <2>7. PICK to \in {"report", "quarantine"} : publisher' = [publisher EXCEPT !.phase = to]
    BY DEF ExecutePublication
  <2> QED
    BY <1>1, <2>2, <2>3, <2>6, <2>7, PhasePreserves
<1>4. CASE ~acted
  <2>1. remote' = remote /\ publisher' = [publisher EXCEPT !.phase = "quarantine"]
    BY <1>4 DEF ExecutePublication
  <2>2. EffectsIntended'
    BY <1>1, <2>1 DEF IInv, EffectsIntended, Intended
  <2> QED
    BY <1>1, <2>1, <2>2, PhasePreserves
<1> QED
  BY <1>3, <1>4

\* What complete_publication_action leaves in the tables and with the thread.
LEMMA CompletionFacts ==
  ASSUME IInv, NEW f \in Features, CompletePublicationAction(f)
  PROVE  /\ publication' \in [Features -> {NoRow} \cup PublicationRows]
         /\ publisher' \in {NoRow} \cup PublisherRows
         /\ \A g \in Features \ {f} : publication'[g] = publication[g]
         /\ EffectsIntended' /\ PublisherKnows'
         /\ lease = f /\ status[f] \in {"publishing", "verifying_main"}
         /\ UNCHANGED <<pauseRev, orch, remote>>
<1> DEFINE new == [publication[f] EXCEPT !.done = publication[f].done + 1]
<1>1. /\ PublisherAt(f, "report") /\ UNCHANGED <<pauseRev, orch, remote>>
      /\ lease = f /\ status[f] \in {"publishing", "verifying_main"}
      /\ publication' = [publication EXCEPT ![f] = new]
  BY DEF CompletePublicationAction, PublicationReportable, PublicationCurrent, Authorized,
         authorityVars, orchVars
<1>2. /\ publisher \in PublisherRows /\ publisher.feature = f
      /\ publisher.action \in 1 .. LastAction
      /\ publication[f] \in PublicationRows
      /\ publication[f].done \in 0 .. LastAction
      /\ publication[f].done + 1 = publisher.action
      /\ Len(remote[f]) = publisher.action
  BY <1>1, PublisherFacts
<1>3. new \in PublicationRows /\ new.done = publisher.action /\ new # NoRow
  BY <1>2 DEF PublicationRows
<1>4. publication'[f] = new /\ \A g \in Features \ {f} : publication'[g] = publication[g]
  BY <1>1 DEF IInv, RowTypes
<1>5. publication' \in [Features -> {NoRow} \cup PublicationRows]
  BY <1>1, <1>3 DEF IInv, RowTypes
<1> HIDE DEF new
<1>6. EffectsIntended'
  <2>1. Len(remote'[f]) <= Intended(f)'
    BY <1>1, <1>2, <1>3, <1>4 DEF Intended
  <2> QED
    BY <1>1, <1>4, <2>1 DEF IInv, EffectsIntended, Intended
<1>7. CASE publisher.action = LastAction
  <2>1. publisher' = NoRow
    BY <1>7 DEF CompletePublicationAction
  <2> QED
    BY <1>1, <1>4, <1>5, <1>6, <2>1 DEF PublisherKnows
<1>8. CASE publisher.action # LastAction
  <2>1. publisher' = [publisher EXCEPT !.action = publisher.action + 1, !.phase = "check"]
    BY <1>8 DEF CompletePublicationAction
  <2>a. publisher.action + 1 \in 1 .. LastAction
    BY <1>2, <1>8
  <2>2. /\ publisher' \in PublisherRows /\ publisher'.feature = f
        /\ publisher'.action = publisher.action + 1 /\ publisher'.phase = "check"
    BY <1>2, <2>a, <2>1 DEF PublisherRows
  <2>3. PublisherKnows'
    BY <1>1, <1>2, <1>3, <1>4, <2>2 DEF PublisherKnows
  <2> QED
    BY <1>1, <1>4, <1>5, <1>6, <2>2, <2>3
<1> QED
  BY <1>7, <1>8

\* complete_publication_action, for the merge, the last and any other action.
LEMMA CompletePreserves ==
  ASSUME IInv, NEW f \in Features, CompletePublicationAction(f)
  PROVE  IInv'
<1>1. /\ publication' \in [Features -> {NoRow} \cup PublicationRows]
      /\ publisher' \in {NoRow} \cup PublisherRows
      /\ \A g \in Features \ {f} : publication'[g] = publication[g]
      /\ EffectsIntended' /\ PublisherKnows'
      /\ lease = f /\ status[f] \in {"publishing", "verifying_main"}
      /\ UNCHANGED <<pauseRev, orch, remote>>
  BY CompletionFacts
<1>2. PausesResumable'
  BY <1>1 DEF IInv, PausesResumable
<1>3. ASSUME NEW to \in {"verifying_main", "succeeded"},
             NEW row \in LedgerRows, row.from = status[f], row.to = to,
             status' = [status EXCEPT ![f] = to],
             lrev' = [lrev EXCEPT ![f] = lrev[f] + 1],
             ledger' = [ledger EXCEPT ![f] = Append(ledger[f], row)],
             queueRev' \in Nat,
             lease' = IF to = "succeeded" THEN NoFeature ELSE f
      PROVE  IInv'
  <2>1. /\ status' \in [Features -> Statuses] /\ lrev' \in [Features -> Nat]
        /\ ledger' \in [Features -> Seq(LedgerRows)]
        /\ \A g \in Features : LedgerSound(g)'
    <3>1. to \in Blocking \cup Released
      BY DEF Blocking
    <3> QED
      BY <1>1, <1>3, <3>1, MoveKeepsLedger
  <2>2. \A g \in Features \ {f} : ledger'[g] = ledger[g]
    BY <1>3 DEF IInv, RowTypes
  <2>3. RowTypes'
    BY <1>1, <1>3, <2>1 DEF IInv, RowTypes
  <2>4. LeaseHeldUntilReleased'
    BY <1>1, <1>3 DEF IInv, RowTypes, LeaseHeldUntilReleased
  <2>5. AbandonedReconciled'
    BY <1>1, <1>3, <2>2 DEF IInv, RowTypes, AbandonedReconciled, Intended
  <2> QED
    BY <1>1, <1>2, <2>1, <2>3, <2>4, <2>5 DEF IInv
<1>4. queueRev \in Nat
  BY DEF IInv, RowTypes
<1>5. CASE publisher.action = MergeAction
  <2> DEFINE row == [from |-> status[f], to |-> "verifying_main", snapshot |-> FALSE,
                     accepted |-> TRUE, healthy |-> FALSE]
  <2>1. row \in LedgerRows /\ row.from = status[f] /\ row.to = "verifying_main"
    BY <1>1 DEF LedgerRows
  <2>2. /\ status' = [status EXCEPT ![f] = "verifying_main"]
        /\ lrev' = [lrev EXCEPT ![f] = lrev[f] + 1]
        /\ ledger' = [ledger EXCEPT ![f] = Append(ledger[f], row)]
        /\ queueRev' = queueRev /\ lease' = lease
    BY <1>5 DEF CompletePublicationAction, Move, MoveWith
  <2> HIDE DEF row
  <2> QED
    BY <1>1, <1>3, <1>4, <2>1, <2>2
<1>6. CASE publisher.action = LastAction
  <2> DEFINE row == [from |-> status[f], to |-> "succeeded", snapshot |-> FALSE,
                     accepted |-> FALSE, healthy |-> TRUE]
  <2>1. row \in LedgerRows /\ row.from = status[f] /\ row.to = "succeeded"
    BY <1>1 DEF LedgerRows
  <2>2. /\ status' = [status EXCEPT ![f] = "succeeded"]
        /\ lrev' = [lrev EXCEPT ![f] = lrev[f] + 1]
        /\ ledger' = [ledger EXCEPT ![f] = Append(ledger[f], row)]
        /\ queueRev' = queueRev + 1 /\ lease' = NoFeature
    BY <1>6 DEF CompletePublicationAction, MoveWith, Release
  <2> HIDE DEF row
  <2>3. queueRev' \in Nat /\ "succeeded" \in {"verifying_main", "succeeded"}
    BY <1>4, <2>2
  <2>4. lease' = IF "succeeded" = "succeeded" THEN NoFeature ELSE f
    BY <2>2
  <2> QED
    BY <1>3, <2>1, <2>2, <2>3, <2>4
<1>7. CASE publisher.action \notin {MergeAction, LastAction}
  <2>1. UNCHANGED <<status, lrev, ledger, lease, queueRev>>
    BY <1>7 DEF CompletePublicationAction, conveyorVars
  <2>2. \A g \in Features : status[g] = "abandoned" => publication'[g] = publication[g]
    BY <1>1
  <2> QED
    BY <1>1, <2>1, <2>2, HostPreserves DEF IInv, RowTypes
<1> QED
  BY <1>5, <1>6, <1>7

\* Every step of the publishing thread.
LEMMA PublisherActionPreserves ==
  ASSUME IInv, NEW f \in Features, PublisherAction(f)
  PROVE  IInv'
<1>1. CASE QuarantinePublication(f)
  <2> USE DEF authorityVars, gateVars, orchVars
  <2>1. CASE status[f] \in {"publishing", "verifying_main"}
    <3>1. lease = f
      BY <2>1, HolderFacts DEF Blocking
    <3> QED
      BY <1>1, <2>1, <3>1, MovePreserves, OrchUnchanged
         DEF QuarantinePublication, Move, Blocking
  <2>2. CASE status[f] \notin {"publishing", "verifying_main"}
    BY <1>1, <2>2, StayPreserves, OrchUnchanged DEF QuarantinePublication
  <2> QED
    BY <2>1, <2>2
<1> QED
  BY <1>1, CheckPreserves, ExecutePreserves, CompletePreserves, DropPreserves
     DEF PublisherAction

-----------------------------------------------------------------------------
(* The owner *)

\* abandon_and_advance demands a healthy main once a merge was intended.
LEMMA AbandonPreserves ==
  ASSUME IInv, NEW f \in Features, NEW healthy \in BOOLEAN, AbandonAndAdvance(f, healthy)
  PROVE  IInv'
<1> DEFINE row == [from |-> status[f], to |-> "abandoned", snapshot |-> FALSE,
                   accepted |-> FALSE, healthy |-> healthy]
<1>1. /\ lease = f /\ lease' = NoFeature /\ queueRev' = queueRev + 1
      /\ UNCHANGED <<pauseRev, orch, publication, publisher, remote>>
      /\ MergeIntended(f) => healthy
  BY DEF AbandonAndAdvance, Release, HealthyMainRequired, authorityVars, gateVars, orchVars,
         hostVars
<1>a. /\ row \in LedgerRows /\ row.from = status[f] /\ row.to = "abandoned"
      /\ row.healthy = healthy
  BY DEF LedgerRows, IInv, RowTypes
<1>b. /\ status' = [status EXCEPT ![f] = "abandoned"]
      /\ lrev' = [lrev EXCEPT ![f] = lrev[f] + 1]
      /\ ledger' = [ledger EXCEPT ![f] = Append(ledger[f], row)]
  BY DEF AbandonAndAdvance, MoveWith
<1> HIDE DEF row
<1>2. /\ status' \in [Features -> Statuses] /\ lrev' \in [Features -> Nat]
      /\ ledger' \in [Features -> Seq(LedgerRows)]
      /\ \A g \in Features : LedgerSound(g)'
      /\ ledger'[f] # <<>>
      /\ ledger'[f][Len(ledger'[f])] = row
  BY <1>1, <1>a, <1>b, MoveKeepsLedger
<1>3. /\ status' = [status EXCEPT ![f] = "abandoned"]
      /\ \A g \in Features \ {f} : ledger'[g] = ledger[g]
  BY <1>b DEF IInv, RowTypes
<1>4. RowTypes'
  BY <1>1, <1>2 DEF IInv, RowTypes
<1>5. LeaseHeldUntilReleased'
  BY <1>1, <1>3 DEF IInv, RowTypes, LeaseHeldUntilReleased
<1>6. EffectsIntended' /\ PublisherKnows' /\ PausesResumable'
  BY <1>1 DEF IInv, EffectsIntended, PublisherKnows, Intended, PausesResumable
<1>7. AbandonedReconciled'
  <2>1. Intended(f) >= MergeAction => healthy
    <3>1. publication[f] # NoRow => publication[f].done \in 0 .. LastAction
      BY DEF IInv, RowTypes, PublicationRows
    <3> QED
      BY <1>1, <3>1 DEF Intended, MergeIntended
  <2>2. Intended(f)' >= MergeAction =>
          ledger'[f] # <<>> /\ ledger'[f][Len(ledger'[f])].healthy
    BY <1>1, <1>2, <1>a, <2>1 DEF Intended
  <2> QED
    BY <1>1, <1>3, <2>2 DEF IInv, RowTypes, AbandonedReconciled, Intended
<1> QED
  BY <1>2, <1>4, <1>5, <1>6, <1>7 DEF IInv

\* Cancellation and abandonment by the owner.
LEMMA OwnerActionPreserves ==
  ASSUME IInv, NEW f \in Features, OwnerAction(f)
  PROVE  IInv'
<1>1. CASE CancelActiveFeature(f)
  BY <1>1, MovePreserves, OrchUnchanged
     DEF CancelActiveFeature, Move, Blocking, authorityVars, gateVars, orchVars, hostVars
<1> QED
  BY <1>1, AbandonPreserves DEF OwnerAction

-----------------------------------------------------------------------------
(* Orchestration checkpoints *)

\* What derive_orchestration_decision_tx can decide for a checkpoint.
DecisionOK(f, d) ==
  /\ d.stage \in Blocking
  /\ d.kind \in {"none", "owner", "provider"} /\ d.effect \in BOOLEAN
  /\ d.kind # "none" => d.stage = "paused"
  /\ d.stage # status[f] => d.accepted \in BOOLEAN
  /\ status[f] = "quarantined" => d.stage = "quarantined"

\* A decision keeps the feature in execution or blocked.
LEMMA DecisionSound ==
  ASSUME IInv, NEW f \in Features, status[f] \in Active \cup {"quarantined"},
         status[f] = "paused" => orch[f] # NoRow
  PROVE  DecisionOK(f, Decision(f))
<1> USE DEF DecisionOK, Decided, Ambiguous, Blocking
<1>1. CASE status[f] \in {"publishing", "verifying_main"}
  BY <1>1 DEF Decision
<1>2. CASE status[f] = "quarantined"
  BY <1>2 DEF Decision
<1>3. CASE status[f] = "paused"
  <2>1. /\ orch[f] \in OrchRows
        /\ orch[f].kind \in {"none", "owner", "provider"}
        /\ orch[f].kind # "none" => orch[f].resume \in Gated
    BY <1>3 DEF IInv, RowTypes, OrchRows, PausesResumable
  <2>2. Decision(f) = IF orch[f].kind = "provider" /\ ~review[f].backoff
                        THEN Decided(orch[f].resume, FALSE)
                        ELSE [Decided("paused", FALSE) EXCEPT !.kind = orch[f].kind]
    BY <1>3 DEF Decision
  <2> QED
    BY <1>3, <2>1, <2>2
<1>4. CASE status[f] = "validating"
  BY <1>4 DEF Decision
<1>5. CASE status[f] = "reviewing"
  <2>1. Decision(f) = ReviewStage(f)
    BY <1>5 DEF Decision
  <2> QED
    <3>1. \/ Decision(f) \in {Ambiguous, Decided("repairing", TRUE),
                               Decided("attention_required", FALSE)}
          \/ Decision(f) = [Decided("paused", TRUE) EXCEPT !.kind = "provider"]
          \/ Decision(f) = Decided("reviewing", review[f].retry)
      BY <2>1 DEF ReviewStage
    <3>2. CASE Decision(f) = Decided("reviewing", review[f].retry)
      BY <1>5, <3>2
    <3>3. CASE Decision(f) = [Decided("paused", TRUE) EXCEPT !.kind = "provider"]
      BY <1>5, <3>3
    <3>4. CASE Decision(f) = Ambiguous
      BY <1>5, <3>4
    <3>5. CASE Decision(f) = Decided("repairing", TRUE)
      BY <1>5, <3>5
    <3>6. CASE Decision(f) = Decided("attention_required", FALSE)
      BY <1>5, <3>6
    <3> QED
      <4> HIDE DEF DecisionOK, Decided, Ambiguous
      <4> QED
        BY <3>1, <3>2, <3>3, <3>4, <3>5, <3>6
<1>6. CASE status[f] \in {"repairing", "implementing"}
  BY <1>6 DEF Decision
<1> QED
  BY <1>1, <1>2, <1>3, <1>4, <1>5, <1>6

\* A checkpoint written for the holder of the lease.
LEMMA CheckpointSound ==
  ASSUME IInv, NEW f \in Features, NEW new \in OrchRows,
         new.kind # "none" => new.resume \in Gated,
         orch' = [orch EXCEPT ![f] = new]
  PROVE  orch' \in [Features -> {NoRow} \cup OrchRows] /\ PausesResumable'
<1>1. orch' \in [Features -> {NoRow} \cup OrchRows]
  BY DEF IInv, RowTypes
<1>2. orch'[f] = new /\ \A g \in Features \ {f} : orch'[g] = orch[g]
  BY DEF IInv, RowTypes
<1> QED
  BY <1>1, <1>2 DEF IInv, PausesResumable

\* coordinate_feature_orchestration, whether or not the feature moves.
LEMMA CoordinatePreserves ==
  ASSUME IInv, NEW f \in Features, NEW exhausted \in BOOLEAN,
         CoordinateOrchestration(f, exhausted)
  PROVE  IInv'
<1> DEFINE d == IF exhausted /\ Decision(f).stage # "quarantined"
                  THEN Decided("attention_required", FALSE) ELSE Decision(f)
           new == [stage |-> d.stage, kind |-> d.kind, effect |-> d.effect,
                   lrev |-> lrev'[f],
                   resume |-> IF d.stage = "paused" THEN status[f] ELSE "none"]
<1>1. /\ lease = f /\ status[f] \in Active \cup {"quarantined"}
      /\ status[f] = "paused" => orch[f] # NoRow
      /\ ~(d.stage = "paused" /\ status[f] = "paused")
      /\ orch' = [orch EXCEPT ![f] = new]
      /\ UNCHANGED <<lease, queueRev, pauseRev, publication, publisher, remote>>
  BY DEF CoordinateOrchestration, authorityVars, gateVars, hostVars
<1>2. \/ d.stage # status[f] /\ Move(f, d.stage, d.accepted)
      \/ UNCHANGED <<status, lrev, ledger>>
  BY DEF CoordinateOrchestration
<1>3. DecisionOK(f, d)
  <2>1. DecisionOK(f, Decision(f))
    BY <1>1, DecisionSound
  <2> QED
    BY <2>1 DEF DecisionOK, Decided, Blocking
<1> HIDE DEF d
<1>4. lrev'[f] \in Nat
  BY <1>2 DEF Move, MoveWith, IInv, RowTypes
<1>5. new \in OrchRows /\ (new.kind # "none" => new.resume \in Gated)
  BY <1>1, <1>3, <1>4 DEF OrchRows, DecisionOK, Blocking
<1>6. orch' \in [Features -> {NoRow} \cup OrchRows] /\ PausesResumable'
  <2> HIDE DEF new
  <2> QED
    BY <1>1, <1>5, CheckpointSound
<1> HIDE DEF new
<1>7. CASE d.stage # status[f] /\ Move(f, d.stage, d.accepted)
  <2>1. d.stage \in Blocking /\ d.accepted \in BOOLEAN
    BY <1>3, <1>7 DEF DecisionOK
  <2> DEFINE row == [from |-> status[f], to |-> d.stage, snapshot |-> FALSE,
                     accepted |-> d.accepted, healthy |-> FALSE]
  <2>2. /\ status' = [status EXCEPT ![f] = d.stage]
        /\ lrev' = [lrev EXCEPT ![f] = lrev[f] + 1]
        /\ ledger' = [ledger EXCEPT ![f] = Append(ledger[f], row)]
    BY <1>7 DEF Move, MoveWith
  <2>3. row \in LedgerRows /\ row.from = status[f] /\ row.to = d.stage
    BY <1>1, <2>1 DEF LedgerRows, Blocking
  <2> HIDE DEF row
  <2> QED
    BY <1>1, <1>6, <2>1, <2>2, <2>3, RowPreserves
<1>8. CASE UNCHANGED <<status, lrev, ledger>>
  BY <1>1, <1>6, <1>8, StayPreserves
<1> QED
  BY <1>2, <1>7, <1>8

\* Checkpoints, owner pauses and owner resumes.
LEMMA OrchestrationActionPreserves ==
  ASSUME IInv, NEW f \in Features, OrchestrationAction(f)
  PROVE  IInv'
<1>1. CASE OwnerPause(f)
  <2> DEFINE new == [stage |-> "paused", resume |-> orch[f].stage, kind |-> "owner",
                     effect |-> FALSE, lrev |-> lrev'[f]]
  <2>1. /\ lease = f /\ orch[f].stage \in Gated
        /\ Move(f, "paused", FALSE) /\ orch' = [orch EXCEPT ![f] = new]
        /\ UNCHANGED <<lease, queueRev, pauseRev, publication, publisher, remote>>
    BY <1>1 DEF OwnerPause, authorityVars, gateVars, hostVars
  <2>a. lrev' = [lrev EXCEPT ![f] = lrev[f] + 1]
    BY <2>1 DEF Move, MoveWith
  <2>b. lrev \in [Features -> Nat]
    BY DEF IInv, RowTypes
  <2>2. lrev'[f] \in Nat
    BY <2>a, <2>b
  <2>3. new \in OrchRows /\ new.resume \in Gated
    BY <2>1, <2>2 DEF OrchRows
  <2> HIDE DEF new
  <2>4. orch' \in [Features -> {NoRow} \cup OrchRows] /\ PausesResumable'
    BY <2>1, <2>3, CheckpointSound
  <2> QED
    BY <2>1, <2>4, MovePreserves DEF Move, Blocking
<1>2. CASE OwnerResume(f)
  <2> DEFINE new == [stage |-> orch[f].resume, resume |-> "none", kind |-> "none",
                     effect |-> FALSE, lrev |-> lrev'[f]]
  <2>1. /\ lease = f /\ orch[f] # NoRow /\ orch[f].kind = "owner"
        /\ Move(f, orch[f].resume, FALSE) /\ orch' = [orch EXCEPT ![f] = new]
        /\ UNCHANGED <<lease, queueRev, pauseRev, publication, publisher, remote>>
    BY <1>2 DEF OwnerResume, authorityVars, gateVars, hostVars
  <2>a. lrev' = [lrev EXCEPT ![f] = lrev[f] + 1]
    BY <2>1 DEF Move, MoveWith
  <2>b. lrev \in [Features -> Nat]
    BY DEF IInv, RowTypes
  <2>2. lrev'[f] \in Nat
    BY <2>a, <2>b
  <2>3. orch[f].resume \in Gated
    BY <2>1 DEF IInv, PausesResumable
  <2>4. new \in OrchRows /\ new.kind = "none"
    BY <2>2, <2>3 DEF OrchRows
  <2> HIDE DEF new
  <2>5. orch' \in [Features -> {NoRow} \cup OrchRows] /\ PausesResumable'
    BY <2>1, <2>4, CheckpointSound
  <2>6. orch[f].resume \in Blocking
    BY <2>3 DEF Blocking
  <2> QED
    BY <2>1, <2>5, <2>6, MovePreserves DEF Move
<1> QED
  BY <1>1, <1>2, CoordinatePreserves DEF OrchestrationAction

-----------------------------------------------------------------------------
(* Restart, and the theorems *)

\* A restart forgets the host threads and may quarantine the holder.
LEMMA RestartPreserves == ASSUME IInv, Restart PROVE IInv'
<1>1. /\ publisher' = NoRow
      /\ UNCHANGED <<lease, queueRev, pauseRev, publication, remote, orch>>
  BY DEF Restart, authorityVars, gateVars, orchVars
<1>2. CASE lease # NoFeature /\ status[lease] \in Active /\ ~RestartSafe(lease)
  <2>1. lease \in Features /\ Move(lease, "quarantined", FALSE)
    BY <1>2 DEF Restart, IInv, RowTypes
  <2> QED
    BY <1>1, <2>1, MovePreserves, OrchUnchanged DEF Move, Blocking
<1>3. CASE ~(lease # NoFeature /\ status[lease] \in Active /\ ~RestartSafe(lease))
  <2>1. UNCHANGED <<status, lrev, ledger>>
    BY <1>3 DEF Restart
  <2> QED
    BY <1>1, <2>1, StayPreserves, OrchUnchanged
<1> QED
  BY <1>2, <1>3

\* Every step of the master preserves the invariant.
LEMMA NextPreserves == IInv /\ [Next]_vars => IInv'
<1> SUFFICES ASSUME IInv, [Next]_vars PROVE IInv'
  OBVIOUS
<1>0. queueRev \in Nat /\ pauseRev \in Nat
  BY DEF IInv, RowTypes
<1>1. ASSUME NEW f \in Features, BeginPublication(f) PROVE IInv'
  BY <1>1, BeginPublicationPreserves
<1>2. ASSUME NEW order, ReorderQueuedFeatures(order) PROVE IInv'
  BY <1>0, <1>2, QuietPreserves
     DEF ReorderQueuedFeatures, authorityVars, gateVars, orchVars, hostVars
<1>3. ASSUME NEW on \in BOOLEAN, SetEmergencyPaused(on) PROVE IInv'
  BY <1>0, <1>3, QuietPreserves
     DEF SetEmergencyPaused, conveyorVars, gateVars, orchVars, hostVars
<1>4. CASE ActivateOrchestration
  BY <1>0, <1>4, QuietPreserves
     DEF ActivateOrchestration, conveyorVars, authorityVars, gateVars, hostVars
<1>5. CASE UNCHANGED vars
  BY <1>0, <1>5, QuietPreserves
     DEF vars, conveyorVars, authorityVars, gateVars, orchVars, hostVars
<1> QED
  BY <1>1, <1>2, <1>3, <1>4, <1>5, QueueActionPreserves, GateActionPreserves,
     PublisherActionPreserves, OwnerActionPreserves, OrchestrationActionPreserves,
     PacketActionPreserves, RestartPreserves DEF Next

\* The inductive invariant holds of every behaviour of the conveyor.
THEOREM ConveyorInvariant == Spec => []IInv
  BY InitEstablishes, NextPreserves, PTL DEF Spec

\* The singleton lease is held from the claim to success or abandonment, and
\* by nobody else, whatever fails, pauses, restarts or is cancelled meanwhile.
THEOREM LeaseSafety == Spec => []LeaseHeldUntilReleased
<1>1. IInv => LeaseHeldUntilReleased
  BY DEF IInv
<1> QED
  BY <1>1, ConveyorInvariant, PTL

\* The transition ledger accounts for every revision of a claimed feature and
\* ends in its present status.
THEOREM LedgerSafety == Spec => []LedgerExplainsStatus
<1>1. ASSUME IInv PROVE LedgerExplainsStatus
  <2> SUFFICES ASSUME NEW f \in Features, lease = f \/ status[f] \in Released
               PROVE  /\ Len(ledger[f]) = lrev[f] - 2
                      /\ ledger[f] # <<>> =>
                           /\ ledger[f][1].from = "implementing"
                           /\ ledger[f][Len(ledger[f])].to = status[f]
                      /\ \A i \in 1 .. Len(ledger[f]) - 1 :
                           ledger[f][i].to = ledger[f][i + 1].from
    BY DEF LedgerExplainsStatus
  <2>1. status[f] \in Blocking \cup Released
    BY <1>1, HolderFacts
  <2>2. ledger[f] \in Seq(LedgerRows)
    BY <1>1 DEF IInv, RowTypes
  <2> QED
    BY <1>1, <2>1, <2>2 DEF IInv, LedgerSound
<1> QED
  BY <1>1, ConveyorInvariant, PTL

\* GitHub is asked for each publication action at most once and in order, for
\* any interleaving of the publishing thread with owners and restarts.
THEOREM EffectSafety == Spec => []EffectsOnceInOrder
<1>1. IInv => EffectsOnceInOrder
  BY DEF IInv, EffectsIntended, EffectsOnceInOrder
<1> QED
  BY <1>1, ConveyorInvariant, PTL

\* A feature whose merge reached GitHub is given up only with a healthy main on
\* record, even if the merge's answer never came back.
THEOREM AbandonmentSafety == Spec => []MergedThenAbandonedIsReconciled
<1>1. ASSUME IInv PROVE MergedThenAbandonedIsReconciled
  <2> SUFFICES ASSUME NEW f \in Features, status[f] = "abandoned",
                      Len(remote[f]) >= MergeAction
               PROVE  ledger[f][Len(ledger[f])].healthy
    BY DEF MergedThenAbandonedIsReconciled
  <2>1. /\ Len(remote[f]) \in Nat /\ Intended(f) \in Nat
        /\ Len(remote[f]) <= Intended(f)
    <3>1. remote[f] \in Seq(1 .. LastAction)
      BY <1>1 DEF IInv, RowTypes
    <3>a. publication[f] # NoRow => publication[f] \in PublicationRows
      BY <1>1 DEF IInv, RowTypes
    <3>2. publication[f] # NoRow => publication[f].done \in Nat
      BY <3>a DEF PublicationRows
    <3> QED
      BY <1>1, <3>1, <3>2 DEF IInv, EffectsIntended, Intended
  <2> QED
    BY <1>1, <2>1 DEF IInv, AbandonedReconciled
<1> QED
  BY <1>1, ConveyorInvariant, PTL
=============================================================================
