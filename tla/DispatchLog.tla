----------------------------- MODULE DispatchLog -----------------------------
(***************************************************************************)
(* What the authenticated IPC between Master, Broker and Executor promises *)
(* about acknowledgements, with the journals, the pipes and the failures   *)
(* left out: every service acknowledges a frame at most once, it           *)
(* acknowledges contiguous sequence numbers, the Executor only             *)
(* acknowledges what the Broker has already acknowledged, and the Master   *)
(* only ever accepts acknowledgements that are on record.                  *)
(***************************************************************************)
EXTENDS Naturals, FiniteSets

CONSTANTS Frame, Number, AckId, NoAck

VARIABLES issued,     \* per service: the acknowledgements on record
          accepted    \* the (Broker, Executor) pairs the Master has verified

Services == {"broker", "executor"}
Ack == [frame : Frame, seq : Number, id : AckId]

Init == /\ issued = [s \in Services |-> {}]
        /\ accepted = {}

\* The numbers of one service are contiguous from its first one, frames are
\* not repeated, and ids are never shared.
Issue(s, a) ==
  /\ \A b \in issued[s] : b.frame # a.frame
  /\ issued[s] = {} \/ \E b \in issued[s] : a.seq = b.seq + 1
  /\ \A b \in issued[s] : b.seq < a.seq
  /\ \A t \in Services : \A b \in issued[t] : b.id # a.id
  /\ s = "executor" => \E b \in issued["broker"] : b.frame = a.frame
  /\ issued' = [issued EXCEPT ![s] = @ \cup {a}]
  /\ UNCHANGED accepted

Accept(b, e) ==
  /\ b \in issued["broker"]
  /\ e # NoAck => e \in issued["executor"] /\ e.frame = b.frame
  /\ accepted' = accepted \cup {[broker |-> b, executor |-> e]}
  /\ UNCHANGED issued

Next == \/ \E s \in Services, a \in Ack : Issue(s, a)
        \/ \E b \in Ack, e \in Ack \cup {NoAck} : Accept(b, e)

Spec == Init /\ [][Next]_<<issued, accepted>>
=============================================================================
