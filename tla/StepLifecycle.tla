--------------------------- MODULE StepLifecycle ----------------------------
(***************************************************************************)
(* What the step kernel promises to whoever queues a step, without         *)
(* connections, epochs, sequence numbers, leases that expire, attempts or  *)
(* deadlines: a step is held by at most one worker, a worker holds at most *)
(* one step, the outcome that counts is the holder's, a step that was      *)
(* asked to stop can only end cancelled, and while the master is paused no *)
(* step starts and none delivers an outcome.                               *)
(*                                                                         *)
(* StepKernel implements this specification under the mapping at its end.  *)
(* One transaction of the kernel may move several steps.                   *)
(***************************************************************************)
CONSTANTS Steps, Workers, Nobody

VARIABLES
  phase,    \* where each step is
  holder,   \* the worker that holds it, or Nobody
  halted    \* Emergency Pause

lifecycleVars == <<phase, holder, halted>>

Outcomes == {"succeeded", "failed", "cancelled"}
Phases == {"absent", "queued", "running", "stopping"} \cup Outcomes
In(p) == {s \in Steps : phase[s] = p}
Holding == In("running") \cup In("stopping")

\* Move the steps of S to phase p and leave them with nobody.
Release(S, p) ==
  /\ phase' = [s \in Steps |-> IF s \in S THEN p ELSE phase[s]]
  /\ holder' = [s \in Steps |-> IF s \in S THEN Nobody ELSE holder[s]]

Init ==
  /\ phase = [s \in Steps |-> "absent"]
  /\ holder = [s \in Steps |-> Nobody]
  /\ halted = FALSE

Submit(s) ==
  /\ phase[s] = "absent"
  /\ Release({s}, "queued")
  /\ UNCHANGED halted

\* A worker that holds nothing receives a queued step.  Holders L that let
\* their lease run out lose their steps at the same moment, so the step handed
\* out may be one of theirs, and the worker one of them.
Grant(L, s, w) ==
  /\ ~halted
  /\ s \in In("queued") \cup L
  /\ \A t \in Holding \ L : holder[t] # w
  /\ phase' = [t \in Steps |->
       IF t = s THEN "running" ELSE IF t \in L THEN "queued" ELSE phase[t]]
  /\ holder' = [t \in Steps |->
       IF t = s THEN w ELSE IF t \in L THEN Nobody ELSE holder[t]]
  /\ UNCHANGED halted

Finish(s, outcome) ==
  /\ ~halted
  /\ phase[s] = "running"
  /\ Release({s}, outcome)
  /\ UNCHANGED halted

\* Workers are lost: running steps wait for another worker, steps that were
\* asked to stop end cancelled.
Lose(L, P) ==
  /\ phase' = [s \in Steps |->
       IF s \in L THEN "queued" ELSE IF s \in P THEN "cancelled" ELSE phase[s]]
  /\ holder' = [s \in Steps |-> IF s \in L \cup P THEN Nobody ELSE holder[s]]
  /\ UNCHANGED halted

\* Running steps are asked to stop, waiting ones end at once.
Stop(L, Q) ==
  /\ phase' = [s \in Steps |->
       IF s \in L THEN "stopping" ELSE IF s \in Q THEN "cancelled" ELSE phase[s]]
  /\ UNCHANGED holder

Next ==
  \/ \E s \in Steps : Submit(s)
  \/ \E L \in SUBSET In("running"), s \in Steps, w \in Workers : Grant(L, s, w)
  \/ \E s \in Steps, outcome \in Outcomes : Finish(s, outcome)
  \/ \E L \in SUBSET In("running"), P \in SUBSET In("stopping") : Lose(L, P)
  \/ \E L \in SUBSET In("running"), Q \in SUBSET In("queued") :
       Stop(L, Q) /\ halted' \in {halted, TRUE}
  \/ halted' = FALSE /\ UNCHANGED <<phase, holder>>

Spec == Init /\ [][Next]_lifecycleVars

=============================================================================
