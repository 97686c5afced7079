---------------------------- MODULE MCStepKernel ----------------------------
(***************************************************************************)
(* Instances of StepKernel for TLC.                                        *)
(***************************************************************************)
EXTENDS StepKernel, TLC

CONSTANTS d1, d2, a1, a2

\* Two workers compete for the same steps, of which Emergency Pause cancels one
\* and leaves the other alone.
ContendedDevices == {d1, d2}
ContendedCaps == (d1 :> {"mlx", "other"}) @@ (d2 :> {"mlx", "other"})
ContendedSteps == {1, 2}
ContendedStepCap == (1 :> "mlx") @@ (2 :> "other")

\* One coding worker and two dispatches to it.
CodingDevices == {d1}
CodingCaps == (d1 :> {"coding"})
CodingSteps == {1, 2}
CodingStepCap == (1 :> "coding") @@ (2 :> "coding")

TwoAttempts == {a1, a2}
TwoAttemptSymmetry == Permutations(TwoAttempts)

=============================================================================
