------------------------- MODULE MCFeatureConveyor --------------------------
(* Instances of FeatureConveyor for TLC. *)
EXTENDS FeatureConveyor

CONSTANTS f1, f2

NoDependencies == [f \in Features |-> {}]
SecondNeedsFirst == [f \in Features |-> IF f = f2 THEN {f1} ELSE {}]
=============================================================================
