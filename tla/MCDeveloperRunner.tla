-------------------------- MODULE MCDeveloperRunner --------------------------
(***************************************************************************)
(* Instances of DeveloperRunner for TLC: queues of one and of two features. *)
(***************************************************************************)
EXTENDS DeveloperRunner

CONSTANTS f1, f2

OneFeature == <<f1>>
TwoFeatures == <<f1, f2>>
=============================================================================
