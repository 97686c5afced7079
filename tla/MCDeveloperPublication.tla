----------------------- MODULE MCDeveloperPublication -----------------------
(***************************************************************************)
(* DeveloperPublication for TLC.                                           *)
(***************************************************************************)
EXTENDS DeveloperPublication
=============================================================================
