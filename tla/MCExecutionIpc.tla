--------------------------- MODULE MCExecutionIpc ---------------------------
(***************************************************************************)
(* An instance of ExecutionIpc for TLC.                                    *)
(***************************************************************************)
EXTENDS ExecutionIpc, TLC

FrameSymmetry == Permutations(Frame)
=============================================================================
