------------------------------ MODULE MCAutoRun ------------------------------
(***************************************************************************)
(* AutoRun for TLC.                                                        *)
(***************************************************************************)
EXTENDS AutoRunProperties, TLC

RunSymmetry == Permutations(Runs)
=============================================================================
