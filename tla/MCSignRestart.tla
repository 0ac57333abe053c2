--------------------------- MODULE MCSignRestart ---------------------------
(***************************************************************************)
(* A small instance of the service with restarts.  Jobs are                *)
(* interchangeable.                                                        *)
(***************************************************************************)
EXTENDS SignRestart

JobSymmetry == Permutations(Jobs)
=============================================================================
