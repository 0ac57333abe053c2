------------------------ MODULE MCSignBidirectional ------------------------
(***************************************************************************)
(* Small instances of the service.  Jobs are interchangeable.              *)
(***************************************************************************)
EXTENDS SignBidirectional

JobSymmetry == Permutations(Jobs)
=============================================================================
