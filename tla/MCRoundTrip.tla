---------------------------- MODULE MCRoundTrip ----------------------------
(***************************************************************************)
(* Small instances of the round trip.  Jobs are interchangeable.           *)
(***************************************************************************)
EXTENDS RoundTrip, TLC

JobSymmetry == Permutations(Jobs)
=============================================================================
