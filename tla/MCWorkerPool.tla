---------------------------- MODULE MCWorkerPool ----------------------------
(***************************************************************************)
(* The pool on its own, driven by any legal sequence of calls.  Callers    *)
(* are interchangeable; workers are not, acquire() prefers the first.      *)
(***************************************************************************)
EXTENDS WorkerPool

CallerSymmetry == Permutations(Clients)
=============================================================================
