----------------------------- MODULE SignRestart -----------------------------
(***************************************************************************)
(* The service of SignBidirectional, and restarts of its process.  All its *)
(* state is in memory (README.md:271-274): the new process has an empty    *)
(* pool without quarantines and no job, while the transactions that the    *)
(* old one broadcast, or was broadcasting, are where they were.            *)
(***************************************************************************)
EXTENDS SignBidirectional

CONSTANT MaxRestarts    \* bound: restarts of the process

ASSUME RestartAssumption == MaxRestarts \in Nat

VARIABLES
    restarts,       \* how often the process was restarted
    lost            \* history: jobs whose process died under them

restartVars == <<vars, restarts, lost>>

RInit == Init /\ restarts = 0 /\ lost = {}

Unsettled == {w \in Workers : From(w, {"sent", "pending"}) # {}}

\* A crash, a deployment, or the end of a shutdown, at any await.
Restart ==
    /\ restarts < MaxRestarts
    /\ restarts' = restarts + 1
    /\ lost' = lost \cup Live
    /\ busy' = {} /\ underfunded' = {} /\ quarantined' = {}
    /\ balanceWei' = [w \in Workers |-> 0]
    /\ waiters' = <<>>
    /\ lease' = [c \in Clients |-> None]
    /\ pc' = [a \in Actors |-> IF pc[a] = "idle" THEN "idle" ELSE "done"]
    /\ aborted' = {}
    /\ addressesReady' = "unset"
    /\ todo' = [a \in Actors |-> {}]
    /\ answer' = [a \in Actors |-> None]
    /\ latestCount' = [a \in Actors |-> None]
    /\ exposed' = exposed \cup Unsettled
    /\ UNCHANGED <<failureReason, built, chainVars>>

RNext ==
    \/ Next /\ UNCHANGED <<restarts, lost>>
    \/ Restart

RSpec == RInit /\ [][RNext]_restartVars

-----------------------------------------------------------------------------
(***************************************************************************)
(* Properties                                                              *)
(***************************************************************************)

\* A job that is over and left a transaction behind failed under one of the two
\* reasons that say so, or was lost with its process: no other way to end it,
\* and no restart after it ended, leaves an unexplained transaction.
OrphansAreExplained ==
    \A j \in Jobs :
        pc[j] = "done" /\ fate[j] \in {"sent", "pending"} =>
            failureReason[j] \in {"broadcast_failed", "confirmation_timeout"} \/ j \in lost

\* The addresses whose next nonce a restart puts at risk are ones the pool was
\* withholding at that moment (workerPool.ts:9-15): the leases and quarantines
\* it forgets are all that would have had to be kept.
RestartForgetsOnlyWithheld ==
    [][restarts' # restarts => exposed' \ exposed \subseteq busy \cup quarantined]_restartVars
=============================================================================
