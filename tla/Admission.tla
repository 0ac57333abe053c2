----------------------------- MODULE Admission -----------------------------
(***************************************************************************)
(* POST /sign_bidirectional (src/index.ts): the two ceilings of the job    *)
(* store and the rate limiter decide which requests become jobs.  What a   *)
(* job does afterwards is SignBidirectional's business; here it is         *)
(* confirmed at most once, and finishes.                                   *)
(***************************************************************************)
EXTENDS RateLimiter, JobStore

vars == <<limiterVars, storeVars>>

Init == LimiterInit /\ StoreInit

\* One request: capacity first, so that a rejection uses up no arrival slot, then
\* the limiter, then BidirectionalService.start().
Post_limiter_first ==
    \/ Admit /\ AtCapacity # "none" /\ UNCHANGED storeVars
    \/ Admit /\ AtCapacity = "none" /\ Create
    \/ Refuse /\ UNCHANGED storeVars
Post ==
    \/ AtCapacity # "none" /\ UNCHANGED vars
    \/ AtCapacity = "none" /\ Admit /\ Create
    \/ AtCapacity = "none" /\ Refuse /\ UNCHANGED storeVars

\* GET /sign_bidirectional/stats reads the limiter.
Stats == Query /\ UNCHANGED storeVars

JobConfirmed == \E i \in stored : Confirm(i) /\ UNCHANGED limiterVars

JobFinished == \E i \in stored : Finish(i, now) /\ UNCHANGED limiterVars

Next == Post \/ Stats \/ JobConfirmed \/ JobFinished \/ (Tick /\ UNCHANGED storeVars)

Spec == Init /\ [][Next]_vars

-----------------------------------------------------------------------------
(***************************************************************************)
(* Properties                                                              *)
(***************************************************************************)

\* Every variable has its type.
TypeOK == LimiterTypeOK /\ StoreTypeOK

\* An arrival slot is spent on every job and on nothing else: a request turned
\* away for capacity is not charged to the limiter (index.ts:195-199).
SlotsAreJobs == Len(admitted) = Len(record)
=============================================================================
