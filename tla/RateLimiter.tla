---------------------------- MODULE RateLimiter ----------------------------
(***************************************************************************)
(* The sliding-window limiter of src/utils/rateLimiter.ts.  Every call     *)
(* first drops the hits that left the window, then reads or appends.       *)
(* Date.now() is modelled as a clock that does not run backwards.          *)
(***************************************************************************)
EXTENDS Integers, Sequences, FiniteSets

CONSTANTS
    Limit,          \* hits allowed in a window
    WindowMs,       \* length of the window
    MaxTime         \* bound: the clock stops here

ASSUME LimiterAssumption ==
    /\ Limit \in Nat
    /\ WindowMs \in Nat \ {0}
    /\ MaxTime \in Nat

VARIABLES
    now,            \* the clock
    hits,           \* times of the hits still counted, oldest first
    admitted        \* history: the time of every hit ever allowed

limiterVars == <<now, hits, admitted>>

LimiterInit ==
    /\ now = 0
    /\ hits = <<>>
    /\ admitted = <<>>

\* The first k hits of h, and no more, have left the window that ends at time t.
Expired_strictly(h, t, k) ==
    /\ k \in 0..Len(h)
    /\ \A i \in 1..k : h[i] < t - WindowMs
    /\ k = Len(h) \/ h[k + 1] >= t - WindowMs
Expired(h, t, k) ==
    /\ k \in 0..Len(h)
    /\ \A i \in 1..k : h[i] <= t - WindowMs
    /\ k = Len(h) \/ h[k + 1] > t - WindowMs

\* prune(): what is left of h at time t.
Prune(h, t) == SubSeq(h, (CHOOSE k \in 0..Len(h) : Expired(h, t, k)) + 1, Len(h))

\* tryAcquire(), as a predicate on whether the hit is allowed.
HasRoom_off_by_one(h) == Len(h) <= Limit
HasRoom(h) == Len(h) < Limit

Admit ==
    /\ HasRoom(Prune(hits, now))
    /\ hits' = Append(Prune(hits, now), now)
    /\ admitted' = Append(admitted, now)
    /\ UNCHANGED now

Refuse ==
    /\ ~HasRoom(Prune(hits, now))
    /\ hits' = Prune(hits, now)
    /\ UNCHANGED <<now, admitted>>

\* used() and retryAfterMs() prune as well.
Query ==
    /\ hits' = Prune(hits, now)
    /\ UNCHANGED <<now, admitted>>

\* retryAfterMs() over the pruned hits.
NotNegative(n) == IF n < 0 THEN 0 ELSE n

RetryAfterMs_from_last(h, t) ==
    IF Limit = 0 THEN WindowMs
    ELSE IF Len(h) < Limit THEN 0
    ELSE NotNegative(h[Len(h)] + WindowMs - t)
RetryAfterMs(h, t) ==
    IF Limit = 0 THEN WindowMs
    ELSE IF Len(h) < Limit THEN 0
    ELSE NotNegative(h[1] + WindowMs - t)

Tick ==
    /\ now < MaxTime
    /\ now' = now + 1
    /\ UNCHANGED <<hits, admitted>>

LimiterNext == Admit \/ Refuse \/ Query \/ Tick

LimiterSpec == LimiterInit /\ [][LimiterNext]_limiterVars

-----------------------------------------------------------------------------
(***************************************************************************)
(* Properties                                                              *)
(***************************************************************************)

LimiterTypeOK ==
    /\ now \in 0..MaxTime
    /\ hits \in Seq(0..MaxTime)
    /\ admitted \in Seq(0..MaxTime)

\* No window of WindowMs, wherever it starts, sees more than Limit admissions:
\* any Limit + 1 of them in a row span a whole window (rateLimiter.ts:17-28).
WindowBound ==
    \A i \in DOMAIN admitted :
        i + Limit \in DOMAIN admitted => admitted[i + Limit] - admitted[i] >= WindowMs

\* The limiter forgets nothing early and nothing late: after a prune it counts
\* exactly the admissions of the last WindowMs.
UsedIsExact ==
    Len(Prune(hits, now)) = Cardinality({i \in DOMAIN admitted : admitted[i] > now - WindowMs})

\* The Retry-After it reports is exact: if nobody else is admitted, a request is
\* refused until that many milliseconds have passed and allowed from then on.
RetryAfterIsExact ==
    Limit > 0 =>
        \A wait \in 0..(2 * WindowMs) :
            HasRoom(Prune(hits, now + wait)) <=> wait >= RetryAfterMs(Prune(hits, now), now)
=============================================================================
