-------------------------------- MODULE Stats --------------------------------
(***************************************************************************)
(* src/jobs/stats.ts: what GET /sign_bidirectional/stats computes from the *)
(* job records.  The records come as functions on the jobs.                *)
(***************************************************************************)
EXTENDS Naturals, Sequences, FiniteSets, Functions

CONSTANT None           \* `undefined` and `null`

\* At the index floor(p/100 * length), counted from 0 and never past the end.
Percentile_of_gaps(sorted, p) == sorted[(p * (Len(sorted) - 1)) \div 100 + 1]
Percentile(sorted, p) ==
    LET index == (p * Len(sorted)) \div 100
    IN  sorted[IF index < Len(sorted) THEN index + 1 ELSE Len(sorted)]

\* The keys of a function, numbered in an ascending order of its values.
Orders(values) ==
    {order \in Bijection(1..Cardinality(DOMAIN values), DOMAIN values) :
        \A i, k \in DOMAIN order : i <= k => values[order[i]] <= values[order[k]]}

\* The values of a function, in ascending order.
Sorted(values) ==
    LET order == CHOOSE f \in Orders(values) : TRUE
    IN  [i \in DOMAIN order |-> values[order[i]]]

Summarize(values) ==
    LET sorted == Sorted(values)
        n == Len(sorted)
        P(p) == IF n = 0 THEN None ELSE Percentile(sorted, p)
    IN  [count |-> n,
         min |-> IF n = 0 THEN None ELSE sorted[1],
         p05 |-> P(5), p50 |-> P(50), p95 |-> P(95),
         max |-> IF n = 0 THEN None ELSE sorted[n]]

\* The span between two timestamps of those jobs that have both.
Collect(jobs, timings, from, to) ==
    [j \in {k \in jobs : None \notin {timings[k][from], timings[k][to]}} |->
        timings[j][to] - timings[j][from]]

Succeeded(jobs, state) == {j \in jobs : state[j] = "responded"}

\* The total is of successes only.
Latencies(jobs, state, timings) ==
    [leaseWaitMs |-> Summarize(Collect(jobs, timings, "acceptedAt", "leaseAcquiredAt")),
     signatureMs |-> Summarize(Collect(jobs, timings, "signSentAt", "signatureAt")),
     confirmationMs |-> Summarize(Collect(jobs, timings, "broadcastAt", "confirmedAt")),
     respondMs |-> Summarize(Collect(jobs, timings, "confirmedAt", "respondedAt")),
     totalMs |-> Summarize(Collect(Succeeded(jobs, state), timings, "acceptedAt", "finishedAt"))]

\* One entry of byMode.
ModeStats(jobs, state, timings) ==
    [total |-> Cardinality(jobs),
     succeeded |-> Cardinality(Succeeded(jobs, state)),
     failed |-> Cardinality({j \in jobs : state[j] = "failed"}),
     latencies |-> Latencies(jobs, state, timings)]
=============================================================================
