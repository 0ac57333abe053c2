------------------------------ MODULE RoundTrip ------------------------------
(***************************************************************************)
(* The clocks of a job (src/handlers/signBidirectional.ts): its timestamps *)
(* and the four timers of its round trip, the signature wait, the          *)
(* confirmation wait, the respond watcher, which is registered before the  *)
(* broadcast with the sum of the three budgets, and the respond deadline,  *)
(* which is set at confirmation and aborts that watcher.  What a job does  *)
(* with the worker pool is SignBidirectional's business.                   *)
(*                                                                         *)
(* Timers are exact: Tick waits for whatever is due.  The calls between    *)
(* the waits (Solana's send, the verification, the broadcast) take their   *)
(* time, and so does the wait for a lease.                                 *)
(***************************************************************************)
EXTENDS Stats

CONSTANTS
    Jobs,
    SignatureTimeout, EthConfirmTimeout, RespondTimeout,
    CallTime,           \* bound: how long the calls between two waits take
    MaxTime             \* bound: the clock stops here

ASSUME BudgetAssumption ==
    {SignatureTimeout, EthConfirmTimeout, RespondTimeout, CallTime, MaxTime} \subseteq Nat

VARIABLES
    now,
    state, failureReason, timings,      \* the jobs' records
    watcher,        \* each job's respond watcher: "off", "listening",
                    \* "delivered" or "rejected"
    aborted         \* jobs whose `watches` shutdown has aborted

Lifecycle == INSTANCE JobLifecycle WITH reason <- failureReason

ASSUME NoneAssumption == None \notin Nat \cup Lifecycle!Reasons

vars == <<now, state, failureReason, timings, watcher, aborted>>

Stamps == {"acceptedAt", "leaseAcquiredAt", "signSentAt", "signatureAt", "broadcastAt",
           "confirmedAt", "respondedAt", "finishedAt"}

Span == SignatureTimeout + EthConfirmTimeout + RespondTimeout

Init ==
    /\ now = 0
    /\ state = [j \in Jobs |-> "none"]
    /\ failureReason = [j \in Jobs |-> None]
    /\ timings = [j \in Jobs |-> [s \in Stamps |-> None]]
    /\ watcher = [j \in Jobs |-> "off"]
    /\ aborted = {}

Over == {"none", "responded", "failed"}
Live == {j \in Jobs : state[j] \notin Over}

\* jobs.update(): the next state, and the present time under some stamps.
Update(j, next, stamps) ==
    /\ state' = [state EXCEPT ![j] = next]
    /\ timings' = [timings EXCEPT ![j] = [s \in Stamps |-> IF s \in stamps THEN now ELSE @[s]]]

\* The end of the run tears the watcher down.
TearDown_unless_failed(j) ==
    watcher' = [watcher EXCEPT ![j] = IF state'[j] = "responded" THEN "off" ELSE @]
TearDown(j) == watcher' = [watcher EXCEPT ![j] = "off"]

FailWith(j, reason, stamps) ==
    /\ Update(j, "failed", stamps \cup {"finishedAt"})
    /\ failureReason' = [failureReason EXCEPT ![j] = reason]
    /\ TearDown(j)
    /\ UNCHANGED <<now, aborted>>
Fail(j, reason) == FailWith(j, reason, {})

Advance(j, next, stamps) ==
    /\ Update(j, next, stamps)
    /\ UNCHANGED <<now, failureReason, watcher, aborted>>

(***************************************************************************)
(* Up to the request.                                                      *)
(***************************************************************************)
Accept(j) == state[j] = "none" /\ Advance(j, "pending", {"acceptedAt"})

Leased(j) ==
    /\ state[j] = "pending" /\ timings[j].leaseAcquiredAt = None
    /\ j \notin aborted
    /\ Advance(j, "pending", {"leaseAcquiredAt"})

FailsEarly_misspelt(j) ==
    /\ state[j] = "pending" /\ timings[j].leaseAcquiredAt = None
    /\ Fail(j, "lease_timeout")
FailsEarly(j) ==
    /\ state[j] = "pending"
    /\ \/ \E reason \in {"all_workers_busy", "all_workers_underfunded"} :
            timings[j].leaseAcquiredAt = None /\ Fail(j, reason)
       \/ timings[j].leaseAcquiredAt # None /\ Fail(j, "preflight_underfunded")
       \/ j \in aborted /\ Fail(j, "shutdown")
       \/ Fail(j, "internal_error")

\* sendAndConfirm returned, and both watchers are registered; on an aborted signal
\* they reject at once.
SignSent(j) ==
    /\ state[j] = "pending" /\ timings[j].leaseAcquiredAt # None
    /\ Update(j, "awaiting_signature", {"signSentAt"})
    /\ watcher' = [watcher EXCEPT ![j] = IF j \in aborted THEN "rejected" ELSE "listening"]
    /\ UNCHANGED <<now, failureReason, aborted>>

(***************************************************************************)
(* Signature, broadcast, confirmation.                                     *)
(***************************************************************************)
AwaitsSignature(j) == state[j] = "awaiting_signature" /\ timings[j].signatureAt = None

SignatureDue(j) ==
    /\ AwaitsSignature(j)
    /\ now >= timings[j].signSentAt + SignatureTimeout \/ j \in aborted

Signed(j) ==
    /\ AwaitsSignature(j) /\ j \notin aborted
    /\ Advance(j, "awaiting_signature", {"signatureAt"})

SignatureTimesOut_stamped(j) ==
    SignatureDue(j) /\ FailWith(j, "signature_timeout", {"signatureAt"})
SignatureTimesOut(j) == SignatureDue(j) /\ Fail(j, "signature_timeout")

Verified(j) ==
    /\ state[j] = "awaiting_signature" /\ timings[j].signatureAt # None
    /\ \/ Advance(j, "verified", {})
       \/ \E reason \in {"derivation_mismatch", "internal_error"} : Fail(j, reason)

Broadcast(j) ==
    /\ state[j] = "verified"
    /\ Advance(j, "broadcast", {"broadcastAt"}) \/ Fail(j, "broadcast_failed")

ReceiptDue(j) == state[j] = "broadcast" /\ now >= timings[j].broadcastAt + EthConfirmTimeout

Confirmed(j) ==
    /\ state[j] = "broadcast"
    /\ Advance(j, "confirmed", {"confirmedAt"}) \/ Fail(j, "transaction_reverted")

\* The wait for the receipt throws when its time is up, or earlier on an error of the
\* node; the catch block makes no difference between them.
ReceiptTimesOut(j) == state[j] = "broadcast" /\ Fail(j, "confirmation_timeout")

(***************************************************************************)
(* The respond leg.                                                        *)
(***************************************************************************)

\* External: the MPC network watches Ethereum on its own, and can respond before
\* this service has seen its confirmations, or the answer to its broadcast.
Deliver(j) ==
    /\ watcher[j] = "listening"
    /\ state[j] \in {"verified", "broadcast", "confirmed"}
    /\ watcher' = [watcher EXCEPT ![j] = "delivered"]
    /\ UNCHANGED <<now, state, failureReason, timings, aborted>>

WatcherDue_respond_budget(j) ==
    /\ watcher[j] = "listening"
    /\ now >= timings[j].signSentAt + RespondTimeout
WatcherDue(j) == watcher[j] = "listening" /\ now >= timings[j].signSentAt + Span

DeadlineDue(j) ==
    /\ watcher[j] = "listening" /\ state[j] = "confirmed"
    /\ now >= timings[j].confirmedAt + RespondTimeout

\* Either timer rejects the watcher.  Nothing else does but an abort: "silence is the
\* only failure signal the network gives" (signBidirectional.ts:397-402).
WatcherRejects(j) ==
    /\ WatcherDue(j) \/ DeadlineDue(j)
    /\ watcher' = [watcher EXCEPT ![j] = "rejected"]
    /\ UNCHANGED <<now, state, failureReason, timings, aborted>>

Settled(j) == state[j] = "confirmed" /\ watcher[j] \in {"delivered", "rejected"}

Responded_by_the_clock(j) ==
    /\ Settled(j)
    /\ watcher[j] = "rejected" \/ now >= timings[j].confirmedAt + RespondTimeout
    /\ Fail(j, "respond_timeout")
Responded(j) ==
    /\ Settled(j)
    /\ \/ watcher[j] = "rejected" /\ Fail(j, "respond_timeout")
       \/ watcher[j] = "delivered" /\ FailWith(j, "respond_mismatch", {"respondedAt"})
       \/ /\ watcher[j] = "delivered"
          /\ Update(j, "responded", {"respondedAt", "finishedAt"})
          /\ TearDown(j)
          /\ UNCHANGED <<now, failureReason, aborted>>

(***************************************************************************)
(* Shutdown, and time.                                                     *)
(***************************************************************************)
Shutdown ==
    /\ Live \ aborted # {}
    /\ aborted' = aborted \cup Live
    /\ watcher' = [j \in Jobs |-> IF watcher[j] = "listening" THEN "rejected" ELSE watcher[j]]
    /\ UNCHANGED <<now, state, failureReason, timings>>

Due(j) == SignatureDue(j) \/ ReceiptDue(j) \/ WatcherDue(j) \/ DeadlineDue(j) \/ Settled(j)

\* The last timestamp of a job that waits for none of its timers: it is in a call.
CallSince(j) ==
    CASE state[j] = "pending" ->
            IF timings[j].leaseAcquiredAt = None THEN timings[j].acceptedAt
            ELSE timings[j].leaseAcquiredAt
      [] state[j] \in {"awaiting_signature", "verified"} /\ ~AwaitsSignature(j) ->
            timings[j].signatureAt
      [] OTHER -> now

Tick ==
    /\ now < MaxTime
    /\ \A j \in Jobs : ~Due(j) /\ now - CallSince(j) < CallTime
    /\ now' = now + 1
    /\ UNCHANGED <<state, failureReason, timings, watcher, aborted>>

JobStep(j) ==
    \/ Accept(j) \/ Leased(j) \/ FailsEarly(j) \/ SignSent(j)
    \/ Signed(j) \/ SignatureTimesOut(j) \/ Verified(j) \/ Broadcast(j)
    \/ Confirmed(j) \/ ReceiptTimesOut(j) \/ Deliver(j) \/ WatcherRejects(j) \/ Responded(j)

Next == (\E j \in Jobs : JobStep(j)) \/ Shutdown \/ Tick

Spec == Init /\ [][Next]_vars

-----------------------------------------------------------------------------
(***************************************************************************)
(* Properties                                                              *)
(***************************************************************************)
\* Every variable of the round trip has its type.
TypeOK ==
    /\ now \in Nat
    /\ state \in [Jobs -> Lifecycle!States]
    /\ failureReason \in [Jobs -> Lifecycle!Reasons \cup {None}]
    /\ timings \in [Jobs -> [Stamps -> Nat \cup {None}]]
    /\ watcher \in [Jobs -> {"off", "listening", "delivered", "rejected"}]
    /\ aborted \subseteq Jobs

\* The respond leg gets RespondTimeout from confirmation on, as
\* signBidirectional.ts:363-369 and :475 want it, whatever the signature and the
\* confirmation took, less what the verification and the broadcast took, which the
\* watcher's own budget does not count.  Shutdown ends it at once.
RespondBudget ==
    \A j \in Jobs : LET t == timings[j] IN
        failureReason[j] = "respond_timeout" /\ j \notin aborted =>
            (t.finishedAt - t.confirmedAt) + (t.broadcastAt - t.signatureAt) >= RespondTimeout

\* A respond event is not lost, however early it comes (signBidirectional.ts:348-349):
\* no timer and no shutdown turns a job it was delivered to into a timeout of that leg.
DeliveredIsKept ==
    [][\A j \in Jobs :
        watcher[j] = "delivered" => failureReason'[j] # "respond_timeout"]_vars

\* No latency that is reported exceeds the budget of its stage, so none of them
\* needs to be read together with the failures.
SpansWithinBudgets ==
    LET Within(from, to, budget) ==
            \A j \in DOMAIN Collect(Jobs, timings, from, to) :
                Collect(Jobs, timings, from, to)[j] <= budget
    IN  /\ Within("signSentAt", "signatureAt", SignatureTimeout)
        /\ Within("broadcastAt", "confirmedAt", EthConfirmTimeout)
        /\ Within("confirmedAt", "respondedAt", RespondTimeout)

\* A subscription does not outlive its job (signBidirectional.ts:211-215).
WatchersEndWithTheirJob == \A j \in Jobs : watcher[j] = "listening" => j \in Live

\* "a failed job never reaches their closing timestamp" (stats.ts:60-61), of the
\* stage it failed in: a stage that times out adds nothing to that stage's figures.
StagesFilterFailures ==
    \A j \in Jobs :
        /\ failureReason[j] = "signature_timeout" => timings[j].signatureAt = None
        /\ failureReason[j] \in {"confirmation_timeout", "transaction_reverted"} =>
                timings[j].confirmedAt = None
        /\ failureReason[j] = "respond_timeout" => timings[j].respondedAt = None

\* v is the p-th percentile of the values: at most p in a hundred of them are
\* below it, and more than p in a hundred are not above it.
IsPercentile(v, p, values) ==
    LET n == Cardinality(DOMAIN values) IN
    /\ 100 * Cardinality({j \in DOMAIN values : values[j] < v}) <= p * n
    /\ 100 * Cardinality({j \in DOMAIN values : values[j] <= v}) > p * n

\* What /stats reports of the jobs of a mode: none is counted twice, the total is
\* of the successes, and the percentiles are percentiles.
StatsAreExact ==
    LET jobs == {j \in Jobs : state[j] # "none"}
        stats == ModeStats(jobs, state, timings)
        total == Collect(Succeeded(jobs, state), timings, "acceptedAt", "finishedAt")
        summary == stats.latencies.totalMs
    IN  /\ stats.total = stats.succeeded + stats.failed + Cardinality(Live)
        /\ summary.count = stats.succeeded
        /\ summary.count > 0 =>
            /\ IsPercentile(summary.min, 0, total)
            /\ IsPercentile(summary.p05, 5, total)
            /\ IsPercentile(summary.p50, 50, total)
            /\ IsPercentile(summary.p95, 95, total)
            /\ \A j \in DOMAIN total : total[j] <= summary.max

\* Refinement: with its timers, too, a job goes through the states of
\* store.ts:5-13 in order and fails for a reason of the state it failed in.
LifecycleSpec == Lifecycle!Spec
=============================================================================
