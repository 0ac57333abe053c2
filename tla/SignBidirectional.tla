------------------------- MODULE SignBidirectional -------------------------
(***************************************************************************)
(* The job of src/handlers/signBidirectional.ts: every accepted request    *)
(* runs in the background from `run`, through the worker pool, the MPC     *)
(* network on Solana and the Ethereum node, until it has responded or      *)
(* failed.  GET /sign_bidirectional/workers (index.ts) runs beside the     *)
(* jobs and refreshes the same pool: those requests are the Viewers.       *)
(*                                                                         *)
(* An actor runs undisturbed between two awaits, so one step is what `run` *)
(* does from one await to the next, and pc names the await it is parked    *)
(* at.  The node looks at its state when it answers (Answer); the actor    *)
(* acts on the answer in a later step, when the state may have moved on.   *)
(***************************************************************************)
EXTENDS WorkerPool

CONSTANTS
    Viewers,            \* GET /sign_bidirectional/workers requests
    LateDelivery        \* whether a transaction can reach the node's mempool
                        \* after the call that sent it has thrown

Jobs == Clients
Actors == Jobs \cup Viewers

ASSUME SignAssumption ==
    /\ Jobs \cap Viewers = {}
    /\ LateDelivery \in BOOLEAN

VARIABLES
    pc,             \* where each actor waits
    failureReason,  \* why each failed job failed
    aborted,        \* jobs whose `watches` shutdown has aborted
    addressesReady, \* the memoized derivation: "unset", "deriving", "ready"
    todo,           \* workers the actor's loop has yet to look at
    answer,         \* what the node answered the actor's call
    latestCount,    \* the count under `latest` of reconcileQuarantined's two calls
    built,          \* the sender and the nonce of each job's transaction
    fate,           \* external: what became of that transaction
    latest,         \* external: transactions mined from each worker's address
    funds,          \* external: the balance of each worker's address
    exposed         \* history: addresses returned to service on an answer that
                    \* counted nothing outstanding, while a transaction of
                    \* theirs could still be mined

chainVars == <<fate, latest, funds>>
readVars == <<answer, latestCount>>
signVars == <<pc, failureReason, aborted, addressesReady, todo, readVars, built,
              chainVars, exposed>>
vars == <<poolVars, signVars>>

Holding == {"preflight", "build", "send", "signature", "broadcast", "receipt"}
Phases == {"idle", "derive", "reconcile", "refresh", "lease", "respond", "done"} \cup Holding

FailureReasons ==
    {"all_workers_busy", "all_workers_underfunded", "preflight_underfunded",
     "signature_timeout", "derivation_mismatch", "broadcast_failed",
     "confirmation_timeout", "transaction_reverted", "respond_timeout",
     "respond_mismatch", "shutdown", "internal_error"}

ASSUME ReasonAssumption == None \notin FailureReasons

Nothing == [from |-> None, nonce |-> 0]

Init ==
    /\ PoolInit
    /\ pc = [a \in Actors |-> "idle"]
    /\ failureReason = [j \in Jobs |-> None]
    /\ aborted = {}
    /\ addressesReady = "unset"
    /\ todo = [a \in Actors |-> {}]
    /\ answer = [a \in Actors |-> None]
    /\ latestCount = [a \in Actors |-> None]
    /\ built = [j \in Jobs |-> Nothing]
    /\ fate = [j \in Jobs |-> "none"]
    /\ latest = [w \in Workers |-> 0]
    /\ funds \in [Workers -> Balances]
    /\ exposed = {}

Live == {j \in Jobs : pc[j] \notin {"idle", "done"}}

(***************************************************************************)
(* Moving on.  A parked job that a release just handed an address to wakes *)
(* up in the same turn of the event loop and asks for its balance.         *)
(***************************************************************************)
Goto(a, phase) ==
    pc' = [b \in Actors |->
            IF b = a THEN phase
            ELSE IF pc[b] = "lease" /\ lease'[b] # None THEN "preflight"
            ELSE pc[b]]

\* jobs.fail(), and the end of the run.
Fail(j, reason) ==
    /\ failureReason' = [failureReason EXCEPT ![j] = reason]
    /\ Goto(j, "done")

\* On to the next await, with the pool as it is.
Proceed(a, phase) ==
    /\ UNCHANGED <<poolVars, failureReason>>
    /\ Goto(a, phase)

\* jobs.fail(), and the lease given back by the run's finally.
FailAndRelease(j, reason) == Release(j) /\ Fail(j, reason)

FailAndQuarantine(j, reason) == QuarantineAndRelease(j) /\ Fail(j, reason)

\* Steps that only move an actor's loop over the workers forward ...
LoopOnly == UNCHANGED <<failureReason, aborted, addressesReady, built, chainVars, exposed>>

\* ... that only concern the job's lease ...
LeaseOnly == UNCHANGED <<aborted, addressesReady, todo, readVars, built, chainVars, exposed>>

\* ... its lease and its balance or transaction, or nothing but the node.
BuildOnly == UNCHANGED <<aborted, addressesReady, todo, latestCount, chainVars, exposed>>

NodeOnly == UNCHANGED <<poolVars, pc, failureReason, aborted, addressesReady, todo, readVars,
                        built, exposed>>

(***************************************************************************)
(* Acceptance and the shared derivation of the addresses.                  *)
(***************************************************************************)
Arrive(a) ==
    /\ pc[a] = "idle"
    /\ Proceed(a, "derive")
    /\ addressesReady' = IF addressesReady = "unset" THEN "deriving" ELSE addressesReady
    /\ UNCHANGED <<aborted, todo, readVars, built, chainVars, exposed>>

DeriveSucceeds ==
    /\ addressesReady = "deriving"
    /\ addressesReady' = "ready"
    /\ UNCHANGED <<poolVars, pc, failureReason, aborted, todo, readVars, built, chainVars, exposed>>

\* The failed promise is forgotten, and everyone who awaited it fails with it.
DeriveFails ==
    /\ addressesReady = "deriving"
    /\ addressesReady' = "unset"
    /\ pc' = [a \in Actors |-> IF pc[a] = "derive" THEN "done" ELSE pc[a]]
    /\ failureReason' =
        [j \in Jobs |-> IF pc[j] = "derive" THEN "internal_error" ELSE failureReason[j]]
    /\ UNCHANGED <<poolVars, aborted, todo, readVars, built, chainVars, exposed>>

\* A job goes on to reconcileQuarantined, over a snapshot of quarantined(); a
\* viewer to refreshBalances, over every worker.
Derived(a) ==
    /\ pc[a] = "derive"
    /\ addressesReady = "ready"
    /\ Proceed(a, IF a \in Jobs THEN "reconcile" ELSE "refresh")
    /\ todo' = [todo EXCEPT ![a] = IF a \in Jobs THEN quarantined ELSE Workers]
    /\ UNCHANGED readVars
    /\ LoopOnly

(***************************************************************************)
(* Reads of the node.                                                      *)
(***************************************************************************)
From(w, fates) == {j \in Jobs : built[j].from = w /\ fate[j] \in fates}

\* The worker an actor's current call is about.
About(a, w) ==
    IF pc[a] = "preflight" THEN lease[a] = w
    ELSE pc[a] \in {"reconcile", "refresh"} /\ IsFirst(w, todo[a])

\* External.  reconcileQuarantined asks for two counts at once, `pending` and
\* `latest`, which may be answered apart; every other answer is a balance.
Answer(a) ==
    /\ answer[a] = None
    /\ \E w \in Workers :
        /\ About(a, w)
        /\ answer' = [answer EXCEPT ![a] =
            IF pc[a] # "reconcile" THEN funds[w]
            ELSE IF From(w, {"pending"}) # {} THEN latest[w] + 1 ELSE latest[w]]
    /\ UNCHANGED <<poolVars, pc, todo, latestCount>>
    /\ LoopOnly

AnswerLatest(a) ==
    /\ pc[a] = "reconcile"
    /\ latestCount[a] = None
    /\ \E w \in Workers :
        /\ IsFirst(w, todo[a])
        /\ latestCount' = [latestCount EXCEPT ![a] = latest[w]]
    /\ UNCHANGED <<poolVars, pc, todo, answer>>
    /\ LoopOnly

Answered(a) == answer[a] # None /\ (pc[a] = "reconcile" => latestCount[a] # None)

\* reconcileQuarantined() applies the counts it read to one worker.
ApplyCounts(a) ==
    /\ pc[a] = "reconcile"
    /\ Answered(a)
    /\ \E w \in Workers :
        /\ IsFirst(w, todo[a])
        /\ Reconcile(w, answer[a] > latestCount[a])
        /\ todo' = [todo EXCEPT ![a] = @ \ {w}]
        /\ exposed' = IF /\ w \in quarantined /\ answer[a] <= latestCount[a]
                         /\ From(w, {"sent", "pending"}) # {}
                      THEN exposed \cup {w}
                      ELSE exposed
    /\ answer' = [answer EXCEPT ![a] = None]
    /\ latestCount' = [latestCount EXCEPT ![a] = None]
    /\ UNCHANGED <<pc, failureReason, aborted, addressesReady, built, chainVars>>

\* The next worker refreshUnderfunded() looks at: the first flagged one past w.
NextShort(w) == {v \in Workers : IsFirst(v, {x \in underfunded' : x > w})}

ReconcileDone(a) ==
    /\ pc[a] = "reconcile"
    /\ todo[a] = {}
    /\ Proceed(a, IF a \in Jobs THEN "refresh" ELSE "done")
    /\ todo' = [todo EXCEPT ![a] = IF a \in Jobs THEN NextShort(0) ELSE {}]
    /\ UNCHANGED readVars
    /\ LoopOnly

\* refreshUnderfunded() and refreshBalances() store a balance and move on.
ApplyBalance(a) ==
    /\ pc[a] = "refresh"
    /\ answer[a] # None
    /\ \E w \in Workers :
        /\ IsFirst(w, todo[a])
        /\ SetBalance(w, answer[a])
        /\ todo' = [todo EXCEPT ![a] =
            IF a \in Jobs THEN NextShort(w) ELSE @ \ {w}]
    /\ answer' = [answer EXCEPT ![a] = None]
    /\ UNCHANGED <<pc, latestCount>>
    /\ LoopOnly

\* refreshBalances() ends with reconcileQuarantined().
BalancesDone(v) ==
    /\ v \in Viewers
    /\ pc[v] = "refresh"
    /\ todo[v] = {}
    /\ Proceed(v, "reconcile")
    /\ todo' = [todo EXCEPT ![v] = quarantined]
    /\ UNCHANGED readVars
    /\ LoopOnly

(***************************************************************************)
(* The lease.                                                              *)
(***************************************************************************)
TakeLease_unchecked(j) ==
    /\ pc[j] = "refresh" /\ todo[j] = {}
    /\ \/ Acquire(j) /\ Goto(j, "preflight") /\ UNCHANGED failureReason
       \/ Enqueue(j) /\ Goto(j, "lease") /\ UNCHANGED failureReason
       \/ Refuse(j) /\ Fail(j, "all_workers_underfunded")
    /\ LeaseOnly
TakeLease(j) ==
    /\ pc[j] = "refresh" /\ todo[j] = {}
    /\ \/ j \in aborted /\ UNCHANGED poolVars /\ Fail(j, "shutdown")
       \/ j \notin aborted /\ Acquire(j) /\ Goto(j, "preflight") /\ UNCHANGED failureReason
       \/ j \notin aborted /\ Enqueue(j) /\ Goto(j, "lease") /\ UNCHANGED failureReason
       \/ j \notin aborted /\ Refuse(j) /\ Fail(j, "all_workers_underfunded")
    /\ LeaseOnly

LeaseTimeout_never(j) == FALSE /\ pc[j] = "lease" /\ UNCHANGED vars
LeaseTimeout(j) ==
    /\ pc[j] = "lease"
    /\ WaitTimeout(j)
    /\ Fail(j, "all_workers_busy")
    /\ LeaseOnly

(***************************************************************************)
(* Preflight and build.  An address found short is flagged in the block    *)
(* that gives it up, so the hand-off passes it over.                       *)
(***************************************************************************)
Underfunded(j, min) ==
    /\ SetBalanceAndRelease(j, answer[j], min)
    /\ Fail(j, "preflight_underfunded")

ShuttingDown(j) == j \in aborted /\ FailAndRelease(j, "shutdown")

Preflight(j) ==
    /\ pc[j] = "preflight"
    /\ answer[j] # None
    /\ \/ /\ \/ answer[j] < MinBalance /\ Underfunded(j, MinBalance)
             \/ answer[j] >= MinBalance /\ ShuttingDown(j)
          /\ answer' = [answer EXCEPT ![j] = None]
       \/ answer[j] >= MinBalance /\ j \notin aborted /\ Proceed(j, "build") /\ UNCHANGED answer
    /\ UNCHANGED built
    /\ BuildOnly

\* buildTransaction's result: the leased address's nonce under `latest`.
BuildTransaction(j) == [from |-> lease[j], nonce |-> latest[lease[j]]]

\* The node refuses the estimate when the sender cannot pay; otherwise the balance
\* is measured against the gas that the transaction needs.
Build_off_by_one(j) ==
    /\ pc[j] = "build"
    /\ built' = [built EXCEPT ![j] = [from |-> lease[j], nonce |-> latest[lease[j]] - 1]]
    /\ Proceed(j, "send")
    /\ answer' = [answer EXCEPT ![j] = None]
    /\ BuildOnly
Build(j) ==
    /\ pc[j] = "build"
    /\ \E gas \in GasCosts :
        \/ funds[lease[j]] < gas /\ Underfunded(j, answer[j] + 1) /\ UNCHANGED built
        \/ answer[j] < gas /\ Underfunded(j, gas) /\ UNCHANGED built
        \/ answer[j] >= gas /\ ShuttingDown(j) /\ UNCHANGED built
        \/ /\ answer[j] >= gas /\ j \notin aborted
           /\ built' = [built EXCEPT ![j] = BuildTransaction(j)]
           /\ Proceed(j, "send")
    /\ answer' = [answer EXCEPT ![j] = None]
    /\ BuildOnly

\* A call to the node or to Solana throws: the run's finally releases the lease
\* and start() records an error nobody anticipated.
CallThrows(a) ==
    /\ pc[a] = "build" \/ ~Answered(a)
    /\ \/ pc[a] \in {"reconcile", "refresh"} /\ todo[a] # {} /\ UNCHANGED poolVars
       \/ pc[a] \in {"preflight", "build", "send"} /\ Release(a)
    /\ IF a \in Jobs
       THEN Fail(a, "internal_error")
       ELSE Goto(a, "done") /\ UNCHANGED failureReason
    /\ todo' = [todo EXCEPT ![a] = {}]
    /\ answer' = [answer EXCEPT ![a] = None]
    /\ latestCount' = [latestCount EXCEPT ![a] = None]
    /\ UNCHANGED <<aborted, addressesReady, built, chainVars, exposed>>

(***************************************************************************)
(* Signature, broadcast, confirmation, respond.                            *)
(***************************************************************************)

\* sendAndConfirm returned; both event watchers are registered, the signature's
\* is awaited.
SignSent(j) == pc[j] = "send" /\ Proceed(j, "signature") /\ LeaseOnly

\* The signature verifies, and in the same turn the transaction is on its way
\* to the node.  An aborted watch rejects instead of delivering the event.
Signed(j) ==
    /\ pc[j] = "signature" /\ j \notin aborted
    /\ fate' = [fate EXCEPT ![j] = "sent"]
    /\ Proceed(j, "broadcast")
    /\ UNCHANGED <<aborted, addressesReady, todo, readVars, built, latest, funds, exposed>>

NotSigned(j) ==
    /\ pc[j] = "signature"
    /\ \/ FailAndRelease(j, "signature_timeout")
       \/ /\ j \notin aborted
          /\ \E reason \in {"derivation_mismatch", "internal_error"} : FailAndRelease(j, reason)
    /\ LeaseOnly

\* The node took the transaction; it may be mined or replaced already.
BroadcastAnswered(j) ==
    /\ pc[j] = "broadcast" /\ fate[j] # "sent"
    /\ Proceed(j, "receipt")
    /\ LeaseOnly

\* A throw does not prove that the node refused the transaction.
BroadcastThrows_reuses_nonce(j) ==
    pc[j] = "broadcast" /\ FailAndRelease(j, "broadcast_failed") /\ LeaseOnly
BroadcastThrows_no_return(j) ==
    /\ pc[j] = "broadcast"
    /\ failureReason' = [failureReason EXCEPT ![j] = "broadcast_failed"]
    /\ UNCHANGED poolVars
    /\ Goto(j, "receipt")
    /\ LeaseOnly
BroadcastThrows(j) ==
    pc[j] = "broadcast" /\ FailAndQuarantine(j, "broadcast_failed") /\ LeaseOnly

\* External.  waitForTransactionReceipt settles on the receipt of the transaction,
\* or of the one that took its place under the same nonce.
HasReceipt(j, status) ==
    \E k \in Jobs :
        /\ built[k] = built[j] /\ fate[k] = status
        /\ k = j \/ fate[j] = "gone"

Confirmed_skips_handoff(j) ==
    /\ pc[j] = "receipt" /\ HasReceipt(j, "mined")
    /\ busy' = busy \ {lease[j]}
    /\ lease' = [lease EXCEPT ![j] = None]
    /\ UNCHANGED <<underfunded, quarantined, balanceWei, waiters, failureReason>>
    /\ Goto(j, "respond")
    /\ LeaseOnly
Confirmed(j) ==
    /\ pc[j] = "receipt" /\ HasReceipt(j, "mined")
    /\ Release(j)
    /\ Goto(j, "respond")
    /\ UNCHANGED failureReason
    /\ LeaseOnly

Reverted_without_receipt(j) ==
    /\ pc[j] = "receipt" /\ (HasReceipt(j, "reverted") \/ fate[j] = "pending")
    /\ FailAndRelease(j, "transaction_reverted")
    /\ LeaseOnly
Reverted(j) ==
    /\ pc[j] = "receipt" /\ HasReceipt(j, "reverted")
    /\ FailAndRelease(j, "transaction_reverted")
    /\ LeaseOnly

ReceiptTimeout_no_quarantine(j) ==
    pc[j] = "receipt" /\ FailAndRelease(j, "confirmation_timeout") /\ LeaseOnly
ReceiptTimeout(j) ==
    pc[j] = "receipt" /\ FailAndQuarantine(j, "confirmation_timeout") /\ LeaseOnly

Respond(j) ==
    /\ pc[j] = "respond"
    /\ \/ Proceed(j, "done")
       \/ \E reason \in {"respond_timeout", "respond_mismatch"} :
            UNCHANGED poolVars /\ Fail(j, reason)
    /\ LeaseOnly

(***************************************************************************)
(* SIGTERM: abortActiveJobs() aborts every watch and turns the parked jobs *)
(* away with a plain Error.  A job accepted afterwards is not aborted.     *)
(***************************************************************************)
Shutdown ==
    /\ Live \ aborted # {}
    /\ aborted' = aborted \cup Live
    /\ RejectWaiters
    /\ pc' = [a \in Actors |-> IF pc[a] = "lease" THEN "done" ELSE pc[a]]
    /\ failureReason' =
        [j \in Jobs |-> IF pc[j] = "lease" THEN "internal_error" ELSE failureReason[j]]
    /\ UNCHANGED <<addressesReady, todo, readVars, built, chainVars, exposed>>

(***************************************************************************)
(* External: the Ethereum node and the wallets.                            *)
(***************************************************************************)

\* The node takes a transaction into its mempool, in place of one with the same
\* nonce if it outbids it ...
NodeAccepts(j) ==
    /\ fate[j] = "sent"
    /\ pc[j] = "broadcast" \/ LateDelivery
    /\ built[j].nonce = latest[built[j].from]
    /\ fate' = [k \in Jobs |->
        IF k = j THEN "pending"
        ELSE IF k \in From(built[j].from, {"pending"}) THEN "gone"
        ELSE fate[k]]
    /\ UNCHANGED <<latest, funds>>
    /\ NodeOnly

\* ... and mines it, or drops it; or the request never took effect.
Mine(j) ==
    /\ fate[j] = "pending"
    /\ \E outcome \in {"mined", "reverted"} : fate' = [fate EXCEPT ![j] = outcome]
    /\ latest' = [latest EXCEPT ![built[j].from] = @ + 1]
    /\ UNCHANGED funds
    /\ NodeOnly

Vanish(j) ==
    /\ fate[j] \in {"sent", "pending"}
    /\ fate' = [fate EXCEPT ![j] = "gone"]
    /\ UNCHANGED <<latest, funds>>
    /\ NodeOnly

\* Gas is spent, wallets are topped up.
FundsChange ==
    /\ \E w \in Workers, b \in Balances : funds' = [funds EXCEPT ![w] = b]
    /\ UNCHANGED <<fate, latest>>
    /\ NodeOnly

JobStep(j) ==
    \/ TakeLease(j) \/ LeaseTimeout(j) \/ Preflight(j) \/ Build(j)
    \/ SignSent(j) \/ Signed(j) \/ NotSigned(j) \/ BroadcastAnswered(j) \/ BroadcastThrows(j)
    \/ Confirmed(j) \/ Reverted(j) \/ ReceiptTimeout(j) \/ Respond(j)

ActorStep(a) ==
    \/ Derived(a) \/ ApplyCounts(a) \/ ReconcileDone(a) \/ ApplyBalance(a)
    \/ BalancesDone(a) \/ CallThrows(a)

Environment ==
    \/ DeriveSucceeds \/ DeriveFails \/ Shutdown \/ FundsChange
    \/ \E j \in Jobs : NodeAccepts(j) \/ Mine(j) \/ Vanish(j)

\* Every request has run to its end.
Terminating == (\A a \in Actors : pc[a] = "done") /\ UNCHANGED vars

Next ==
    \/ \E j \in Jobs : JobStep(j)
    \/ \E a \in Actors : Arrive(a) \/ Answer(a) \/ AnswerLatest(a) \/ ActorStep(a)
    \/ Environment
    \/ Terminating

Spec == Init /\ [][Next]_vars

\* Every call is answered or throws, and every wait has a timer: leaseWaitMs, the
\* signature, confirmation and respond timeouts, the RPC transports' own.  No
\* event, block, top-up or diagnostics request is assumed to come.
Turn(j) == JobStep(j) \/ Answer(j) \/ AnswerLatest(j) \/ ActorStep(j)

Fairness ==
    /\ WF_vars(DeriveSucceeds \/ DeriveFails)
    /\ \A j \in Jobs : WF_vars(Turn(j))

FairSpec == Spec /\ Fairness

-----------------------------------------------------------------------------
(***************************************************************************)
(* Properties                                                              *)
(***************************************************************************)

\* Every variable of the service has its type.
TypeOK ==
    /\ PoolTypeOK
    /\ pc \in [Actors -> Phases]
    /\ failureReason \in [Jobs -> FailureReasons \cup {None}]
    /\ aborted \subseteq Jobs
    /\ addressesReady \in {"unset", "deriving", "ready"}
    /\ todo \in [Actors -> SUBSET Workers]
    /\ answer \in [Actors -> Nat \cup {None}]
    /\ latestCount \in [Actors -> Nat \cup {None}]
    /\ built \in [Jobs -> [from : Workers \cup {None}, nonce : Nat]]
    /\ fate \in [Jobs -> {"none", "sent", "pending", "mined", "reverted", "gone"}]
    /\ latest \in [Workers -> Nat]
    /\ funds \in [Workers -> Balances]
    /\ exposed \subseteq Workers

\* A job owns an address from the lease to the end of the confirmation wait and
\* at no other time, whichever way it ends; it is queued only while it waits.
LeaseMatchesPhase ==
    \A j \in Jobs :
        /\ lease[j] # None <=> pc[j] \in Holding
        /\ Parked(j) <=> pc[j] = "lease"

\* An address whose transaction may still be mined is owned by the job that is
\* watching that transaction, or quarantined, unless it was wrongly returned.
OutstandingIsWithheld ==
    \A j \in Jobs :
        fate[j] \in {"sent", "pending"} =>
            \/ pc[j] \in {"broadcast", "receipt"} /\ lease[j] = built[j].from
            \/ built[j].from \in quarantined \cup exposed

\* A job that ended leaves a transaction behind only under the two reasons that
\* say so.
NoOrphanTransaction ==
    \A j \in Jobs :
        pc[j] = "done" /\ fate[j] \in {"sent", "pending"} =>
            failureReason[j] \in {"broadcast_failed", "confirmation_timeout"}

\* Job j wants a signature, or has one to broadcast, over the nonce of a
\* transaction of job k that the node holds.
SecondSignature(j, k) ==
    /\ pc[j] \in {"send", "signature", "broadcast"}
    /\ fate[j] # "pending"
    /\ fate[k] = "pending"
    /\ built[j] = built[k]

\* No nonce is signed twice (workerPool.ts:10-13), as long as no address went
\* back into service with a transaction of its own unsettled.
NonceSafeUnlessExposed ==
    \A j, k \in Jobs : j # k /\ SecondSignature(j, k) => built[j].from \in exposed

\* workerPool.ts:10-13: the address is withheld because handing it out "would
\* produce a second signature over the same nonce".
NonceSafe == \A j, k \in Jobs : j # k => ~SecondSignature(j, k)

\* Once its watch is aborted a job takes no address, and neither builds, asks
\* for a signature, nor broadcasts (signBidirectional.ts:219-228).
AbortedJobsStartNothing ==
    [][\A j \in aborted :
        pc'[j] # pc[j] =>
            pc'[j] \notin {"lease", "preflight", "build", "send", "broadcast"}]_vars

\* signBidirectional.ts:292-295: an address that cleared the minimum and cannot
\* pay is marked against the gas its transaction needs, because the minimum
\* "would leave it first in line to fail identically".  So a flag is lifted only
\* by a balance larger than the one it was set for.
ShortStaysOut ==
    [][\A w \in underfunded \ underfunded' : balanceWei'[w] > balanceWei[w]]_vars

\* Every accepted job runs to its end, and gives back the address it took.
EveryJobEnds == \A j \in Jobs : pc[j] = "derive" ~> pc[j] = "done" /\ lease[j] = None

\* The state of a job's record while the job is parked at each await.
JobState(j) ==
    CASE pc[j] = "idle" -> "none"
      [] pc[j] = "signature" -> "awaiting_signature"
      [] pc[j] = "broadcast" -> "verified"
      [] pc[j] = "receipt" -> "broadcast"
      [] pc[j] = "respond" -> "confirmed"
      [] pc[j] = "done" -> IF failureReason[j] = None THEN "responded" ELSE "failed"
      [] OTHER -> "pending"

Lifecycle == INSTANCE JobLifecycle WITH
    state <- [j \in Jobs |-> JobState(j)], reason <- failureReason

\* Refinement: however jobs interleave, throw, time out or are shut down, each
\* record goes through the states of store.ts:5-13 in order, fails at most once
\* and for good, and for a reason of the state it failed in.
LifecycleSpec == Lifecycle!Spec
=============================================================================
