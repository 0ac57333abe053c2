----------------------------- MODULE WorkerPool -----------------------------
(***************************************************************************)
(* The pool of derived addresses of src/utils/workerPool.ts: one worker    *)
(* per derivation path, leased to at most one job at a time, and a queue   *)
(* of callers parked in acquireWithin.                                     *)
(*                                                                         *)
(* JavaScript runs every method to completion, so each call is one step.   *)
(* A caller is in at most one call of acquireWithin at a time.  Flags that *)
(* the caller sets in the same synchronous block as its release (a balance *)
(* found too small, a quarantine) are part of the release step, because    *)
(* the hand-off that ends it already sees them.                            *)
(***************************************************************************)
EXTENDS Integers, SequencesExt

CONSTANTS
    Clients,        \* callers of acquireWithin: the jobs
    NumWorkers,     \* derivation paths of the pool
    None,           \* a caller that holds no worker
    Balances,       \* balances, in wei, the node can report
    MinBalance,     \* minBalanceWei
    GasCosts        \* gasCostWei of the transactions that can be built

Workers == 1..NumWorkers        \* in the order acquire() scans them

ASSUME PoolAssumption ==
    /\ NumWorkers \in Nat
    /\ None \notin Nat
    /\ Balances \subseteq Nat
    /\ MinBalance \in Nat
    /\ GasCosts \subseteq Nat

VARIABLES
    busy,           \* workers with busy set
    underfunded,    \* workers with underfunded set
    quarantined,    \* workers whose pendingNonce is defined
    balanceWei,     \* the last balance stored for each worker
    waiters,        \* callers parked in acquireWithin, oldest first
    lease           \* the worker acquire() gave each caller, until its release

poolVars == <<busy, underfunded, quarantined, balanceWei, waiters, lease>>

PoolInit ==
    /\ busy = {}
    /\ underfunded = {}
    /\ quarantined = {}
    /\ balanceWei = [w \in Workers |-> 0]
    /\ waiters = <<>>
    /\ lease = [c \in Clients |-> None]

(***************************************************************************)
(* acquire(): the first worker that is idle, funded and not quarantined.   *)
(***************************************************************************)
Idle_ignores_busy(b, u, q) == Workers \ (u \cup q)
Idle_ignores_underfunded(b, u, q) == Workers \ (b \cup q)
Idle(b, u, q) == Workers \ (b \cup u \cup q)

IsFirst(w, S) == w \in S /\ \A v \in S : w <= v

\* Waiting helps only if some funded worker is occupied and will come back.
WillFreeUp == (busy \cup quarantined) \ underfunded # {}

Parked(c) == c \in ToSet(waiters)

Asking(c) == lease[c] = None /\ ~Parked(c)

Acquire(c) ==
    /\ Asking(c)
    /\ \E w \in Workers :
        /\ IsFirst(w, Idle(busy, underfunded, quarantined))
        /\ busy' = busy \cup {w}
        /\ lease' = [lease EXCEPT ![c] = w]
    /\ UNCHANGED <<underfunded, quarantined, balanceWei, waiters>>

\* acquireWithin() parks the caller when the pool is all_busy ...
Enqueue(c) ==
    /\ Asking(c)
    /\ Idle(busy, underfunded, quarantined) = {}
    /\ WillFreeUp
    /\ waiters' = Append(waiters, c)
    /\ UNCHANGED <<busy, underfunded, quarantined, balanceWei, lease>>

\* ... and rejects it at once when the pool is all_underfunded.
Refuse(c) ==
    /\ Asking(c)
    /\ Idle(busy, underfunded, quarantined) = {}
    /\ ~WillFreeUp
    /\ UNCHANGED poolVars

\* The wait's timer fires before a worker was handed over.
WaitTimeout(c) ==
    /\ \E i \in DOMAIN waiters :
        /\ waiters[i] = c
        /\ waiters' = RemoveAt(waiters, i)
    /\ UNCHANGED <<busy, underfunded, quarantined, balanceWei, lease>>

(***************************************************************************)
(* handOff(): as long as somebody waits and acquire() finds a worker, the  *)
(* longest-waiting caller takes it.  A grant is the sequence of workers    *)
(* given to waiters[1], waiters[2], ...                                    *)
(***************************************************************************)
Grants(idle) ==
    { g \in UNION {[1..n -> idle] : n \in 0..Len(waiters)} :
        /\ \A i \in DOMAIN g : IsFirst(g[i], idle \ {g[k] : k \in 1..(i - 1)})
        /\ DOMAIN g = DOMAIN waiters \/ idle = Range(g) }

\* The leases `held`, with waiters[i] now holding g[i].
Granted_newest_first(g, held) ==
    [c \in Clients |->
        IF \E i \in DOMAIN g : waiters[Len(waiters) + 1 - i] = c
        THEN g[CHOOSE i \in DOMAIN g : waiters[Len(waiters) + 1 - i] = c]
        ELSE held[c]]
Granted(g, held) ==
    [c \in Clients |->
        IF \E i \in DOMAIN g : waiters[i] = c
        THEN g[CHOOSE i \in DOMAIN g : waiters[i] = c]
        ELSE held[c]]

HandOff_nobody(b, u, q, held) ==
    busy' = b /\ lease' = held /\ waiters' = waiters
HandOff(b, u, q, held) ==
    \E g \in Grants(Idle(b, u, q)) :
        /\ busy' = b \cup Range(g)
        /\ lease' = Granted(g, held)
        /\ waiters' = SubSeq(waiters, Len(g) + 1, Len(waiters))

\* release(), in a pool whose flags the same block has just set to u and q.
ReleaseWith_unguarded(c, u, q) ==
    /\ underfunded' = u
    /\ quarantined' = q
    /\ HandOff(busy \ {lease[c]}, u, q, [lease EXCEPT ![c] = None])
ReleaseWith(c, u, q) ==
    /\ lease[c] # None
    /\ underfunded' = u
    /\ quarantined' = q
    /\ HandOff(busy \ {lease[c]}, u, q, [lease EXCEPT ![c] = None])

Release(c) ==
    /\ ReleaseWith(c, underfunded, quarantined)
    /\ UNCHANGED balanceWei

QuarantineAndRelease_late(c) ==
    /\ lease[c] # None
    /\ quarantined' = quarantined \cup {lease[c]}
    /\ HandOff(busy \ {lease[c]}, underfunded, quarantined, [lease EXCEPT ![c] = None])
    /\ UNCHANGED <<underfunded, balanceWei>>
QuarantineAndRelease(c) ==
    /\ ReleaseWith(c, underfunded, quarantined \cup {lease[c]})
    /\ UNCHANGED balanceWei

\* The underfunded flags once balance b of w was measured against `min`.
Measured(w, b, min) == IF b < min THEN underfunded \cup {w} ELSE underfunded \ {w}

SetBalanceAndRelease(c, b, min) ==
    /\ ReleaseWith(c, Measured(lease[c], b, min), quarantined)
    /\ balanceWei' = [balanceWei EXCEPT ![lease[c]] = b]

\* What a job measures the balance of its own worker against: the minimum, the
\* gas of its transaction, or more than it has when the node refused to estimate.
Thresholds(b) == {MinBalance, b + 1} \cup GasCosts

SetBalance(w, b) ==
    /\ balanceWei' = [balanceWei EXCEPT ![w] = b]
    /\ underfunded' = Measured(w, b, MinBalance)
    /\ UNCHANGED <<busy, quarantined, waiters, lease>>

\* Neither reconcile() nor setBalance() hands the worker to a waiter.
Reconcile(w, hasOutstanding) ==
    /\ quarantined' = IF hasOutstanding THEN quarantined ELSE quarantined \ {w}
    /\ UNCHANGED <<busy, underfunded, balanceWei, waiters, lease>>

\* Shutdown: everyone still parked is turned away.
RejectWaiters ==
    /\ waiters' = <<>>
    /\ UNCHANGED <<busy, underfunded, quarantined, balanceWei, lease>>

PoolNext ==
    \/ \E c \in Clients :
        \/ Acquire(c)
        \/ Enqueue(c)
        \/ WaitTimeout(c)
        \/ Release(c)
        \/ QuarantineAndRelease(c)
        \/ \E b \in Balances : \E min \in Thresholds(b) : SetBalanceAndRelease(c, b, min)
    \/ \E w \in Workers, b \in Balances : SetBalance(w, b)
    \/ \E w \in Workers : Reconcile(w, FALSE)
    \/ RejectWaiters

PoolSpec == PoolInit /\ [][PoolNext]_poolVars

-----------------------------------------------------------------------------
(***************************************************************************)
(* Properties                                                              *)
(***************************************************************************)

\* Every variable of the pool has its type.
PoolTypeOK ==
    /\ busy \subseteq Workers
    /\ underfunded \subseteq Workers
    /\ quarantined \subseteq Workers
    /\ balanceWei \in [Workers -> Balances \cup {0}]
    /\ waiters \in Seq(Clients)
    /\ lease \in [Clients -> Workers \cup {None}]

\* An address is leased to at most one job: two jobs on one address would read
\* the same nonce (workerPool.ts:35-40).  The busy flags are exactly the leases
\* handed out, so none leaks, and a parked caller is parked once, with no lease.
ExclusiveLease ==
    /\ \A c, d \in Clients : lease[c] = lease[d] /\ lease[c] # None => c = d
    /\ busy = Range(lease) \ {None}
    /\ IsInjective(waiters)
    /\ \A c \in ToSet(waiters) : lease[c] = None

\* A quarantined address is withheld: nobody holds it until it is reconciled,
\* not even a waiter served by the release that quarantined it.
QuarantineWithheld == busy \cap quarantined = {}

\* A caller that gets an address gets one that is neither flagged nor withheld,
\* also when the flag was set by the very step that released it.
GrantsAreUsable ==
    [][\A c \in Clients :
        lease'[c] \notin {None, lease[c]} => lease'[c] \notin underfunded' \cup quarantined'
      ]_poolVars

\* handOff serves the queue in order: when a parked caller gets an address,
\* everybody parked before it gets one in the same step, and one that acquire
\* prefers (workerPool.ts:173-183).
FirstComeFirstServed ==
    [][\A i, k \in DOMAIN waiters :
        i < k /\ lease'[waiters[k]] # None =>
            lease'[waiters[i]] # None /\ lease'[waiters[i]] < lease'[waiters[k]]
      ]_poolVars

\* A release leaves no usable address idle beside a parked caller.
ReleaseServesTheQueue ==
    [][(\E c \in Clients : lease[c] # None /\ lease'[c] # lease[c]) =>
        waiters' = <<>> \/ Idle(busy', underfunded', quarantined') = {}
      ]_poolVars

\* workerPool.ts:171 says of handOff: "Give freed addresses to anyone waiting,
\* before a new arrival can take one."  No caller overtakes a parked one.
NoBarging ==
    [][\A c \in Clients :
        waiters # <<>> /\ lease[c] = None /\ lease'[c] # None => Parked(c)
      ]_poolVars
=============================================================================
