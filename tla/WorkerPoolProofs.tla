-------------------------- MODULE WorkerPoolProofs --------------------------
(***************************************************************************)
(* Proofs about the pool, for any number of callers and workers.           *)
(***************************************************************************)
EXTENDS WorkerPool, SequenceTheorems, TLAPS

LEMMA NoneIsNoWorker == None \notin Workers
  BY PoolAssumption DEF Workers

\* A grant is a sequence of distinct idle workers, no longer than the queue.
LEMMA GrantFacts ==
    ASSUME NEW idle, idle \subseteq Workers, PoolTypeOK,
           NEW g \in Grants(idle)
    PROVE  /\ g \in Seq(idle)
           /\ Len(g) \in 0..Len(waiters)
           /\ DOMAIN g = 1..Len(g)
           /\ \A i \in 1..Len(g) : g[i] \in idle
           /\ \A i, k \in 1..Len(g) : g[i] = g[k] => i = k
           /\ DOMAIN g = DOMAIN waiters \/ idle = Range(g)
<1>1. waiters \in Seq(Clients) /\ Len(waiters) \in Nat
  BY LenProperties DEF PoolTypeOK
<1>2. PICK n \in 0..Len(waiters) : g \in [1..n -> idle]
  BY DEF Grants
<1>3. n \in Nat
  BY <1>1, <1>2
<1>4. g \in Seq(idle) /\ Len(g) = n /\ DOMAIN g = 1..n
  BY <1>2, <1>3, SeqDef, LenProperties
<1>5. \A i \in 1..n : g[i] \in idle
  BY <1>2
<1>6. \A i, k \in 1..n : k < i => g[i] # g[k]
  <2> SUFFICES ASSUME NEW i \in 1..n, NEW k \in 1..n, k < i
               PROVE  g[i] # g[k]
    OBVIOUS
  <2>1. g[i] \in idle \ {g[m] : m \in 1..(i - 1)}
    BY <1>4 DEF Grants, IsFirst
  <2>2. k \in 1..(i - 1)
    BY <1>3
  <2> QED
    BY <2>1, <2>2
<1>7. \A i, k \in 1..n : g[i] = g[k] => i = k
  <2> SUFFICES ASSUME NEW i \in 1..n, NEW k \in 1..n, i # k
               PROVE  g[i] # g[k]
    OBVIOUS
  <2>1. i < k \/ k < i
    BY <1>3
  <2> QED
    BY <2>1, <1>6
<1> QED
  BY <1>2, <1>4, <1>5, <1>7 DEF Grants

\* Who holds what after a hand-off: the caller at position i of the queue has the
\* i-th granted worker, everybody else what he had.
LEMMA GrantedFacts ==
    ASSUME NEW idle, idle \subseteq Workers, PoolTypeOK, IsInjective(waiters),
           NEW g \in Grants(idle),
           NEW held \in [Clients -> Workers \cup {None}]
    PROVE  /\ Granted(g, held) \in [Clients -> Workers \cup {None}]
           /\ \A i \in 1..Len(g) : Granted(g, held)[waiters[i]] = g[i]
           /\ \A c \in Clients :
                (\A i \in 1..Len(g) : waiters[i] # c) => Granted(g, held)[c] = held[c]
<1>1. /\ DOMAIN g = 1..Len(g) /\ Len(g) \in 0..Len(waiters)
      /\ \A i \in 1..Len(g) : g[i] \in Workers
  BY GrantFacts
<1>2. /\ waiters \in Seq(Clients) /\ DOMAIN waiters = 1..Len(waiters) /\ Len(waiters) \in Nat
      /\ \A i \in 1..Len(waiters) : waiters[i] \in Clients
  BY LenProperties, ElementOfSeq DEF PoolTypeOK
<1>3. \A i, k \in 1..Len(g) : waiters[i] = waiters[k] => i = k
  BY <1>1, <1>2 DEF IsInjective
<1>4. \A i \in 1..Len(g) : i \in 1..Len(waiters)
  BY <1>1, <1>2
<1>5. ASSUME NEW c \in Clients, NEW i \in 1..Len(g), waiters[i] = c
      PROVE  Granted(g, held)[c] = g[i]
  <2>1. \E k \in DOMAIN g : waiters[k] = c
    BY <1>1, <1>5
  <2>2. (CHOOSE k \in DOMAIN g : waiters[k] = c) = i
    BY <1>1, <1>3, <1>5
  <2> QED
    BY <2>1, <2>2 DEF Granted
<1>6. ASSUME NEW c \in Clients, \A i \in 1..Len(g) : waiters[i] # c
      PROVE  Granted(g, held)[c] = held[c]
  BY <1>1, <1>6 DEF Granted
<1>7. ASSUME NEW c \in Clients
      PROVE  Granted(g, held)[c] \in Workers \cup {None}
  <2>1. CASE \E i \in 1..Len(g) : waiters[i] = c
    BY <2>1, <1>1, <1>5
  <2>2. CASE \A i \in 1..Len(g) : waiters[i] # c
    BY <2>2, <1>6
  <2> QED
    BY <2>1, <2>2
<1>8. Granted(g, held) \in [Clients -> Workers \cup {None}]
  BY <1>7 DEF Granted
<1>9. \A i \in 1..Len(g) : Granted(g, held)[waiters[i]] = g[i]
  BY <1>2, <1>4, <1>5
<1> QED
  BY <1>6, <1>8, <1>9

\* What is left of the queue after a hand-off.
LEMMA QueueAfterGrant ==
    ASSUME PoolTypeOK, IsInjective(waiters), NEW n \in 0..Len(waiters)
    PROVE  LET rest == SubSeq(waiters, n + 1, Len(waiters))
           IN  /\ rest \in Seq(Clients)
               /\ IsInjective(rest)
               /\ \A c \in ToSet(rest) :
                    c \in ToSet(waiters) /\ \A i \in 1..n : waiters[i] # c
               /\ \A i \in (n + 1)..Len(waiters) : waiters[i] \in ToSet(rest)
<1> DEFINE rest == SubSeq(waiters, n + 1, Len(waiters))
<1>1. /\ waiters \in Seq(Clients) /\ DOMAIN waiters = 1..Len(waiters) /\ Len(waiters) \in Nat
      /\ \A i \in 1..Len(waiters) : waiters[i] \in Clients
  BY LenProperties, ElementOfSeq DEF PoolTypeOK
<1>2. /\ n + 1 \in Int /\ Len(waiters) \in Int
      /\ \A i \in (n + 1)..Len(waiters) : waiters[i] \in Clients
  BY <1>1
<1>3. /\ rest \in Seq(Clients)
      /\ Len(rest) = IF n + 1 <= Len(waiters) THEN Len(waiters) - (n + 1) + 1 ELSE 0
      /\ \A i \in 1..(Len(waiters) - (n + 1) + 1) : rest[i] = waiters[n + 1 + i - 1]
  BY <1>2, SubSeqProperties
<1>4. Len(rest) = Len(waiters) - n /\ DOMAIN rest = 1..(Len(waiters) - n)
  <2> HIDE DEF rest
  <2>1. Len(rest) = Len(waiters) - n
    BY <1>1, <1>3
  <2> QED
    BY <2>1, <1>3, LenProperties
<1>5. \A i \in 1..(Len(waiters) - n) : rest[i] = waiters[n + i] /\ n + i \in 1..Len(waiters)
  BY <1>1, <1>3
<1>6. IsInjective(rest)
  <2> SUFFICES ASSUME NEW a \in 1..(Len(waiters) - n), NEW b \in 1..(Len(waiters) - n),
                      rest[a] = rest[b]
               PROVE  a = b
    BY <1>4 DEF IsInjective
  <2>1. waiters[n + a] = waiters[n + b] /\ n + a \in DOMAIN waiters /\ n + b \in DOMAIN waiters
    BY <1>1, <1>5
  <2>2. n + a = n + b
    BY <2>1 DEF IsInjective
  <2> QED
    BY <2>2, <1>1
<1>7. ASSUME NEW c \in ToSet(rest)
      PROVE  c \in ToSet(waiters) /\ \A i \in 1..n : waiters[i] # c
  <2>1. PICK a \in 1..(Len(waiters) - n) : rest[a] = c
    BY <1>4 DEF ToSet
  <2>2. waiters[n + a] = c /\ n + a \in DOMAIN waiters
    BY <1>1, <1>5, <2>1
  <2>3. ASSUME NEW i \in 1..n, waiters[i] = c
        PROVE  FALSE
    <3>1. i \in DOMAIN waiters
      BY <1>1
    <3>2. i = n + a
      BY <2>2, <2>3, <3>1 DEF IsInjective
    <3> QED
      BY <3>2, <1>1
  <2> QED
    BY <2>2, <2>3 DEF ToSet
<1>8. ASSUME NEW i \in (n + 1)..Len(waiters)
      PROVE  waiters[i] \in ToSet(rest)
  <2>1. i - n \in 1..(Len(waiters) - n) /\ n + (i - n) = i
    BY <1>1
  <2>2. rest[i - n] = waiters[i] /\ i - n \in DOMAIN rest
    BY <1>4, <1>5, <2>1
  <2> QED
    BY <2>2 DEF ToSet
<1> QED
  BY <1>3, <1>6, <1>7, <1>8

Exclusive(held) == \A c, d \in Clients : held[c] = held[d] /\ held[c] # None => c = d

\* A hand-off from a consistent pool leaves a consistent pool.
LEMMA HandOffSafe ==
    ASSUME PoolTypeOK, IsInjective(waiters),
           NEW b, NEW u, NEW q,
           NEW held \in [Clients -> Workers \cup {None}],
           b = Range(held) \ {None}, Exclusive(held),
           \A c \in ToSet(waiters) : held[c] = None,
           b \cap q = {},
           HandOff(b, u, q, held)
    PROVE  /\ busy' \subseteq Workers
           /\ waiters' \in Seq(Clients)
           /\ lease' \in [Clients -> Workers \cup {None}]
           /\ ExclusiveLease'
           /\ busy' \cap q = {}
<1> DEFINE idle == Idle(b, u, q)
<1>1. idle \subseteq Workers /\ idle \cap b = {} /\ idle \cap q = {}
  BY DEF Idle
<1> HIDE DEF idle
<1>2. None \notin Workers
  BY NoneIsNoWorker
<1>3. b \subseteq Workers
  BY DEF Range
<1>4. PICK g \in Grants(idle) :
        /\ busy' = b \cup Range(g)
        /\ lease' = Granted(g, held)
        /\ waiters' = SubSeq(waiters, Len(g) + 1, Len(waiters))
  BY DEF HandOff, idle
<1>5. /\ Len(g) \in 0..Len(waiters)
      /\ DOMAIN g = 1..Len(g)
      /\ \A i \in 1..Len(g) : g[i] \in idle
      /\ \A i, k \in 1..Len(g) : g[i] = g[k] => i = k
  BY <1>1, GrantFacts
<1>6. /\ lease' \in [Clients -> Workers \cup {None}]
      /\ \A i \in 1..Len(g) : lease'[waiters[i]] = g[i]
      /\ \A c \in Clients : (\A i \in 1..Len(g) : waiters[i] # c) => lease'[c] = held[c]
  <2>1. /\ Granted(g, held) \in [Clients -> Workers \cup {None}]
        /\ \A i \in 1..Len(g) : Granted(g, held)[waiters[i]] = g[i]
        /\ \A c \in Clients :
              (\A i \in 1..Len(g) : waiters[i] # c) => Granted(g, held)[c] = held[c]
    BY <1>1, <1>4, GrantedFacts
  <2> QED
    BY <2>1, <1>4, Zenon
<1>7. /\ waiters \in Seq(Clients) /\ DOMAIN waiters = 1..Len(waiters) /\ Len(waiters) \in Nat
      /\ \A i \in 1..Len(waiters) : waiters[i] \in Clients
  BY LenProperties, ElementOfSeq DEF PoolTypeOK
<1>8. \A i \in 1..Len(g) :
        i \in 1..Len(waiters) /\ waiters[i] \in Clients /\ held[waiters[i]] = None
  BY <1>5, <1>7 DEF ToSet
<1>9. /\ waiters' \in Seq(Clients)
      /\ IsInjective(waiters')
      /\ \A c \in ToSet(waiters') :
            c \in ToSet(waiters) /\ \A i \in 1..Len(g) : waiters[i] # c
  BY <1>4, <1>5, QueueAfterGrant
<1>10. Range(g) = {g[i] : i \in 1..Len(g)}
  BY <1>5 DEF Range
<1>11. \A c \in Clients : held[c] # None => held[c] \in b
  BY DEF Range
<1>12. Exclusive(lease')
  <2> SUFFICES ASSUME NEW c \in Clients, NEW d \in Clients,
                      lease'[c] = lease'[d], lease'[c] # None
               PROVE  c = d
    BY DEF Exclusive
  <2>1. CASE \E i \in 1..Len(g) : waiters[i] = c
    <3>1. PICK i \in 1..Len(g) : waiters[i] = c
      BY <2>1
    <3>2. lease'[c] = g[i] /\ g[i] \in idle
      BY <3>1, <1>5, <1>6
    <3>3. PICK k \in 1..Len(g) : waiters[k] = d
      BY <3>2, <1>1, <1>6, <1>11
    <3>4. i = k
      <4>1. lease'[d] = g[k]
        BY <3>3, <1>6
      <4>2. g[i] = g[k]
        BY <3>2, <4>1
      <4> QED
        BY <4>2, <1>5
    <3> QED
      BY <3>1, <3>3, <3>4
  <2>2. CASE \A i \in 1..Len(g) : waiters[i] # c
    <3>1. lease'[c] = held[c] /\ held[c] \in b
      BY <2>2, <1>6, <1>11
    <3>2. \A k \in 1..Len(g) : waiters[k] # d
      BY <3>1, <1>1, <1>5, <1>6
    <3>3. lease'[d] = held[d]
      BY <3>2, <1>6
    <3> QED
      BY <3>1, <3>3 DEF Exclusive
  <2> QED
    BY <2>1, <2>2
<1>13. busy' = Range(lease') \ {None}
  <2>1. ASSUME NEW w \in busy' PROVE w \in Range(lease') \ {None}
    <3>1. CASE w \in b
      <4>1. PICK c \in Clients : held[c] = w /\ w # None
        BY <3>1 DEF Range
      <4>2. \A i \in 1..Len(g) : waiters[i] # c
        BY <4>1, <1>8
      <4> QED
        BY <4>1, <4>2, <1>6 DEF Range
    <3>2. CASE w \in Range(g)
      <4>1. PICK i \in 1..Len(g) : w = g[i]
        BY <3>2, <1>10
      <4>2. lease'[waiters[i]] = w /\ waiters[i] \in Clients
        BY <4>1, <1>6, <1>8
      <4>3. w # None
        BY <4>1, <1>1, <1>2, <1>5
      <4> QED
        BY <4>2, <4>3, <1>6 DEF Range
    <3> QED
      BY <2>1, <3>1, <3>2, <1>4
  <2>2. ASSUME NEW w \in Range(lease') \ {None} PROVE w \in busy'
    <3>1. PICK c \in Clients : lease'[c] = w /\ w # None
      BY <2>2, <1>6 DEF Range
    <3>2. CASE \E i \in 1..Len(g) : waiters[i] = c
      BY <3>1, <3>2, <1>4, <1>6, <1>10
    <3>3. CASE \A i \in 1..Len(g) : waiters[i] # c
      BY <3>1, <3>3, <1>4, <1>6, <1>11
    <3> QED
      BY <3>2, <3>3
  <2> QED
    BY <2>1, <2>2
<1>14. \A c \in ToSet(waiters') : lease'[c] = None
  <2> SUFFICES ASSUME NEW c \in ToSet(waiters') PROVE lease'[c] = None
    OBVIOUS
  <2>1. c \in ToSet(waiters) /\ \A i \in 1..Len(g) : waiters[i] # c
    BY <1>9
  <2>2. c \in Clients
    BY <2>1, <1>7 DEF ToSet
  <2> QED
    BY <2>1, <2>2, <1>6
<1>15. busy' \subseteq Workers /\ busy' \cap q = {}
  <2>1. \A w \in Range(g) : w \in idle
    BY <1>5, <1>10
  <2> QED
    BY <2>1, <1>1, <1>3, <1>4
<1> QED
  BY <1>6, <1>9, <1>12, <1>13, <1>14, <1>15 DEF ExclusiveLease, Exclusive

-----------------------------------------------------------------------------
(***************************************************************************)
(* The inductive invariant: the pool is well typed, its busy flags are the *)
(* leases it gave out, and no leased address is quarantined.  None of the  *)
(* three is inductive alone: a lease is exclusive only because the busy    *)
(* flag of every lease is set, and a hand-off grants each worker once only *)
(* because the queue names nobody twice.                                   *)
(***************************************************************************)
PoolInv == PoolTypeOK /\ ExclusiveLease /\ QuarantineWithheld

LEMMA PoolInitInv == PoolInit => PoolInv
<1> SUFFICES ASSUME PoolInit PROVE PoolInv
  OBVIOUS
<1>1. PoolTypeOK
  BY EmptySeq DEF PoolInit, PoolTypeOK
<1>2. busy = Range(lease) \ {None}
  BY DEF PoolInit, Range
<1>3. waiters = <<>> /\ DOMAIN waiters = {} /\ ToSet(waiters) = {}
  BY DEF PoolInit, ToSet
<1>4. ExclusiveLease
  BY <1>2, <1>3 DEF PoolInit, ExclusiveLease, IsInjective
<1> QED
  BY <1>1, <1>4 DEF PoolInit, PoolInv, QuarantineWithheld

\* acquire() by a caller that found a free worker.
LEMMA AcquireInv == ASSUME PoolInv, NEW c \in Clients, Acquire(c) PROVE PoolInv'
<1>1. PICK w \in Workers :
        /\ w \notin busy /\ w \notin quarantined
        /\ busy' = busy \cup {w}
        /\ lease' = [lease EXCEPT ![c] = w]
  BY DEF Acquire, IsFirst, Idle
<1>2. lease[c] = None /\ c \notin ToSet(waiters)
  BY DEF Acquire, Asking, Parked
<1>3. lease \in [Clients -> Workers \cup {None}] /\ waiters' = waiters
  BY DEF PoolInv, PoolTypeOK, Acquire
<1>4. PoolTypeOK'
  BY <1>1 DEF PoolInv, PoolTypeOK, Acquire
<1>5. \A d \in Clients : lease'[d] = IF d = c THEN w ELSE lease[d]
  BY <1>1, <1>3
<1>6. \A d \in Clients : lease[d] # w
  BY <1>1, <1>3, NoneIsNoWorker DEF PoolInv, ExclusiveLease, Range
<1>7. \A d, e \in Clients : lease'[d] = lease'[e] /\ lease'[d] # None => d = e
  BY <1>5, <1>6 DEF PoolInv, ExclusiveLease
<1>8. busy' = Range(lease') \ {None}
  <2>1. DOMAIN lease = Clients /\ DOMAIN lease' = Clients
    BY <1>1, <1>3
  <2>2. w # None
    BY NoneIsNoWorker
  <2>3. busy = {lease[d] : d \in Clients} \ {None}
    BY <2>1 DEF PoolInv, ExclusiveLease, Range
  <2>4. \A x : x \in busy' <=> \E d \in Clients : lease'[d] = x /\ x # None
    BY <1>1, <1>2, <1>5, <2>2, <2>3
  <2> QED
    BY <2>1, <2>4 DEF Range
<1>9. IsInjective(waiters') /\ \A d \in ToSet(waiters') : lease'[d] = None
  <2>1. \A d \in ToSet(waiters) : d \in Clients /\ lease[d] = None /\ d # c
    BY <1>2, LenProperties, ElementOfSeq DEF PoolInv, PoolTypeOK, ExclusiveLease, ToSet
  <2> QED
    BY <2>1, <1>3, <1>5 DEF PoolInv, ExclusiveLease
<1>10. QuarantineWithheld'
  BY <1>1 DEF PoolInv, QuarantineWithheld, Acquire
<1> QED
  BY <1>4, <1>7, <1>8, <1>9, <1>10 DEF PoolInv, ExclusiveLease

\* The calls that only change the queue.
LEMMA QueueInv ==
    ASSUME PoolInv,
           UNCHANGED <<busy, underfunded, quarantined, balanceWei, lease>>,
           waiters' \in Seq(Clients),
           IsInjective(waiters'),
           \A d \in ToSet(waiters') : lease[d] = None
    PROVE  PoolInv'
<1>1. PoolTypeOK' /\ QuarantineWithheld'
  BY DEF PoolInv, PoolTypeOK, QuarantineWithheld
<1>2. ExclusiveLease'
  BY DEF PoolInv, ExclusiveLease
<1> QED
  BY <1>1, <1>2 DEF PoolInv

LEMMA EnqueueInv == ASSUME PoolInv, NEW c \in Clients, Enqueue(c) PROVE PoolInv'
<1>1. waiters' = Append(waiters, c) /\ lease[c] = None /\ c \notin ToSet(waiters)
  BY DEF Enqueue, Asking, Parked
<1>2. waiters \in Seq(Clients) /\ Len(waiters) \in Nat /\ DOMAIN waiters = 1..Len(waiters)
  BY LenProperties DEF PoolInv, PoolTypeOK
<1>3. /\ waiters' \in Seq(Clients)
      /\ Len(waiters') = Len(waiters) + 1
      /\ \A i \in 1..Len(waiters) : waiters'[i] = waiters[i]
      /\ waiters'[Len(waiters) + 1] = c
  BY <1>1, <1>2, AppendProperties
<1>4. DOMAIN waiters' = 1..(Len(waiters) + 1)
  BY <1>3, LenProperties
<1>5. \A i \in 1..Len(waiters) : waiters[i] # c /\ lease[waiters[i]] = None
  BY <1>1, <1>2 DEF ToSet, PoolInv, ExclusiveLease
<1>6. IsInjective(waiters')
  <2> SUFFICES ASSUME NEW a \in DOMAIN waiters', NEW b \in DOMAIN waiters',
                      waiters'[a] = waiters'[b]
               PROVE  a = b
    BY DEF IsInjective
  <2>1. CASE a \in 1..Len(waiters) /\ b \in 1..Len(waiters)
    BY <2>1, <1>2, <1>3 DEF PoolInv, ExclusiveLease, IsInjective
  <2>2. CASE a = Len(waiters) + 1 \/ b = Len(waiters) + 1
    BY <2>2, <1>2, <1>3, <1>4, <1>5
  <2> QED
    BY <2>1, <2>2, <1>2, <1>4
<1>7. \A d \in ToSet(waiters') : lease[d] = None
  BY <1>1, <1>2, <1>3, <1>4, <1>5 DEF ToSet
<1> QED
  BY <1>3, <1>6, <1>7, QueueInv DEF Enqueue

\* The queue without its i-th caller.
LEMMA RemoveAtFacts ==
    ASSUME PoolTypeOK, NEW i \in DOMAIN waiters
    PROVE  LET rest == RemoveAt(waiters, i)
           IN  /\ rest \in Seq(Clients)
               /\ DOMAIN rest = 1..(Len(waiters) - 1)
               /\ \A k \in 1..(Len(waiters) - 1) :
                    rest[k] = waiters[IF k < i THEN k ELSE k + 1]
<1> DEFINE rest == RemoveAt(waiters, i)
           front == SubSeq(waiters, 1, i - 1)
           back == SubSeq(waiters, i + 1, Len(waiters))
<1>1. /\ waiters \in Seq(Clients) /\ Len(waiters) \in Nat /\ DOMAIN waiters = 1..Len(waiters)
      /\ \A k \in 1..Len(waiters) : waiters[k] \in Clients
  BY LenProperties, ElementOfSeq DEF PoolTypeOK
<1>3. /\ front \in Seq(Clients) /\ Len(front) = i - 1
      /\ \A k \in 1..(i - 1) : front[k] = waiters[k]
  <2>1. i - 1 \in Int /\ \A k \in 1..(i - 1) : waiters[k] \in Clients
    BY <1>1
  <2> QED
    BY <2>1, <1>1, SubSeqProperties
<1>4. /\ back \in Seq(Clients) /\ Len(back) = Len(waiters) - i
      /\ \A k \in 1..(Len(waiters) - i) : back[k] = waiters[i + k]
  <2>1. i + 1 \in Int /\ \A k \in (i + 1)..Len(waiters) : waiters[k] \in Clients
    BY <1>1
  <2> QED
    BY <2>1, <1>1, SubSeqProperties
<1>5. rest = front \o back
  BY DEF RemoveAt
<1> HIDE DEF rest, front, back
<1>6. /\ rest \in Seq(Clients)
      /\ Len(rest) = Len(waiters) - 1
      /\ \A k \in 1..(Len(waiters) - 1) :
            rest[k] = IF k <= i - 1 THEN front[k] ELSE back[k - (i - 1)]
  <2>1. /\ front \o back \in Seq(Clients)
        /\ Len(front \o back) = Len(front) + Len(back)
        /\ \A k \in 1..(Len(front) + Len(back)) :
              (front \o back)[k] = IF k <= Len(front) THEN front[k] ELSE back[k - Len(front)]
    BY <1>3, <1>4, ConcatProperties
  <2>2. Len(front) + Len(back) = Len(waiters) - 1
    BY <1>1, <1>3, <1>4
  <2> QED
    BY <2>1, <2>2, <1>3, <1>5, Zenon
<1>7. DOMAIN rest = 1..(Len(waiters) - 1)
  BY <1>6, LenProperties
<1>8. \A k \in 1..(Len(waiters) - 1) :
        rest[k] = waiters[IF k < i THEN k ELSE k + 1]
  <2> SUFFICES ASSUME NEW k \in 1..(Len(waiters) - 1)
               PROVE  rest[k] = waiters[IF k < i THEN k ELSE k + 1]
    OBVIOUS
  <2>1. CASE k < i
    <3>1. k \in 1..(i - 1) /\ k <= i - 1
      BY <2>1, <1>1
    <3> QED
      BY <2>1, <3>1, <1>3, <1>6
  <2>2. CASE ~(k < i)
    <3>1. k - (i - 1) \in 1..(Len(waiters) - i) /\ ~(k <= i - 1) /\ i + (k - (i - 1)) = k + 1
      BY <2>2, <1>1
    <3> QED
      BY <2>2, <3>1, <1>4, <1>6
  <2> QED
    BY <2>1, <2>2
<1> QED
  BY <1>6, <1>7, <1>8 DEF rest

LEMMA WaitTimeoutInv == ASSUME PoolInv, NEW c \in Clients, WaitTimeout(c) PROVE PoolInv'
<1>1. PICK i \in DOMAIN waiters : waiters' = RemoveAt(waiters, i)
  BY DEF WaitTimeout
<1>2. /\ waiters \in Seq(Clients) /\ Len(waiters) \in Nat /\ DOMAIN waiters = 1..Len(waiters)
      /\ \A k \in 1..Len(waiters) : waiters[k] \in Clients
  BY LenProperties, ElementOfSeq DEF PoolInv, PoolTypeOK
<1>3. /\ waiters' \in Seq(Clients)
      /\ DOMAIN waiters' = 1..(Len(waiters) - 1)
      /\ \A k \in 1..(Len(waiters) - 1) : waiters'[k] = waiters[IF k < i THEN k ELSE k + 1]
  BY <1>1, RemoveAtFacts DEF PoolInv
<1>4. IsInjective(waiters')
  <2> SUFFICES ASSUME NEW a \in 1..(Len(waiters) - 1), NEW b \in 1..(Len(waiters) - 1),
                      waiters'[a] = waiters'[b]
               PROVE  a = b
    BY <1>3 DEF IsInjective
  <2> DEFINE old(k) == IF k < i THEN k ELSE k + 1
  <2>1. waiters[old(a)] = waiters[old(b)] /\ old(a) \in DOMAIN waiters /\ old(b) \in DOMAIN waiters
    BY <1>2, <1>3
  <2>2. old(a) = old(b)
    BY <2>1 DEF PoolInv, ExclusiveLease, IsInjective
  <2> QED
    BY <2>2, <1>2
<1>5. \A d \in ToSet(waiters') : lease[d] = None
  <2> SUFFICES ASSUME NEW k \in 1..(Len(waiters) - 1) PROVE lease[waiters'[k]] = None
    BY <1>3 DEF ToSet
  <2>1. waiters'[k] \in ToSet(waiters)
    BY <1>2, <1>3 DEF ToSet
  <2> QED
    BY <2>1 DEF PoolInv, ExclusiveLease
<1> QED
  BY <1>3, <1>4, <1>5, QueueInv DEF WaitTimeout

\* A release, whatever flags its block has set: the worker given up is the only
\* one that may newly be quarantined.
LEMMA ReleaseInv ==
    ASSUME PoolInv, NEW c \in Clients,
           NEW u \in SUBSET Workers, NEW q \in SUBSET Workers,
           q \subseteq quarantined \cup {lease[c]},
           ReleaseWith(c, u, q),
           balanceWei' \in [Workers -> Balances \cup {0}]
    PROVE  PoolInv'
<1> DEFINE b == busy \ {lease[c]}
           held == [lease EXCEPT ![c] = None]
<1>1. /\ lease[c] # None /\ underfunded' = u /\ quarantined' = q
      /\ HandOff(b, u, q, held)
  BY DEF ReleaseWith
<1>2. PoolTypeOK /\ IsInjective(waiters) /\ lease \in [Clients -> Workers \cup {None}]
  BY DEF PoolInv, PoolTypeOK, ExclusiveLease
<1>3. /\ held \in [Clients -> Workers \cup {None}]
      /\ \A d \in Clients : held[d] = IF d = c THEN None ELSE lease[d]
  BY <1>2
<1>4. Exclusive(held)
  BY <1>3 DEF PoolInv, ExclusiveLease, Exclusive
<1>5. b = Range(held) \ {None}
  <2>1. busy = {lease[d] : d \in Clients} \ {None}
    BY <1>2 DEF PoolInv, ExclusiveLease, Range
  <2>2. \A x : x \in b <=> \E d \in Clients : held[d] = x /\ x # None
    BY <1>1, <1>3, <2>1 DEF PoolInv, ExclusiveLease
  <2> QED
    BY <1>3, <2>2 DEF Range
<1>6. \A d \in ToSet(waiters) : held[d] = None
  <2>1. \A d \in ToSet(waiters) : d \in Clients /\ lease[d] = None
    BY LenProperties, ElementOfSeq DEF PoolInv, PoolTypeOK, ExclusiveLease, ToSet
  <2> QED
    BY <2>1, <1>3
<1>7. b \cap q = {}
  BY DEF PoolInv, QuarantineWithheld
<1> HIDE DEF b, held
<1>8. /\ busy' \subseteq Workers
      /\ waiters' \in Seq(Clients)
      /\ lease' \in [Clients -> Workers \cup {None}]
      /\ ExclusiveLease'
      /\ busy' \cap q = {}
  BY <1>1, <1>2, <1>3, <1>4, <1>5, <1>6, <1>7, HandOffSafe
<1> QED
  BY <1>1, <1>8 DEF PoolInv, PoolTypeOK, QuarantineWithheld

LEMMA FlagsInv ==
    ASSUME PoolInv,
           UNCHANGED <<busy, waiters, lease>>,
           underfunded' \subseteq Workers,
           quarantined' \subseteq quarantined,
           balanceWei' \in [Workers -> Balances \cup {0}]
    PROVE  PoolInv'
<1>1. PoolTypeOK' /\ QuarantineWithheld'
  BY DEF PoolInv, PoolTypeOK, QuarantineWithheld
<1>2. ExclusiveLease'
  BY DEF PoolInv, ExclusiveLease
<1> QED
  BY <1>1, <1>2 DEF PoolInv

LEMMA PoolStepInv == PoolInv /\ [PoolNext]_poolVars => PoolInv'
<1> SUFFICES ASSUME PoolInv, [PoolNext]_poolVars PROVE PoolInv'
  OBVIOUS
<1>1. /\ lease \in [Clients -> Workers \cup {None}]
      /\ underfunded \subseteq Workers /\ quarantined \subseteq Workers
      /\ balanceWei \in [Workers -> Balances \cup {0}]
  BY DEF PoolInv, PoolTypeOK
<1>2. ASSUME NEW c \in Clients, Acquire(c) PROVE PoolInv'
  BY <1>2, AcquireInv
<1>3. ASSUME NEW c \in Clients, Enqueue(c) PROVE PoolInv'
  BY <1>3, EnqueueInv
<1>4. ASSUME NEW c \in Clients, WaitTimeout(c) PROVE PoolInv'
  BY <1>4, WaitTimeoutInv
<1>5. ASSUME NEW c \in Clients, Release(c) PROVE PoolInv'
  BY <1>1, <1>5, ReleaseInv DEF Release
<1>6. ASSUME NEW c \in Clients, QuarantineAndRelease(c) PROVE PoolInv'
  <2>1. lease[c] \in Workers
    BY <1>1, <1>6 DEF QuarantineAndRelease, ReleaseWith
  <2> QED
    BY <1>1, <1>6, <2>1, ReleaseInv DEF QuarantineAndRelease
<1>7. ASSUME NEW c \in Clients, NEW b \in Balances, NEW min \in Thresholds(b),
             SetBalanceAndRelease(c, b, min)
      PROVE  PoolInv'
  <2>1. lease[c] \in Workers
    BY <1>1, <1>7 DEF SetBalanceAndRelease, ReleaseWith
  <2>2. Measured(lease[c], b, min) \subseteq Workers
    BY <1>1, <2>1 DEF Measured
  <2>3. balanceWei' \in [Workers -> Balances \cup {0}]
    BY <1>1, <1>7 DEF SetBalanceAndRelease
  <2> QED
    BY <1>1, <1>7, <2>2, <2>3, ReleaseInv DEF SetBalanceAndRelease
<1>8. ASSUME NEW w \in Workers, NEW b \in Balances, SetBalance(w, b) PROVE PoolInv'
  <2>1. balanceWei' \in [Workers -> Balances \cup {0}]
    BY <1>1, <1>8 DEF SetBalance
  <2>2. underfunded' \subseteq Workers
    BY <1>1, <1>8 DEF SetBalance, Measured
  <2> QED
    BY <1>8, <2>1, <2>2, FlagsInv DEF SetBalance
<1>9. ASSUME NEW w \in Workers, Reconcile(w, FALSE) PROVE PoolInv'
  BY <1>1, <1>9, FlagsInv DEF Reconcile
<1>10. CASE RejectWaiters
  <2>1. waiters' \in Seq(Clients) /\ DOMAIN waiters' = {} /\ ToSet(waiters') = {}
    BY <1>10, EmptySeq DEF RejectWaiters, ToSet
  <2> QED
    BY <1>10, <2>1, QueueInv DEF RejectWaiters, IsInjective
<1>11. CASE UNCHANGED poolVars
  BY <1>11, <1>1, FlagsInv DEF poolVars
<1> QED
  BY <1>2, <1>3, <1>4, <1>5, <1>6, <1>7, <1>8, <1>9, <1>10, <1>11 DEF PoolNext

-----------------------------------------------------------------------------
(***************************************************************************)
(* What a release does to the queue and to everybody's lease.              *)
(***************************************************************************)

\* Parking adds the caller to the queue, a timeout takes it out.
LEMMA QueueAfterEnqueue ==
    ASSUME PoolInv, NEW c \in Clients, Enqueue(c)
    PROVE  \A d : Parked(d)' <=> Parked(d) \/ d = c
<1>1. /\ waiters \in Seq(Clients) /\ Len(waiters) \in Nat /\ DOMAIN waiters = 1..Len(waiters)
      /\ waiters' = Append(waiters, c)
  BY LenProperties DEF PoolInv, PoolTypeOK, Enqueue
<1>2. /\ waiters' \in Seq(Clients)
      /\ Len(waiters') = Len(waiters) + 1
      /\ \A i \in 1..Len(waiters) : waiters'[i] = waiters[i]
      /\ waiters'[Len(waiters) + 1] = c
  BY <1>1, AppendProperties
<1>3. DOMAIN waiters' = 1..Len(waiters) \cup {Len(waiters) + 1}
  <2>1. DOMAIN waiters' = 1..(Len(waiters) + 1)
    BY <1>2, LenProperties
  <2> QED
    BY <2>1, <1>1
<1> QED
  BY <1>1, <1>2, <1>3 DEF Parked, ToSet

LEMMA QueueAfterTimeout ==
    ASSUME PoolInv, NEW c \in Clients, WaitTimeout(c)
    PROVE  \A d : Parked(d)' <=> Parked(d) /\ d # c
<1>1. PICK i \in DOMAIN waiters : waiters[i] = c /\ waiters' = RemoveAt(waiters, i)
  BY DEF WaitTimeout
<1>2. /\ waiters \in Seq(Clients) /\ Len(waiters) \in Nat /\ DOMAIN waiters = 1..Len(waiters)
      /\ \A k \in 1..Len(waiters) : waiters[k] \in Clients
  BY LenProperties, ElementOfSeq DEF PoolInv, PoolTypeOK
<1>3. /\ DOMAIN waiters' = 1..(Len(waiters) - 1)
      /\ \A k \in 1..(Len(waiters) - 1) : waiters'[k] = waiters[IF k < i THEN k ELSE k + 1]
  BY <1>1, RemoveAtFacts DEF PoolInv
<1>4. \A k \in 1..Len(waiters) : waiters[k] = c => k = i
  BY <1>1, <1>2 DEF PoolInv, ExclusiveLease, IsInjective
<1>5. ASSUME NEW d, Parked(d)' PROVE Parked(d) /\ d # c
  <2>1. PICK k \in 1..(Len(waiters) - 1) : waiters'[k] = d
    BY <1>3, <1>5 DEF Parked, ToSet
  <2>2. PICK n \in 1..Len(waiters) : n # i /\ waiters[n] = d
    <3>1. CASE k < i
      BY <1>2, <1>3, <2>1, <3>1
    <3>2. CASE ~(k < i)
      <4>1. k + 1 \in 1..Len(waiters) /\ k + 1 # i /\ waiters[k + 1] = d
        BY <1>2, <1>3, <2>1, <3>2
      <4> QED
        BY <4>1
    <3> QED
      BY <3>1, <3>2
  <2> QED
    BY <1>2, <1>4, <2>2 DEF Parked, ToSet
<1>6. ASSUME NEW d, Parked(d), d # c PROVE Parked(d)'
  <2>1. PICK n \in 1..Len(waiters) : waiters[n] = d
    BY <1>2, <1>6 DEF Parked, ToSet
  <2>2. n # i
    BY <1>1, <1>6, <2>1
  <2>3. CASE n < i
    <3>1. n \in 1..(Len(waiters) - 1) /\ waiters'[n] = d
      BY <1>2, <1>3, <2>1, <2>3
    <3> QED
      BY <3>1, <1>3 DEF Parked, ToSet
  <2>4. CASE n > i
    <3>1. n - 1 \in 1..(Len(waiters) - 1) /\ ~(n - 1 < i) /\ (n - 1) + 1 = n
      BY <1>2, <2>1, <2>4
    <3>2. waiters'[n - 1] = d
      BY <1>3, <2>1, <3>1
    <3> QED
      BY <3>1, <3>2, <1>3 DEF Parked, ToSet
  <2> QED
    BY <1>2, <2>2, <2>3, <2>4
<1> QED
  BY <1>5, <1>6

\* The release of c hands the workers of the grant g to the head of the queue.
Served(c, g) ==
    /\ busy' = (busy \ {lease[c]}) \cup Range(g)
    /\ waiters' = SubSeq(waiters, Len(g) + 1, Len(waiters))
    /\ \A i \in 1..Len(g) : lease'[waiters[i]] = g[i]
    /\ \A d \in Clients : (\A i \in 1..Len(g) : waiters[i] # d) =>
        lease'[d] = IF d = c THEN None ELSE lease[d]

\* The grant behind a release.
LEMMA ReleaseGrant ==
    ASSUME PoolInv, NEW c \in Clients,
           NEW u \in SUBSET Workers, NEW q \in SUBSET Workers,
           ReleaseWith(c, u, q)
    PROVE  \E g \in Grants(Idle(busy \ {lease[c]}, u, q)) : Served(c, g)
<1> DEFINE idle == Idle(busy \ {lease[c]}, u, q)
           held == [lease EXCEPT ![c] = None]
<1>1. PoolTypeOK /\ IsInjective(waiters) /\ lease \in [Clients -> Workers \cup {None}]
  BY DEF PoolInv, PoolTypeOK, ExclusiveLease
<1>2. /\ held \in [Clients -> Workers \cup {None}]
      /\ \A d \in Clients : held[d] = IF d = c THEN None ELSE lease[d]
  BY <1>1
<1>3. PICK g \in Grants(idle) :
        /\ busy' = (busy \ {lease[c]}) \cup Range(g)
        /\ lease' = Granted(g, held)
        /\ waiters' = SubSeq(waiters, Len(g) + 1, Len(waiters))
  BY DEF ReleaseWith, HandOff
<1>4. idle \subseteq Workers
  BY DEF Idle
<1> HIDE DEF idle, held
<1>5. /\ \A i \in 1..Len(g) : Granted(g, held)[waiters[i]] = g[i]
      /\ \A d \in Clients :
            (\A i \in 1..Len(g) : waiters[i] # d) => Granted(g, held)[d] = held[d]
  BY <1>1, <1>2, <1>4, GrantedFacts
<1>6. /\ \A i \in 1..Len(g) : lease'[waiters[i]] = g[i]
      /\ \A d \in Clients : (\A i \in 1..Len(g) : waiters[i] # d) =>
            lease'[d] = IF d = c THEN None ELSE lease[d]
  BY <1>2, <1>3, <1>5, Zenon
<1>7. Served(c, g)
  BY <1>3, <1>6 DEF Served
<1> QED
  BY <1>3, <1>7 DEF idle

\* The caller that releases is left without a lease and out of the queue, parked
\* callers stay parked or leave with a worker, and nobody else notices.
LEMMA LeasesAfterRelease ==
    ASSUME PoolInv, NEW c \in Clients,
           NEW u \in SUBSET Workers, NEW q \in SUBSET Workers,
           ReleaseWith(c, u, q)
    PROVE  /\ lease'[c] = None /\ ~Parked(c)'
           /\ \A d \in Clients : d # c /\ ~Parked(d) => lease'[d] = lease[d] /\ ~Parked(d)'
           /\ \A d \in Clients : Parked(d) => (lease'[d] = None <=> Parked(d)')
<1> DEFINE idle == Idle(busy \ {lease[c]}, u, q)
<1>0. PICK g \in Grants(idle) : Served(c, g)
  BY ReleaseGrant
<1>1. /\ busy' = (busy \ {lease[c]}) \cup Range(g)
      /\ waiters' = SubSeq(waiters, Len(g) + 1, Len(waiters))
      /\ \A i \in 1..Len(g) : lease'[waiters[i]] = g[i]
      /\ \A d \in Clients : (\A i \in 1..Len(g) : waiters[i] # d) =>
            lease'[d] = IF d = c THEN None ELSE lease[d]
  BY <1>0 DEF Served
<1>2. PoolTypeOK /\ IsInjective(waiters)
  BY DEF PoolInv, ExclusiveLease
<1>3. idle \subseteq Workers
  BY DEF Idle
<1> HIDE DEF idle
<1>4. Len(g) \in 0..Len(waiters) /\ \A i \in 1..Len(g) : g[i] \in Workers
  BY <1>2, <1>3, GrantFacts
<1>5. /\ \A d \in ToSet(waiters') : d \in ToSet(waiters) /\ \A i \in 1..Len(g) : waiters[i] # d
      /\ \A i \in (Len(g) + 1)..Len(waiters) : waiters[i] \in ToSet(waiters')
  BY <1>1, <1>2, <1>4, QueueAfterGrant
<1>6. /\ Len(waiters) \in Nat /\ DOMAIN waiters = 1..Len(waiters)
      /\ \A i \in 1..Len(waiters) : waiters[i] \in Clients
  BY <1>2, LenProperties, ElementOfSeq DEF PoolTypeOK
<1>7. \A d \in ToSet(waiters) : lease[d] = None /\ d # c
  BY DEF PoolInv, ExclusiveLease, ReleaseWith
<1>8. \A i \in 1..Len(g) : waiters[i] \in ToSet(waiters)
  BY <1>4, <1>6 DEF ToSet
<1>9. lease'[c] = None /\ ~Parked(c)'
  BY <1>1, <1>5, <1>7, <1>8 DEF Parked
<1>10. \A d \in Clients : d # c /\ ~Parked(d) => lease'[d] = lease[d] /\ ~Parked(d)'
  BY <1>1, <1>5, <1>8 DEF Parked
<1>11. ASSUME NEW d \in Clients, Parked(d)
       PROVE  lease'[d] = None <=> Parked(d)'
  <2>1. PICK i \in 1..Len(waiters) : waiters[i] = d
    BY <1>6, <1>11 DEF Parked, ToSet
  <2>2. CASE i \in 1..Len(g)
    <3>1. lease'[d] \in Workers
      BY <2>1, <2>2, <1>1, <1>4
    <3> QED
      BY <2>1, <2>2, <3>1, <1>5, NoneIsNoWorker DEF Parked
  <2>3. CASE i \notin 1..Len(g)
    <3>1. i \in (Len(g) + 1)..Len(waiters)
      BY <2>3, <1>4, <1>6
    <3>2. Parked(d)'
      BY <2>1, <3>1, <1>5 DEF Parked
    <3>3. lease'[d] = None
      BY <3>2, <1>1, <1>5, <1>7 DEF Parked
    <3> QED
      BY <3>2, <3>3
  <2> QED
    BY <2>2, <2>3
<1> QED
  BY <1>9, <1>10, <1>11

-----------------------------------------------------------------------------
\* In every behaviour of the pool.
THEOREM PoolSafe == PoolSpec => []PoolInv
  BY PoolInitInv, PoolStepInv, PTL DEF PoolSpec

\* The pool is well typed.
THEOREM PoolTypes == PoolSpec => []PoolTypeOK
<1>1. PoolInv => PoolTypeOK
  BY DEF PoolInv
<1> QED
  BY <1>1, PoolSafe, PTL

\* No address is ever leased to two jobs, no lease leaks, and no caller is
\* queued twice or while it holds an address.
THEOREM LeasesAreExclusive == PoolSpec => []ExclusiveLease
<1>1. PoolInv => ExclusiveLease
  BY DEF PoolInv
<1> QED
  BY <1>1, PoolSafe, PTL

\* Nobody holds a quarantined address.
THEOREM QuarantinedIsIdle == PoolSpec => []QuarantineWithheld
<1>1. PoolInv => QuarantineWithheld
  BY DEF PoolInv
<1> QED
  BY <1>1, PoolSafe, PTL

-----------------------------------------------------------------------------
(***************************************************************************)
(* Action properties.                                                      *)
(***************************************************************************)

\* Leases change only when a caller acquires, and when one releases.
LEMMA StepKinds ==
    ASSUME PoolInv, [PoolNext]_poolVars
    PROVE  \/ UNCHANGED lease
           \/ \E c \in Clients : Acquire(c)
           \/ \E c \in Clients : \E u, q \in SUBSET Workers : ReleaseWith(c, u, q)
<1>1. /\ lease \in [Clients -> Workers \cup {None}]
      /\ underfunded \subseteq Workers /\ quarantined \subseteq Workers
  BY DEF PoolInv, PoolTypeOK
<1>2. ASSUME NEW c \in Clients, Release(c)
      PROVE  \E u, q \in SUBSET Workers : ReleaseWith(c, u, q)
  BY <1>1, <1>2 DEF Release
<1>3. ASSUME NEW c \in Clients, QuarantineAndRelease(c)
      PROVE  \E u, q \in SUBSET Workers : ReleaseWith(c, u, q)
  <2>1. quarantined \cup {lease[c]} \in SUBSET Workers
    BY <1>1, <1>3 DEF QuarantineAndRelease, ReleaseWith
  <2> QED
    BY <1>1, <1>3, <2>1 DEF QuarantineAndRelease
<1>4. ASSUME NEW c \in Clients, NEW b \in Balances, NEW min \in Thresholds(b),
             SetBalanceAndRelease(c, b, min)
      PROVE  \E u, q \in SUBSET Workers : ReleaseWith(c, u, q)
  <2>1. Measured(lease[c], b, min) \in SUBSET Workers
    BY <1>1, <1>4 DEF SetBalanceAndRelease, ReleaseWith, Measured
  <2> QED
    BY <1>1, <1>4, <2>1 DEF SetBalanceAndRelease
<1>5. CASE \/ \E c \in Clients : Enqueue(c) \/ WaitTimeout(c)
           \/ \E w \in Workers, b \in Balances : SetBalance(w, b)
           \/ \E w \in Workers : Reconcile(w, FALSE)
           \/ RejectWaiters
           \/ UNCHANGED poolVars
  BY <1>5 DEF Enqueue, WaitTimeout, SetBalance, Reconcile, RejectWaiters, poolVars
<1> QED
  BY <1>2, <1>3, <1>4, <1>5 DEF PoolNext

\* Whoever gets an address gets one that is neither flagged nor withheld, also if
\* the flag was set by the step that released it.
THEOREM GrantedAddressesAreUsable == PoolSpec => GrantsAreUsable
<1>1. ASSUME PoolInv, [PoolNext]_poolVars, NEW c \in Clients, lease'[c] \notin {None, lease[c]}
      PROVE  lease'[c] \notin underfunded' \cup quarantined'
  <2>1. CASE UNCHANGED lease
    BY <1>1, <2>1
  <2>2. ASSUME NEW d \in Clients, Acquire(d)
        PROVE  lease'[c] \notin underfunded' \cup quarantined'
    <3>1. PICK w \in Workers :
            w \notin underfunded /\ w \notin quarantined /\ lease' = [lease EXCEPT ![d] = w]
      BY <2>2 DEF Acquire, IsFirst, Idle
    <3>2. lease'[c] = w
      BY <1>1, <3>1 DEF PoolInv, PoolTypeOK
    <3> QED
      BY <2>2, <3>1, <3>2 DEF Acquire
  <2>3. ASSUME NEW d \in Clients, NEW u \in SUBSET Workers, NEW q \in SUBSET Workers,
               ReleaseWith(d, u, q)
        PROVE  lease'[c] \notin underfunded' \cup quarantined'
    <3> DEFINE idle == Idle(busy \ {lease[d]}, u, q)
    <3>0. PICK g \in Grants(idle) : Served(d, g)
      <4>1. PoolInv
        BY <1>1
      <4> QED
        BY <2>3, <4>1, ReleaseGrant
    <3>1. /\ busy' = (busy \ {lease[d]}) \cup Range(g)
          /\ waiters' = SubSeq(waiters, Len(g) + 1, Len(waiters))
          /\ \A i \in 1..Len(g) : lease'[waiters[i]] = g[i]
          /\ \A e \in Clients : (\A i \in 1..Len(g) : waiters[i] # e) =>
                lease'[e] = IF e = d THEN None ELSE lease[e]
      BY <3>0 DEF Served
    <3>2. PICK i \in 1..Len(g) : waiters[i] = c
      BY <1>1, <3>1
    <3>3. idle \subseteq Workers /\ idle \cap (u \cup q) = {}
      BY DEF Idle
    <3>4. g[i] \in idle
      <4> HIDE DEF idle
      <4> QED
        BY <1>1, <3>2, <3>3, GrantFacts DEF PoolInv
    <3> QED
      BY <2>3, <3>1, <3>2, <3>3, <3>4 DEF ReleaseWith
  <2> QED
    BY <1>1, <2>1, <2>2, <2>3, StepKinds
<1>2. PoolInv /\ [PoolNext]_poolVars =>
        [\A c \in Clients :
            lease'[c] \notin {None, lease[c]} => lease'[c] \notin underfunded' \cup quarantined'
        ]_poolVars
  BY <1>1
<1> QED
  BY <1>2, PoolSafe, PTL DEF PoolSpec, GrantsAreUsable

\* The queue is served in order, and the older the caller the earlier in the pool
\* its address.
THEOREM QueueIsServedInOrder == PoolSpec => FirstComeFirstServed
<1>1. ASSUME PoolInv, [PoolNext]_poolVars,
             NEW i \in DOMAIN waiters, NEW k \in DOMAIN waiters,
             i < k, lease'[waiters[k]] # None
      PROVE  lease'[waiters[i]] # None /\ lease'[waiters[i]] < lease'[waiters[k]]
  <2>1. /\ Len(waiters) \in Nat /\ DOMAIN waiters = 1..Len(waiters)
        /\ \A n \in 1..Len(waiters) : waiters[n] \in Clients
    BY <1>1, LenProperties, ElementOfSeq DEF PoolInv, PoolTypeOK
  <2>2. \A n \in 1..Len(waiters) : lease[waiters[n]] = None /\ Parked(waiters[n])
    BY <1>1, <2>1 DEF PoolInv, ExclusiveLease, ToSet, Parked
  <2>3. CASE UNCHANGED lease
    BY <1>1, <2>1, <2>2, <2>3
  <2>4. ASSUME NEW d \in Clients, Acquire(d)
        PROVE  FALSE
    <3>1. lease'[waiters[k]] = lease[waiters[k]]
      BY <1>1, <2>1, <2>2, <2>4 DEF Acquire, Asking, PoolInv, PoolTypeOK
    <3> QED
      BY <1>1, <2>1, <2>2, <3>1
  <2>5. ASSUME NEW d \in Clients, NEW u \in SUBSET Workers, NEW q \in SUBSET Workers,
               ReleaseWith(d, u, q)
        PROVE  lease'[waiters[i]] # None /\ lease'[waiters[i]] < lease'[waiters[k]]
    <3> DEFINE idle == Idle(busy \ {lease[d]}, u, q)
    <3>0. PICK g \in Grants(idle) : Served(d, g)
      <4>1. PoolInv
        BY <1>1
      <4> QED
        BY <2>5, <4>1, ReleaseGrant
    <3>1. /\ busy' = (busy \ {lease[d]}) \cup Range(g)
          /\ waiters' = SubSeq(waiters, Len(g) + 1, Len(waiters))
          /\ \A n \in 1..Len(g) : lease'[waiters[n]] = g[n]
          /\ \A e \in Clients : (\A n \in 1..Len(g) : waiters[n] # e) =>
                lease'[e] = IF e = d THEN None ELSE lease[e]
      BY <3>0 DEF Served
    <3>2. idle \subseteq Workers
      BY DEF Idle
    <3> HIDE DEF idle
    <3>3. /\ Len(g) \in 0..Len(waiters) /\ DOMAIN g = 1..Len(g)
          /\ \A n \in 1..Len(g) : g[n] \in idle
          /\ \A n, m \in 1..Len(g) : g[n] = g[m] => n = m
      BY <1>1, <3>2, GrantFacts DEF PoolInv
    <3>4. k \in 1..Len(g)
      <4>1. PICK n \in 1..Len(g) : waiters[n] = waiters[k]
        BY <1>1, <2>1, <2>2, <3>1
      <4>2. n = k
        BY <1>1, <2>1, <3>3, <4>1 DEF PoolInv, ExclusiveLease, IsInjective
      <4> QED
        BY <4>1, <4>2
    <3>5. i \in 1..Len(g)
      BY <1>1, <2>1, <3>3, <3>4
    <3>6. g[k] \in idle \ {g[m] : m \in 1..(i - 1)}
      <4>1. \A m \in 1..(i - 1) : m \in 1..Len(g) /\ m # k
        BY <1>1, <2>1, <3>3, <3>5
      <4> QED
        BY <3>3, <3>4, <4>1
    <3>7. g[i] <= g[k]
      <4>1. IsFirst(g[i], idle \ {g[m] : m \in 1..(i - 1)})
        BY <3>3, <3>5 DEF Grants
      <4> QED
        BY <3>6, <4>1 DEF IsFirst
    <3>8. g[i] \in Workers /\ g[k] \in Workers /\ g[i] # g[k]
      BY <1>1, <2>1, <3>2, <3>3, <3>4, <3>5
    <3>9. g[i] < g[k] /\ g[i] # None
      <4>1. g[i] \in Nat /\ g[k] \in Nat
        BY <3>8, PoolAssumption DEF Workers
      <4> QED
        BY <3>7, <3>8, <4>1, NoneIsNoWorker
    <3> QED
      BY <3>1, <3>4, <3>5, <3>9
  <2> QED
    BY <1>1, <2>3, <2>4, <2>5, StepKinds
<1>2. PoolInv /\ [PoolNext]_poolVars =>
        [\A i, k \in DOMAIN waiters :
            i < k /\ lease'[waiters[k]] # None =>
                lease'[waiters[i]] # None /\ lease'[waiters[i]] < lease'[waiters[k]]
        ]_poolVars
  BY <1>1
<1> QED
  BY <1>2, PoolSafe, PTL DEF PoolSpec, FirstComeFirstServed

\* Whenever an address is given back, the queue is empty afterwards or no usable
\* address is idle.
THEOREM ReleasesServeTheQueue == PoolSpec => ReleaseServesTheQueue
<1>1. ASSUME PoolInv, [PoolNext]_poolVars,
             NEW c \in Clients, lease[c] # None, lease'[c] # lease[c]
      PROVE  waiters' = <<>> \/ Idle(busy', underfunded', quarantined') = {}
  <2>1. CASE UNCHANGED lease
    BY <1>1, <2>1
  <2>2. ASSUME NEW d \in Clients, Acquire(d) PROVE FALSE
    BY <1>1, <2>2 DEF Acquire, Asking, PoolInv, PoolTypeOK
  <2>3. ASSUME NEW d \in Clients, NEW u \in SUBSET Workers, NEW q \in SUBSET Workers,
               ReleaseWith(d, u, q)
        PROVE  waiters' = <<>> \/ Idle(busy', underfunded', quarantined') = {}
    <3> DEFINE idle == Idle(busy \ {lease[d]}, u, q)
    <3>0. PICK g \in Grants(idle) : Served(d, g)
      <4>1. PoolInv
        BY <1>1
      <4> QED
        BY <2>3, <4>1, ReleaseGrant
    <3>1. /\ busy' = (busy \ {lease[d]}) \cup Range(g)
          /\ waiters' = SubSeq(waiters, Len(g) + 1, Len(waiters))
          /\ \A n \in 1..Len(g) : lease'[waiters[n]] = g[n]
          /\ \A e \in Clients : (\A n \in 1..Len(g) : waiters[n] # e) =>
                lease'[e] = IF e = d THEN None ELSE lease[e]
      BY <3>0 DEF Served
    <3>2. idle \subseteq Workers
      BY DEF Idle
    <3>3. DOMAIN g = 1..Len(g) /\ (DOMAIN g = DOMAIN waiters \/ idle = Range(g))
      <4> HIDE DEF idle
      <4> QED
        BY <1>1, <3>2, GrantFacts DEF PoolInv
    <3>4. CASE DOMAIN g = DOMAIN waiters
      <4>1. Len(waiters) \in Nat /\ DOMAIN waiters = 1..Len(waiters) /\ waiters \in Seq(Clients)
        BY <1>1, LenProperties DEF PoolInv, PoolTypeOK
      <4>2. Len(g) = Len(waiters)
        <5> HIDE DEF idle
        <5>1. Len(g) \in 0..Len(waiters)
          BY <1>1, <3>2, GrantFacts DEF PoolInv
        <5>2. Len(g) < Len(waiters) => Len(g) + 1 \in 1..Len(waiters) /\ Len(g) + 1 \notin 1..Len(g)
          BY <4>1, <5>1
        <5>3. 1..Len(g) = 1..Len(waiters)
          BY <3>3, <3>4, <4>1
        <5>4. ~(Len(g) < Len(waiters))
          BY <5>2, <5>3
        <5> QED
          BY <4>1, <5>1, <5>4
      <4>3. Len(waiters') = 0 /\ waiters' \in Seq(Clients)
        BY <3>1, <4>1, <4>2, SubSeqProperties
      <4> QED
        BY <4>3, EmptySeq
    <3>5. CASE idle = Range(g)
      BY <2>3, <3>1, <3>5 DEF ReleaseWith, Idle
    <3> QED
      BY <3>3, <3>4, <3>5
  <2> QED
    BY <1>1, <2>1, <2>2, <2>3, StepKinds
<1>2. PoolInv /\ [PoolNext]_poolVars =>
        [(\E c \in Clients : lease[c] # None /\ lease'[c] # lease[c]) =>
            waiters' = <<>> \/ Idle(busy', underfunded', quarantined') = {}
        ]_poolVars
  BY <1>1
<1> QED
  BY <1>2, PoolSafe, PTL DEF PoolSpec, ReleaseServesTheQueue
=============================================================================
