------------------------- MODULE RateLimiterProofs -------------------------
(***************************************************************************)
(* Proofs about the sliding window, for any limit and any window.          *)
(***************************************************************************)
EXTENDS RateLimiter, SequenceTheorems, FiniteSetTheorems, WellFoundedInduction, TLAPS

\* Every nonempty set of naturals has a least element.
LEMMA LeastNat ==
    ASSUME NEW T, T \subseteq Nat, T # {}
    PROVE  \E x \in T : \A y \in T : x <= y
<1> DEFINE R == OpToRel(<, Nat)
<1>1. IsWellFoundedOn(R, Nat)
  BY NatLessThanWellFounded, Zenon
<1>2. PICK x \in T : \A y \in T : <<y, x>> \notin R
  <2> HIDE DEF R
  <2> QED
    BY <1>1, WFMin
<1>3. \A y \in T : ~(y < x)
  BY <1>2 DEF OpToRel
<1> QED
  BY <1>3

\* What a prune drops: the hits before the first one inside the window.
LEMMA PruneFacts ==
    ASSUME NEW h \in Seq(0..MaxTime), NEW t \in Int
    PROVE  \E k \in 0..Len(h) :
            /\ Expired(h, t, k)
            /\ Prune(h, t) \in Seq(0..MaxTime)
            /\ Len(Prune(h, t)) = Len(h) - k
            /\ \A i \in 1..(Len(h) - k) : Prune(h, t)[i] = h[k + i]
<1>1. /\ Len(h) \in Nat /\ \A i \in 1..Len(h) : h[i] \in 0..MaxTime
      /\ WindowMs \in Nat /\ MaxTime \in Nat
  BY LenProperties, ElementOfSeq, LimiterAssumption
<1>2. \E k \in 0..Len(h) : Expired(h, t, k)
  <2> DEFINE T == {k \in 0..Len(h) : k = Len(h) \/ h[k + 1] > t - WindowMs}
  <2>1. Len(h) \in T /\ T \subseteq Nat
    BY <1>1
  <2>2. PICK k \in T : \A y \in T : k <= y
    <3> HIDE DEF T
    <3> QED
      BY <2>1, LeastNat
  <2>3. ASSUME NEW i \in 1..k PROVE h[i] <= t - WindowMs
    <3>1. i \in Int /\ k \in Int /\ k <= Len(h) /\ 1 <= i /\ i <= k
      BY <1>1, <2>2, <2>3
    <3>2. i - 1 \in 0..Len(h) /\ i - 1 # Len(h) /\ ~(k <= i - 1) /\ (i - 1) + 1 = i
      BY <1>1, <3>1
    <3>3. i - 1 \notin T
      <4> HIDE DEF T
      <4> QED
        BY <2>2, <3>2
    <3>4. ~(h[i] > t - WindowMs)
      BY <3>2, <3>3
    <3>5. h[i] \in Int /\ t - WindowMs \in Int
      BY <1>1, <3>1
    <3> QED
      BY <3>4, <3>5
  <2> QED
    BY <1>1, <2>2, <2>3 DEF Expired
<1>3. PICK k \in 0..Len(h) : Expired(h, t, k) /\ Prune(h, t) = SubSeq(h, k + 1, Len(h))
  BY <1>2 DEF Prune
<1>4. \A i \in (k + 1)..Len(h) : h[i] \in 0..MaxTime
  BY <1>1
<1>5. /\ SubSeq(h, k + 1, Len(h)) \in Seq(0..MaxTime)
      /\ Len(SubSeq(h, k + 1, Len(h))) = IF k + 1 <= Len(h) THEN Len(h) - (k + 1) + 1 ELSE 0
      /\ \A i \in 1..(Len(h) - (k + 1) + 1) : SubSeq(h, k + 1, Len(h))[i] = h[(k + 1) + i - 1]
  BY <1>1, <1>4, SubSeqProperties
<1>6. Len(Prune(h, t)) = Len(h) - k
  BY <1>1, <1>3, <1>5
<1>7. \A i \in 1..(Len(h) - k) : Prune(h, t)[i] = h[k + i]
  BY <1>1, <1>3, <1>5
<1> QED
  BY <1>3, <1>5, <1>6, <1>7

-----------------------------------------------------------------------------
(***************************************************************************)
(* The inductive invariant: the hits are the latest admissions, at most    *)
(* Limit of them, and the admissions they leave out are a window old.      *)
(***************************************************************************)
LatestAdmissions(h) ==
    /\ Len(h) <= Len(admitted)
    /\ \A i \in 1..Len(h) : h[i] = admitted[(Len(admitted) - Len(h)) + i]
    /\ \A i \in 1..(Len(admitted) - Len(h)) : admitted[i] <= now - WindowMs

LimiterInv ==
    /\ LimiterTypeOK
    /\ LatestAdmissions(hits)
    /\ Len(hits) <= Limit
    /\ WindowBound

LEMMA LimiterTypes ==
    ASSUME LimiterTypeOK
    PROVE  /\ now \in Nat /\ MaxTime \in Nat /\ Limit \in Nat /\ WindowMs \in Nat \ {0}
           /\ Len(hits) \in Nat /\ Len(admitted) \in Nat
           /\ DOMAIN hits = 1..Len(hits) /\ DOMAIN admitted = 1..Len(admitted)
           /\ \A i \in 1..Len(hits) : hits[i] \in Nat
           /\ \A i \in 1..Len(admitted) : admitted[i] \in Nat
<1>1. hits \in Seq(0..MaxTime) /\ admitted \in Seq(0..MaxTime) /\ now \in 0..MaxTime
  BY DEF LimiterTypeOK
<1>2. MaxTime \in Nat /\ Limit \in Nat /\ WindowMs \in Nat \ {0}
  BY LimiterAssumption
<1> QED
  BY <1>1, <1>2, LenProperties, ElementOfSeq

\* Pruning keeps the hits the latest admissions.
LEMMA PrunedHits ==
    ASSUME LimiterInv
    PROVE  /\ Prune(hits, now) \in Seq(0..MaxTime)
           /\ Len(Prune(hits, now)) \in 0..Len(hits)
           /\ LatestAdmissions(Prune(hits, now))
<1>1. /\ now \in Nat /\ WindowMs \in Nat /\ Len(hits) \in Nat /\ Len(admitted) \in Nat
      /\ hits \in Seq(0..MaxTime) /\ \A i \in 1..Len(admitted) : admitted[i] \in Nat
  BY LimiterTypes DEF LimiterInv, LimiterTypeOK
<1>2. PICK k \in 0..Len(hits) :
        /\ Expired(hits, now, k)
        /\ Prune(hits, now) \in Seq(0..MaxTime)
        /\ Len(Prune(hits, now)) = Len(hits) - k
        /\ \A i \in 1..(Len(hits) - k) : Prune(hits, now)[i] = hits[k + i]
  <2>1. now \in Int
    BY <1>1
  <2> QED
    BY <1>1, <2>1, PruneFacts
<1>3. /\ Len(hits) <= Len(admitted)
      /\ \A i \in 1..Len(hits) : hits[i] = admitted[(Len(admitted) - Len(hits)) + i]
      /\ \A i \in 1..(Len(admitted) - Len(hits)) : admitted[i] <= now - WindowMs
  BY DEF LimiterInv, LatestAdmissions
<1> DEFINE p == Prune(hits, now)
<1>4. Len(p) <= Len(admitted)
  BY <1>1, <1>2, <1>3
<1>5. ASSUME NEW i \in 1..Len(p) PROVE p[i] = admitted[(Len(admitted) - Len(p)) + i]
  <2>1. i \in 1..(Len(hits) - k) /\ k + i \in 1..Len(hits)
    BY <1>1, <1>2, <1>5
  <2>2. p[i] = hits[k + i]
    BY <1>2, <2>1
  <2>3. (Len(admitted) - Len(hits)) + (k + i) = (Len(admitted) - Len(p)) + i
    BY <1>1, <1>2, <1>5
  <2> QED
    BY <1>3, <2>1, <2>2, <2>3
<1>6. ASSUME NEW i \in 1..(Len(admitted) - Len(p)) PROVE admitted[i] <= now - WindowMs
  <2>1. CASE i <= Len(admitted) - Len(hits)
    BY <1>1, <1>3, <1>6, <2>1
  <2>2. CASE i > Len(admitted) - Len(hits)
    <3>1. /\ i \in Int /\ k \in Int /\ Len(p) \in Int /\ Len(p) = Len(hits) - k
          /\ i <= Len(admitted) - Len(p)
      BY <1>1, <1>2, <1>6
    <3>2. PICK m \in 1..k : i = (Len(admitted) - Len(hits)) + m
      <4> HIDE DEF p
      <4>1. i - (Len(admitted) - Len(hits)) \in 1..k
        BY <1>1, <2>2, <3>1
      <4> QED
        BY <1>1, <3>1, <4>1
    <3>3. m \in 1..Len(hits) /\ hits[m] <= now - WindowMs
      BY <1>1, <1>2, <3>2 DEF Expired
    <3> QED
      BY <1>3, <3>2, <3>3
  <2> QED
    BY <1>1, <1>6, <2>1, <2>2
<1>7. Len(p) \in 0..Len(hits)
  BY <1>1, <1>2
<1> QED
  BY <1>2, <1>4, <1>5, <1>6, <1>7 DEF LatestAdmissions

LEMMA LimiterInitInv == LimiterInit => LimiterInv
<1> SUFFICES ASSUME LimiterInit PROVE LimiterInv
  OBVIOUS
<1>1. LimiterTypeOK
  BY EmptySeq, LimiterAssumption DEF LimiterInit, LimiterTypeOK
<1>2. hits = <<>> /\ admitted = <<>> /\ Len(hits) = 0 /\ Len(admitted) = 0
  BY DEF LimiterInit
<1>3. DOMAIN admitted = {}
  BY <1>2
<1>4. LatestAdmissions(hits) /\ Len(hits) <= Limit
  BY <1>2, LimiterAssumption DEF LatestAdmissions
<1> QED
  BY <1>1, <1>3, <1>4 DEF LimiterInv, WindowBound

\* Refuse and Query: only the prune.
LEMMA PruneInv ==
    ASSUME LimiterInv, hits' = Prune(hits, now), UNCHANGED <<now, admitted>>
    PROVE  LimiterInv'
<1>1. /\ hits' \in Seq(0..MaxTime) /\ Len(hits') \in 0..Len(hits) /\ LatestAdmissions(hits)'
  BY PrunedHits DEF LatestAdmissions
<1>2. Len(hits') <= Limit
  BY <1>1, LimiterTypes DEF LimiterInv
<1> QED
  BY <1>1, <1>2 DEF LimiterInv, LimiterTypeOK, WindowBound

LEMMA AdmitInv == ASSUME LimiterInv, Admit PROVE LimiterInv'
<1> DEFINE p == Prune(hits, now)
           n == Len(admitted)
           m == Len(p)
<1>1. /\ now \in 0..MaxTime /\ admitted \in Seq(0..MaxTime) /\ p \in Seq(0..MaxTime)
      /\ now \in Nat /\ WindowMs \in Nat /\ Limit \in Nat /\ n \in Nat /\ m \in Nat
      /\ DOMAIN admitted = 1..n /\ m <= n /\ m < Limit
      /\ \A i \in 1..n : admitted[i] \in Nat
  BY PrunedHits, LimiterTypes DEF LimiterInv, LimiterTypeOK, Admit, HasRoom, LatestAdmissions
<1>2. /\ \A i \in 1..m : p[i] = admitted[(n - m) + i]
      /\ \A i \in 1..(n - m) : admitted[i] <= now - WindowMs
  BY PrunedHits DEF LatestAdmissions
<1>3. hits' = Append(p, now) /\ admitted' = Append(admitted, now) /\ now' = now
  BY DEF Admit
<1> HIDE DEF p
<1>4. /\ hits' \in Seq(0..MaxTime) /\ Len(hits') = m + 1
      /\ \A i \in 1..m : hits'[i] = p[i]
      /\ hits'[m + 1] = now
  BY <1>1, <1>3
<1>5. /\ admitted' \in Seq(0..MaxTime) /\ Len(admitted') = n + 1
      /\ \A i \in 1..n : admitted'[i] = admitted[i]
      /\ admitted'[n + 1] = now
  BY <1>1, <1>3
<1>6. LatestAdmissions(hits)'
  <2>1. (n + 1) - (m + 1) = n - m /\ m + 1 <= n + 1
    BY <1>1
  <2>2. ASSUME NEW i \in 1..(m + 1) PROVE hits'[i] = admitted'[(n - m) + i]
    <3>1. CASE i \in 1..m
      <4>1. (n - m) + i \in 1..n
        BY <1>1, <3>1
      <4> QED
        BY <1>2, <1>4, <1>5, <3>1, <4>1
    <3>2. CASE i = m + 1
      <4>1. (n - m) + i = n + 1
        BY <1>1, <3>2
      <4> QED
        BY <1>4, <1>5, <3>2, <4>1
    <3> QED
      BY <1>1, <2>2, <3>1, <3>2
  <2>3. ASSUME NEW i \in 1..(n - m) PROVE admitted'[i] <= now' - WindowMs
    <3>1. i \in 1..n
      BY <1>1, <2>3
    <3> QED
      BY <1>2, <1>3, <1>5, <2>3, <3>1
  <2> QED
    BY <1>4, <1>5, <2>1, <2>2, <2>3 DEF LatestAdmissions
<1>7. WindowBound'
  <2>1. DOMAIN admitted' = 1..(n + 1)
    BY <1>5, LenProperties
  <2> SUFFICES ASSUME NEW i \in 1..(n + 1), i + Limit \in 1..(n + 1)
               PROVE  admitted'[i + Limit] - admitted'[i] >= WindowMs
    BY <2>1 DEF WindowBound
  <2>2. CASE i + Limit \in 1..n
    <3>1. i \in 1..n
      BY <1>1, <2>2
    <3>2. admitted[i + Limit] - admitted[i] >= WindowMs
      BY <1>1, <2>2, <3>1 DEF LimiterInv, WindowBound
    <3> QED
      BY <1>5, <2>2, <3>1, <3>2
  <2>3. CASE i + Limit = n + 1
    <3>1. i \in 1..(n - m) /\ i \in 1..n
      BY <1>1, <2>3
    <3>2. admitted'[i] = admitted[i] /\ admitted[i] <= now - WindowMs /\ admitted[i] \in Nat
      BY <1>1, <1>2, <1>5, <3>1
    <3>3. admitted'[i + Limit] = now
      BY <1>5, <2>3
    <3> QED
      BY <1>1, <3>2, <3>3
  <2> QED
    BY <1>1, <2>2, <2>3
<1>8. Len(hits') <= Limit /\ LimiterTypeOK'
  BY <1>1, <1>3, <1>4, <1>5 DEF LimiterTypeOK
<1> QED
  BY <1>6, <1>7, <1>8 DEF LimiterInv

LEMMA TickInv == ASSUME LimiterInv, Tick PROVE LimiterInv'
<1>1. now' = now + 1 /\ now < MaxTime /\ UNCHANGED <<hits, admitted>>
  BY DEF Tick
<1>2. now \in Nat /\ MaxTime \in Nat /\ WindowMs \in Nat /\ Len(hits) \in Nat /\ Len(admitted) \in Nat
      /\ \A i \in 1..Len(admitted) : admitted[i] \in Nat
  BY LimiterTypes DEF LimiterInv
<1>3. LimiterTypeOK'
  BY <1>1, <1>2 DEF LimiterInv, LimiterTypeOK
<1>4. \A i \in 1..(Len(admitted) - Len(hits)) : admitted[i] <= now' - WindowMs
  <2> TAKE i \in 1..(Len(admitted) - Len(hits))
  <2>1. admitted[i] <= now - WindowMs /\ admitted[i] \in Nat
    BY <1>2 DEF LimiterInv, LatestAdmissions
  <2> QED
    BY <1>1, <1>2, <2>1
<1>5. LatestAdmissions(hits)'
  BY <1>1, <1>4 DEF LimiterInv, LatestAdmissions
<1> QED
  BY <1>1, <1>3, <1>5 DEF LimiterInv, WindowBound

LEMMA LimiterStepInv == LimiterInv /\ [LimiterNext]_limiterVars => LimiterInv'
<1> SUFFICES ASSUME LimiterInv, [LimiterNext]_limiterVars PROVE LimiterInv'
  OBVIOUS
<1>1. CASE Refuse \/ Query
  BY <1>1, PruneInv DEF Refuse, Query
<1>2. CASE UNCHANGED limiterVars
  BY <1>2 DEF limiterVars, LimiterInv, LimiterTypeOK, LatestAdmissions, WindowBound
<1> QED
  BY <1>1, <1>2, AdmitInv, TickInv DEF LimiterNext

-----------------------------------------------------------------------------
(***************************************************************************)
(* The theorems.                                                           *)
(***************************************************************************)

\* The inductive invariant holds in every run of the limiter.
THEOREM LimiterSafe == LimiterSpec => []LimiterInv
  BY LimiterInitInv, LimiterStepInv, PTL DEF LimiterSpec

\* No window, wherever it starts, sees more admissions than the limit.
THEOREM WindowIsBounded == LimiterSpec => []WindowBound
<1>1. LimiterInv => WindowBound
  BY DEF LimiterInv
<1> QED
  BY <1>1, LimiterSafe, PTL

\* A later prune drops no less.
LEMMA LaterDropsMore ==
    ASSUME NEW h \in Seq(0..MaxTime), NEW t \in Int, NEW wait \in Nat,
           NEW k \in 0..Len(h), Expired(h, t, k),
           NEW l \in 0..Len(h), Expired(h, t + wait, l)
    PROVE  k <= l
<1> SUFFICES ASSUME l < k PROVE FALSE
  BY LenProperties
<1>1. /\ Len(h) \in Nat /\ WindowMs \in Nat /\ l + 1 \in 1..k /\ l + 1 \in 1..Len(h) /\ l # Len(h)
  BY LenProperties, LimiterAssumption
<1>2. h[l + 1] \in Nat
  <2>1. \A i \in 1..Len(h) : h[i] \in 0..MaxTime
    BY ElementOfSeq
  <2>2. h[l + 1] \in 0..MaxTime
    BY <1>1, <2>1
  <2> QED
    BY <2>2, LimiterAssumption
<1>3. h[l + 1] <= t - WindowMs /\ h[l + 1] > (t + wait) - WindowMs
  BY <1>1 DEF Expired
<1> QED
  BY <1>1, <1>2, <1>3

\* What has room has room later ...
LEMMA RoomStays ==
    ASSUME NEW h \in Seq(0..MaxTime), NEW t \in Int, NEW wait \in Nat, HasRoom(Prune(h, t))
    PROVE  HasRoom(Prune(h, t + wait))
<1>1. Len(h) \in Nat /\ Limit \in Nat /\ t + wait \in Int
  BY LenProperties, LimiterAssumption
<1>2. PICK k \in 0..Len(h) : Expired(h, t, k) /\ Len(Prune(h, t)) = Len(h) - k
  BY PruneFacts
<1>3. PICK l \in 0..Len(h) : Expired(h, t + wait, l) /\ Len(Prune(h, t + wait)) = Len(h) - l
  BY <1>1, PruneFacts
<1>4. k <= l
  BY <1>2, <1>3, LaterDropsMore
<1> QED
  BY <1>1, <1>2, <1>3, <1>4 DEF HasRoom

\* ... and a prune in between takes none away.
LEMMA RoomSurvivesPrune ==
    ASSUME NEW h \in Seq(0..MaxTime), NEW t \in Int, NEW u \in Int, HasRoom(Prune(h, u))
    PROVE  HasRoom(Prune(Prune(h, t), u))
<1> DEFINE p == Prune(h, t)
<1>1. Len(h) \in Nat /\ Limit \in Nat /\ WindowMs \in Nat /\ \A i \in 1..Len(h) : h[i] \in Nat
  <2>1. \A i \in 1..Len(h) : h[i] \in 0..MaxTime
    BY ElementOfSeq
  <2> QED
    BY <2>1, LenProperties, LimiterAssumption
<1>2. PICK k \in 0..Len(h) :
        /\ p \in Seq(0..MaxTime)
        /\ Len(p) = Len(h) - k
        /\ \A i \in 1..(Len(h) - k) : p[i] = h[k + i]
  BY PruneFacts
<1>3. PICK l \in 0..Len(h) : Expired(h, u, l) /\ Len(Prune(h, u)) = Len(h) - l
  BY PruneFacts
<1> HIDE DEF p
<1>4. PICK m \in 0..Len(p) : Expired(p, u, m) /\ Len(Prune(p, u)) = Len(p) - m
  BY <1>2, PruneFacts
<1>5. k + m >= l
  <2> SUFFICES ASSUME ~(k + m >= l) PROVE FALSE
    OBVIOUS
  <2>1. m # Len(p) /\ m + 1 \in 1..(Len(h) - k) /\ (k + m) + 1 \in 1..l /\ (k + m) + 1 \in 1..Len(h)
    BY <1>1, <1>2, <1>3, <1>4
  <2>2. p[m + 1] > u - WindowMs /\ p[m + 1] = h[k + (m + 1)] /\ k + (m + 1) = (k + m) + 1
    BY <1>1, <1>2, <1>4, <2>1 DEF Expired
  <2>3. h[(k + m) + 1] <= u - WindowMs /\ h[(k + m) + 1] \in Nat
    BY <1>1, <1>3, <2>1 DEF Expired
  <2> QED
    BY <1>1, <2>2, <2>3
<1>6. Len(Prune(p, u)) <= Len(Prune(h, u))
  BY <1>1, <1>2, <1>3, <1>4, <1>5
<1>7. Len(Prune(p, u)) < Limit
  BY <1>1, <1>2, <1>3, <1>4, <1>6 DEF HasRoom
<1> QED
  BY <1>7 DEF HasRoom, p

\* The hits make room once the reported time has passed, and no sooner ...
LEMMA RoomAfter ==
    ASSUME LimiterTypeOK, Len(hits) <= Limit, Limit > 0, NEW wait \in Nat
    PROVE  HasRoom(Prune(hits, now + wait)) <=> wait >= RetryAfterMs(Prune(hits, now), now)
<1>1. /\ now \in Int /\ now + wait \in Int /\ wait \in Nat /\ WindowMs \in Nat /\ Limit \in Nat
      /\ hits \in Seq(0..MaxTime) /\ Len(hits) \in Nat /\ Len(hits) <= Limit
      /\ \A i \in 1..Len(hits) : hits[i] \in Nat
  BY LimiterTypes DEF LimiterTypeOK
<1>2. PICK k \in 0..Len(hits) :
        /\ Expired(hits, now, k)
        /\ Len(Prune(hits, now)) = Len(hits) - k
        /\ \A i \in 1..(Len(hits) - k) : Prune(hits, now)[i] = hits[k + i]
  BY <1>1, PruneFacts
<1>3. PICK l \in 0..Len(hits) :
        /\ Expired(hits, now + wait, l)
        /\ Len(Prune(hits, now + wait)) = Len(hits) - l
  BY <1>1, PruneFacts
<1>4. k <= l
  BY <1>1, <1>2, <1>3, LaterDropsMore
<1>5. CASE Len(hits) - k < Limit
  <2>1. RetryAfterMs(Prune(hits, now), now) = 0
    BY <1>1, <1>2, <1>5 DEF RetryAfterMs
  <2>2. Len(Prune(hits, now + wait)) < Limit
    BY <1>1, <1>2, <1>3, <1>4, <1>5
  <2> QED
    BY <1>1, <2>1, <2>2 DEF HasRoom
<1>6. CASE ~(Len(hits) - k < Limit)
  <2>1. k = 0 /\ Len(hits) = Limit /\ 1 \in 1..Len(hits)
    BY <1>1, <1>2, <1>6
  <2>2. Prune(hits, now)[1] = hits[1] /\ Len(Prune(hits, now)) = Limit
    BY <1>2, <2>1
  <2>3. hits[1] \in Nat /\ hits[1] > now - WindowMs
    BY <1>1, <1>2, <2>1 DEF Expired
  <2>4. RetryAfterMs(Prune(hits, now), now) = (hits[1] + WindowMs) - now
    BY <1>1, <2>2, <2>3 DEF RetryAfterMs, NotNegative
  <2>5. l >= 1 <=> hits[1] <= (now + wait) - WindowMs
    <3>1. l \in Nat /\ l <= Len(hits)
      BY <1>1, <1>3
    <3>2. CASE l >= 1
      <4>1. 1 \in 1..l
        BY <3>1, <3>2
      <4> QED
        BY <1>3, <3>2, <4>1 DEF Expired
    <3>3. CASE ~(l >= 1)
      <4>1. l = 0 /\ l # Len(hits) /\ l + 1 = 1
        BY <2>1, <3>1, <3>3, <1>1
      <4>2. hits[1] > (now + wait) - WindowMs
        BY <1>3, <4>1 DEF Expired
      <4> QED
        BY <1>1, <2>3, <3>3, <4>2
    <3> QED
      BY <3>2, <3>3
  <2>6. HasRoom(Prune(hits, now + wait)) <=> l >= 1
    BY <1>1, <1>3, <2>1 DEF HasRoom
  <2> QED
    BY <1>1, <2>3, <2>4, <2>5, <2>6
<1> QED
  BY <1>5, <1>6

LEMMA RetryAfterFollows == LimiterTypeOK /\ Len(hits) <= Limit => RetryAfterIsExact
  BY RoomAfter, LimiterAssumption DEF RetryAfterIsExact

\* ... so the Retry-After is exact.
THEOREM RetryAfterExact == LimiterSpec => []RetryAfterIsExact
<1>1. LimiterInv => RetryAfterIsExact
  BY RetryAfterFollows DEF LimiterInv
<1> QED
  BY <1>1, LimiterSafe, PTL
-----------------------------------------------------------------------------
(***************************************************************************)
(* Admissions are recorded in the order of the clock, so that the ones in  *)
(* the window are the last ones.                                           *)
(***************************************************************************)
ClockOrder ==
    /\ LimiterTypeOK
    /\ \A i \in 1..Len(admitted) : admitted[i] <= now
    /\ \A i, j \in 1..Len(admitted) : i <= j => admitted[i] <= admitted[j]

LEMMA ClockOrderStep ==
    ASSUME LimiterInv, ClockOrder, [LimiterNext]_limiterVars
    PROVE  ClockOrder'
<1>1. LimiterTypeOK'
  BY LimiterStepInv DEF LimiterInv
<1>2. /\ now \in Nat /\ Len(admitted) \in Nat /\ admitted \in Seq(0..MaxTime)
      /\ \A i \in 1..Len(admitted) : admitted[i] \in Nat
  BY LimiterTypes DEF ClockOrder, LimiterTypeOK
<1>3. CASE Admit
  <2>1. now' = now /\ admitted' = Append(admitted, now)
    BY <1>3 DEF Admit
  <2>2. /\ Len(admitted') = Len(admitted) + 1
        /\ \A i \in 1..Len(admitted) : admitted'[i] = admitted[i]
        /\ admitted'[Len(admitted) + 1] = now
    BY <1>2, <2>1
  <2>3. \A i \in 1..Len(admitted') : admitted'[i] <= now'
    BY <1>2, <2>1, <2>2 DEF ClockOrder
  <2>4. ASSUME NEW i \in 1..Len(admitted'), NEW j \in 1..Len(admitted'), i <= j
        PROVE  admitted'[i] <= admitted'[j]
    <3>1. CASE j = Len(admitted) + 1
      BY <2>1, <2>2, <2>3, <3>1
    <3>2. CASE j # Len(admitted) + 1
      <4>1. i \in 1..Len(admitted) /\ j \in 1..Len(admitted)
        BY <1>2, <2>2, <2>4, <3>2
      <4> QED
        BY <2>2, <2>4, <4>1 DEF ClockOrder
    <3> QED
      BY <3>1, <3>2
  <2> QED
    BY <1>1, <2>3, <2>4 DEF ClockOrder
<1>4. CASE Tick
  <2>1. now' = now + 1 /\ admitted' = admitted
    BY <1>4 DEF Tick
  <2>2. \A i \in 1..Len(admitted) : admitted[i] <= now + 1
    <3> TAKE i \in 1..Len(admitted)
    <3>1. admitted[i] \in Nat /\ admitted[i] <= now
      BY <1>2 DEF ClockOrder
    <3> QED
      BY <1>2, <3>1
  <2> QED
    BY <1>1, <2>1, <2>2 DEF ClockOrder
<1>5. CASE Refuse \/ Query \/ UNCHANGED limiterVars
  <2>1. now' = now /\ admitted' = admitted
    BY <1>5 DEF Refuse, Query, limiterVars
  <2> QED
    BY <1>1, <2>1 DEF ClockOrder
<1> QED
  BY <1>3, <1>4, <1>5 DEF LimiterNext

LEMMA ClockOrdered == LimiterSpec => []ClockOrder
<1>1. LimiterInit => ClockOrder
  <2> SUFFICES ASSUME LimiterInit PROVE ClockOrder
    OBVIOUS
  <2>1. LimiterTypeOK /\ Len(admitted) = 0
    BY LimiterInitInv DEF LimiterInv, LimiterInit
  <2> QED
    BY <2>1 DEF ClockOrder
<1> QED
  BY <1>1, ClockOrderStep, LimiterSafe, PTL DEF LimiterSpec

\* The hits that a prune leaves are the admissions in the window, one by one.
LEMMA UsedFollows == ASSUME LimiterInv, ClockOrder PROVE UsedIsExact
<1> DEFINE p == Prune(hits, now)
           n == Len(admitted)
           m == Len(p)
<1>1. /\ now \in Int /\ n \in Nat /\ WindowMs \in Nat /\ Len(hits) \in Nat
      /\ DOMAIN admitted = 1..n /\ hits \in Seq(0..MaxTime)
      /\ \A i \in 1..n : admitted[i] \in Nat
  BY LimiterTypes DEF LimiterInv, LimiterTypeOK
<1>2. PICK k \in 0..Len(hits) :
        /\ Expired(hits, now, k)
        /\ m = Len(hits) - k
        /\ \A i \in 1..(Len(hits) - k) : p[i] = hits[k + i]
  BY <1>1, PruneFacts
<1>3. /\ m \in Nat /\ m <= n
      /\ \A i \in 1..m : p[i] = admitted[(n - m) + i]
      /\ \A i \in 1..(n - m) : admitted[i] <= now - WindowMs
  BY <1>1, PrunedHits DEF LatestAdmissions
<1> HIDE DEF p
<1>4. ASSUME NEW i \in ((n - m) + 1)..n PROVE admitted[i] > now - WindowMs
  <2>1. k # Len(hits) /\ 1 \in 1..m /\ (n - m) + 1 \in 1..n /\ i \in 1..n /\ (n - m) + 1 <= i
    BY <1>1, <1>2, <1>3, <1>4
  <2>2. hits[k + 1] > now - WindowMs /\ hits[k + 1] = admitted[(n - m) + 1]
    BY <1>2, <1>3, <2>1 DEF Expired
  <2>3. admitted[(n - m) + 1] <= admitted[i] /\ admitted[i] \in Nat
    BY <1>1, <2>1 DEF ClockOrder
  <2>4. admitted[(n - m) + 1] \in Nat
    BY <1>1, <2>1
  <2> QED
    BY <1>1, <2>2, <2>3, <2>4
<1>5. {i \in DOMAIN admitted : admitted[i] > now - WindowMs} = ((n - m) + 1)..n
  <2>1. ASSUME NEW i \in 1..n, admitted[i] > now - WindowMs PROVE i \in ((n - m) + 1)..n
    <3>1. i \notin 1..(n - m)
      BY <1>1, <1>3, <2>1
    <3> QED
      BY <1>1, <1>3, <3>1
  <2>2. ((n - m) + 1)..n \subseteq 1..n
    BY <1>1, <1>3
  <2> QED
    BY <1>1, <1>4, <2>1, <2>2
<1>6. Cardinality(((n - m) + 1)..n) = m
  <2>1. (n - m) + 1 \in Int /\ n \in Int
    BY <1>1, <1>3
  <2>2. Cardinality(((n - m) + 1)..n) = IF (n - m) + 1 > n THEN 0 ELSE n - ((n - m) + 1) + 1
    BY <2>1, FS_Interval
  <2> QED
    BY <1>1, <1>3, <2>2
<1> QED
  BY <1>5, <1>6 DEF UsedIsExact, p

\* used() is the number of admissions in the window that ends now: no hit is
\* forgotten early, and none is counted late.
THEOREM UsedCountsTheWindow == LimiterSpec => []UsedIsExact
  BY UsedFollows, LimiterSafe, ClockOrdered, PTL

-----------------------------------------------------------------------------
(***************************************************************************)
(* Date.now() can be set back or forward (rateLimiter.ts:23, :31, :42).    *)
(* Then the hits need not be in order, and a window of readings says       *)
(* little; this is what is left.                                           *)
(***************************************************************************)
ClockIsSet == now' \in 0..MaxTime /\ UNCHANGED <<hits, admitted>>

SetClockSpec == LimiterInit /\ [][LimiterNext \/ ClockIsSet]_limiterVars

\* The hits are the last admissions, and no more than the limit.
HitsAreTheLast(h) ==
    /\ Len(h) <= Len(admitted)
    /\ \A i \in 1..Len(h) : h[i] = admitted[(Len(admitted) - Len(h)) + i]

SetClockInv == LimiterTypeOK /\ Len(hits) <= Limit /\ HitsAreTheLast(hits)

\* How many admissions are no longer counted.
Forgotten == Len(admitted) - Len(hits)

LEMMA PrunedHitsAreTheLast ==
    ASSUME SetClockInv
    PROVE  /\ Prune(hits, now) \in Seq(0..MaxTime)
           /\ Len(Prune(hits, now)) \in 0..Len(hits)
           /\ HitsAreTheLast(Prune(hits, now))
           /\ \A i \in (Forgotten + 1)..(Len(admitted) - Len(Prune(hits, now))) :
                admitted[i] <= now - WindowMs
<1>1. /\ now \in Int /\ WindowMs \in Nat /\ Len(hits) \in Nat /\ Len(admitted) \in Nat
      /\ hits \in Seq(0..MaxTime) /\ Len(hits) <= Len(admitted)
      /\ \A i \in 1..Len(hits) : hits[i] = admitted[(Len(admitted) - Len(hits)) + i]
  BY LimiterTypes DEF SetClockInv, LimiterTypeOK, HitsAreTheLast
<1>2. PICK k \in 0..Len(hits) :
        /\ Expired(hits, now, k)
        /\ Prune(hits, now) \in Seq(0..MaxTime)
        /\ Len(Prune(hits, now)) = Len(hits) - k
        /\ \A i \in 1..(Len(hits) - k) : Prune(hits, now)[i] = hits[k + i]
  BY <1>1, PruneFacts
<1> DEFINE p == Prune(hits, now)
<1> HIDE DEF p
<1>3. Len(p) \in 0..Len(hits) /\ Len(p) = Len(hits) - k /\ k \in 0..Len(hits)
  BY <1>1, <1>2 DEF p
<1>4. ASSUME NEW i \in 1..Len(p) PROVE p[i] = admitted[(Len(admitted) - Len(p)) + i]
  <2>1. k + i \in 1..Len(hits) /\ p[i] = hits[k + i]
    BY <1>1, <1>2, <1>3 DEF p
  <2>2. (Len(admitted) - Len(hits)) + (k + i) = (Len(admitted) - Len(p)) + i
    BY <1>1, <1>3
  <2> QED
    BY <1>1, <2>1, <2>2
<1>5. ASSUME NEW i \in (Forgotten + 1)..(Len(admitted) - Len(p))
      PROVE  admitted[i] <= now - WindowMs
  <2>1. /\ i - (Len(admitted) - Len(hits)) \in 1..k
        /\ i - (Len(admitted) - Len(hits)) \in 1..Len(hits)
        /\ (Len(admitted) - Len(hits)) + (i - (Len(admitted) - Len(hits))) = i
    BY <1>1, <1>3 DEF Forgotten
  <2>2. hits[i - (Len(admitted) - Len(hits))] <= now - WindowMs
    BY <1>2, <2>1 DEF Expired
  <2>3. hits[i - (Len(admitted) - Len(hits))] = admitted[i]
    BY <1>1, <2>1
  <2> QED
    BY <2>2, <2>3
<1> QED
  BY <1>1, <1>2, <1>3, <1>4, <1>5 DEF p, HitsAreTheLast

LEMMA SetClockStep ==
    ASSUME SetClockInv, [LimiterNext \/ ClockIsSet]_limiterVars
    PROVE  /\ SetClockInv'
           /\ \A i \in (Forgotten + 1)..Forgotten' : admitted[i] <= now - WindowMs
<1>1. /\ now \in 0..MaxTime /\ Len(hits) \in Nat /\ Len(admitted) \in Nat /\ Limit \in Nat
      /\ MaxTime \in Nat /\ admitted \in Seq(0..MaxTime) /\ Len(hits) <= Limit
  BY LimiterTypes DEF SetClockInv, LimiterTypeOK
<1> DEFINE p == Prune(hits, now)
           n == Len(admitted)
           m == Len(p)
<1>2. /\ p \in Seq(0..MaxTime) /\ m \in 0..Len(hits) /\ m <= n
      /\ \A i \in 1..m : p[i] = admitted[(n - m) + i]
      /\ \A i \in (Forgotten + 1)..(n - m) : admitted[i] <= now - WindowMs
  BY PrunedHitsAreTheLast DEF HitsAreTheLast
<1> HIDE DEF p
<1>3. CASE Admit
  <2>1. hits' = Append(p, now) /\ admitted' = Append(admitted, now) /\ now' = now /\ m < Limit
    BY <1>3 DEF Admit, HasRoom, p
  <2>2. /\ hits' \in Seq(0..MaxTime) /\ Len(hits') = m + 1
        /\ \A i \in 1..m : hits'[i] = p[i]
        /\ hits'[m + 1] = now
    BY <1>1, <1>2, <2>1
  <2>3. /\ admitted' \in Seq(0..MaxTime) /\ Len(admitted') = n + 1
        /\ \A i \in 1..n : admitted'[i] = admitted[i]
        /\ admitted'[n + 1] = now
    BY <1>1, <2>1
  <2>4. ASSUME NEW i \in 1..(m + 1) PROVE hits'[i] = admitted'[(n - m) + i]
    <3>1. CASE i \in 1..m
      <4>1. (n - m) + i \in 1..n
        BY <1>1, <1>2, <3>1
      <4> QED
        BY <1>2, <2>2, <2>3, <3>1, <4>1
    <3>2. CASE i = m + 1
      <4>1. (n - m) + i = n + 1
        BY <1>1, <1>2, <3>2
      <4> QED
        BY <2>2, <2>3, <3>2, <4>1
    <3> QED
      BY <1>2, <2>4, <3>1, <3>2
  <2>5. (n + 1) - (m + 1) = n - m /\ m + 1 <= n + 1 /\ m + 1 <= Limit
    BY <1>1, <1>2, <2>1
  <2>6. SetClockInv'
    <3>1. LimiterTypeOK' /\ Len(hits') <= Limit
      BY <1>1, <2>1, <2>2, <2>3, <2>5 DEF LimiterTypeOK
    <3>2. HitsAreTheLast(hits)'
      BY <2>2, <2>3, <2>4, <2>5 DEF HitsAreTheLast
    <3> QED
      BY <3>1, <3>2 DEF SetClockInv
  <2>7. Forgotten' = n - m
    BY <2>2, <2>3, <2>5 DEF Forgotten
  <2> QED
    BY <1>2, <2>6, <2>7
<1>4. CASE Refuse \/ Query
  <2>1. hits' = p /\ now' = now /\ admitted' = admitted
    BY <1>4 DEF Refuse, Query, p
  <2>2. SetClockInv'
    <3>1. Len(hits') <= Limit
      BY <1>1, <1>2, <2>1
    <3> QED
      BY <1>1, <1>2, <2>1, <3>1 DEF SetClockInv, LimiterTypeOK, HitsAreTheLast
  <2>3. Forgotten' = n - m
    BY <2>1 DEF Forgotten
  <2> QED
    BY <1>2, <2>2, <2>3
<1>5. CASE Tick \/ ClockIsSet \/ UNCHANGED limiterVars
  <2>1. hits' = hits /\ admitted' = admitted /\ now' \in 0..MaxTime
    BY <1>1, <1>5 DEF Tick, ClockIsSet, limiterVars
  <2>2. SetClockInv'
    BY <2>1 DEF SetClockInv, LimiterTypeOK, HitsAreTheLast
  <2>3. Forgotten' = Forgotten /\ Forgotten \in Int
    BY <1>1, <2>1 DEF Forgotten
  <2> QED
    BY <2>2, <2>3
<1> QED
  BY <1>3, <1>4, <1>5 DEF LimiterNext

\* However the clock is set, the limiter counts the last admissions and admits
\* nothing while it counts Limit of them ...
THEOREM SetClockSafe == SetClockSpec => []SetClockInv
<1>1. LimiterInit => SetClockInv
  BY LimiterInitInv DEF LimiterInv, LatestAdmissions, SetClockInv, HitsAreTheLast
<1> QED
  BY <1>1, SetClockStep, PTL DEF SetClockSpec

\* ... it forgets an admission only when the clock reads a window later.  So of any
\* Limit + 1 admissions in a row the clock has read a window past the first by the
\* time of the last ...
THEOREM OnlyOldHitsAreForgotten ==
    SetClockSpec => [][\A i \in (Forgotten + 1)..Forgotten' :
                            admitted[i] <= now - WindowMs]_limiterVars
<1>1. SetClockInv /\ [LimiterNext \/ ClockIsSet]_limiterVars =>
        [\A i \in (Forgotten + 1)..Forgotten' : admitted[i] <= now - WindowMs]_limiterVars
  BY SetClockStep
<1> QED
  BY <1>1, SetClockSafe, PTL DEF SetClockSpec

\* ... and the Retry-After is exact for as long as the clock then runs on, although
\* the hits need not be in order.
THEOREM RetryAfterOnAnyClock == SetClockSpec => []RetryAfterIsExact
<1>1. SetClockInv => RetryAfterIsExact
  BY RetryAfterFollows DEF SetClockInv
<1> QED
  BY <1>1, SetClockSafe, PTL
=============================================================================
