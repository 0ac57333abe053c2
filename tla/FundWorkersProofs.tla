------------------------- MODULE FundWorkersProofs -------------------------
(***************************************************************************)
(* Proofs about the funding sweep, for any pool, caps, fees and answers.   *)
(* The library has no theorem on sums, so the first part proves what the   *)
(* sweep needs of Sum by the least-number principle, which says of a SET   *)
(* of naturals what an induction says of a predicate.                      *)
(***************************************************************************)
EXTENDS FundWorkers, FiniteSetTheorems, WellFoundedInduction, TLAPS

\* Every nonempty set of naturals has a least element.
LEMMA LeastNat ==
    ASSUME NEW T, T \subseteq Nat, T # {}
    PROVE  \E x \in T : \A y \in T : x <= y
<1> DEFINE R == OpToRel(<, Nat)
<1>1. IsWellFoundedOn(R, Nat)
  BY NatLessThanWellFounded, Zenon
<1>2. PICK x \in T : \A y \in T : <<y, x>> \notin R
  <2> HIDE DEF R
  <2> QED
    BY <1>1, WFMin
<1>3. \A y \in T : ~(y < x)
  BY <1>2 DEF OpToRel
<1> QED
  BY <1>3

\* A set of naturals that holds 0 and, with a number, the next one, up to n.
LEMMA UpTo ==
    ASSUME NEW n \in Nat, NEW T, 0 \in T,
           \A i \in 0..(n - 1) : i \in T => i + 1 \in T
    PROVE  \A i \in 0..n : i \in T
<1> SUFFICES ASSUME NEW k \in 0..n, k \notin T PROVE FALSE
  OBVIOUS
<1> DEFINE B == {i \in 0..n : i \notin T}
<1>1. B \subseteq Nat /\ B # {}
  OBVIOUS
<1>2. PICK i \in B : \A j \in B : i <= j
  <2> HIDE DEF B
  <2> QED
    BY <1>1, LeastNat
<1>3. i # 0 /\ i \in 0..n /\ i \notin T
  BY <1>2
<1>4. i - 1 \in 0..(n - 1) /\ i - 1 \in 0..n /\ (i - 1) + 1 = i /\ ~(i <= i - 1)
  BY <1>3
<1>5. i - 1 \in T
  BY <1>2, <1>4
<1> QED
  BY <1>3, <1>4, <1>5

\* g is the sequence of the partial sums of f up to n.
IsPartial(g, f, n) == g = [i \in 0..n |-> IF i = 0 THEN 0 ELSE g[i - 1] + f[i]]

LEMMA SumChosen ==
    ASSUME NEW f, NEW n
    PROVE  Sum(f, n) = (CHOOSE g : IsPartial(g, f, n))[n]
  BY DEF Sum, IsPartial

LEMMA PartialExists ==
    ASSUME NEW f, NEW n \in Nat
    PROVE  \E g : IsPartial(g, f, n)
<1> DEFINE T == {m \in 0..n : \E g : IsPartial(g, f, m)}
<1>1. 0 \in T
  <2>1. IsPartial([i \in 0..0 |-> 0], f, 0)
    BY DEF IsPartial
  <2> QED
    BY <2>1
<1>2. ASSUME NEW m \in 0..(n - 1), m \in T PROVE m + 1 \in T
  <2>1. PICK g : IsPartial(g, f, m)
    BY <1>2
  <2> DEFINE h == [i \in 0..(m + 1) |-> IF i = m + 1 THEN g[m] + f[m + 1] ELSE g[i]]
  <2>2. ASSUME NEW i \in 0..(m + 1) PROVE h[i] = IF i = 0 THEN 0 ELSE h[i - 1] + f[i]
    <3>1. CASE i = m + 1
      BY <3>1
    <3>2. CASE i # m + 1
      <4>1. i \in 0..m
        BY <2>2, <3>2
      <4>2. g[i] = IF i = 0 THEN 0 ELSE g[i - 1] + f[i]
        BY <2>1, <4>1 DEF IsPartial
      <4> QED
        BY <4>1, <4>2
    <3> QED
      BY <3>1, <3>2
  <2>3. h = [i \in 0..(m + 1) |-> h[i]]
    OBVIOUS
  <2> HIDE DEF h
  <2>4. IsPartial(h, f, m + 1)
    BY <2>2, <2>3 DEF IsPartial
  <2>5. m + 1 \in 0..n
    BY <1>2
  <2> QED
    BY <2>4, <2>5
<1> HIDE DEF T
<1>3. n \in T
  <2>1. \A i \in 0..(n - 1) : i \in T => i + 1 \in T
    BY <1>2
  <2>2. \A i \in 0..n : i \in T
    BY <1>1, <2>1, UpTo, Zenon
  <2> QED
    BY <2>2
<1> QED
  BY <1>3 DEF T

LEMMA PartialsAgree ==
    ASSUME NEW f, NEW n \in Nat, NEW m \in Nat, m <= n,
           NEW g, IsPartial(g, f, n), NEW h, IsPartial(h, f, m)
    PROVE  g[m] = h[m]
<1> DEFINE T == {i \in 0..m : g[i] = h[i]}
<1>1. /\ \A i \in 0..n : g[i] = IF i = 0 THEN 0 ELSE g[i - 1] + f[i]
      /\ \A i \in 0..m : h[i] = IF i = 0 THEN 0 ELSE h[i - 1] + f[i]
  BY DEF IsPartial
<1>2. 0 \in T
  BY <1>1
<1>3. ASSUME NEW i \in 0..(m - 1), i \in T PROVE i + 1 \in T
  <2>1. i + 1 \in 0..n /\ i + 1 \in 0..m /\ i + 1 # 0 /\ (i + 1) - 1 = i
    BY <1>3
  <2> QED
    BY <1>1, <1>3, <2>1
<1> HIDE DEF T
<1>4. m \in T
  BY <1>2, <1>3, UpTo
<1> QED
  BY <1>4 DEF T

LEMMA SumEmpty == ASSUME NEW f PROVE Sum(f, 0) = 0
<1>1. PICK g : IsPartial(g, f, 0) /\ Sum(f, 0) = g[0]
  BY SumChosen, PartialExists
<1> QED
  BY <1>1 DEF IsPartial

LEMMA SumNext ==
    ASSUME NEW f, NEW n \in Nat
    PROVE  Sum(f, n + 1) = Sum(f, n) + f[n + 1]
<1>1. PICK g : IsPartial(g, f, n + 1) /\ Sum(f, n + 1) = g[n + 1]
  BY SumChosen, PartialExists
<1>2. PICK h : IsPartial(h, f, n) /\ Sum(f, n) = h[n]
  BY SumChosen, PartialExists
<1>3. g[n] = h[n]
  BY <1>1, <1>2, PartialsAgree
<1>4. g[n + 1] = g[(n + 1) - 1] + f[n + 1]
  BY <1>1 DEF IsPartial
<1> QED
  BY <1>1, <1>2, <1>3, <1>4

-----------------------------------------------------------------------------
LEMMA SumSame ==
    ASSUME NEW f, NEW g, NEW n \in Nat, \A i \in 1..n : f[i] = g[i]
    PROVE  Sum(f, n) = Sum(g, n)
<1> DEFINE T == {i \in 0..n : Sum(f, i) = Sum(g, i)}
<1>1. 0 \in T
  BY SumEmpty
<1>2. ASSUME NEW i \in 0..(n - 1), i \in T PROVE i + 1 \in T
  <2>1. i \in Nat /\ i + 1 \in 0..n /\ i + 1 \in 1..n
    BY <1>2
  <2>2. Sum(f, i + 1) = Sum(f, i) + f[i + 1] /\ Sum(g, i + 1) = Sum(g, i) + g[i + 1]
    BY <2>1, SumNext
  <2> QED
    BY <1>2, <2>1, <2>2
<1> HIDE DEF T
<1>3. n \in T
  <2>1. \A i \in 0..(n - 1) : i \in T => i + 1 \in T
    BY <1>2
  <2>2. \A i \in 0..n : i \in T
    BY <1>1, <2>1, UpTo, Zenon
  <2> QED
    BY <2>2
<1> QED
  BY <1>3 DEF T

LEMMA SumNatural ==
    ASSUME NEW f, NEW n \in Nat, \A i \in 1..n : f[i] \in Nat
    PROVE  Sum(f, n) \in Nat
<1> DEFINE T == {i \in 0..n : Sum(f, i) \in Nat}
<1>1. 0 \in T
  BY SumEmpty
<1>2. ASSUME NEW i \in 0..(n - 1), i \in T PROVE i + 1 \in T
  <2>1. i \in Nat /\ i + 1 \in 0..n /\ i + 1 \in 1..n
    BY <1>2
  <2>2. Sum(f, i + 1) = Sum(f, i) + f[i + 1]
    BY <2>1, SumNext
  <2> QED
    BY <1>2, <2>1, <2>2
<1> HIDE DEF T
<1>3. n \in T
  <2>1. \A i \in 0..(n - 1) : i \in T => i + 1 \in T
    BY <1>2
  <2>2. \A i \in 0..n : i \in T
    BY <1>1, <2>1, UpTo, Zenon
  <2> QED
    BY <2>2
<1> QED
  BY <1>3 DEF T

\* Taking d out of one place takes it out of the sum.
LEMMA SumLess ==
    ASSUME NEW f, NEW g, NEW n \in Nat, NEW k \in 1..n, NEW d \in Nat,
           \A i \in 1..n : g[i] \in Nat /\ f[i] = IF i = k THEN g[i] + d ELSE g[i]
    PROVE  Sum(f, n) = Sum(g, n) + d
<1> DEFINE T == {i \in 0..n : Sum(g, i) \in Nat /\ Sum(f, i) = IF i < k THEN Sum(g, i) ELSE Sum(g, i) + d}
<1>1. 0 \in T
  BY SumEmpty
<1>2. ASSUME NEW i \in 0..(n - 1), i \in T PROVE i + 1 \in T
  <2>1. i \in Nat /\ i + 1 \in 0..n /\ i + 1 \in 1..n
    BY <1>2
  <2>2. Sum(f, i + 1) = Sum(f, i) + f[i + 1] /\ Sum(g, i + 1) = Sum(g, i) + g[i + 1]
    BY <2>1, SumNext
  <2>3. g[i + 1] \in Nat /\ f[i + 1] = IF i + 1 = k THEN g[i + 1] + d ELSE g[i + 1]
    BY <2>1
  <2> QED
    BY <1>2, <2>1, <2>2, <2>3
<1> HIDE DEF T
<1>3. n \in T
  <2>1. \A i \in 0..(n - 1) : i \in T => i + 1 \in T
    BY <1>2
  <2>2. \A i \in 0..n : i \in T
    BY <1>1, <2>1, UpTo, Zenon
  <2> QED
    BY <2>2
<1>4. ~(n < k)
  OBVIOUS
<1> QED
  BY <1>3, <1>4 DEF T

\* The first value and the rest.
LEMMA SumFirst ==
    ASSUME NEW f, NEW g, NEW n \in Nat, \A i \in 1..(n + 1) : f[i] \in Nat,
           \A i \in 1..n : g[i] = f[i + 1]
    PROVE  Sum(f, n + 1) = f[1] + Sum(g, n)
<1> DEFINE T == {i \in 0..n : Sum(g, i) \in Nat /\ Sum(f, i + 1) = f[1] + Sum(g, i)}
<1>1. 0 \in T
  <2>1. Sum(f, 0 + 1) = Sum(f, 0) + f[0 + 1]
    BY SumNext
  <2>2. Sum(f, 0) = 0 /\ Sum(g, 0) = 0 /\ f[1] \in Nat
    BY SumEmpty
  <2> QED
    BY <2>1, <2>2
<1>2. ASSUME NEW i \in 0..(n - 1), i \in T PROVE i + 1 \in T
  <2>1. i \in Nat /\ i + 1 \in Nat /\ i + 1 \in 0..n /\ i + 1 \in 1..n /\ (i + 1) + 1 \in 1..(n + 1)
        /\ 1 \in 1..(n + 1)
    BY <1>2
  <2>2. Sum(f, (i + 1) + 1) = Sum(f, i + 1) + f[(i + 1) + 1] /\ Sum(g, i + 1) = Sum(g, i) + g[i + 1]
    BY <2>1, SumNext
  <2>3. g[i + 1] = f[(i + 1) + 1] /\ g[i + 1] \in Nat /\ f[1] \in Nat
    BY <2>1
  <2> QED
    BY <1>2, <2>1, <2>2, <2>3
<1> HIDE DEF T
<1>3. n \in T
  <2>1. \A i \in 0..(n - 1) : i \in T => i + 1 \in T
    BY <1>2
  <2>2. \A i \in 0..n : i \in T
    BY <1>1, <2>1, UpTo, Zenon
  <2> QED
    BY <2>2
<1> QED
  BY <1>3 DEF T

-----------------------------------------------------------------------------
(***************************************************************************)
(* What a transfer and its receipt do to the sums over the mempool.        *)
(***************************************************************************)
\* The wallet's transfers, what each may take from the wallet and what each
\* brings to one address.
Transfers == [to : Workers, value : Nat, fee : Fees]

Cost(q) == [i \in DOMAIN q |-> q[i].value + q[i].fee]
Value(q, w) == [i \in DOMAIN q |-> IF q[i].to = w THEN q[i].value ELSE 0]

LEMMA TransferFacts ==
    ASSUME NEW q \in Seq(Transfers)
    PROVE  /\ Len(q) \in Nat /\ DOMAIN q = 1..Len(q)
           /\ \A i \in 1..Len(q) : /\ q[i].to \in Workers /\ q[i].value \in Nat
                                   /\ q[i].fee \in Fees /\ q[i].fee \in Nat
                                   /\ Cost(q)[i] \in Nat
                                   /\ \A w \in Workers : Value(q, w)[i] \in Nat
           /\ Sum(Cost(q), Len(q)) \in Nat
           /\ \A w \in Workers : Sum(Value(q, w), Len(q)) \in Nat
<1>1. Len(q) \in Nat /\ DOMAIN q = 1..Len(q)
  OBVIOUS
<1>2. ASSUME NEW i \in 1..Len(q)
      PROVE  /\ q[i].to \in Workers /\ q[i].value \in Nat
             /\ q[i].fee \in Fees /\ q[i].fee \in Nat
             /\ Cost(q)[i] \in Nat
             /\ \A w \in Workers : Value(q, w)[i] \in Nat
  <2>1. q[i] \in Transfers
    BY <1>2
  <2>2. q[i].to \in Workers /\ q[i].value \in Nat /\ q[i].fee \in Fees
    BY <2>1 DEF Transfers
  <2>3. q[i].fee \in Nat
    BY <2>2, SweepAssumption
  <2> QED
    BY <1>1, <2>2, <2>3 DEF Cost, Value
<1>3. Sum(Cost(q), Len(q)) \in Nat
  BY <1>1, <1>2, SumNatural
<1>4. \A w \in Workers : Sum(Value(q, w), Len(q)) \in Nat
  BY <1>1, <1>2, SumNatural
<1> QED
  BY <1>1, <1>2, <1>3, <1>4

LEMMA TransferSent ==
    ASSUME NEW q \in Seq(Transfers), NEW t \in Transfers
    PROVE  LET r == Append(q, t) IN
           /\ r \in Seq(Transfers)
           /\ Sum(Cost(r), Len(r)) = Sum(Cost(q), Len(q)) + (t.value + t.fee)
           /\ \A w \in Workers :
                Sum(Value(r, w), Len(r)) = Sum(Value(q, w), Len(q)) + (IF t.to = w THEN t.value ELSE 0)
<1> DEFINE r == Append(q, t)
           n == Len(q)
<1>1. /\ n \in Nat /\ Len(r) = n + 1 /\ DOMAIN r = 1..(n + 1) /\ DOMAIN q = 1..n /\ r \in Seq(Transfers)
      /\ \A i \in 1..n : r[i] = q[i]
      /\ r[n + 1] = t
  OBVIOUS
<1> HIDE DEF r, n
<1>2. Sum(Cost(r), n) = Sum(Cost(q), n)
  <2>1. \A i \in 1..n : Cost(r)[i] = Cost(q)[i]
    BY <1>1 DEF Cost
  <2> QED
    BY <1>1, <2>1, SumSame
<1>3. Sum(Cost(r), n + 1) = Sum(Cost(r), n) + (t.value + t.fee)
  <2>1. Cost(r)[n + 1] = t.value + t.fee
    <3>1. n + 1 \in DOMAIN r /\ r[n + 1] = t
      BY <1>1
    <3> QED
      BY <3>1, Zenon DEF Cost
  <2> QED
    BY <1>1, <2>1, SumNext
<1>4. ASSUME NEW w \in Workers
      PROVE  Sum(Value(r, w), n + 1) = Sum(Value(q, w), n) + (IF t.to = w THEN t.value ELSE 0)
  <2>1. \A i \in 1..n : Value(r, w)[i] = Value(q, w)[i]
    BY <1>1 DEF Value
  <2>2. Value(r, w)[n + 1] = IF t.to = w THEN t.value ELSE 0
    <3>1. n + 1 \in DOMAIN r /\ r[n + 1] = t
      BY <1>1
    <3> QED
      BY <3>1, Zenon DEF Value
  <2>3. Sum(Value(r, w), n) = Sum(Value(q, w), n)
    BY <1>1, <2>1, SumSame
  <2>4. Sum(Value(r, w), n + 1) = Sum(Value(r, w), n) + Value(r, w)[n + 1]
    BY <1>1, SumNext
  <2> QED
    BY <2>2, <2>3, <2>4
<1> QED
  BY <1>1, <1>2, <1>3, <1>4 DEF r, n

LEMMA TransferMined ==
    ASSUME NEW q \in Seq(Transfers), q # <<>>
    PROVE  LET r == Tail(q)
               t == Head(q)
           IN
           /\ r \in Seq(Transfers) /\ t \in Transfers
           /\ Sum(Cost(q), Len(q)) = (t.value + t.fee) + Sum(Cost(r), Len(r))
           /\ \A w \in Workers :
                Sum(Value(q, w), Len(q)) = (IF t.to = w THEN t.value ELSE 0) + Sum(Value(r, w), Len(r))
<1> DEFINE r == Tail(q)
           t == Head(q)
           n == Len(r)
<1>1. /\ n \in Nat /\ Len(q) = n + 1 /\ DOMAIN q = 1..(n + 1) /\ DOMAIN r = 1..n /\ r \in Seq(Transfers)
      /\ \A i \in 1..n : r[i] = q[i + 1]
      /\ q[1] = t /\ t \in Transfers
  OBVIOUS
<1> HIDE DEF r, t, n
<1>2. Sum(Cost(q), n + 1) = (t.value + t.fee) + Sum(Cost(r), n)
  <2>1. \A i \in 1..n : Cost(r)[i] = Cost(q)[i + 1]
    BY <1>1 DEF Cost
  <2>2. \A i \in 1..(n + 1) : Cost(q)[i] \in Nat
    BY <1>1, TransferFacts
  <2>3. Cost(q)[1] = t.value + t.fee
    <3>1. 1 \in DOMAIN q /\ q[1] = t
      BY <1>1
    <3> QED
      BY <3>1, Zenon DEF Cost
  <2>4. Sum(Cost(q), n + 1) = Cost(q)[1] + Sum(Cost(r), n)
    BY <1>1, <2>1, <2>2, SumFirst
  <2> QED
    BY <2>3, <2>4
<1>3. ASSUME NEW w \in Workers
      PROVE  Sum(Value(q, w), n + 1) = (IF t.to = w THEN t.value ELSE 0) + Sum(Value(r, w), n)
  <2>1. \A i \in 1..n : Value(r, w)[i] = Value(q, w)[i + 1]
    BY <1>1 DEF Value
  <2>2. \A i \in 1..(n + 1) : Value(q, w)[i] \in Nat
    BY <1>1, TransferFacts
  <2>3. Value(q, w)[1] = IF t.to = w THEN t.value ELSE 0
    <3>1. 1 \in DOMAIN q /\ q[1] = t
      BY <1>1
    <3> QED
      BY <3>1, Zenon DEF Value
  <2>4. Sum(Value(q, w), n + 1) = Value(q, w)[1] + Sum(Value(r, w), n)
    BY <1>1, <2>1, <2>2, SumFirst
  <2> QED
    BY <2>3, <2>4
<1> QED
  BY <1>1, <1>2, <1>3 DEF r, t, n

-----------------------------------------------------------------------------
\* The phases that act on the plan.
Spending == {"wallet", "send", "receipt"}

\* The wallet can pay for everything pending.
Solvent == InFlight <= wallet

\* What the sweep knows of its plan.
PlanInv ==
    /\ pc # "idle" => target <= MaxPerAddress
    /\ pc = "check" => \A w \in Workers : read[w] = None
    /\ pc \in {"check", "read", "wallet"} => sent = 0
    /\ pc \in Spending => AllRead /\ \A w \in plan : read[w] < target
    /\ pc = "wallet" => plan = Short

LEMMA Types ==
    ASSUME TypeOK
    PROVE  /\ target \in Nat /\ estimate \in Nat /\ wallet \in Nat /\ sent \in Nat
           /\ MaxPerAddress \in Nat /\ MaxPerRun \in Nat /\ Reserve \in Nat /\ MinBalance \in Nat
           /\ NumPaths \in Nat /\ None \notin Nat /\ Fees \subseteq Nat
           /\ plan \subseteq Workers /\ mempool \in Seq(Transfers)
           /\ \A w \in Workers : /\ balance[w] \in Nat /\ drawn[w] \in Nat
                                 /\ read[w] \in Nat \cup {None}
           /\ InFlight \in Nat /\ \A w \in Workers : Coming(w) \in Nat
<1>1. mempool \in Seq(Transfers)
  BY DEF TypeOK, Transfers
<1>2. InFlight = Sum(Cost(mempool), Len(mempool))
      /\ \A w \in Workers : Coming(w) = Sum(Value(mempool, w), Len(mempool))
  BY DEF InFlight, Coming, Cost, Value
<1>3. InFlight \in Nat /\ \A w \in Workers : Coming(w) \in Nat
  BY <1>1, <1>2, TransferFacts
<1> QED
  BY <1>1, <1>3, SweepAssumption DEF TypeOK

LEMMA TopIsPositive ==
    ASSUME TypeOK, PlanInv, pc \in Spending, NEW w \in plan
    PROVE  /\ w \in Workers /\ read[w] \in Nat /\ Top(w) \in Nat /\ Top(w) > 0
           /\ read[w] + Top(w) = target
<1>1. w \in Workers /\ read[w] \in Nat \cup {None} /\ target \in Nat /\ read[w] # None /\ read[w] < target
  BY Types DEF PlanInv, AllRead
<1> QED
  BY <1>1 DEF Top

LEMMA Submits ==
    ASSUME TypeOK, PlanInv, pc \in Spending, NEW w \in plan, Submit(w)
    PROVE  \E fee \in Fees :
             /\ mempool' \in Seq(Transfers)
             /\ wallet - InFlight >= Top(w) + fee
             /\ InFlight' = InFlight + (Top(w) + fee)
             /\ \A v \in Workers : Coming(v)' = Coming(v) + (IF v = w THEN Top(w) ELSE 0)
             /\ sent' = sent + Top(w)
             /\ outbid' = (outbid \/ fee > estimate)
<1>1. PICK fee \in Fees :
        /\ wallet - InFlight >= Top(w) + fee
        /\ mempool' = Append(mempool, [to |-> w, value |-> Top(w), fee |-> fee])
        /\ sent' = sent + Top(w)
        /\ outbid' = (outbid \/ fee > estimate)
  BY DEF Submit
<1>2. PICK t : t = [to |-> w, value |-> Top(w), fee |-> fee]
  OBVIOUS
<1>3. t \in Transfers /\ t.to = w /\ t.value = Top(w) /\ t.fee = fee
  BY <1>2, TopIsPositive DEF Transfers
<1>4. mempool \in Seq(Transfers) /\ mempool' = Append(mempool, t)
  BY <1>1, <1>2, Types
<1>5. /\ mempool' \in Seq(Transfers)
      /\ Sum(Cost(mempool'), Len(mempool')) = Sum(Cost(mempool), Len(mempool)) + (Top(w) + fee)
      /\ \A v \in Workers : Sum(Value(mempool', v), Len(mempool'))
            = Sum(Value(mempool, v), Len(mempool)) + (IF w = v THEN Top(w) ELSE 0)
  BY <1>3, <1>4, TransferSent
<1>6. InFlight' = InFlight + (Top(w) + fee)
  BY <1>5 DEF InFlight, Cost
<1>7. \A v \in Workers : Coming(v)' = Coming(v) + (IF v = w THEN Top(w) ELSE 0)
  BY <1>5 DEF Coming, Value
<1> QED
  BY <1>1, <1>5, <1>6, <1>7

LEMMA Mines ==
    ASSUME TypeOK, Mine
    PROVE  \E t \in Transfers, cost \in Fees :
             /\ mempool' \in Seq(Transfers) /\ cost <= t.fee
             /\ InFlight = (t.value + t.fee) + InFlight'
             /\ \A v \in Workers : Coming(v) = (IF v = t.to THEN t.value ELSE 0) + Coming(v)'
             /\ \/ /\ wallet' = wallet - t.value - cost
                   /\ balance' = [balance EXCEPT ![t.to] = @ + t.value]
                   /\ UNCHANGED failed
                \/ /\ wallet' = wallet - cost
                   /\ failed' = failed \cup {t.to}
                   /\ UNCHANGED balance
<1>1. mempool # <<>> /\ mempool' = Tail(mempool) /\ mempool \in Seq(Transfers)
  BY Types DEF Mine
<1>2. PICK t : t = Head(mempool)
  OBVIOUS
<1>3. PICK cost \in Fees :
        /\ cost <= t.fee
        /\ \/ /\ wallet' = wallet - t.value - cost
              /\ balance' = [balance EXCEPT ![t.to] = @ + t.value]
              /\ UNCHANGED failed
           \/ /\ wallet' = wallet - cost
              /\ failed' = failed \cup {t.to}
              /\ UNCHANGED balance
  BY <1>2 DEF Mine
<1>4. /\ mempool' \in Seq(Transfers) /\ t \in Transfers
      /\ Sum(Cost(mempool), Len(mempool)) = (t.value + t.fee) + Sum(Cost(mempool'), Len(mempool'))
      /\ \A v \in Workers : Sum(Value(mempool, v), Len(mempool))
            = (IF t.to = v THEN t.value ELSE 0) + Sum(Value(mempool', v), Len(mempool'))
  BY <1>1, <1>2, TransferMined
<1>5. InFlight = (t.value + t.fee) + InFlight'
  BY <1>4 DEF InFlight, Cost
<1>6. \A v \in Workers : Coming(v) = (IF v = t.to THEN t.value ELSE 0) + Coming(v)'
  BY <1>4 DEF Coming, Value
<1> QED
  BY <1>3, <1>4, <1>5, <1>6

LEMMA SameSums ==
    ASSUME UNCHANGED mempool
    PROVE  InFlight' = InFlight /\ \A w \in Workers : Coming(w)' = Coming(w)
  BY DEF InFlight, Coming

LEMMA NothingPending ==
    ASSUME mempool = <<>>
    PROVE  InFlight = 0 /\ \A w \in Workers : Coming(w) = 0
<1>1. Len(mempool) = 0
  OBVIOUS
<1> QED
  BY <1>1, SumEmpty DEF InFlight, Coming

-----------------------------------------------------------------------------
LEMMA TypeStep ==
    ASSUME TypeOK, Solvent, PlanInv, [Next]_vars
    PROVE  TypeOK' /\ Solvent'
<1>0. /\ target \in Nat /\ estimate \in Nat /\ wallet \in Nat /\ sent \in Nat
      /\ Fees \subseteq Nat /\ plan \subseteq Workers
      /\ \A w \in Workers : balance[w] \in Nat /\ drawn[w] \in Nat
      /\ InFlight \in Nat
  BY Types
<1>1. CASE Start
  <2>1. /\ pc' \in {"idle", "check"} /\ outcome' \in {"misconfigured", "none"}
        /\ target' \in Targets /\ named' \in BOOLEAN
    BY <1>1 DEF Start, End
  <2>2. sweeps' \in 0..MaxSweeps
    BY <1>1, SweepAssumption DEF Start, TypeOK
  <2>3. /\ read' \in [Workers -> Nat \cup {None}] /\ plan' \subseteq Workers
        /\ reported' \in Reports \cup {None} /\ estimate' \in Fees \cup {0}
        /\ sent' \in Nat /\ drawn' \in [Workers -> Nat] /\ failed' \subseteq Workers
        /\ outbid' \in BOOLEAN
    BY <1>1 DEF Start
  <2>4. UNCHANGED <<chain, overlapped>>
    BY <1>1 DEF Start
  <2>5. TypeOK'
    BY <2>1, <2>2, <2>3, <2>4 DEF TypeOK, chain
  <2> QED
    BY <2>4, <2>5, SameSums DEF Solvent, chain
<1>2. CASE CrossCheck
  <2>1. TypeOK'
    BY <1>2 DEF TypeOK, CrossCheck, Goto, End, chain, figures, history
  <2> QED
    BY <1>2, <2>1, SameSums DEF Solvent, CrossCheck, chain
<1>3. CASE Decide
  <2>1. TypeOK'
    BY <1>3 DEF TypeOK, Decide, Short, Goto, End, chain, figures, history
  <2> QED
    BY <1>3, <2>1, SameSums DEF Solvent, Decide, chain
<1>4. CASE CheckWallet
  <2>1. TypeOK'
    BY <1>4 DEF TypeOK, CheckWallet, Goto, End, chain, figures, history
  <2> QED
    BY <1>4, <2>1, SameSums DEF Solvent, CheckWallet, chain
<1>5. CASE Receipt
  <2>1. TypeOK'
    BY <1>5 DEF TypeOK, Receipt, Goto, chain, figures, history
  <2> QED
    BY <1>5, <2>1, SameSums DEF Solvent, Receipt, chain
<1>6. CASE Verify
  <2>1. TypeOK'
    BY <1>6 DEF TypeOK, Verify, End, chain, figures, history
  <2> QED
    BY <1>6, <2>1, SameSums DEF Solvent, Verify, chain
<1>7. CASE Throws
  <2>1. TypeOK'
    BY <1>7 DEF TypeOK, Throws, End, chain, figures, history
  <2> QED
    BY <1>7, <2>1, SameSums DEF Solvent, Throws, chain
<1>8. CASE \E w \in Workers : ReadBalance(w)
  <2>1. TypeOK'
    BY <1>8 DEF TypeOK, ReadBalance, control, chain, figures
  <2> QED
    BY <1>8, <2>1, SameSums DEF Solvent, ReadBalance, chain
<1>9. CASE \E w \in Workers : (Send(w) \/ SendThrows(w)) /\ Submit(w)
  <2>1. PICK w \in Workers : (Send(w) \/ SendThrows(w)) /\ Submit(w)
    BY <1>9
  <2>2. pc = "send" /\ w \in plan
    BY <2>1 DEF Send, SendThrows, IsNext
  <2>3. PICK fee \in Fees :
             /\ mempool' \in Seq(Transfers)
             /\ wallet - InFlight >= Top(w) + fee
             /\ InFlight' = InFlight + (Top(w) + fee)
             /\ sent' = sent + Top(w)
             /\ outbid' = (outbid \/ fee > estimate)
    BY <2>1, <2>2, Submits DEF Spending
  <2>4. Top(w) \in Nat
    BY <2>2, TopIsPositive DEF Spending
  <2>5. wallet' = wallet
    BY <2>1 DEF Send, SendThrows
  <2>6. Solvent'
    BY <1>0, <2>3, <2>4, <2>5 DEF Solvent
  <2>7. /\ mempool' \in Seq([to : Workers, value : Nat, fee : Fees])
        /\ sent' \in Nat /\ outbid' \in BOOLEAN
    <3>1. outbid' \in BOOLEAN
      BY <2>3, Zenon
    <3>2. sent' \in Nat
      BY <1>0, <2>3, <2>4
    <3> QED
      BY <2>3, <3>1, <3>2 DEF Transfers
  <2>8. /\ pc' \in {"idle", "receipt"} /\ outcome' \in {outcome, "error"}
        /\ plan' \subseteq plan
        /\ UNCHANGED <<figures, reported, read, estimate, balance, wallet, drawn, failed, overlapped>>
    BY <2>1 DEF Send, SendThrows, Goto, End
  <2>9. TypeOK'
    BY <2>7, <2>8 DEF TypeOK, figures
  <2> QED
    BY <2>6, <2>9
<1>10. CASE \E w \in Workers : SendThrows(w) /\ UNCHANGED <<mempool, sent, outbid>>
  <2>1. TypeOK'
    BY <1>10 DEF TypeOK, SendThrows, End, figures
  <2> QED
    BY <1>10, <2>1, SameSums DEF Solvent, SendThrows
<1>11. CASE Mine
  <2>1. PICK t \in Transfers, cost \in Fees :
             /\ mempool' \in Seq(Transfers) /\ cost <= t.fee
             /\ InFlight = (t.value + t.fee) + InFlight'
             /\ \/ /\ wallet' = wallet - t.value - cost
                   /\ balance' = [balance EXCEPT ![t.to] = @ + t.value]
                   /\ UNCHANGED failed
                \/ /\ wallet' = wallet - cost
                   /\ failed' = failed \cup {t.to}
                   /\ UNCHANGED balance
    BY <1>11, Mines
  <2>2. /\ t.value \in Nat /\ t.fee \in Nat /\ cost \in Nat /\ t.to \in Workers
    BY <1>0 DEF Transfers
  <2>3. InFlight' \in Nat
    <3>1. /\ mempool' \in Seq(Transfers) /\ InFlight' = Sum(Cost(mempool'), Len(mempool'))
      BY <2>1 DEF InFlight, Cost
    <3> QED
      BY <3>1, TransferFacts
  <2>4. wallet' \in Nat /\ InFlight' <= wallet'
    <3>1. wallet >= (t.value + t.fee) + InFlight'
      BY <2>1 DEF Solvent
    <3>2. cost <= t.fee /\ (wallet' = wallet - t.value - cost \/ wallet' = wallet - cost)
      BY <2>1
    <3> QED
      BY <1>0, <2>2, <2>3, <3>1, <3>2
  <2>5. balance' \in [Workers -> Nat] /\ failed' \subseteq Workers
    <3>1. balance \in [Workers -> Nat] /\ failed \subseteq Workers
      BY DEF TypeOK
    <3>2. balance[t.to] + t.value \in Nat
      BY <1>0, <2>2
    <3>3. balance' = balance \/ balance' = [balance EXCEPT ![t.to] = balance[t.to] + t.value]
      BY <2>1
    <3>4. failed' = failed \/ failed' = failed \cup {t.to}
      BY <2>1
    <3>5. balance' \in [Workers -> Nat]
      BY <3>1, <3>2, <3>3
    <3> QED
      BY <2>2, <3>1, <3>4, <3>5
  <2>6. mempool' \in Seq([to : Workers, value : Nat, fee : Fees])
    BY <2>1 DEF Transfers
  <2>7. UNCHANGED <<control, figures, reported, read, plan, estimate, sent, drawn, outbid, overlapped>>
    BY <1>11 DEF Mine
  <2>8. TypeOK'
    BY <2>4, <2>5, <2>6, <2>7 DEF TypeOK, control, figures
  <2> QED
    BY <2>4, <2>8 DEF Solvent
<1>12. CASE \E w \in Workers : ServiceSpends(w)
  <2>1. PICK w \in Workers : ServiceSpends(w)
    BY <1>12
  <2>2. balance' \in [Workers -> Nat] /\ drawn' \in [Workers -> Nat]
    BY <1>0, <2>1 DEF TypeOK, ServiceSpends
  <2>3. TypeOK'
    BY <2>1, <2>2 DEF TypeOK, ServiceSpends, control, figures
  <2> QED
    BY <2>1, <2>3, SameSums DEF Solvent, ServiceSpends
<1>13. CASE UNCHANGED vars
  <2>1. TypeOK'
    BY <1>13 DEF vars, control, chain, figures, history, TypeOK
  <2> QED
    BY <1>13, <2>1, SameSums DEF Solvent, vars, chain
<1> QED
  BY <1>1, <1>2, <1>3, <1>4, <1>5, <1>6, <1>7, <1>8, <1>9, <1>10, <1>11, <1>12, <1>13
  DEF Next, SweepStep, Finished, Send, SendThrows

LEMMA PlanStep ==
    ASSUME TypeOK, PlanInv, [Next]_vars
    PROVE  PlanInv'
<1>1. CASE Start
  <2>1. pc' # "idle" => target' <= MaxPerAddress /\ pc' = "check"
    <3>1. target' \in Nat
      BY <1>1, SweepAssumption DEF Start
    <3> QED
      BY <1>1, <3>1, SweepAssumption DEF Start, End
  <2>2. sent' = 0 /\ \A w \in Workers : read'[w] = None
    BY <1>1 DEF Start
  <2>3. pc' \notin Spending
    BY <1>1 DEF Start, End, Spending
  <2> QED
    BY <2>1, <2>2, <2>3 DEF PlanInv, Spending
<1>2. CASE CrossCheck
  BY <1>2 DEF PlanInv, CrossCheck, Goto, End, figures, history, Spending
<1>3. CASE Decide
  <2>1. \A w \in Short : read[w] < target
    BY DEF Short
  <2>2. UNCHANGED <<read, target, sent>> /\ plan' = Short /\ AllRead /\ pc = "read"
    BY <1>3 DEF Decide, figures, history
  <2>3. Short' = Short /\ AllRead'
    BY <2>2 DEF Short, AllRead
  <2>4. pc' \in {"idle", "wallet"}
    BY <1>3 DEF Decide, Goto, End
  <2> QED
    BY <2>1, <2>2, <2>3, <2>4 DEF PlanInv, Spending
<1>4. CASE CheckWallet
  BY <1>4 DEF PlanInv, CheckWallet, Goto, End, figures, history, Spending, AllRead
<1>5. CASE Receipt
  BY <1>5 DEF PlanInv, Receipt, Goto, figures, history, Spending, AllRead
<1>6. CASE Verify
  BY <1>6 DEF PlanInv, Verify, End, Spending
<1>7. CASE Throws
  BY <1>7 DEF PlanInv, Throws, End, Spending
<1>8. CASE \E w \in Workers : ReadBalance(w)
  BY <1>8 DEF PlanInv, ReadBalance, control, figures, Spending
<1>9. CASE \E w \in Workers : Send(w)
  BY <1>9 DEF PlanInv, Send, Goto, figures, Spending, AllRead
<1>10. CASE \E w \in Workers : SendThrows(w)
  BY <1>10 DEF PlanInv, SendThrows, End, Spending
<1>11. CASE Mine
  BY <1>11 DEF PlanInv, Mine, control, figures, Spending, AllRead, Short
<1>12. CASE \E w \in Workers : ServiceSpends(w)
  BY <1>12 DEF PlanInv, ServiceSpends, control, figures, Spending, AllRead, Short
<1>13. CASE UNCHANGED vars
  BY <1>13 DEF vars, PlanInv, control, figures, history, Spending, AllRead, Short
<1> QED
  BY <1>1, <1>2, <1>3, <1>4, <1>5, <1>6, <1>7, <1>8, <1>9, <1>10, <1>11, <1>12, <1>13
  DEF Next, SweepStep, Finished

-----------------------------------------------------------------------------
(***************************************************************************)
(* The per-run cap: what was sent and what the plan still asks for.        *)
(***************************************************************************)
\* What the plan still asks for, and what it asks for without one worker.
Left == Sum([w \in Workers |-> IF w \in plan THEN Top(w) ELSE 0], NumPaths)

\* What is sent and what is left stay within the total that Decide accepted.
BudgetInv ==
    /\ sent <= MaxPerRun
    /\ pc \in Spending => sent + Left <= MaxPerRun

LEMMA TotalIsNatural ==
    ASSUME TypeOK, AllRead
    PROVE  Total \in Nat
<1> DEFINE f == [w \in Workers |-> IF w \in Short THEN Top(w) ELSE 0]
<1>1. ASSUME NEW w \in 1..NumPaths PROVE f[w] \in Nat
  <2>1. w \in Workers /\ read[w] \in Nat /\ target \in Nat
    BY <1>1, Types DEF Workers, AllRead
  <2> QED
    BY <2>1 DEF Short, Top
<1>2. NumPaths \in Nat
  BY Types
<1> HIDE DEF f
<1>3. Sum(f, NumPaths) \in Nat
  BY <1>1, <1>2, SumNatural
<1> QED
  BY <1>3 DEF Total, f

LEMMA LeftIsNatural ==
    ASSUME TypeOK, PlanInv, pc \in Spending
    PROVE  Left \in Nat
<1> DEFINE f == [w \in Workers |-> IF w \in plan THEN Top(w) ELSE 0]
<1>1. \A w \in 1..NumPaths : f[w] \in Nat
  BY TopIsPositive DEF Workers
<1>2. NumPaths \in Nat
  BY Types
<1> HIDE DEF f
<1>3. Sum(f, NumPaths) \in Nat
  BY <1>1, <1>2, SumNatural
<1> QED
  BY <1>3 DEF Left, f

\* What is left of the plan without w.
LeftWithout(w) == Sum([v \in Workers |-> IF v \in plan \ {w} THEN Top(v) ELSE 0], NumPaths)

LEMMA LeftSplits ==
    ASSUME TypeOK, PlanInv, pc \in Spending, NEW w \in plan
    PROVE  Left = LeftWithout(w) + Top(w) /\ LeftWithout(w) \in Nat
<1> DEFINE f == [v \in Workers |-> IF v \in plan THEN Top(v) ELSE 0]
           g == [v \in Workers |-> IF v \in plan \ {w} THEN Top(v) ELSE 0]
<1>1. w \in Workers /\ Workers = 1..NumPaths /\ NumPaths \in Nat /\ Top(w) \in Nat
  BY TopIsPositive, Types DEF Workers
<1>2. ASSUME NEW v \in 1..NumPaths
      PROVE  g[v] \in Nat /\ f[v] = IF v = w THEN g[v] + Top(w) ELSE g[v]
  <2>1. f[v] = (IF v \in plan THEN Top(v) ELSE 0) /\ g[v] = IF v \in plan \ {w} THEN Top(v) ELSE 0
    BY <1>1, <1>2
  <2>2. CASE v = w
    BY <1>1, <2>1, <2>2
  <2>3. CASE v # w /\ v \in plan
    BY <2>1, <2>3, TopIsPositive
  <2>4. CASE v # w /\ v \notin plan
    BY <2>1, <2>4
  <2> QED
    BY <2>2, <2>3, <2>4
<1>3. Left = Sum(f, NumPaths) /\ LeftWithout(w) = Sum(g, NumPaths)
  BY DEF Left, LeftWithout
<1> HIDE DEF f, g
<1>4. Sum(f, NumPaths) = Sum(g, NumPaths) + Top(w)
  <2>1. \A v \in 1..NumPaths : g[v] \in Nat /\ f[v] = IF v = w THEN g[v] + Top(w) ELSE g[v]
    BY <1>2
  <2>2. w \in 1..NumPaths /\ NumPaths \in Nat /\ Top(w) \in Nat
    BY <1>1
  <2>3. PICK d : d = Top(w)
    OBVIOUS
  <2> QED
    BY <2>1, <2>2, <2>3, SumLess
<1>5. Sum(g, NumPaths) \in Nat
  BY <1>1, <1>2, SumNatural
<1> QED
  BY <1>3, <1>4, <1>5

LEMMA SendingLowersLeft ==
    ASSUME TypeOK, PlanInv, pc \in Spending, NEW w \in plan,
           plan' = plan \ {w}, UNCHANGED <<read, target>>
    PROVE  Left = Left' + Top(w) /\ Left' \in Nat
<1>1. Left' = LeftWithout(w)
  BY DEF Left, LeftWithout, Top
<1> QED
  BY <1>1, LeftSplits

LEMMA SameLeft ==
    ASSUME UNCHANGED <<plan, read, target>>
    PROVE  Left' = Left
  BY DEF Left, Top

LEMMA BudgetStep ==
    ASSUME TypeOK, PlanInv, BudgetInv, [Next]_vars
    PROVE  BudgetInv'
<1>0. /\ sent \in Nat /\ MaxPerRun \in Nat
  BY Types
<1>1. CASE Start
  BY <1>0, <1>1 DEF BudgetInv, Start, End, Spending
<1>2. CASE CrossCheck
  BY <1>2 DEF BudgetInv, CrossCheck, Goto, End, history, Spending
<1>3. CASE Decide
  <2>1. UNCHANGED <<read, target, sent>> /\ plan' = Short /\ pc = "read" /\ AllRead
    BY <1>3 DEF Decide, figures, history
  <2>2. Left' = Total
    BY <2>1 DEF Left, Total, Top
  <2>3. sent = 0
    BY <2>1 DEF PlanInv
  <2>4. \/ pc' = "idle"
        \/ pc' = "wallet" /\ Total <= MaxPerRun
    BY <1>3 DEF Decide, Goto, End
  <2>5. CASE pc' = "idle"
    BY <1>0, <2>1, <2>5 DEF BudgetInv, Spending
  <2>6. CASE pc' = "wallet" /\ Total <= MaxPerRun
    <3>1. Total \in Nat
      BY <2>1, TotalIsNatural
    <3> QED
      BY <1>0, <2>1, <2>2, <2>3, <2>6, <3>1 DEF BudgetInv, Spending
  <2> QED
    BY <2>4, <2>5, <2>6
<1>4. CASE CheckWallet
  <2>1. UNCHANGED <<plan, read, target, sent>> /\ pc = "wallet"
    BY <1>4 DEF CheckWallet, figures, history
  <2> QED
    BY <2>1, SameLeft DEF BudgetInv, Spending
<1>5. CASE Receipt
  <2>1. UNCHANGED <<plan, target, sent>> /\ pc = "receipt"
    BY <1>5 DEF Receipt, figures, history
  <2>2. pc' \in Spending => UNCHANGED read
    BY <1>5 DEF Receipt, Goto, Spending
  <2> QED
    BY <2>1, <2>2, SameLeft DEF BudgetInv, Spending
<1>6. CASE Verify
  BY <1>6 DEF BudgetInv, Verify, End, history, Spending
<1>7. CASE Throws
  BY <1>7 DEF BudgetInv, Throws, End, history, Spending
<1>8. CASE \E w \in Workers : ReadBalance(w)
  BY <1>8 DEF BudgetInv, ReadBalance, control, Spending
<1>9. CASE \E w \in Workers : Send(w)
  <2>1. PICK w \in Workers : Send(w)
    BY <1>9
  <2>2. /\ pc = "send" /\ w \in plan /\ Submit(w) /\ plan' = plan \ {w}
        /\ UNCHANGED <<read, target>>
    BY <2>1 DEF Send, IsNext, figures
  <2>3. sent' = sent + Top(w) /\ Top(w) \in Nat
    BY <2>2, TopIsPositive DEF Submit, Spending
  <2>4. Left = Left' + Top(w) /\ Left' \in Nat
    BY <2>2, SendingLowersLeft DEF Spending
  <2>5. sent + Left <= MaxPerRun
    BY <2>2 DEF BudgetInv, Spending
  <2> QED
    BY <1>0, <2>3, <2>4, <2>5 DEF BudgetInv
<1>10. CASE \E w \in Workers : SendThrows(w)
  <2>1. PICK w \in Workers : SendThrows(w)
    BY <1>10
  <2>2. pc = "send" /\ w \in plan /\ pc' = "idle"
    BY <2>1 DEF SendThrows, IsNext, End
  <2>3. CASE UNCHANGED sent
    BY <2>2, <2>3 DEF BudgetInv, Spending
  <2>4. CASE Submit(w)
    <3>1. sent' = sent + Top(w) /\ Top(w) \in Nat
      BY <2>2, <2>4, TopIsPositive DEF Submit, Spending
    <3>3. Left = LeftWithout(w) + Top(w) /\ LeftWithout(w) \in Nat
      BY <2>2, LeftSplits DEF Spending
    <3>4. sent + Left <= MaxPerRun
      BY <2>2 DEF BudgetInv, Spending
    <3> QED
      BY <1>0, <2>2, <3>1, <3>3, <3>4 DEF BudgetInv, Spending
  <2> QED
    BY <2>1, <2>3, <2>4 DEF SendThrows
<1>11. CASE Mine
  <2>1. UNCHANGED <<pc, plan, read, target, sent>>
    BY <1>11 DEF Mine, control, figures
  <2> QED
    BY <2>1, SameLeft DEF BudgetInv
<1>12. CASE \E w \in Workers : ServiceSpends(w)
  <2>1. UNCHANGED <<pc, plan, read, target, sent>>
    BY <1>12 DEF ServiceSpends, control, figures
  <2> QED
    BY <2>1, SameLeft DEF BudgetInv
<1>13. CASE UNCHANGED vars
  <2>1. UNCHANGED <<pc, plan, read, target, sent>>
    BY <1>13 DEF vars, control, figures, history
  <2> QED
    BY <2>1, SameLeft DEF BudgetInv
<1> QED
  BY <1>1, <1>2, <1>3, <1>4, <1>5, <1>6, <1>7, <1>8, <1>9, <1>10, <1>11, <1>12, <1>13
  DEF Next, SweepStep, Finished

-----------------------------------------------------------------------------
(***************************************************************************)
(* The per-address cap: what an address holds and has coming.              *)
(***************************************************************************)
\* What an address holds and has on its way.
Holding(w) == balance[w] + Coming(w)

\* While it is spent from, a balance that was read is not exceeded by what the
\* address holds, so the top-up lifts it to the target and no further.
CapInv ==
    overlapped \/
        /\ \A w \in Workers : Holding(w) <= MaxPerAddress
        /\ pc = "read" =>
            \A w \in Workers : read[w] # None => Holding(w) <= read[w] /\ mempool = <<>>
        /\ pc = "wallet" => mempool = <<>>
        /\ pc \in Spending => \A w \in plan : Holding(w) <= read[w]

LEMMA HoldingIsNatural == TypeOK => \A w \in Workers : Holding(w) \in Nat
  BY Types DEF Holding

LEMMA SameHoldings ==
    ASSUME UNCHANGED <<balance, mempool>>
    PROVE  \A w \in Workers : Holding(w)' = Holding(w)
  BY SameSums DEF Holding

LEMMA ComingIsNatural ==
    ASSUME TypeOK, Mine
    PROVE  \A w \in Workers : Coming(w)' \in Nat
<1>1. mempool' \in Seq(Transfers)
  BY Mines
<1>2. \A w \in Workers : Coming(w)' = Sum(Value(mempool', w), Len(mempool'))
  BY DEF Coming, Value
<1> QED
  BY <1>1, <1>2, TransferFacts

LEMMA CapStep ==
    ASSUME TypeOK, PlanInv, CapInv, [Next]_vars
    PROVE  CapInv'
<1> SUFFICES ASSUME ~overlapped' PROVE CapInv'
  BY DEF CapInv
<1>0. /\ target \in Nat /\ MaxPerAddress \in Nat /\ plan \subseteq Workers
      /\ \A w \in Workers : /\ balance[w] \in Nat /\ Holding(w) \in Nat
                            /\ read[w] \in Nat \cup {None}
  BY Types, HoldingIsNatural
<1>a. CASE UNCHANGED <<balance, mempool, overlapped>> /\ pc' \in {"idle", "check", "verify"}
  BY <1>a, SameHoldings DEF CapInv, Spending
<1>1. CASE Start
  BY <1>1, <1>a DEF Start, End, chain
<1>2. CASE CrossCheck
  <2>1. \/ pc' = "idle"
        \/ pc' = "read" /\ \A w \in Workers : read'[w] = None
    BY <1>2 DEF CrossCheck, Goto, End, PlanInv
  <2>2. UNCHANGED <<balance, mempool, overlapped>>
    BY <1>2 DEF CrossCheck, chain, history
  <2> QED
    BY <2>1, <2>2, SameHoldings DEF CapInv, Spending
<1>3. CASE Decide
  <2>1. /\ UNCHANGED <<balance, mempool, overlapped, read>> /\ plan' = Short /\ pc = "read"
        /\ AllRead /\ pc' \in {"idle", "wallet"} /\ (pc' = "wallet" => Short # {})
    BY <1>3 DEF Decide, Goto, End, chain, history
  <2>2. Short \subseteq Workers
    BY DEF Short
  <2>3. CASE pc' = "wallet"
    <3>1. PICK w \in Short : TRUE
      BY <2>1, <2>3
    <3>2. mempool = <<>>
      BY <2>1, <2>2, <3>1 DEF CapInv, AllRead
    <3>3. \A v \in Short : Holding(v) <= read[v]
      BY <2>1, <2>2 DEF CapInv, AllRead
    <3> QED
      BY <2>1, <2>2, <2>3, <3>2, <3>3, SameHoldings DEF CapInv
  <2> QED
    BY <1>a, <2>1, <2>3
<1>4. CASE CheckWallet
  <2>1. UNCHANGED <<balance, mempool, overlapped, read, plan>> /\ pc = "wallet"
        /\ pc' \in {"idle", "send"}
    BY <1>4 DEF CheckWallet, Goto, End, chain, history
  <2> QED
    BY <1>0, <2>1, SameHoldings DEF CapInv, Spending
<1>5. CASE Receipt
  <2>1. UNCHANGED <<balance, mempool, overlapped, plan>> /\ pc = "receipt"
        /\ (pc' = "verify" \/ (pc' = "send" /\ UNCHANGED read))
    BY <1>5 DEF Receipt, Goto, chain, history
  <2> QED
    BY <1>0, <1>a, <2>1, SameHoldings DEF CapInv, Spending
<1>6. CASE Verify \/ Throws
  BY <1>6, <1>a DEF Verify, Throws, End, chain, history
<1>7. CASE \E w \in Workers : ReadBalance(w)
  <2>1. PICK w \in Workers : ReadBalance(w)
    BY <1>7
  <2>2. /\ mempool = <<>> /\ ~overlapped /\ UNCHANGED <<balance, mempool, pc, plan>>
        /\ pc \in {"read", "verify"} /\ read' = [read EXCEPT ![w] = balance[w]]
    BY <2>1 DEF ReadBalance, control, chain
  <2>3. \A v \in Workers : Holding(v) = balance[v]
    BY <1>0, <2>2, NothingPending DEF Holding
  <2>4. ASSUME NEW v \in Workers, pc = "read", read'[v] # None PROVE Holding(v) <= read'[v]
    <3>1. read'[v] = IF v = w THEN balance[w] ELSE read[v]
      BY <2>2 DEF TypeOK
    <3>2. CASE v = w
      BY <1>0, <2>3, <3>1, <3>2
    <3>3. CASE v # w
      BY <2>2, <2>4, <3>1, <3>3 DEF CapInv
    <3> QED
      BY <3>2, <3>3
  <2> QED
    BY <2>2, <2>4, SameHoldings DEF CapInv, Spending
<1>8. CASE \E w \in Workers : (Send(w) \/ SendThrows(w)) /\ Submit(w)
  <2>1. PICK w \in Workers : (Send(w) \/ SendThrows(w)) /\ Submit(w)
    BY <1>8
  <2>2. pc = "send" /\ w \in plan /\ ~overlapped /\ UNCHANGED <<balance, read>>
    BY <2>1 DEF Send, SendThrows, IsNext
  <2>3. pc' = "idle" \/ (pc' = "receipt" /\ plan' = plan \ {w})
    BY <2>1 DEF Send, SendThrows, Goto, End
  <2>4. \A v \in Workers : Coming(v)' = Coming(v) + (IF v = w THEN Top(w) ELSE 0)
    BY <2>1, <2>2, Submits DEF Spending
  <2>5. \A v \in Workers : Coming(v) \in Nat
    BY Types
  <2>6. Top(w) \in Nat /\ read[w] \in Nat /\ read[w] + Top(w) = target
    BY <2>2, TopIsPositive DEF Spending
  <2>7. \A v \in Workers : Holding(v)' = Holding(v) + (IF v = w THEN Top(w) ELSE 0)
    BY <1>0, <2>2, <2>4, <2>5, <2>6 DEF Holding
  <2>8. target <= MaxPerAddress /\ Holding(w) <= read[w]
    BY <2>2 DEF PlanInv, CapInv, Spending
  <2>9. Holding(w)' <= MaxPerAddress
    BY <1>0, <2>1, <2>6, <2>7, <2>8
  <2>10. ASSUME NEW v \in Workers \ {w} PROVE Holding(v)' = Holding(v)
    BY <1>0, <2>7
  <2>11. \A v \in Workers : Holding(v)' <= MaxPerAddress
    BY <2>2, <2>9, <2>10 DEF CapInv
  <2>12. \A v \in plan \ {w} : Holding(v)' <= read'[v]
    BY <1>0, <2>2, <2>10 DEF CapInv, Spending
  <2> QED
    BY <2>3, <2>11, <2>12 DEF CapInv, Spending
<1>9. CASE \E w \in Workers : SendThrows(w) /\ UNCHANGED <<mempool, sent, outbid>>
  BY <1>9, <1>a DEF SendThrows, End
<1>10. CASE Mine
  <2>1. PICK t \in Transfers, cost \in Fees :
             /\ \A v \in Workers : Coming(v) = (IF v = t.to THEN t.value ELSE 0) + Coming(v)'
             /\ \/ balance' = [balance EXCEPT ![t.to] = @ + t.value]
                \/ UNCHANGED balance
    BY <1>10, Mines
  <2>2. /\ t.value \in Nat /\ t.to \in Workers
    BY DEF Transfers
  <2>3. /\ ~overlapped /\ mempool # <<>> /\ UNCHANGED <<pc, plan, read>>
    BY <1>10 DEF Mine, control
  <2>4. ASSUME NEW v \in Workers PROVE Holding(v)' <= Holding(v) /\ Holding(v)' \in Nat
    <3>1. Coming(v)' \in Nat
      BY <1>10, ComingIsNatural
    <3>2. balance'[v] \in Nat /\ balance'[v] <= balance[v] + (IF v = t.to THEN t.value ELSE 0)
      BY <1>0, <2>1, <2>2 DEF TypeOK
    <3>3. Coming(v) = (IF v = t.to THEN t.value ELSE 0) + Coming(v)'
      BY <2>1
    <3> QED
      BY <1>0, <2>2, <3>1, <3>2, <3>3 DEF Holding
  <2>5. pc # "wallet" /\ (pc = "read" => \A v \in Workers : read[v] = None)
    BY <2>3 DEF CapInv
  <2>6. \A v \in Workers : Holding(v)' <= MaxPerAddress
    BY <1>0, <2>3, <2>4 DEF CapInv
  <2>7. pc \in Spending => \A v \in plan : Holding(v)' <= read[v]
    <3> SUFFICES ASSUME pc \in Spending, NEW v \in plan PROVE Holding(v)' <= read[v]
      OBVIOUS
    <3>1. Holding(v) <= read[v] /\ read[v] \in Nat
      BY <2>3, TopIsPositive DEF CapInv
    <3> QED
      BY <1>0, <2>4, <3>1
  <2> QED
    BY <2>3, <2>5, <2>6, <2>7 DEF CapInv
<1>11. CASE \E w \in Workers : ServiceSpends(w)
  <2>1. PICK w \in Workers : ServiceSpends(w)
    BY <1>11
  <2>2. /\ ~overlapped /\ UNCHANGED <<pc, plan, read, mempool>>
        /\ balance[w] > 0 /\ balance' = [balance EXCEPT ![w] = balance[w] - 1]
    BY <2>1 DEF ServiceSpends, control
  <2>3. ASSUME NEW v \in Workers PROVE Holding(v)' <= Holding(v) /\ Holding(v)' \in Nat
    <3>1. Coming(v)' = Coming(v) /\ Coming(v) \in Nat
      BY <2>2, SameSums, Types
    <3>2. balance'[v] \in Nat /\ balance'[v] <= balance[v]
      BY <1>0, <2>2 DEF TypeOK
    <3> QED
      BY <1>0, <3>1, <3>2 DEF Holding
  <2>4. \A v \in Workers : Holding(v)' <= MaxPerAddress
    BY <1>0, <2>2, <2>3 DEF CapInv
  <2>5. \A v \in Workers : \A b \in Nat : Holding(v) <= b => Holding(v)' <= b
    BY <1>0, <2>3
  <2>6. pc \in Spending => \A v \in plan : Holding(v)' <= read[v]
    <3> SUFFICES ASSUME pc \in Spending, NEW v \in plan PROVE Holding(v)' <= read[v]
      OBVIOUS
    <3>1. Holding(v) <= read[v] /\ read[v] \in Nat
      BY <2>2, TopIsPositive DEF CapInv
    <3> QED
      BY <1>0, <2>5, <3>1
  <2>7. pc = "read" => \A v \in Workers : read[v] # None => Holding(v)' <= read[v] /\ mempool = <<>>
    BY <1>0, <2>2, <2>5 DEF CapInv
  <2> QED
    BY <2>2, <2>4, <2>6, <2>7 DEF CapInv
<1>12. CASE UNCHANGED vars
  <2>1. UNCHANGED <<pc, plan, read, balance, mempool, overlapped>>
    BY <1>12 DEF vars, control, chain, history
  <2> QED
    BY <1>0, <2>1, SameHoldings DEF CapInv
<1> QED
  BY <1>1, <1>2, <1>3, <1>4, <1>5, <1>6, <1>7, <1>8, <1>9, <1>10, <1>11, <1>12
  DEF Next, SweepStep, Finished, Send, SendThrows

-----------------------------------------------------------------------------
(***************************************************************************)
(* The reserve: what the wallet has left after everything pending, and the *)
(* part of the budget that is not spent yet.                               *)
(***************************************************************************)
\* What the wallet has beyond what is pending.
Free == wallet - InFlight

\* The budget of CheckWallet, less what was sent and one estimated fee for each
\* transfer sent, is still free.
ReserveInv ==
    overlapped \/ outbid \/
        /\ sent > 0 => Free >= Reserve
        /\ pc \in {"send", "receipt"} => Free >= Reserve + (Left + Cardinality(plan) * estimate)

LEMMA PlanIsFinite ==
    ASSUME TypeOK
    PROVE  /\ IsFiniteSet(plan) /\ Cardinality(plan) \in Nat
           /\ \A w \in plan : /\ Cardinality(plan \ {w}) = Cardinality(plan) - 1
                              /\ Cardinality(plan \ {w}) \in Nat
<1>1. IsFiniteSet(Workers)
  BY Types, FS_Interval DEF Workers
<1>2. IsFiniteSet(plan)
  BY <1>1, Types, FS_Subset
<1> QED
  BY <1>2, FS_CardinalityType, FS_RemoveElement

LEMMA OneFeeLess ==
    ASSUME NEW c \in Nat, NEW e \in Nat, NEW d \in Nat, d = c - 1
    PROVE  c * e = d * e + e /\ d * e \in Nat
<1>1. c = d + 1
  OBVIOUS
<1>2. (d + 1) * e = d * e + e /\ d * e \in Nat
  OBVIOUS
<1> QED
  BY <1>1, <1>2

LEMMA FreeFacts ==
    ASSUME TypeOK
    PROVE  /\ Free \in Int
           /\ UNCHANGED <<wallet, mempool>> => Free' = Free
  BY Types, SameSums DEF Free

LEMMA ReserveStep ==
    ASSUME TypeOK, PlanInv, CapInv, ReserveInv, [Next]_vars
    PROVE  ReserveInv'
<1> SUFFICES ASSUME ~overlapped', ~outbid' PROVE ReserveInv'
  BY DEF ReserveInv
<1>0. /\ sent \in Nat /\ estimate \in Nat /\ Reserve \in Nat /\ Free \in Int /\ wallet \in Nat
      /\ InFlight \in Nat /\ plan \subseteq Workers /\ Fees \subseteq Nat
  BY Types, FreeFacts
<1>a. CASE UNCHANGED <<wallet, mempool, overlapped, outbid, sent>> /\ pc' \notin {"send", "receipt"}
  BY <1>a, FreeFacts DEF ReserveInv
<1>b. CASE UNCHANGED <<wallet, mempool, overlapped, outbid, sent, pc, plan, read, target, estimate>>
  BY <1>b, FreeFacts, SameLeft DEF ReserveInv
<1>1. CASE Start
  BY <1>1 DEF Start, End, ReserveInv
<1>2. CASE CrossCheck
  BY <1>2, <1>a DEF CrossCheck, Goto, End, chain, history
<1>3. CASE Decide
  BY <1>3, <1>a DEF Decide, Goto, End, chain, history
<1>4. CASE CheckWallet
  <2>1. /\ UNCHANGED <<wallet, mempool, overlapped, outbid, sent, plan, read, target>>
        /\ pc = "wallet" /\ estimate' \in Fees
        /\ pc' = "idle" \/ (pc' = "send" /\ wallet >= Required(estimate'))
    BY <1>4 DEF CheckWallet, Goto, End, chain, history, figures
  <2>2. CASE pc' = "send"
    <3>1. mempool = <<>> /\ plan = Short /\ sent = 0
      BY <2>1 DEF CapInv, PlanInv
    <3>2. Free = wallet /\ Free' = Free
      BY <1>0, <2>1, <3>1, NothingPending, FreeFacts DEF Free
    <3>3. Left' = Left /\ Left = Total /\ Left \in Nat
      <4>1. Left = Total
        BY <3>1 DEF Left, Total
      <4> QED
        BY <2>1, <4>1, SameLeft, LeftIsNatural DEF Spending
    <3>4. wallet >= Left + Cardinality(plan) * estimate' + Reserve
      BY <2>1, <2>2, <3>3 DEF Required
    <3>5. Cardinality(plan) * estimate' \in Nat
      <4>1. Cardinality(plan) \in Nat /\ estimate' \in Nat
        BY <1>0, <2>1, PlanIsFinite
      <4> QED
        BY <4>1
    <3>6. Free' >= Reserve + (Left' + Cardinality(plan') * estimate')
      BY <1>0, <2>1, <3>2, <3>3, <3>4, <3>5
    <3> QED
      BY <2>1, <2>2, <3>1, <3>6 DEF ReserveInv
  <2> QED
    BY <1>a, <2>1, <2>2
<1>5. CASE Receipt
  <2>1. /\ UNCHANGED <<wallet, mempool, overlapped, outbid, sent, plan, target, estimate>>
        /\ pc = "receipt"
        /\ pc' = "verify" \/ (pc' = "send" /\ UNCHANGED read)
    BY <1>5 DEF Receipt, Goto, chain, history, figures
  <2> QED
    BY <1>a, <2>1, FreeFacts, SameLeft DEF ReserveInv
<1>6. CASE Verify \/ Throws
  BY <1>6, <1>a DEF Verify, Throws, End, chain, history
<1>7. CASE \E w \in Workers : ReadBalance(w)
  <2>1. /\ UNCHANGED <<wallet, mempool, outbid, sent, pc>> /\ pc \in {"read", "verify"} /\ ~overlapped
    BY <1>7 DEF ReadBalance, control, chain
  <2> QED
    BY <2>1, FreeFacts DEF ReserveInv
<1>8. CASE \E w \in Workers : (Send(w) \/ SendThrows(w)) /\ Submit(w)
  <2>1. PICK w \in Workers : (Send(w) \/ SendThrows(w)) /\ Submit(w)
    BY <1>8
  <2>2. pc = "send" /\ w \in plan /\ UNCHANGED <<wallet, read, target, estimate, overlapped>>
    BY <2>1 DEF Send, SendThrows, IsNext, figures
  <2>3. pc' = "idle" \/ (pc' = "receipt" /\ plan' = plan \ {w})
    BY <2>1 DEF Send, SendThrows, Goto, End
  <2>4. PICK fee \in Fees :
             /\ InFlight' = InFlight + (Top(w) + fee)
             /\ outbid' = (outbid \/ fee > estimate)
    BY <2>1, <2>2, Submits DEF Spending
  <2>5. Top(w) \in Nat /\ fee \in Nat /\ ~outbid /\ ~overlapped /\ fee <= estimate
    <3>1. Top(w) \in Nat /\ fee \in Nat
      BY <1>0, <2>2, <2>4, TopIsPositive DEF Spending
    <3>2. ~outbid /\ ~(fee > estimate)
      BY <2>4, Zenon
    <3>3. ~overlapped
      BY <2>2, Zenon
    <3> QED
      BY <1>0, <3>1, <3>2, <3>3
  <2>6. Left = LeftWithout(w) + Top(w) /\ LeftWithout(w) \in Nat
    BY <2>2, LeftSplits DEF Spending
  <2> DEFINE rest == Cardinality(plan \ {w}) * estimate
  <2>7. Cardinality(plan) * estimate = rest + estimate /\ rest \in Nat
    BY <1>0, <2>2, PlanIsFinite, OneFeeLess
  <2>8. Free >= Reserve + (Left + Cardinality(plan) * estimate)
    BY <2>2, <2>5 DEF ReserveInv
  <2> HIDE DEF rest
  <2>9. Free' = Free - (Top(w) + fee)
    BY <1>0, <2>2, <2>4, <2>5 DEF Free
  <2>10. Free' >= Reserve + (LeftWithout(w) + rest) /\ Free' >= Reserve
    BY <1>0, <2>5, <2>6, <2>7, <2>8, <2>9
  <2>11. CASE pc' = "idle"
    BY <2>10, <2>11 DEF ReserveInv
  <2>12. CASE pc' = "receipt" /\ plan' = plan \ {w}
    <3>1. Left' = LeftWithout(w)
      BY <2>2, <2>12 DEF Left, LeftWithout, Top
    <3>2. rest = Cardinality(plan') * estimate'
      BY <2>2, <2>12 DEF rest
    <3> QED
      BY <2>10, <3>1, <3>2 DEF ReserveInv
  <2> QED
    BY <2>3, <2>11, <2>12
<1>9. CASE \E w \in Workers : SendThrows(w) /\ UNCHANGED <<mempool, sent, outbid>>
  BY <1>9, <1>a DEF SendThrows, End
<1>10. CASE Mine
  <2>1. PICK t \in Transfers, cost \in Fees :
             /\ cost <= t.fee
             /\ InFlight = (t.value + t.fee) + InFlight'
             /\ \/ wallet' = wallet - t.value - cost
                \/ wallet' = wallet - cost
    BY <1>10, Mines
  <2>2. t.value \in Nat /\ t.fee \in Nat /\ cost \in Nat
    BY <1>0 DEF Transfers
  <2>3. InFlight' \in Int
    <3>1. mempool' \in Seq(Transfers) /\ InFlight' = Sum(Cost(mempool'), Len(mempool'))
      BY <1>10, Mines DEF InFlight, Cost
    <3> QED
      BY <3>1, TransferFacts
  <2>4. Free' >= Free /\ Free' \in Int
    BY <1>0, <2>1, <2>2, <2>3 DEF Free
  <2>5. UNCHANGED <<pc, plan, read, target, estimate, overlapped, outbid, sent>>
    BY <1>10 DEF Mine, control, figures
  <2>6. Left' = Left /\ (pc \in {"send", "receipt"} => Left \in Nat)
    BY <2>5, SameLeft, LeftIsNatural DEF Spending
  <2>7. Cardinality(plan) * estimate \in Nat
    <3>1. Cardinality(plan) \in Nat
      BY PlanIsFinite
    <3> QED
      BY <1>0, <3>1
  <2>8. sent > 0 => Free' >= Reserve
    BY <1>0, <2>4, <2>5 DEF ReserveInv
  <2>9. pc \in {"send", "receipt"} => Free' >= Reserve + (Left + Cardinality(plan) * estimate)
    <3> SUFFICES ASSUME pc \in {"send", "receipt"}
                 PROVE  Free' >= Reserve + (Left + Cardinality(plan) * estimate)
      OBVIOUS
    <3>1. Free >= Reserve + (Left + Cardinality(plan) * estimate)
      BY <2>5 DEF ReserveInv
    <3> QED
      BY <1>0, <2>4, <2>6, <2>7, <3>1
  <2> QED
    BY <2>5, <2>6, <2>8, <2>9 DEF ReserveInv
<1>11. CASE \E w \in Workers : ServiceSpends(w)
  BY <1>11, <1>b DEF ServiceSpends, control, figures
<1>12. CASE UNCHANGED vars
  BY <1>12, <1>b DEF vars, control, figures, chain, history
<1> QED
  BY <1>1, <1>2, <1>3, <1>4, <1>5, <1>6, <1>7, <1>8, <1>9, <1>10, <1>11, <1>12
  DEF Next, SweepStep, Finished, Send, SendThrows

-----------------------------------------------------------------------------
\* A running sweep has reported nothing, and when it comes to verify its transfers
\* nothing is pending: with a nonce order, its last receipt vouches for all.
Settled ==
    /\ pc # "idle" => outcome = "none"
    /\ pc = "verify" => mempool = <<>>
    /\ outcome = "funded" => mempool = <<>>

LEMMA SettledStep == Settled /\ [Next]_vars => Settled'
<1> SUFFICES ASSUME Settled, [Next]_vars PROVE Settled'
    OBVIOUS
<1>1. CASE Start
    BY <1>1 DEF Settled, Start, End, chain
<1>2. CASE CrossCheck
    BY <1>2 DEF Settled, CrossCheck, Goto, End, chain
<1>3. CASE Decide
    BY <1>3 DEF Settled, Decide, Goto, End, chain
<1>4. CASE CheckWallet
    BY <1>4 DEF Settled, CheckWallet, Goto, End, chain
<1>5. CASE Receipt
    BY <1>5 DEF Settled, Receipt, Goto, chain
<1>6. CASE Verify
    BY <1>6 DEF Settled, Verify, End, chain
<1>7. CASE Throws
    BY <1>7 DEF Settled, Throws, End, chain
<1>8. CASE \E w \in Workers : ReadBalance(w)
    BY <1>8 DEF Settled, ReadBalance, control, chain
<1>9. CASE \E w \in Workers : Send(w)
    BY <1>9 DEF Settled, Send, Goto
<1>10. CASE \E w \in Workers : SendThrows(w)
    BY <1>10 DEF Settled, SendThrows, End
<1>11. CASE Mine
    BY <1>11 DEF Settled, Mine, control
<1>12. CASE \E w \in Workers : ServiceSpends(w)
    BY <1>12 DEF Settled, ServiceSpends, control
<1>13. CASE UNCHANGED vars
    BY <1>13 DEF Settled, vars, control, chain
<1> QED
    BY <1>1, <1>2, <1>3, <1>4, <1>5, <1>6, <1>7, <1>8, <1>9, <1>10, <1>11, <1>12, <1>13
    DEF Next, SweepStep, Finished

-----------------------------------------------------------------------------
(***************************************************************************)
(* The shortage a sweep reports.                                           *)
(***************************************************************************)

\* An address has had the amount b, apart from what the service has spent of it
\* and from a transfer that failed.
Covered(w, b) == Holding(w) + drawn[w] >= b \/ w \in failed

\* An address has had what was read of it, once it has been sent to the target.
ShortInv ==
    /\ pc = "read" => \A w \in Workers : read[w] # None => Covered(w, read[w])
    /\ pc \in Spending => \A w \in Workers : Covered(w, IF w \in plan THEN read[w] ELSE target)
    /\ pc = "verify" => \A w \in Workers :
            /\ Covered(w, target)
            /\ read[w] # None => read[w] + drawn[w] >= target \/ w \in failed
    /\ ShortHasACause

\* Being covered survives what the node and the service do.
LEMMA StaysCovered ==
    ASSUME TypeOK, NEW w \in Workers, NEW b \in Nat, Covered(w, b),
           Mine \/ (\E v \in Workers : ServiceSpends(v))
    PROVE  Covered(w, b)'
<1>0. balance[w] \in Nat /\ Coming(w) \in Nat /\ drawn[w] \in Nat /\ balance \in [Workers -> Nat]
      /\ drawn \in [Workers -> Nat]
  BY Types DEF TypeOK
<1>1. CASE Mine
  <2>1. PICK t \in Transfers :
             /\ Coming(w) = (IF w = t.to THEN t.value ELSE 0) + Coming(w)'
             /\ \/ /\ balance' = [balance EXCEPT ![t.to] = @ + t.value]
                   /\ UNCHANGED failed
                \/ /\ failed' = failed \cup {t.to}
                   /\ UNCHANGED balance
    BY <1>1, Mines
  <2>2. UNCHANGED drawn
    BY <1>1 DEF Mine
  <2>3. Coming(w)' \in Nat /\ t.value \in Nat
    BY <1>1, ComingIsNatural DEF Transfers
  <2>4. Holding(w)' >= Holding(w) \/ w \in failed'
    <3>1. CASE balance' = [balance EXCEPT ![t.to] = @ + t.value]
      <4>1. balance'[w] = balance[w] + (IF w = t.to THEN t.value ELSE 0)
        BY <1>0, <2>3, <3>1
      <4> QED
        BY <1>0, <2>1, <2>3, <4>1 DEF Holding
    <3>2. CASE failed' = failed \cup {t.to} /\ UNCHANGED balance
      BY <1>0, <2>1, <2>3, <3>2 DEF Holding
    <3> QED
      BY <2>1, <3>1, <3>2
  <2>5. w \in failed => w \in failed'
    BY <2>1
  <2>6. Holding(w) \in Nat /\ Holding(w)' \in Int
    <3>1. balance'[w] \in Nat
      <4>1. balance' = balance \/ balance' = [balance EXCEPT ![t.to] = @ + t.value]
        BY <2>1
      <4> QED
        BY <1>0, <2>3, <4>1
    <3> QED
      BY <1>0, <2>3, <3>1 DEF Holding
  <2> QED
    BY <1>0, <2>2, <2>4, <2>5, <2>6 DEF Covered
<1>2. CASE \E v \in Workers : ServiceSpends(v)
  <2>1. PICK v \in Workers : ServiceSpends(v)
    BY <1>2
  <2>2. balance'[w] + drawn'[w] = balance[w] + drawn[w] /\ balance'[w] \in Int /\ drawn'[w] \in Int
    BY <1>0, <2>1 DEF ServiceSpends
  <2>3. Coming(w)' = Coming(w) /\ UNCHANGED failed
    BY <2>1, SameSums DEF ServiceSpends
  <2> QED
    BY <1>0, <2>2, <2>3 DEF Covered, Holding
<1> QED
  BY <1>1, <1>2

\* What reading one address changes.
LEMMA ReadFacts ==
    ASSUME TypeOK, NEW w \in Workers, ReadBalance(w), NEW v \in Workers
    PROVE  /\ read'[v] = (IF v = w THEN balance[v] ELSE read[v])
           /\ drawn'[v] = (IF v = w /\ pc = "read" THEN 0 ELSE drawn[v])
           /\ Holding(v)' = Holding(v)
           /\ UNCHANGED <<pc, outcome, failed, plan, target, named, mempool>>
<1>1. read \in [Workers -> Nat \cup {None}] /\ drawn \in [Workers -> Nat]
  BY DEF TypeOK
<1>2. /\ read' = [read EXCEPT ![w] = balance[w]]
      /\ drawn' = (IF pc = "read" THEN [drawn EXCEPT ![w] = 0] ELSE drawn)
      /\ UNCHANGED <<balance, mempool, pc, outcome, failed, plan, target, named>>
  BY DEF ReadBalance, chain, control, figures
<1>3. Holding(v)' = Holding(v)
  BY <1>2, SameHoldings
<1>4. read'[v] = (IF v = w THEN balance[v] ELSE read[v])
  BY <1>1, <1>2
<1>5. drawn'[v] = (IF v = w /\ pc = "read" THEN 0 ELSE drawn[v])
  <2>1. CASE pc = "read"
    BY <1>1, <1>2, <2>1
  <2>2. CASE pc # "read"
    BY <1>2, <2>2
  <2> QED
    BY <2>1, <2>2
<1> QED
  BY <1>2, <1>3, <1>4, <1>5

LEMMA ShortStep ==
    ASSUME TypeOK, PlanInv, Settled, ShortInv, [Next]_vars
    PROVE  ShortInv'
<1>0. /\ target \in Nat /\ MinBalance \in Nat /\ plan \subseteq Workers /\ None \notin Nat
      /\ \A w \in Workers : /\ balance[w] \in Nat /\ Coming(w) \in Nat /\ drawn[w] \in Nat
                            /\ read[w] \in Nat \cup {None} /\ Holding(w) \in Nat
  BY Types, HoldingIsNatural
\* Nothing but the end of a verification reports a shortage.
<1>a. CASE pc' \notin {"read", "wallet", "send", "receipt", "verify"} /\ outcome' # "short"
  BY <1>a DEF ShortInv, ShortHasACause, Spending
<1>1. CASE Start
  BY <1>1, <1>a DEF Start, End
<1>2. CASE CrossCheck
  <2>1. \/ pc' = "idle" /\ outcome' = "drift"
        \/ pc' = "read" /\ outcome' = "none" /\ \A w \in Workers : read'[w] = None
    BY <1>2 DEF CrossCheck, Goto, End, PlanInv, Settled
  <2> QED
    BY <1>a, <2>1 DEF ShortInv, ShortHasACause, Spending
<1>3. CASE Decide
  <2>1. /\ \/ pc' = "idle" /\ outcome' \in {"full", "per_run_cap"}
           \/ pc' = "wallet" /\ outcome' = "none"
        /\ pc = "read" /\ AllRead /\ plan' = Short
        /\ UNCHANGED <<balance, mempool, drawn, failed, read, target>>
    BY <1>3 DEF Decide, Goto, End, Settled, figures, chain, history
  <2>2. CASE pc' = "wallet" /\ outcome' = "none"
    <3>1. ASSUME NEW w \in Workers
          PROVE  Covered(w, IF w \in plan THEN read[w] ELSE target)'
      <4>1. read[w] \in Nat /\ Covered(w, read[w])
        BY <1>0, <2>1 DEF AllRead, ShortInv
      <4>2. Holding(w)' = Holding(w)
        BY <2>1, SameHoldings
      <4>3. w \notin plan' => read[w] >= target
        BY <1>0, <2>1, <4>1 DEF Short
      <4> QED
        BY <1>0, <2>1, <4>1, <4>2, <4>3 DEF Covered
    <3> QED
      BY <2>2, <3>1 DEF ShortInv, ShortHasACause, Spending
  <2> QED
    BY <1>a, <2>1, <2>2
<1>4. CASE CheckWallet
  <2>1. /\ \/ pc' = "idle" /\ outcome' \in {"wallet_short", "dry_run"}
           \/ pc' = "send" /\ outcome' = "none"
        /\ pc = "wallet"
        /\ UNCHANGED <<balance, mempool, drawn, failed, read, target, plan>>
    BY <1>4 DEF CheckWallet, Goto, End, Settled, figures, chain, history
  <2>2. CASE pc' = "send" /\ outcome' = "none"
    <3>1. ASSUME NEW w \in Workers
          PROVE  Covered(w, IF w \in plan THEN read[w] ELSE target)'
      <4>1. Covered(w, IF w \in plan THEN read[w] ELSE target)
        BY <2>1 DEF ShortInv, Spending
      <4>2. Holding(w)' = Holding(w)
        BY <2>1, SameHoldings
      <4> QED
        BY <2>1, <4>1, <4>2 DEF Covered
    <3> QED
      BY <2>2, <3>1 DEF ShortInv, ShortHasACause, Spending
  <2> QED
    BY <1>a, <2>1, <2>2
<1>5. CASE Receipt
  <2>1. /\ pc = "receipt" /\ outcome' = "none"
        /\ UNCHANGED <<balance, mempool, drawn, failed, target, plan>>
        /\ \/ plan # {} /\ pc' = "send" /\ UNCHANGED read
           \/ plan = {} /\ pc' = "verify" /\ \A w \in Workers : read'[w] = None
    BY <1>5 DEF Receipt, Goto, Settled, figures, chain, history
  <2>2. \A w \in Workers : Holding(w)' = Holding(w) /\ Covered(w, IF w \in plan THEN read[w] ELSE target)
    BY <2>1, SameHoldings DEF ShortInv, Spending
  <2>3. CASE pc' = "send" /\ UNCHANGED read
    <3>1. \A w \in Workers : Covered(w, IF w \in plan THEN read[w] ELSE target)'
      BY <2>1, <2>2, <2>3 DEF Covered
    <3> QED
      BY <2>1, <2>3, <3>1 DEF ShortInv, ShortHasACause, Spending
  <2>4. CASE plan = {} /\ pc' = "verify" /\ \A w \in Workers : read'[w] = None
    <3>1. \A w \in Workers : Covered(w, target)'
      BY <2>1, <2>2, <2>4 DEF Covered
    <3> QED
      BY <2>1, <2>4, <3>1 DEF ShortInv, ShortHasACause, Spending
  <2> QED
    BY <2>1, <2>3, <2>4
<1>6. CASE Verify
  <2>1. /\ pc = "verify" /\ AllRead /\ pc' = "idle"
        /\ outcome' = "short" => \E w \in Workers : read[w] < FundedAt
        /\ UNCHANGED <<target, named, drawn, failed>>
    BY <1>6 DEF Verify, End, figures, history
  <2>2. CASE outcome' = "short"
    <3>1. PICK w \in Workers : read[w] < FundedAt
      BY <2>1, <2>2
    <3>2. read[w] \in Nat /\ (read[w] + drawn[w] >= target \/ w \in failed)
      BY <1>0, <2>1 DEF ShortInv, AllRead
    <3>3. FundedAt \in Nat
      BY <1>0 DEF FundedAt
    <3>4. drawn[w] > target - FundedAt \/ w \in failed
      BY <1>0, <3>1, <3>2, <3>3
    <3>5. FundedAt' = FundedAt
      BY <2>1 DEF FundedAt
    <3>6. ShortHasACause'
      BY <2>1, <3>4, <3>5 DEF ShortHasACause
    <3> QED
      BY <2>1, <3>6 DEF ShortInv, Spending
  <2> QED
    BY <1>a, <2>1, <2>2
<1>7. CASE Throws
  BY <1>7, <1>a DEF Throws, End
<1>8. CASE \E w \in Workers : ReadBalance(w)
  <2>1. PICK w \in Workers : ReadBalance(w)
    BY <1>8
  <2>2. \A v \in Workers :
             /\ read'[v] = (IF v = w THEN balance[v] ELSE read[v])
             /\ drawn'[v] = (IF v = w /\ pc = "read" THEN 0 ELSE drawn[v])
             /\ Holding(v)' = Holding(v)
    BY <2>1, ReadFacts
  <2>3. UNCHANGED <<pc, outcome, failed, plan, target, named, mempool>>
    BY <2>1, ReadFacts
  <2>4. pc \in {"read", "verify"} /\ outcome = "none"
    BY <2>1 DEF ReadBalance, Settled
  <2>5. CASE pc = "read"
    <3>1. ASSUME NEW v \in Workers, read'[v] # None
          PROVE  Covered(v, read[v])'
      <4>1. CASE v = w
        <5>1. read'[v] = balance[v] /\ drawn'[v] = 0 /\ Holding(v)' = balance[v] + Coming(v)
          BY <2>2, <2>5, <4>1 DEF Holding
        <5>2. Holding(v)' + drawn'[v] >= read'[v]
          BY <1>0, <5>1
        <5> QED
          BY <5>2 DEF Covered
      <4>2. CASE v # w
        <5>1. read'[v] = read[v] /\ drawn'[v] = drawn[v] /\ Holding(v)' = Holding(v)
          BY <2>2, <4>2
        <5>2. Covered(v, read[v])
          BY <2>5, <3>1, <5>1 DEF ShortInv
        <5> QED
          BY <2>3, <5>1, <5>2 DEF Covered
      <4> QED
        BY <4>1, <4>2
    <3> QED
      BY <2>3, <2>4, <2>5, <3>1 DEF ShortInv, ShortHasACause, Spending
  <2>6. CASE pc = "verify"
    <3>1. ASSUME NEW v \in Workers
          PROVE  /\ Covered(v, target)'
                 /\ read'[v] # None => read'[v] + drawn'[v] >= target' \/ v \in failed'
      <4>1. Covered(v, target) /\ (read[v] # None => read[v] + drawn[v] >= target \/ v \in failed)
        BY <2>6 DEF ShortInv
      <4>2. drawn'[v] = drawn[v] /\ Holding(v)' = Holding(v)
        BY <2>2, <2>6
      <4>3. Covered(v, target)'
        BY <2>3, <4>1, <4>2 DEF Covered
      <4>4. Holding(v) = balance[v]
        BY <1>0, <2>6, NothingPending DEF Settled, Holding
      <4>5. read'[v] = balance[v] \/ read'[v] = read[v]
        BY <2>2
      <4>6. read'[v] # None => read'[v] + drawn'[v] >= target' \/ v \in failed'
        BY <2>3, <4>1, <4>2, <4>4, <4>5 DEF Covered
      <4> QED
        BY <4>3, <4>6
    <3> QED
      BY <2>3, <2>4, <2>6, <3>1 DEF ShortInv, ShortHasACause, Spending
  <2> QED
    BY <2>4, <2>5, <2>6
<1>9. CASE \E w \in Workers : Send(w)
  <2>1. PICK w \in Workers : Send(w)
    BY <1>9
  <2>2. /\ pc = "send" /\ w \in plan /\ Submit(w) /\ plan' = plan \ {w} /\ pc' = "receipt"
        /\ outcome' = "none" /\ UNCHANGED <<read, target, balance, drawn, failed>>
    BY <2>1 DEF Send, IsNext, Goto, Settled, figures
  <2>3. \A v \in Workers : Coming(v)' = Coming(v) + (IF v = w THEN Top(w) ELSE 0)
    BY <2>2, Submits DEF Spending
  <2>4. read[w] \in Nat /\ Top(w) \in Nat /\ read[w] + Top(w) = target
    BY <2>2, TopIsPositive DEF Spending
  <2>5. ASSUME NEW v \in Workers
        PROVE  Covered(v, IF v \in plan THEN read[v] ELSE target)'
    <3>1. Covered(v, IF v \in plan THEN read[v] ELSE target)
      BY <2>2 DEF ShortInv, Spending
    <3>2. CASE v = w
      <4>1. Holding(v)' = Holding(v) + Top(w) /\ v \notin plan'
        BY <1>0, <2>2, <2>3, <2>4, <3>2 DEF Holding
      <4>2. Holding(v) + drawn[v] >= read[v] \/ v \in failed
        BY <2>2, <3>1, <3>2 DEF Covered
      <4>3. Holding(v)' + drawn'[v] >= target' \/ v \in failed'
        BY <1>0, <2>2, <2>4, <3>2, <4>1, <4>2
      <4> QED
        BY <4>1, <4>3 DEF Covered
    <3>3. CASE v # w
      <4>1. Holding(v)' = Holding(v) /\ (v \in plan' <=> v \in plan)
        BY <1>0, <2>2, <2>3, <3>3 DEF Holding
      <4> QED
        BY <2>2, <3>1, <4>1 DEF Covered
    <3> QED
      BY <3>2, <3>3
  <2> QED
    BY <2>2, <2>5 DEF ShortInv, ShortHasACause, Spending
<1>10. CASE \E w \in Workers : SendThrows(w)
  BY <1>10, <1>a DEF SendThrows, End
<1>11. CASE Mine \/ \E w \in Workers : ServiceSpends(w)
  <2>1. UNCHANGED <<pc, outcome, target, named, read, plan>>
    BY <1>11 DEF Mine, ServiceSpends, control, figures
  <2>2. ASSUME NEW w \in Workers, NEW b \in Nat, Covered(w, b)
        PROVE  Holding(w)' + drawn'[w] >= b \/ w \in failed'
    BY <1>11, <2>2, StaysCovered DEF Covered
  <2>3. ASSUME NEW w \in Workers
        PROVE  (w \in failed => w \in failed') /\ drawn'[w] \in Nat /\ drawn'[w] >= drawn[w]
    <3>1. CASE Mine
      BY <1>0, <3>1 DEF Mine
    <3>2. CASE \E v \in Workers : ServiceSpends(v)
      <4>1. drawn \in [Workers -> Nat]
        BY DEF TypeOK
      <4> QED
        BY <1>0, <3>2, <4>1 DEF ServiceSpends
    <3> QED
      BY <1>11, <3>1, <3>2
  <2>4. pc = "read" => \A w \in Workers : read'[w] # None => Covered(w, read[w])'
    BY <1>0, <2>1, <2>2 DEF ShortInv, Covered
  <2>5. pc \in Spending => \A w \in Workers : Covered(w, IF w \in plan THEN read[w] ELSE target)'
    <3> SUFFICES ASSUME pc \in Spending, NEW w \in Workers
                 PROVE  Covered(w, IF w \in plan THEN read[w] ELSE target)'
      OBVIOUS
    <3>1. (IF w \in plan THEN read[w] ELSE target) \in Nat
      BY <1>0, TopIsPositive
    <3>2. Covered(w, IF w \in plan THEN read[w] ELSE target)
      BY DEF ShortInv
    <3>3. Holding(w)' + drawn'[w] >= (IF w \in plan THEN read[w] ELSE target) \/ w \in failed'
      BY <2>2, <3>1, <3>2
    <3> QED
      BY <2>1, <3>3 DEF Covered
  <2>6. pc = "verify" => \A w \in Workers :
             /\ Covered(w, target)'
             /\ read'[w] # None => read'[w] + drawn'[w] >= target' \/ w \in failed'
    <3> SUFFICES ASSUME pc = "verify", NEW w \in Workers
                 PROVE  /\ Covered(w, target)'
                        /\ read'[w] # None => read'[w] + drawn'[w] >= target' \/ w \in failed'
      OBVIOUS
    <3>1. Covered(w, target) /\ (read[w] # None => read[w] + drawn[w] >= target \/ w \in failed)
      BY DEF ShortInv
    <3>2. Covered(w, target)'
      BY <1>0, <2>1, <2>2, <3>1 DEF Covered
    <3> QED
      BY <1>0, <2>1, <2>3, <3>1, <3>2
  <2>7. ShortHasACause'
    <3> SUFFICES ASSUME outcome = "short"
                 PROVE  \E w \in Workers : drawn'[w] > target' - FundedAt' \/ w \in failed'
      BY <2>1 DEF ShortHasACause
    <3>1. PICK w \in Workers : drawn[w] > target - FundedAt \/ w \in failed
      BY DEF ShortInv, ShortHasACause
    <3>2. FundedAt' = FundedAt /\ FundedAt \in Nat
      BY <1>0, <2>1 DEF FundedAt
    <3> QED
      BY <1>0, <2>1, <2>3, <3>1, <3>2
  <2> QED
    BY <2>1, <2>4, <2>5, <2>6, <2>7 DEF ShortInv, Spending
<1>12. CASE UNCHANGED vars
  <2>1. UNCHANGED <<pc, outcome, target, named, read, plan, drawn, failed, balance, mempool>>
    BY <1>12 DEF vars, control, figures, chain, history
  <2>2. \A w \in Workers : Holding(w)' = Holding(w)
    BY <2>1, SameHoldings
  <2>3. FundedAt' = FundedAt
    BY <2>1 DEF FundedAt
  <2> QED
    BY <2>1, <2>2, <2>3 DEF ShortInv, ShortHasACause, Covered, Spending
<1> QED
  BY <1>1, <1>2, <1>3, <1>4, <1>5, <1>6, <1>7, <1>8, <1>9, <1>10, <1>11, <1>12
  DEF Next, SweepStep, Finished

-----------------------------------------------------------------------------
(***************************************************************************)
(* The inductive invariant and what follows from it.                       *)
(***************************************************************************)
\* Everything a sweep keeps.
SweepInv ==
    /\ TypeOK /\ Solvent
    /\ PlanInv /\ BudgetInv
    /\ CapInv /\ ReserveInv
    /\ Settled /\ ShortInv

LEMMA SweepInit == Init => SweepInv
<1> SUFFICES ASSUME Init PROVE SweepInv
  OBVIOUS
<1>1. InFlight = 0 /\ \A w \in Workers : Coming(w) = 0
  BY NothingPending DEF Init
<1>2. \A w \in Workers : balance[w] \in 0..MaxPerAddress
  BY DEF Init
<1>3. TypeOK
  <2>1. balance \in [Workers -> Nat] /\ wallet \in Nat
    BY SweepAssumption DEF Init
  <2>2. mempool \in Seq([to : Workers, value : Nat, fee : Fees])
    BY DEF Init
  <2>3. read \in [Workers -> Nat \cup {None}] /\ drawn \in [Workers -> Nat] /\ sweeps \in 0..MaxSweeps
    BY SweepAssumption DEF Init
  <2> QED
    BY <2>1, <2>2, <2>3 DEF Init, TypeOK
<1>4. Solvent
  BY <1>1, <1>3 DEF TypeOK, Solvent
<1>5. PlanInv /\ BudgetInv /\ ReserveInv
  BY SweepAssumption DEF Init, PlanInv, BudgetInv, ReserveInv, Spending
<1>6. CapInv
  <2>1. \A w \in Workers : Holding(w) <= MaxPerAddress
    BY <1>1, <1>2, SweepAssumption DEF Holding
  <2> QED
    BY <2>1 DEF Init, CapInv, Spending
<1>7. Settled /\ ShortInv
  BY DEF Init, Settled, ShortInv, ShortHasACause, Spending
<1> QED
  BY <1>3, <1>4, <1>5, <1>6, <1>7 DEF SweepInv

LEMMA SweepInvariant == Spec => []SweepInv
<1>1. SweepInv /\ [Next]_vars => SweepInv'
  BY TypeStep, PlanStep, BudgetStep, CapStep, ReserveStep, SettledStep, ShortStep DEF SweepInv
<1> QED
  BY <1>1, SweepInit, PTL DEF Spec

\* Every variable keeps its type; above all the funding wallet, from which the
\* node takes no transfer it cannot pay for, is never overdrawn.
THEOREM SweepTypes == Spec => []TypeOK
<1>1. SweepInv => TypeOK
  BY DEF SweepInv
<1> QED
  BY <1>1, SweepInvariant, PTL

\* The per-run cap holds of what is sent, for any pool: what is sent and what is
\* left of the plan add up to the total that was compared with the cap
\* (fund-workers.ts:377).
THEOREM RunIsCapped == Spec => []RunCap
<1>1. SweepInv => RunCap
  <2> SUFFICES ASSUME SweepInv PROVE RunCap
    OBVIOUS
  <2>1. TypeOK /\ BudgetInv
    BY DEF SweepInv
  <2> QED
    BY <2>1 DEF BudgetInv, RunCap
<1> QED
  BY <1>1, SweepInvariant, PTL

\* The per-address cap holds of an address and of what is on its way to it, unless
\* a balance was read beside a pending transfer (fund-workers.ts:343-347, 403).
THEOREM AddressesAreCapped == Spec => []AddressCapUnlessOverlapped
<1>1. SweepInv => AddressCapUnlessOverlapped
  BY DEF SweepInv, CapInv, AddressCapUnlessOverlapped, Holding
<1> QED
  BY <1>1, SweepInvariant, PTL

\* A sweep that has sent leaves the reserve after everything pending, unless a
\* transfer paid more than the estimate or a balance was read beside a pending one:
\* the reserve, what is left of the plan and one estimated fee for each of it stay
\* in the wallet (fund-workers.ts:391-397).
THEOREM ReserveIsKept == Spec => []ReserveKeptUnlessOutbid
<1>1. SweepInv => ReserveKeptUnlessOutbid
  BY DEF SweepInv, ReserveInv, ReserveKeptUnlessOutbid, Free
<1> QED
  BY <1>1, SweepInvariant, PTL

\* A shortage after the transfers is the service's spending or a failed transfer:
\* each address has had the target, apart from those two (fund-workers.ts:256-261).
THEOREM ShortagesHaveACause == Spec => []ShortHasACause
<1>1. SweepInv => ShortHasACause
  BY DEF SweepInv, ShortInv
<1> QED
  BY <1>1, SweepInvariant, PTL

\* A sweep that reports success has every receipt: nothing it or an earlier sweep
\* sent is pending (fund-workers.ts:418-429).
THEOREM SuccessSettled == Spec => []SuccessIsSettled
<1>1. SweepInv => SuccessIsSettled
  BY DEF SweepInv, Settled, SuccessIsSettled
<1> QED
  BY <1>1, SweepInvariant, PTL
=============================================================================
