----------------------------- MODULE PingProofs -----------------------------
(***************************************************************************)
(* Proofs about the pings, for any number of requests, slots, keys and     *)
(* chains.                                                                 *)
(***************************************************************************)
EXTENDS Ping, TLAPS

(***************************************************************************)
(* The rotation, without arithmetic on remainders: a slot drawn fewer than *)
(* NumSlots draws ago is that many places behind the present one, so no    *)
(* two of the last NumSlots draws share a slot.                            *)
(***************************************************************************)
Drew(p) == turn[p] > 0

RotationInv ==
    /\ drawn = 0 <=> evmKeyIndex = 0
    /\ \A p \in Pings : pc[p] = "idle" => ~Drew(p)
    /\ \A p \in Pings : Drew(p) =>
        /\ slot[p] \in Slots
        /\ drawn - turn[p] < NumSlots =>
            \/ evmKeyIndex = slot[p] + (drawn - turn[p])
            \/ evmKeyIndex = slot[p] + (drawn - turn[p]) - NumSlots
    /\ \A p, q \in Pings : p # q /\ Drew(p) /\ Drew(q) /\ slot[p] = slot[q] =>
            turn[p] - turn[q] >= NumSlots \/ turn[q] - turn[p] >= NumSlots

(***************************************************************************)
(* The nonces: a request that nobody raced holds the very nonce the node   *)
(* expects next.                                                           *)
(***************************************************************************)
Sending == {"fees", "nonce", "send", "taken"}
HasSent(p) == pc[p] = "taken" \/ outcome[p] = "sent"

RequestOK(p) ==
    /\ pc[p] \in Sending =>
        account[p] \in Accounts /\ Drew(p) /\ outcome[p] = None
    /\ pc[p] = "idle" => outcome[p] = None
    /\ pc[p] = "send" =>
        /\ nonce[p] \in Nat /\ nonce[p] <= pending[account[p]]
        /\ racedBy[p] = {} => nonce[p] = pending[account[p]]
    /\ HasSent(p) =>
        account[p] \in Accounts /\ nonce[p] \in Nat /\ nonce[p] < pending[account[p]]
    /\ pc[p] \in {"idle", "fees", "nonce"} => racedBy[p] = {}
    /\ outcome[p] = "refused" => racedBy[p] # {}
    /\ \A q \in racedBy[p] \ {Outsider} : q # p /\ Drew(p) /\ Drew(q)

\* Every draw since a request's own has overtaken it, as long as it has not sent; so
\* when two from one slot meet at the node, a rotation has overtaken the first.
Counted(p) ==
    /\ pc[p] = "idle" => overtaken[p] = 0
    /\ pc[p] \in ToSend => drawn = turn[p] + overtaken[p]

RaceOK(p) ==
    \A q \in racedBy[p] \ {Outsider} :
        slot[p] = slot[q] => overtaken[IF turn[p] < turn[q] THEN p ELSE q] >= NumSlots

\* p's transaction was taken, and q has read the same nonce.
PairOK(p, q) ==
    /\ p # q /\ account[p] = account[q] /\ HasSent(p)
    /\ pc[q] = "send" \/ HasSent(q)
    /\ nonce[p] = nonce[q]
    => p \in racedBy[q] \/ q \in racedBy[p]

PingInv ==
    /\ TypeOK
    /\ RotationInv
    /\ \A p \in Pings : RequestOK(p)
    /\ \A p, q \in Pings : PairOK(p, q)
    /\ \A p \in Pings : Counted(p) /\ RaceOK(p)

LEMMA InitInv == Init => PingInv
<1> SUFFICES ASSUME Init PROVE PingInv
  OBVIOUS
<1> USE PingAssumption DEF Init
<1>1. TypeOK
  BY DEF TypeOK
<1>2. RotationInv
  BY DEF RotationInv, Drew
<1>3. \A p \in Pings : ~HasSent(p) /\ outcome[p] # "refused"
  BY DEF HasSent, Outcomes
<1>4. \A p \in Pings : RequestOK(p)
  BY <1>3 DEF RequestOK, Sending
<1>5. \A p, q \in Pings : PairOK(p, q)
  BY <1>3 DEF PairOK
<1>6. \A p \in Pings : Counted(p) /\ RaceOK(p)
  BY DEF Counted, RaceOK, ToSend
<1> QED
  BY <1>1, <1>2, <1>4, <1>5, <1>6 DEF PingInv

-----------------------------------------------------------------------------
(***************************************************************************)
(* A draw.                                                                 *)
(***************************************************************************)
LEMMA Wraps ==
    ASSUME NEW n \in Nat \ {0}, NEW i \in 0..n
    PROVE  i % n = i \/ (i = n /\ i % n = 0)
<1>1. CASE i = n
  BY <1>1
<1>2. CASE i < n
  <2> DEFINE d == i \div n
  <2> DEFINE m == i % n
  <2>1. i = n * d + m /\ m \in 0..(n - 1) /\ d \in Int
    OBVIOUS
  <2> HIDE DEF d, m
  <2>2. n * d < n /\ n * d > -n
    BY <1>2, <2>1
  <2>3. d >= 1 => n * d >= n
    BY <2>1
  <2>4. d <= -1 => n * d <= -n
    BY <2>1
  <2>5. d = 0
    BY <2>1, <2>2, <2>3, <2>4
  <2>6. n * d = 0
    BY <2>5
  <2>7. m = i
    BY <2>1, <2>6
  <2> QED
    BY <2>7 DEF m
<1> QED
  BY <1>1, <1>2

LEMMA NextSlotIs ==
    ASSUME TypeOK
    PROVE  /\ NextSlot \in Slots
           /\ NextSlot = evmKeyIndex + 1 \/ (evmKeyIndex = NumSlots /\ NextSlot = 1)
<1>1. evmKeyIndex \in 0..NumSlots /\ NumSlots \in Nat \ {0}
  BY PingAssumption DEF TypeOK
<1>2. evmKeyIndex % NumSlots \in 0..(NumSlots - 1)
  BY <1>1
<1>3. evmKeyIndex % NumSlots = evmKeyIndex \/ (evmKeyIndex = NumSlots /\ evmKeyIndex % NumSlots = 0)
  BY <1>1, Wraps
<1> QED
  BY <1>1, <1>2, <1>3 DEF NextSlot, Slots

\* On a ring of n places, e is a places past s: the next place is a + 1 past s, and
\* is not s before the ring is full.
LEMMA NextOnTheRing ==
    ASSUME NEW n \in Nat, NEW s \in 1..n, NEW e \in 0..n, NEW a \in Nat, a + 1 < n,
           e = s + a \/ e = s + a - n,
           NEW m \in 1..n, m = e + 1 \/ (e = n /\ m = 1)
    PROVE  m # s /\ (m = s + (a + 1) \/ m = s + (a + 1) - n)
<1>1. CASE m = e + 1 /\ e = s + a
  BY <1>1
<1>2. CASE m = e + 1 /\ e = s + a - n
  BY <1>2
<1>3. CASE e = n /\ m = 1
  BY <1>3
<1> QED
  BY <1>1, <1>2, <1>3

LEMMA DrawKeepsRotation ==
    ASSUME PingInv, NEW p \in Pings, pc[p] = "idle", Draw(p), pc'[p] # "idle",
           \A q \in Pings \ {p} : pc'[q] = pc[q]
    PROVE  RotationInv'
<1> USE PingAssumption
<1>1. /\ evmKeyIndex' = NextSlot /\ drawn' = drawn + 1
      /\ turn' = [turn EXCEPT ![p] = drawn + 1] /\ slot' = [slot EXCEPT ![p] = NextSlot]
  BY DEF Draw
<1>2. /\ turn \in [Pings -> 0..drawn] /\ slot \in [Pings -> 0..NumSlots]
      /\ drawn \in Nat /\ evmKeyIndex \in 0..NumSlots /\ NumSlots \in Nat \ {0}
      /\ NextSlot \in Slots
      /\ NextSlot = evmKeyIndex + 1 \/ (evmKeyIndex = NumSlots /\ NextSlot = 1)
  BY NextSlotIs DEF PingInv, TypeOK
<1>3. /\ turn'[p] = drawn + 1 /\ slot'[p] = NextSlot
      /\ \A q \in Pings \ {p} : turn'[q] = turn[q] /\ slot'[q] = slot[q]
  BY <1>1, <1>2
<1>4. ASSUME NEW q \in Pings \ {p}, Drew(q), drawn + 1 - turn[q] < NumSlots
      PROVE  /\ NextSlot # slot[q]
             /\ \/ NextSlot = slot[q] + (drawn + 1 - turn[q])
                \/ NextSlot = slot[q] + (drawn + 1 - turn[q]) - NumSlots
  <2>1. turn[q] \in Nat /\ turn[q] <= drawn /\ turn[q] > 0 /\ slot[q] \in 1..NumSlots
    BY <1>2, <1>4 DEF PingInv, RotationInv, Drew, Slots
  <2>2. \/ evmKeyIndex = slot[q] + (drawn - turn[q])
        \/ evmKeyIndex = slot[q] + (drawn - turn[q]) - NumSlots
    BY <1>2, <1>4, <2>1 DEF PingInv, RotationInv
  <2> DEFINE age == drawn - turn[q]
  <2>3. age \in Nat /\ age + 1 < NumSlots /\ drawn + 1 - turn[q] = age + 1
    BY <1>2, <1>4, <2>1
  <2>4. evmKeyIndex = slot[q] + age \/ evmKeyIndex = slot[q] + age - NumSlots
    BY <2>2
  <2>5. /\ evmKeyIndex \in 0..NumSlots /\ NumSlots \in Nat /\ NextSlot \in 1..NumSlots
        /\ NextSlot = evmKeyIndex + 1 \/ (evmKeyIndex = NumSlots /\ NextSlot = 1)
    BY <1>2 DEF Slots
  <2> HIDE DEF age
  <2>6. NextSlot # slot[q] /\ (NextSlot = slot[q] + (age + 1) \/ NextSlot = slot[q] + (age + 1) - NumSlots)
    <3>1. PICK a \in Nat : a = age
      BY <2>3
    <3>2. PICK s \in 1..NumSlots : s = slot[q]
      BY <2>1
    <3>3. PICK e \in 0..NumSlots : e = evmKeyIndex
      BY <2>5
    <3>4. PICK m \in 1..NumSlots : m = NextSlot
      BY <2>5
    <3>5. /\ a + 1 < NumSlots /\ NumSlots \in Nat
          /\ e = s + a \/ e = s + a - NumSlots
          /\ m = e + 1 \/ (e = NumSlots /\ m = 1)
      BY <2>3, <2>4, <2>5, <3>1, <3>2, <3>3, <3>4
    <3>6. m # s /\ (m = s + (a + 1) \/ m = s + (a + 1) - NumSlots)
      BY <3>5, NextOnTheRing
    <3> QED
      BY <3>1, <3>2, <3>4, <3>6, Zenon
  <2> QED
    BY <2>3, <2>6, Zenon
<1>5. (drawn = 0 <=> evmKeyIndex = 0)'
  BY <1>1, <1>2 DEF Slots
<1>6. \A q \in Pings : pc'[q] = "idle" => ~Drew(q)'
  BY <1>3 DEF PingInv, RotationInv, Drew
<1>7. ASSUME NEW q \in Pings, Drew(q)'
      PROVE  /\ slot'[q] \in Slots
             /\ drawn' - turn'[q] < NumSlots =>
                \/ evmKeyIndex' = slot'[q] + (drawn' - turn'[q])
                \/ evmKeyIndex' = slot'[q] + (drawn' - turn'[q]) - NumSlots
  <2>1. CASE q = p
    BY <1>1, <1>2, <1>3, <2>1 DEF Slots
  <2>2. CASE q # p
    <3>1. Drew(q) /\ turn'[q] = turn[q] /\ slot'[q] = slot[q] /\ turn[q] \in Nat
      BY <1>2, <1>3, <1>7, <2>2 DEF Drew
    <3>2. slot[q] \in Slots
      BY <3>1 DEF PingInv, RotationInv
    <3>3. drawn + 1 - turn[q] < NumSlots =>
            \/ NextSlot = slot[q] + (drawn + 1 - turn[q])
            \/ NextSlot = slot[q] + (drawn + 1 - turn[q]) - NumSlots
      BY <1>4, <2>2, <3>1
    <3>4. turn[q] \in Nat /\ drawn \in Nat /\ NumSlots \in Nat /\ slot[q] \in Nat
      BY <1>2
    <3>5. drawn' = drawn + 1 /\ evmKeyIndex' = NextSlot
      BY <1>1
    <3>6. drawn' - turn'[q] = drawn + 1 - turn[q]
      BY <3>1, <3>4, <3>5
    <3> QED
      BY <3>1, <3>2, <3>3, <3>4, <3>5, <3>6
  <2> QED
    BY <2>1, <2>2
<1>8. ASSUME NEW q \in Pings \ {p}, Drew(q), NextSlot = slot[q]
      PROVE  drawn + 1 - turn[q] >= NumSlots
  <2>1. turn[q] \in Nat /\ drawn \in Nat /\ NumSlots \in Nat
    BY <1>2
  <2>2. ~(drawn + 1 - turn[q] < NumSlots)
    BY <1>4, <1>8
  <2> QED
    BY <2>1, <2>2
<1>9. ASSUME NEW q \in Pings, NEW r \in Pings, q # r, Drew(q)', Drew(r)', slot'[q] = slot'[r]
      PROVE  turn'[q] - turn'[r] >= NumSlots \/ turn'[r] - turn'[q] >= NumSlots
  <2>1. CASE q = p
    <3>1. Drew(r) /\ turn'[r] = turn[r] /\ turn'[q] = drawn + 1 /\ NextSlot = slot[r]
      BY <1>3, <1>9, <2>1 DEF Drew
    <3>2. drawn + 1 - turn[r] >= NumSlots
      BY <1>8, <1>9, <2>1, <3>1
    <3>3. turn[r] \in Nat /\ drawn \in Nat /\ NumSlots \in Nat
      BY <1>2
    <3> QED
      BY <3>1, <3>2, <3>3
  <2>2. CASE r = p
    <3>1. Drew(q) /\ turn'[q] = turn[q] /\ turn'[r] = drawn + 1 /\ NextSlot = slot[q]
      BY <1>3, <1>9, <2>2 DEF Drew
    <3>2. drawn + 1 - turn[q] >= NumSlots
      BY <1>8, <1>9, <2>2, <3>1
    <3>3. turn[q] \in Nat /\ drawn \in Nat /\ NumSlots \in Nat
      BY <1>2
    <3> QED
      BY <3>1, <3>2, <3>3
  <2>3. CASE q # p /\ r # p
    BY <1>3, <1>9, <2>3 DEF PingInv, RotationInv, Drew
  <2> QED
    BY <2>1, <2>2, <2>3
<1> QED
  BY <1>5, <1>6, <1>7, <1>9 DEF RotationInv

-----------------------------------------------------------------------------
(***************************************************************************)
(* The steps.                                                              *)
(***************************************************************************)
LEMMA Fields ==
    ASSUME PingInv
    PROVE  /\ pc \in [Pings -> Sending \cup {"idle", "done"}]
           /\ outcome \in [Pings -> Outcomes \cup {None}] /\ None \notin Outcomes
           /\ account \in [Pings -> Accounts \cup {NoAccount}]
           /\ nonce \in [Pings -> Nat \cup {None}]
           /\ mined \in [Accounts -> Nat] /\ pending \in [Accounts -> Nat]
           /\ racedBy \in [Pings -> SUBSET (Pings \cup {Outsider})]
  BY PingAssumption DEF PingInv, TypeOK, Sending

\* A step that neither draws nor lets a transaction be taken.
LEMMA SameRaces ==
    ASSUME PingInv, UNCHANGED <<drawn, turn, slot, overtaken, racedBy>>,
           \A q \in Pings :
                pc'[q] = pc[q] \/ (pc'[q] # "idle" /\ (pc'[q] \in ToSend => pc[q] \in ToSend))
    PROVE  \A q \in Pings : (Counted(q) /\ RaceOK(q))'
<1>1. \A q \in Pings : Counted(q) /\ RaceOK(q)
  BY DEF PingInv
<1>2. \A q \in Pings : Counted(q)'
  BY <1>1 DEF Counted
<1>3. \A q \in Pings : RaceOK(q)'
  BY <1>1 DEF RaceOK
<1> QED
  BY <1>2, <1>3

LEMMA StartInv == ASSUME PingInv, NEW p \in Pings, Start(p) PROVE PingInv'
<1>1. /\ pc[p] = "idle" /\ Draw(p) /\ UNCHANGED <<nonce, nodeVars, racedBy>>
      /\ pc' \in [Pings -> Sending \cup {"idle", "done"}]
      /\ outcome' \in [Pings -> Outcomes \cup {None}]
      /\ account' \in [Pings -> Accounts \cup {NoAccount}]
      /\ \A q \in Pings \ {p} :
            pc'[q] = pc[q] /\ outcome'[q] = outcome[q] /\ account'[q] = account[q]
      /\ \/ /\ pc'[p] = "fees" /\ outcome'[p] = outcome[p]
            /\ account'[p] \in Accounts
         \/ pc'[p] = "done" /\ outcome'[p] \in Outcomes \ {"sent", "refused"}
  <2>1. PICK chain \in Chains, check \in BOOLEAN :
            IF chain \in RpcChains /\ KeyOf[NextSlot] # Unset /\ ~check
            THEN /\ account' = [account EXCEPT ![p] = <<chain, KeyOf[NextSlot]>>]
                 /\ pc' = [pc EXCEPT ![p] = "fees"]
                 /\ UNCHANGED outcome
            ELSE /\ Finish(p, IF chain \notin RpcChains THEN "missing_rpc"
                              ELSE IF KeyOf[NextSlot] = Unset THEN "missing_key"
                              ELSE "check_unsupported")
                 /\ UNCHANGED account
    BY DEF Start
  <2>2. pc[p] = "idle" /\ Draw(p) /\ UNCHANGED <<nonce, nodeVars, racedBy>>
    BY DEF Start
  <2>3. CASE chain \in RpcChains /\ KeyOf[NextSlot] # Unset /\ ~check
    <3>1. KeyOf[NextSlot] \in Keys
      BY <2>3, NextSlotIs, PingAssumption DEF PingInv, Slots
    <3>2. <<chain, KeyOf[NextSlot]>> \in Accounts
      BY <3>1 DEF Accounts
    <3> QED
      BY <2>1, <2>2, <2>3, <3>2, Fields DEF Sending
  <2>4. CASE ~(chain \in RpcChains /\ KeyOf[NextSlot] # Unset /\ ~check)
    <3>1. PICK result \in {"missing_rpc", "missing_key", "check_unsupported"} : Finish(p, result)
      BY <2>1, <2>4
    <3> QED
      BY <2>1, <2>2, <2>4, <3>1, Fields DEF Finish, Sending, Outcomes
  <2> QED
    BY <2>3, <2>4
<1>2. /\ drawn' = drawn + 1 /\ drawn \in Nat /\ evmKeyIndex' = NextSlot /\ NextSlot \in 1..NumSlots
      /\ turn \in [Pings -> 0..drawn] /\ slot \in [Pings -> 0..NumSlots] /\ NumSlots \in Nat
      /\ turn' = [turn EXCEPT ![p] = drawn + 1] /\ slot' = [slot EXCEPT ![p] = NextSlot]
      /\ overtaken \in [Pings -> Nat] /\ overtaken' \in [Pings -> Nat]
      /\ \A q \in Pings :
            overtaken'[q] = IF pc[q] \in ToSend THEN overtaken[q] + 1 ELSE overtaken[q]
  <2>1. /\ overtaken \in [Pings -> Nat]
        /\ overtaken' =
            [q \in Pings |-> IF pc[q] \in ToSend THEN overtaken[q] + 1 ELSE overtaken[q]]
    BY <1>1 DEF Draw, PingInv, TypeOK
  <2>2. /\ overtaken' \in [Pings -> Nat]
        /\ \A q \in Pings :
              overtaken'[q] = IF pc[q] \in ToSend THEN overtaken[q] + 1 ELSE overtaken[q]
    BY <2>1
  <2>3. /\ drawn' = drawn + 1 /\ drawn \in Nat /\ evmKeyIndex' = NextSlot /\ NextSlot \in 1..NumSlots
        /\ turn \in [Pings -> 0..drawn] /\ slot \in [Pings -> 0..NumSlots] /\ NumSlots \in Nat
        /\ turn' = [turn EXCEPT ![p] = drawn + 1] /\ slot' = [slot EXCEPT ![p] = NextSlot]
    BY <1>1, NextSlotIs, PingAssumption DEF Draw, PingInv, TypeOK, Slots
  <2> QED
    BY <2>1, <2>2, <2>3
<1>3. TypeOK'
  <2>1. turn' \in [Pings -> 0..drawn'] /\ slot' \in [Pings -> 0..NumSlots] /\ drawn' \in Nat
    BY <1>2
  <2>2. evmKeyIndex' \in 0..NumSlots
    BY <1>2
  <2> QED
    BY <1>1, <1>2, <2>1, <2>2 DEF PingInv, TypeOK, nodeVars, Sending
<1>4. RotationInv'
  BY <1>1, DrawKeepsRotation
<1>5. /\ \A q \in Pings \ {p} : slot'[q] = slot[q] /\ turn'[q] = turn[q]
      /\ slot'[p] = NextSlot /\ Drew(p)'
  BY <1>2 DEF Drew
<1>6. ~Drew(p) /\ racedBy[p] = {} /\ outcome[p] = None
  BY <1>1 DEF PingInv, RotationInv, RequestOK
<1>7. ~HasSent(p)'
  BY <1>1, <1>6, Fields DEF HasSent, Outcomes
<1>8. RequestOK(p)'
  BY <1>1, <1>5, <1>6, <1>7, Fields DEF RequestOK, Sending, nodeVars, Outcomes
<1>9. ASSUME NEW q \in Pings \ {p} PROVE RequestOK(q)'
  <2>1. RequestOK(q) /\ (HasSent(q)' <=> HasSent(q)) /\ (Drew(q)' <=> Drew(q))
    BY <1>1, <1>5 DEF PingInv, HasSent, Drew
  <2>2. \A r \in racedBy[q] \ {Outsider} : r \in Pings \ {p}
    BY <1>6, Fields DEF PingInv, RequestOK
  <2>3. \A r \in racedBy'[q] \ {Outsider} :
            r # q /\ Drew(q)' /\ Drew(r)'
    BY <1>1, <1>5, <2>1, <2>2 DEF RequestOK, Drew
  <2> QED
    BY <1>1, <1>5, <2>1, <2>3 DEF RequestOK, nodeVars
<1>10. ASSUME NEW q \in Pings, NEW r \in Pings PROVE PairOK(q, r)'
  <2>1. CASE q = p \/ r = p
    BY <1>1, <1>7, <2>1 DEF PairOK
  <2>2. CASE q # p /\ r # p
    BY <1>1, <2>2 DEF PingInv, PairOK, HasSent
  <2> QED
    BY <2>1, <2>2
<1>11. ASSUME NEW q \in Pings PROVE Counted(q)'
  <2>1. Counted(q) /\ turn[q] \in Nat /\ overtaken[q] \in Nat
    BY <1>2 DEF PingInv
  <2>2. CASE q = p
    BY <1>1, <1>2, <2>1, <2>2 DEF Counted, ToSend
  <2>3. CASE q # p
    BY <1>1, <1>2, <1>5, <2>1, <2>3 DEF Counted, ToSend
  <2> QED
    BY <2>2, <2>3
<1>12. ASSUME NEW q \in Pings, NEW r \in racedBy'[q] \ {Outsider}, slot'[q] = slot'[r]
       PROVE  overtaken'[IF turn'[q] < turn'[r] THEN q ELSE r] >= NumSlots
  <2>1. racedBy'[q] = racedBy[q] /\ q # p /\ r \in Pings \ {p}
    BY <1>1, <1>6, Fields DEF PingInv, RequestOK
  <2>2. /\ turn'[q] = turn[q] /\ turn'[r] = turn[r]
        /\ slot'[q] = slot[q] /\ slot'[r] = slot[r]
    BY <1>5, <2>1
  <2>3. overtaken[IF turn[q] < turn[r] THEN q ELSE r] >= NumSlots
    BY <1>12, <2>1, <2>2 DEF PingInv, RaceOK
  <2>4. PICK e \in Pings : e = IF turn[q] < turn[r] THEN q ELSE r
    BY <2>1
  <2>5. overtaken[e] \in Nat /\ overtaken'[e] \in Nat /\ overtaken'[e] >= overtaken[e]
    BY <1>2
  <2> QED
    BY <1>2, <2>2, <2>3, <2>4, <2>5
<1>13. \A q \in Pings : RaceOK(q)'
  BY <1>12 DEF RaceOK
<1> QED
  BY <1>3, <1>4, <1>8, <1>9, <1>10, <1>11, <1>13 DEF PingInv

\* A step that moves nothing but one request, neither into a send nor into an answer
\* it did not have.
LEMMA LocalMoveInv ==
    ASSUME PingInv, NEW p \in Pings,
           UNCHANGED <<rotationVars, nonce, nodeVars, racedBy>>,
           NEW next, pc' = [pc EXCEPT ![p] = next],
           \/ pc[p] = "fees" /\ next = "nonce" /\ outcome' = outcome
           \/ /\ next = "done"
              /\ \E result \in Outcomes :
                    /\ outcome' = [outcome EXCEPT ![p] = result]
                    /\ result = "sent" => pc[p] = "taken"
                    /\ result = "refused" => racedBy[p] # {}
    PROVE  PingInv'
<1>1. /\ pc' \in [Pings -> Sending \cup {"idle", "done"}]
      /\ outcome' \in [Pings -> Outcomes \cup {None}]
      /\ \A q \in Pings \ {p} : pc'[q] = pc[q] /\ outcome'[q] = outcome[q]
      /\ pc'[p] = next /\ next \in {"nonce", "done"}
      /\ HasSent(p)' => HasSent(p)
      /\ outcome'[p] = "refused" => outcome[p] = "refused" \/ racedBy[p] # {}
      /\ next = "nonce" => pc[p] = "fees" /\ outcome'[p] = outcome[p]
  BY Fields DEF Sending, HasSent
<1>2. /\ UNCHANGED <<evmKeyIndex, drawn, turn, slot, account, overtaken, nonce, mined, pending, outside, racedBy>>
      /\ \A q \in Pings : Drew(q)' <=> Drew(q)
  BY DEF rotationVars, nodeVars, Drew
<1>3. TypeOK'
  BY <1>1, <1>2 DEF PingInv, TypeOK, Sending
<1>4. RotationInv'
  BY <1>1, <1>2 DEF PingInv, RotationInv
<1>5. ASSUME NEW q \in Pings PROVE RequestOK(q)'
  <2>1. RequestOK(q) /\ (HasSent(q)' => HasSent(q)) /\ racedBy'[q] = racedBy[q]
    BY <1>1, <1>2 DEF PingInv, HasSent
  <2>2. outcome'[q] = "refused" => racedBy'[q] # {}
    BY <1>1, <2>1 DEF RequestOK
  <2>3. \A r \in racedBy'[q] \ {Outsider} :
            r # q /\ Drew(q)' /\ Drew(r)'
    BY <1>2, <2>1, Fields DEF RequestOK
  <2>4. Drew(q)' <=> Drew(q)
    BY <1>2
  <2>5. CASE q = p /\ next = "nonce"
    BY <1>1, <1>2, <2>1, <2>2, <2>3, <2>4, <2>5 DEF RequestOK, Sending
  <2>6. CASE q = p /\ next = "done"
    BY <1>1, <1>2, <2>1, <2>2, <2>3, <2>6 DEF RequestOK, Sending
  <2>7. CASE q # p
    BY <1>1, <1>2, <2>1, <2>2, <2>3, <2>4, <2>7 DEF RequestOK
  <2> QED
    BY <1>1, <2>5, <2>6, <2>7
<1>6. ASSUME NEW q \in Pings, NEW r \in Pings PROVE PairOK(q, r)'
  BY <1>1, <1>2 DEF PingInv, PairOK, HasSent
<1>7. \A q \in Pings : (Counted(q) /\ RaceOK(q))'
  BY <1>1, <1>2, SameRaces DEF ToSend
<1> QED
  BY <1>3, <1>4, <1>5, <1>6, <1>7 DEF PingInv

LEMMA NonceReadInv == ASSUME PingInv, NEW p \in Pings, NonceRead(p) PROVE PingInv'
<1>1. /\ pc[p] = "nonce" /\ nonce' = [nonce EXCEPT ![p] = pending[account[p]]]
      /\ pc' = [pc EXCEPT ![p] = "send"]
      /\ UNCHANGED <<evmKeyIndex, drawn, turn, slot, account, overtaken, outcome>>
      /\ UNCHANGED <<mined, pending, outside, racedBy>>
      /\ \A q \in Pings : Drew(q)' <=> Drew(q)
  BY DEF NonceRead, rotationVars, nodeVars, Drew
<1>2. /\ account[p] \in Accounts /\ pending[account[p]] \in Nat /\ Drew(p)
      /\ outcome[p] = None /\ racedBy[p] = {}
      /\ ~HasSent(p)' /\ ~HasSent(p)
  BY <1>1, Fields DEF PingInv, RequestOK, Sending, HasSent, Outcomes
<1>3. /\ pc'[p] = "send" /\ nonce'[p] = pending[account[p]]
      /\ \A q \in Pings \ {p} : pc'[q] = pc[q] /\ nonce'[q] = nonce[q]
      /\ \A q \in Pings \ {p} : HasSent(q)' <=> HasSent(q)
  BY <1>1, Fields DEF HasSent
<1>4. TypeOK'
  BY <1>1, <1>2 DEF PingInv, TypeOK
<1>5. RotationInv'
  BY <1>1, <1>3 DEF PingInv, RotationInv
<1>6. ASSUME NEW q \in Pings PROVE RequestOK(q)'
  <2>1. CASE q = p
    BY <1>1, <1>2, <1>3, <2>1, Fields DEF RequestOK, Sending, Outcomes
  <2>2. CASE q # p
    <3>1. RequestOK(q) /\ (HasSent(q)' <=> HasSent(q)) /\ (Drew(q)' <=> Drew(q))
      BY <1>1, <1>3, <2>2 DEF PingInv
    <3>2. \A r \in racedBy'[q] \ {Outsider} :
              r # q /\ Drew(q)' /\ Drew(r)'
      BY <1>1, <3>1, Fields DEF RequestOK
    <3> QED
      BY <1>1, <1>3, <2>2, <3>1, <3>2 DEF RequestOK
  <2> QED
    BY <2>1, <2>2
<1>7. ASSUME NEW q \in Pings, NEW r \in Pings PROVE PairOK(q, r)'
  <2>1. CASE q = p
    BY <1>2, <2>1 DEF PairOK
  <2>2. CASE q # p /\ r = p
    <3> SUFFICES ASSUME HasSent(q), account[q] = account[p], nonce[q] = pending[account[p]]
                 PROVE  FALSE
      BY <1>1, <1>2, <1>3, <2>2 DEF PairOK
    <3>1. nonce[q] \in Nat /\ nonce[q] < pending[account[q]]
      BY DEF PingInv, RequestOK
    <3> QED
      BY <1>2, <3>1
  <2>3. CASE q # p /\ r # p
    BY <1>1, <1>3, <2>3 DEF PingInv, PairOK
  <2> QED
    BY <2>1, <2>2, <2>3
<1>8. \A q \in Pings : (Counted(q) /\ RaceOK(q))'
  BY <1>1, <1>3, SameRaces DEF ToSend
<1> QED
  BY <1>4, <1>5, <1>6, <1>7, <1>8 DEF PingInv

\* Whoever sends from account a, every request that has read a nonce of a and not sent
\* it is raced; the others keep what they knew of their own account.
LEMMA RacesKeep ==
    ASSUME PingInv, NEW a \in Accounts, NEW sender \in Pings \cup {Outsider},
           Races(sender, a), UNCHANGED <<nonce, account, outcome, slot, turn>>,
           pending' \in [Accounts -> Nat],
           pending[a] <= pending'[a], \A b \in Accounts \ {a} : pending'[b] = pending[b],
           sender \in Pings => (pc[sender] = "send" /\ account[sender] = a),
           NEW q \in Pings, q # sender, pc'[q] = pc[q]
    PROVE  RequestOK(q)' /\ racedBy[q] \subseteq racedBy'[q]
           /\ (pc[q] = "send" /\ account[q] = a => sender \in racedBy'[q])
<1>1. racedBy'[q] = IF pc[q] = "send" /\ account[q] = a
                    THEN racedBy[q] \cup {sender} ELSE racedBy[q]
  BY DEF Races
<1>2. /\ RequestOK(q) /\ (HasSent(q)' <=> HasSent(q))
      /\ \A r \in Pings : Drew(r)' <=> Drew(r)
      /\ nonce'[q] = nonce[q] /\ account'[q] = account[q] /\ outcome'[q] = outcome[q]
      /\ slot' = slot
  BY DEF PingInv, HasSent, Drew
<1>3. \A r \in racedBy'[q] \ {Outsider} :
            r # q /\ Drew(q)' /\ Drew(r)'
  <2> SUFFICES ASSUME NEW r \in racedBy'[q] \ {Outsider}
               PROVE  r # q /\ Drew(q) /\ Drew(r)
    BY <1>1, <1>2, Fields
  <2>1. CASE r \in racedBy[q]
    BY <1>2, <2>1 DEF RequestOK
  <2>2. CASE r \notin racedBy[q]
    <3>1. r = sender /\ pc[q] = "send" /\ account[q] = a /\ sender \in Pings
      BY <1>1, <2>2
    <3>2. Drew(r) /\ Drew(q)
      BY <1>2, <3>1 DEF PingInv, RequestOK, Sending
    <3> QED
      BY <3>1, <3>2
  <2> QED
    BY <2>1, <2>2
<1>4. pc'[q] = "send" =>
        /\ nonce'[q] \in Nat /\ nonce'[q] <= pending'[account'[q]]
        /\ racedBy'[q] = {} => nonce'[q] = pending'[account'[q]]
  <2> SUFFICES ASSUME pc[q] = "send"
               PROVE  /\ nonce[q] \in Nat /\ nonce[q] <= pending'[account[q]]
                      /\ racedBy'[q] = {} => nonce[q] = pending'[account[q]]
    BY <1>2
  <2>1. /\ account[q] \in Accounts /\ nonce[q] \in Nat /\ nonce[q] <= pending[account[q]]
        /\ racedBy[q] = {} => nonce[q] = pending[account[q]]
    BY <1>2 DEF RequestOK, Sending
  <2>2. pending[account[q]] \in Nat /\ pending'[account[q]] \in Nat
    BY <2>1, Fields
  <2>3. CASE account[q] = a
    <3>1. racedBy'[q] # {} /\ pending[account[q]] <= pending'[account[q]]
      BY <1>1, <2>3
    <3> QED
      BY <2>1, <2>2, <3>1
  <2>4. CASE account[q] # a
    BY <1>1, <2>1, <2>4
  <2> QED
    BY <2>3, <2>4
<1>5. HasSent(q)' =>
        account'[q] \in Accounts /\ nonce'[q] \in Nat /\ nonce'[q] < pending'[account'[q]]
  <2> SUFFICES ASSUME HasSent(q)
               PROVE  account[q] \in Accounts /\ nonce[q] \in Nat /\ nonce[q] < pending'[account[q]]
    BY <1>2
  <2>1. account[q] \in Accounts /\ nonce[q] \in Nat /\ nonce[q] < pending[account[q]]
    BY <1>2 DEF RequestOK
  <2>2. pending[account[q]] \in Nat /\ pending'[account[q]] \in Nat
    BY <2>1, Fields
  <2>3. pending[account[q]] <= pending'[account[q]]
    BY <2>1, <2>2
  <2> QED
    BY <2>1, <2>2, <2>3
<1>6. racedBy[q] \subseteq racedBy'[q]
  BY <1>1
<1>7. /\ pc'[q] \in {"idle", "fees", "nonce"} => racedBy'[q] = {}
      /\ outcome'[q] = "refused" => racedBy'[q] # {}
  BY <1>1, <1>2, <1>6 DEF RequestOK
<1>8. /\ pc'[q] \in Sending =>
            account'[q] \in Accounts /\ Drew(q)' /\ outcome'[q] = None
      /\ pc'[q] = "idle" => outcome'[q] = None
  BY <1>2 DEF RequestOK
<1>9. RequestOK(q)'
  BY <1>3, <1>4, <1>5, <1>7, <1>8 DEF RequestOK
<1> QED
  BY <1>1, <1>6, <1>9

LEMMA TakenInv == ASSUME PingInv, NEW p \in Pings, Taken(p) PROVE PingInv'
<1> DEFINE a == account[p]
<1>1. /\ pc[p] = "send" /\ a \in Accounts /\ outcome[p] = None
      /\ nonce[p] \in Nat /\ pending[a] \in Nat /\ nonce[p] <= pending[a]
  BY Fields DEF PingInv, RequestOK, Sending, Taken
<1>2. /\ pending' = [pending EXCEPT ![a] = IF nonce[p] = @ THEN @ + 1 ELSE @]
      /\ pc' = [pc EXCEPT ![p] = "taken"] /\ Races(p, a)
      /\ UNCHANGED <<evmKeyIndex, drawn, turn, slot, account, overtaken, nonce, outcome, mined, outside>>
      /\ \A q \in Pings : Drew(q)' <=> Drew(q)
  BY DEF Taken, rotationVars, Drew
<1>3. /\ pc'[p] = "taken" /\ \A q \in Pings \ {p} : pc'[q] = pc[q] /\ (HasSent(q)' <=> HasSent(q))
      /\ racedBy'[p] = racedBy[p]
  BY <1>2, Fields DEF HasSent, Races
<1>4. pending' \in [Accounts -> Nat] /\ \A b \in Accounts \ {a} : pending'[b] = pending[b]
  BY <1>1, <1>2, Fields
<1>5. pending'[a] = (IF nonce[p] = pending[a] THEN pending[a] + 1 ELSE pending[a])
  BY <1>1, <1>2, Fields
<1>6. nonce[p] < pending'[a] /\ pending[a] <= pending'[a]
  BY <1>1, <1>5
<1>7. TypeOK'
  <2>1. racedBy' \in [Pings -> SUBSET (Pings \cup {Outsider})]
    BY <1>2, Fields DEF Races
  <2> QED
    BY <1>2, <1>4, <2>1 DEF PingInv, TypeOK
<1>8. RotationInv'
  BY <1>2, <1>3 DEF PingInv, RotationInv
<1>9. ASSUME NEW q \in Pings, q # p
      PROVE  /\ RequestOK(q)' /\ racedBy[q] \subseteq racedBy'[q]
             /\ pc[q] = "send" /\ account[q] = a => p \in racedBy'[q]
  <2> HIDE DEF a
  <2>1. a = account[p]
    BY DEF a
  <2> QED
    BY <1>1, <1>2, <1>3, <1>4, <1>6, <1>9, <2>1, RacesKeep
<1>10. RequestOK(p)'
  <2>1. /\ RequestOK(p) /\ account'[p] = a /\ nonce'[p] = nonce[p] /\ outcome'[p] = None
        /\ slot' = slot /\ a = account[p]
    BY <1>1, <1>2 DEF PingInv
  <2>2. /\ nonce'[p] < pending'[account'[p]] /\ account'[p] \in Accounts /\ nonce'[p] \in Nat
        /\ Drew(p)'
    BY <1>1, <1>2, <1>6, <2>1 DEF RequestOK, Sending
  <2>3. \A r \in racedBy'[p] \ {Outsider} :
            r # p /\ Drew(p)' /\ Drew(r)'
    BY <1>2, <1>3, <2>1, Fields DEF RequestOK
  <2>4. outcome'[p] # "refused"
    BY <2>1, Fields DEF Outcomes
  <2> QED
    BY <1>3, <2>1, <2>2, <2>3, <2>4 DEF RequestOK
<1>11. ASSUME NEW q \in Pings, NEW r \in Pings PROVE PairOK(q, r)'
  <2> SUFFICES ASSUME q # r, account[q] = account[r], HasSent(q)',
                      pc'[r] = "send" \/ HasSent(r)', nonce[q] = nonce[r]
               PROVE  q \in racedBy'[r] \/ r \in racedBy'[q]
    BY <1>2 DEF PairOK
  <2>1. PairOK(q, r) /\ PairOK(r, q)
    BY DEF PingInv
  <2>2. CASE q = p
    <3>1. r # p /\ account[r] = a /\ (pc[r] = "send" \/ HasSent(r))
      BY <1>3, <2>2
    <3>2. pc[r] = "send" => q \in racedBy'[r]
      BY <1>9, <2>2, <3>1
    <3>3. HasSent(r) => r \in racedBy[p] \/ p \in racedBy[r]
      BY <1>1, <2>1, <2>2 DEF PairOK
    <3> QED
      BY <1>3, <1>9, <2>2, <3>1, <3>2, <3>3
  <2>3. CASE r = p
    <3>1. q # p /\ HasSent(q)
      BY <1>3, <2>3
    <3>2. q \in racedBy[p] \/ p \in racedBy[q]
      BY <1>1, <2>1, <2>3, <3>1 DEF PairOK
    <3> QED
      BY <1>3, <1>9, <2>3, <3>1, <3>2
  <2>4. CASE q # p /\ r # p
    <3>1. q \in racedBy[r] \/ r \in racedBy[q]
      BY <1>3, <2>1, <2>4 DEF PairOK
    <3> QED
      BY <1>9, <2>4, <3>1
  <2> QED
    BY <2>2, <2>3, <2>4
<1>12. \A q \in Pings : Counted(q)'
  BY <1>1, <1>2, <1>3 DEF PingInv, Counted, ToSend
<1>13. ASSUME NEW q \in Pings, NEW r \in racedBy'[q] \ {Outsider}, slot[q] = slot[r]
       PROVE  overtaken[IF turn[q] < turn[r] THEN q ELSE r] >= NumSlots
  <2>1. CASE r \in racedBy[q]
    BY <1>13, <2>1 DEF PingInv, RaceOK
  <2>2. CASE r \notin racedBy[q]
    <3>1. r = p /\ q # p /\ pc[q] = "send"
      BY <1>2, <1>13, <2>2 DEF Races
    <3>2. /\ drawn = turn[p] + overtaken[p] /\ drawn = turn[q] + overtaken[q]
          /\ turn[p] \in Nat /\ turn[q] \in Nat /\ overtaken[p] \in Nat /\ overtaken[q] \in Nat
      BY <1>1, <3>1 DEF PingInv, Counted, ToSend, TypeOK
    <3>3. turn[p] - turn[q] >= NumSlots \/ turn[q] - turn[p] >= NumSlots
      BY <1>1, <1>13, <3>1 DEF PingInv, RotationInv, RequestOK, Sending
    <3>4. NumSlots \in Nat \ {0}
      BY PingAssumption
    <3> QED
      BY <3>1, <3>2, <3>3, <3>4
  <2> QED
    BY <2>1, <2>2
<1>14. \A q \in Pings : RaceOK(q)'
  BY <1>2, <1>13 DEF RaceOK
<1> QED
  BY <1>7, <1>8, <1>9, <1>10, <1>11, <1>12, <1>14 DEF PingInv

LEMMA OutsiderSendsInv == ASSUME PingInv, NEW a \in Accounts, OutsiderSends(a) PROVE PingInv'
<1>1. /\ pending' = [pending EXCEPT ![a] = @ + 1] /\ outside' = [outside EXCEPT ![a] = @ + 1]
      /\ outside[a] < MaxSends /\ Races(Outsider, a)
      /\ UNCHANGED <<evmKeyIndex, drawn, turn, slot, account, overtaken, nonce, outcome, mined, pc>>
      /\ \A q \in Pings : (Drew(q)' <=> Drew(q)) /\ (HasSent(q)' <=> HasSent(q))
  BY DEF OutsiderSends, rotationVars, Drew, HasSent
<1>2. /\ pending' \in [Accounts -> Nat] /\ \A b \in Accounts \ {a} : pending'[b] = pending[b]
      /\ pending[a] <= pending'[a]
  <2>1. pending[a] \in Nat /\ pending'[a] = pending[a] + 1
    BY <1>1, Fields
  <2> QED
    BY <1>1, <2>1, Fields
<1>3. TypeOK'
  <2>1. racedBy' \in [Pings -> SUBSET (Pings \cup {Outsider})]
    BY <1>1, Fields DEF Races
  <2>2. outside' \in [Accounts -> 0..MaxSends]
    <3>1. outside \in [Accounts -> 0..MaxSends] /\ MaxSends \in Nat
      BY PingAssumption DEF PingInv, TypeOK
    <3>2. outside[a] + 1 \in 0..MaxSends
      BY <1>1, <3>1
    <3> QED
      BY <1>1, <3>1, <3>2
  <2> QED
    BY <1>1, <1>2, <2>1, <2>2 DEF PingInv, TypeOK
<1>4. RotationInv'
  BY <1>1 DEF PingInv, RotationInv
<1>5. ASSUME NEW q \in Pings
      PROVE  RequestOK(q)' /\ racedBy[q] \subseteq racedBy'[q]
  <2>1. q # Outsider /\ Outsider \notin Pings
    BY PingAssumption
  <2> QED
    BY <1>1, <1>2, <2>1, RacesKeep
<1>6. ASSUME NEW q \in Pings, NEW r \in Pings PROVE PairOK(q, r)'
  BY <1>1, <1>5 DEF PingInv, PairOK
<1>7. \A q \in Pings : Counted(q)'
  BY <1>1 DEF PingInv, Counted
<1>8. \A q \in Pings : racedBy'[q] \ {Outsider} = racedBy[q] \ {Outsider}
  BY <1>1, Fields DEF Races
<1>9. \A q \in Pings : RaceOK(q)'
  BY <1>1, <1>8 DEF PingInv, RaceOK
<1> QED
  BY <1>3, <1>4, <1>5, <1>6, <1>7, <1>9 DEF PingInv

LEMMA MineInv == ASSUME PingInv, NEW a \in Accounts, Mine(a) PROVE PingInv'
<1>1. /\ mined' = [mined EXCEPT ![a] = @ + 1]
      /\ UNCHANGED <<evmKeyIndex, drawn, turn, slot, account, overtaken, nonce, outcome, pc>>
      /\ UNCHANGED <<pending, outside, racedBy>>
      /\ \A q \in Pings : (Drew(q)' <=> Drew(q)) /\ (HasSent(q)' <=> HasSent(q))
  BY DEF Mine, rotationVars, Drew, HasSent
<1>2. mined' \in [Accounts -> Nat]
  <2>1. mined[a] + 1 \in Nat
    BY Fields
  <2> QED
    BY <1>1, <2>1, Fields
<1>3. TypeOK'
  BY <1>1, <1>2 DEF PingInv, TypeOK
<1>4. RotationInv'
  BY <1>1 DEF PingInv, RotationInv
<1>5. ASSUME NEW q \in Pings PROVE RequestOK(q)'
  <2>1. \A r \in racedBy'[q] \ {Outsider} :
            r # q /\ Drew(q)' /\ Drew(r)'
    BY <1>1, Fields DEF PingInv, RequestOK
  <2> QED
    BY <1>1, <2>1 DEF PingInv, RequestOK
<1>6. ASSUME NEW q \in Pings, NEW r \in Pings PROVE PairOK(q, r)'
  BY <1>1 DEF PingInv, PairOK
<1>7. \A q \in Pings : (Counted(q) /\ RaceOK(q))'
  BY <1>1, SameRaces
<1> QED
  BY <1>3, <1>4, <1>5, <1>6, <1>7 DEF PingInv

LEMMA PingStepInv == ASSUME PingInv, NEW p \in Pings, PingStep(p) PROVE PingInv'
<1>1. CASE Start(p)
  BY <1>1, StartInv
<1>2. CASE Elsewhere(p)
  <2>1. outcome' = [outcome EXCEPT ![p] = "elsewhere"] /\ "elsewhere" \in Outcomes
    BY <1>2 DEF Elsewhere, Finish, Outcomes
  <2>2. pc' = [pc EXCEPT ![p] = "done"] /\ UNCHANGED <<rotationVars, nonce, nodeVars, racedBy>>
    BY <1>2 DEF Elsewhere, Finish
  <2> QED
    BY <2>1, <2>2, LocalMoveInv
<1>3. CASE FeesRead(p)
  BY <1>3, LocalMoveInv DEF FeesRead
<1>4. CASE NonceRead(p)
  BY <1>4, NonceReadInv
<1>5. CASE Taken(p)
  BY <1>5, TakenInv
<1>6. CASE Refused(p)
  <2>1. racedBy[p] # {}
    <3>1. /\ account[p] \in Accounts /\ nonce[p] \in Nat /\ nonce[p] < pending[account[p]]
          /\ racedBy[p] = {} => nonce[p] = pending[account[p]]
      BY <1>6 DEF PingInv, RequestOK, Sending, Refused
    <3>2. pending[account[p]] \in Nat
      BY <3>1, Fields
    <3> QED
      BY <3>1, <3>2
  <2>2. outcome' = [outcome EXCEPT ![p] = "refused"] /\ "refused" \in Outcomes
    BY <1>6 DEF Refused, Finish, Outcomes
  <2>3. pc' = [pc EXCEPT ![p] = "done"] /\ UNCHANGED <<rotationVars, nonce, nodeVars, racedBy>>
    BY <1>6 DEF Refused, Finish
  <2> QED
    BY <2>1, <2>2, <2>3, LocalMoveInv
<1>7. CASE Answered(p)
  <2>1. outcome' = [outcome EXCEPT ![p] = "sent"] /\ "sent" \in Outcomes /\ pc[p] = "taken"
    BY <1>7 DEF Answered, Finish, Outcomes
  <2>2. pc' = [pc EXCEPT ![p] = "done"] /\ UNCHANGED <<rotationVars, nonce, nodeVars, racedBy>>
    BY <1>7 DEF Answered, Finish
  <2> QED
    BY <2>1, <2>2, LocalMoveInv
<1>8. CASE Throws(p)
  <2>1. outcome' = [outcome EXCEPT ![p] = "error"] /\ "error" \in Outcomes
    BY <1>8 DEF Throws, Finish, Outcomes
  <2>2. pc' = [pc EXCEPT ![p] = "done"] /\ UNCHANGED <<rotationVars, nonce, nodeVars, racedBy>>
    BY <1>8 DEF Throws, Finish
  <2> QED
    BY <2>1, <2>2, LocalMoveInv
<1> QED
  BY <1>1, <1>2, <1>3, <1>4, <1>5, <1>6, <1>7, <1>8 DEF PingStep

LEMMA StepInv == PingInv /\ [Next]_vars => PingInv'
<1> SUFFICES ASSUME PingInv, [Next]_vars PROVE PingInv'
  OBVIOUS
<1>1. CASE Next
  BY <1>1, PingStepInv, MineInv, OutsiderSendsInv DEF Next
<1>2. CASE UNCHANGED vars
  <2>1. /\ UNCHANGED <<evmKeyIndex, drawn, turn, slot, account, overtaken, nonce, outcome, pc>>
        /\ UNCHANGED <<mined, pending, outside, racedBy>>
        /\ \A q \in Pings : (Drew(q)' <=> Drew(q)) /\ (HasSent(q)' <=> HasSent(q))
    BY <1>2 DEF vars, rotationVars, nodeVars, Drew, HasSent
  <2>2. TypeOK' /\ RotationInv'
    BY <2>1 DEF PingInv, TypeOK, RotationInv
  <2>3. ASSUME NEW q \in Pings PROVE RequestOK(q)'
    <3>1. \A r \in racedBy'[q] \ {Outsider} :
              r # q /\ Drew(q)' /\ Drew(r)'
      BY <2>1, Fields DEF PingInv, RequestOK
    <3> QED
      BY <2>1, <3>1 DEF PingInv, RequestOK
  <2>4. ASSUME NEW q \in Pings, NEW r \in Pings PROVE PairOK(q, r)'
    BY <2>1 DEF PingInv, PairOK
  <2>5. \A q \in Pings : (Counted(q) /\ RaceOK(q))'
    BY <2>1, SameRaces
  <2> QED
    BY <2>2, <2>3, <2>4, <2>5 DEF PingInv
<1> QED
  BY <1>1, <1>2

-----------------------------------------------------------------------------
(***************************************************************************)
(* The theorems.                                                           *)
(***************************************************************************)

\* The inductive invariant holds throughout.
THEOREM PingSafe == Spec => []PingInv
<1>1. Init => PingInv
  BY InitInv
<1>2. PingInv /\ [Next]_vars => PingInv'
  BY StepInv
<1> QED
  BY <1>1, <1>2, PTL DEF Spec

\* Every variable keeps its type, for any number of requests, slots and keys.
THEOREM PingTypes == Spec => []TypeOK
<1>1. PingInv => TypeOK
  BY DEF PingInv
<1> QED
  BY <1>1, PingSafe, PTL

\* A nonce is refused only to a request that another sender raced between its read
\* and its send (evmTransactions.ts:28-47), however many senders there are.
THEOREM RefusalsAreRaces == Spec => []RefusalIsARace
<1>1. PingInv => RefusalIsARace
  BY DEF PingInv, RequestOK, RefusalIsARace
<1> QED
  BY <1>1, PingSafe, PTL

\* Two requests that sent one nonce from one account raced (evmTransactions.ts:28-47).
THEOREM SameNoncesAreRaces == Spec => []SameNonceIsARace
<1>1. ASSUME PingInv, NEW p \in Pings, NEW q \in Pings,
             p # q, account[p] = account[q], HasSent(p), HasSent(q), nonce[p] = nonce[q]
      PROVE  p \in racedBy[q] \/ q \in racedBy[p]
  BY <1>1 DEF PingInv, PairOK
<1>2. PingInv => SameNonceIsARace
  BY <1>1 DEF SameNonceIsARace, HasSent
<1> QED
  BY <1>2, PingSafe, PTL

\* Of two requests that raced from one slot, the first to draw was overtaken by a
\* whole rotation of draws before it had sent (env.ts:231, evmTransactions.ts:32-33).
THEOREM RacesOutlastTheRotation == Spec => []RaceOutlastsTheRotation
<1>1. PingInv => RaceOutlastsTheRotation
  BY DEF PingInv, RaceOK, RaceOutlastsTheRotation
<1> QED
  BY <1>1, PingSafe, PTL
=============================================================================
