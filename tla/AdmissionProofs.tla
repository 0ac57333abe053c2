-------------------------- MODULE AdmissionProofs --------------------------
(***************************************************************************)
(* Proofs about the acceptance of requests, and about the load driver that *)
(* sends them to a service that may be restarted, for any limit, ceilings, *)
(* waits and number of jobs and restarts.                                  *)
(***************************************************************************)
EXTENDS LoadDriver, RateLimiterProofs

(***************************************************************************)
(* The endpoint uses the limiter only through its own calls.               *)
(***************************************************************************)
LEMMA StepUsesLimiter == [Next]_vars => [LimiterNext]_limiterVars
  BY DEF Next, Post, Stats, JobConfirmed, JobFinished, LimiterNext, vars

\* Every run of the endpoint is a run of the limiter.
THEOREM AdmissionImplementsLimiter == Spec => LimiterSpec
<1>1. Init => LimiterInit
  BY DEF Init
<1> QED
  BY <1>1, StepUsesLimiter, PTL DEF Spec, LimiterSpec

\* No window of requests sees more jobs accepted than the limit ...
THEOREM ArrivalsAreBounded == Spec => []WindowBound
  BY AdmissionImplementsLimiter, WindowIsBounded, PTL

\* ... the Retry-After sent with a 429 is exact ...
THEOREM RetryAfterOfPost == Spec => []RetryAfterIsExact
  BY AdmissionImplementsLimiter, RetryAfterExact, PTL

\* ... and the use that the health answer reports is that of the window.
THEOREM UsedOfPost == Spec => []UsedIsExact
  BY AdmissionImplementsLimiter, UsedCountsTheWindow, PTL

-----------------------------------------------------------------------------
(***************************************************************************)
(* The ceilings.  The live jobs, active or waiting for the respond, are    *)
(* counted together: only a new job makes them more.                       *)
(***************************************************************************)
LiveJobs == In(record, stored, "active") \cup In(record, stored, "confirmed")

LiveBound == IF MaxActiveJobs = 0 \/ MaxJobs = 0 THEN 0 ELSE MaxActiveJobs + MaxJobs - 1

AdmissionInv ==
    /\ LimiterInv
    /\ StoreTypeOK
    /\ SlotsAreJobs
    /\ ActiveCeiling
    /\ Cardinality(LiveJobs) <= LiveBound

States == {"active", "confirmed", "finished"}

LEMMA StoreFacts ==
    ASSUME StoreTypeOK
    PROVE  /\ record \in Seq([state : States, finishedAt : Nat])
           /\ Len(record) \in Nat /\ DOMAIN record = 1..Len(record)
           /\ IsFiniteSet(stored) /\ stored \subseteq 1..Len(record)
<1>1. /\ record \in Seq([state : States, finishedAt : Nat])
      /\ stored \subseteq DOMAIN record
  BY DEF StoreTypeOK, States
<1>2. Len(record) \in Nat /\ DOMAIN record = 1..Len(record)
  BY <1>1, LenProperties
<1>3. IsFiniteSet(1..Len(record))
  BY <1>2, FS_Interval
<1> QED
  BY <1>1, <1>2, <1>3, FS_Subset

\* What the two counts of AtCapacity have to do with the live jobs.
LEMMA Counts ==
    ASSUME IsFiniteSet(stored)
    PROVE  /\ ActiveCount \in Nat /\ AwaitingRespondCount \in Nat
           /\ IsFiniteSet(In(record, stored, "active")) /\ IsFiniteSet(LiveJobs)
           /\ Cardinality(LiveJobs) = ActiveCount + AwaitingRespondCount
<1> DEFINE A == In(record, stored, "active")
           C == In(record, stored, "confirmed")
<1>1. A \subseteq stored /\ C \subseteq stored /\ A \cap C = {}
  BY DEF In
<1>2. IsFiniteSet(A) /\ IsFiniteSet(C)
  BY <1>1, FS_Subset
<1>3. Cardinality(A) \in Nat /\ Cardinality(C) \in Nat
  BY <1>2, FS_CardinalityType
<1> HIDE DEF A, C
<1>4. /\ IsFiniteSet(A \cup C)
      /\ Cardinality(A \cup C) = Cardinality(A) + Cardinality(C) - Cardinality(A \cap C)
  BY <1>2, FS_Union
<1>5. Cardinality(A \cap C) = 0
  BY <1>1, FS_EmptySet
<1>6. Cardinality(A \cup C) = Cardinality(A) + Cardinality(C)
  BY <1>3, <1>4, <1>5
<1> QED
  BY <1>2, <1>3, <1>4, <1>6 DEF A, C, ActiveCount, AwaitingRespondCount, LiveJobs

\* A step that makes neither set of jobs larger keeps both bounds.
LEMMA NoMoreJobs ==
    ASSUME StoreTypeOK, ActiveCeiling, Cardinality(LiveJobs) <= LiveBound,
           StoreTypeOK',
           In(record', stored', "active") \subseteq In(record, stored, "active"),
           In(record', stored', "confirmed") \subseteq LiveJobs
    PROVE  ActiveCeiling' /\ Cardinality(LiveJobs') <= LiveBound
<1>1. /\ IsFiniteSet(In(record, stored, "active")) /\ IsFiniteSet(LiveJobs)
      /\ ActiveCount \in Nat
  BY StoreFacts, Counts
<1>2. /\ Cardinality(In(record', stored', "active")) \in Nat
      /\ Cardinality(In(record', stored', "active")) <= Cardinality(In(record, stored, "active"))
  BY <1>1, FS_Subset, FS_CardinalityType
<1>3. LiveJobs' \subseteq LiveJobs
  BY DEF LiveJobs
<1>4. /\ Cardinality(LiveJobs') \in Nat /\ Cardinality(LiveJobs) \in Nat
      /\ Cardinality(LiveJobs') <= Cardinality(LiveJobs)
  BY <1>1, <1>3, FS_Subset, FS_CardinalityType
<1> QED
  BY <1>1, <1>2, <1>4, StoreAssumption DEF ActiveCeiling, ActiveCount, LiveBound

\* Pruning drops finished jobs only.
LEMMA PrunedFacts ==
    ASSUME NEW rec, NEW kept
    PROVE  /\ Pruned(rec, kept) \subseteq kept
           /\ \A i \in kept : rec[i].state # "finished" => i \in Pruned(rec, kept)
  BY DEF Pruned, In

LEMMA CreateInv ==
    ASSUME StoreTypeOK, ActiveCeiling, Cardinality(LiveJobs) <= LiveBound,
           AtCapacity = "none", Create
    PROVE  /\ StoreTypeOK' /\ ActiveCeiling' /\ Cardinality(LiveJobs') <= LiveBound
           /\ Len(record') = Len(record) + 1
<1> DEFINE n == Len(record)
           new == [state |-> "active", finishedAt |-> 0]
<1>1. /\ record \in Seq([state : States, finishedAt : Nat]) /\ n \in Nat
      /\ IsFiniteSet(stored) /\ stored \subseteq 1..n
      /\ new \in [state : States, finishedAt : Nat]
  BY StoreFacts DEF States
<1>2. record' = Append(record, new) /\ stored' = Pruned(record', stored \cup {Len(record')})
  BY DEF Create
<1> HIDE DEF new
<1>3. /\ record' \in Seq([state : States, finishedAt : Nat]) /\ Len(record') = n + 1
      /\ \A i \in 1..n : record'[i] = record[i]
      /\ record'[n + 1] = new
  BY <1>1, <1>2
<1>4. stored' \subseteq stored \cup {n + 1}
  BY <1>2, <1>3, PrunedFacts
<1>5. StoreTypeOK'
  <2>1. DOMAIN record' = 1..(n + 1)
    BY <1>3, LenProperties
  <2> QED
    BY <1>1, <1>3, <1>4, <2>1 DEF StoreTypeOK, States
<1>6. /\ In(record', stored', "active") \subseteq In(record, stored, "active") \cup {n + 1}
      /\ In(record', stored', "confirmed") \subseteq In(record, stored, "confirmed")
  <2>1. record'[n + 1].state = "active"
    BY <1>3 DEF new
  <2> QED
    BY <1>1, <1>3, <1>4, <2>1 DEF In
<1>7. LiveJobs' \subseteq LiveJobs \cup {n + 1}
  BY <1>6 DEF LiveJobs
<1>8. /\ ActiveCount \in Nat /\ AwaitingRespondCount \in Nat
      /\ IsFiniteSet(In(record, stored, "active")) /\ IsFiniteSet(LiveJobs)
      /\ Cardinality(LiveJobs) = ActiveCount + AwaitingRespondCount
  BY <1>1, Counts
<1>9. /\ ActiveCount < MaxActiveJobs /\ AwaitingRespondCount < MaxJobs
      /\ MaxActiveJobs \in Nat /\ MaxJobs \in Nat
  <2>1. MaxActiveJobs \in Nat /\ MaxJobs \in Nat
    BY StoreAssumption
  <2>2. ~(ActiveCount >= MaxActiveJobs) /\ ~(AwaitingRespondCount >= MaxJobs)
    BY DEF AtCapacity
  <2> QED
    BY <1>8, <2>1, <2>2
<1>10. ASSUME NEW S, IsFiniteSet(S), NEW T, T \subseteq S \cup {n + 1}
       PROVE  Cardinality(T) <= Cardinality(S) + 1 /\ Cardinality(S) \in Nat /\ Cardinality(T) \in Nat
  <2>1. /\ IsFiniteSet(S \cup {n + 1})
        /\ Cardinality(S \cup {n + 1}) = IF n + 1 \in S THEN Cardinality(S) ELSE Cardinality(S) + 1
    BY <1>10, FS_AddElement
  <2>2. /\ IsFiniteSet(T) /\ Cardinality(T) <= Cardinality(S \cup {n + 1})
        /\ Cardinality(S) \in Nat /\ Cardinality(T) \in Nat
    BY <1>10, <2>1, FS_Subset, FS_CardinalityType
  <2> QED
    BY <2>1, <2>2
<1>11. ActiveCeiling'
  <2>1. ActiveCount' <= ActiveCount + 1 /\ ActiveCount' \in Nat
    BY <1>6, <1>8, <1>10 DEF ActiveCount
  <2> QED
    BY <1>8, <1>9, <2>1 DEF ActiveCeiling
<1>12. Cardinality(LiveJobs') <= LiveBound
  <2>1. Cardinality(LiveJobs') <= Cardinality(LiveJobs) + 1 /\ Cardinality(LiveJobs') \in Nat
    BY <1>7, <1>8, <1>10
  <2>2. LiveBound = MaxActiveJobs + MaxJobs - 1
    BY <1>8, <1>9 DEF LiveBound
  <2> QED
    BY <1>8, <1>9, <2>1, <2>2
<1> QED
  BY <1>3, <1>5, <1>11, <1>12

\* One job moves on: `confirmed`, or finished with the records pruned.
LEMMA JobMoves ==
    ASSUME StoreTypeOK, ActiveCeiling, Cardinality(LiveJobs) <= LiveBound,
           NEW i \in stored, NEW new \in [state : States, finishedAt : Nat],
           new.state # "active",
           record[i].state # "finished",
           record' = [record EXCEPT ![i] = new],
           stored' \subseteq stored
    PROVE  /\ StoreTypeOK' /\ ActiveCeiling' /\ Cardinality(LiveJobs') <= LiveBound
           /\ Len(record') = Len(record)
<1>1. /\ record \in Seq([state : States, finishedAt : Nat]) /\ Len(record) \in Nat
      /\ stored \subseteq 1..Len(record) /\ i \in 1..Len(record)
  BY StoreFacts
<1>2. /\ record' \in Seq([state : States, finishedAt : Nat]) /\ Len(record') = Len(record)
      /\ \A k \in 1..Len(record) : record'[k] = IF k = i THEN new ELSE record[k]
  BY <1>1, ExceptSeq
<1>3. StoreTypeOK'
  <2>1. DOMAIN record' = 1..Len(record)
    BY <1>2, LenProperties
  <2> QED
    BY <1>1, <1>2, <2>1 DEF StoreTypeOK, States
<1>4. In(record', stored', "active") \subseteq In(record, stored, "active")
  BY <1>1, <1>2 DEF In
<1>5. i \in LiveJobs
  <2>1. record[i] \in [state : States, finishedAt : Nat]
    BY <1>1, ElementOfSeq
  <2>2. record[i].state \in States
    BY <2>1
  <2> QED
    BY <2>2 DEF LiveJobs, In, States
<1>6. In(record', stored', "confirmed") \subseteq LiveJobs
  BY <1>1, <1>2, <1>5 DEF In, LiveJobs
<1> QED
  BY <1>2, <1>3, <1>4, <1>6, NoMoreJobs

LEMMA AdmissionInitInv == Init => AdmissionInv
<1> SUFFICES ASSUME Init PROVE AdmissionInv
  OBVIOUS
<1>1. record = <<>> /\ stored = {} /\ admitted = <<>>
  BY DEF Init, StoreInit, LimiterInit
<1>2. LimiterInv
  BY LimiterInitInv DEF Init
<1>3. StoreTypeOK
  BY <1>1, EmptySeq DEF StoreTypeOK
<1>4. In(record, stored, "active") = {} /\ LiveJobs = {} /\ Cardinality({}) = 0
  BY <1>1, FS_EmptySet DEF In, LiveJobs
<1>5. 0 <= MaxActiveJobs /\ 0 <= LiveBound
  BY StoreAssumption DEF LiveBound
<1>6. ActiveCeiling /\ Cardinality(LiveJobs) <= LiveBound
  BY <1>4, <1>5 DEF ActiveCeiling, ActiveCount
<1>7. SlotsAreJobs
  BY <1>1 DEF SlotsAreJobs
<1> QED
  BY <1>2, <1>3, <1>6, <1>7 DEF AdmissionInv

LEMMA AdmissionStepInv == AdmissionInv /\ [Next]_vars => AdmissionInv'
<1> SUFFICES ASSUME AdmissionInv, [Next]_vars PROVE AdmissionInv'
  OBVIOUS
<1>1. LimiterInv'
  BY StepUsesLimiter, LimiterStepInv DEF AdmissionInv
<1>2. StoreTypeOK /\ ActiveCeiling /\ Cardinality(LiveJobs) <= LiveBound /\ SlotsAreJobs
  BY DEF AdmissionInv
<1>3. CASE UNCHANGED storeVars /\ UNCHANGED admitted
  BY <1>1, <1>2, <1>3
  DEF storeVars, AdmissionInv, StoreTypeOK, ActiveCeiling, ActiveCount, LiveJobs, SlotsAreJobs
<1>4. CASE AtCapacity = "none" /\ Admit /\ Create
  <2>1. /\ StoreTypeOK' /\ ActiveCeiling' /\ Cardinality(LiveJobs') <= LiveBound
        /\ Len(record') = Len(record) + 1
    BY <1>2, <1>4, CreateInv
  <2>2. Len(admitted') = Len(admitted) + 1
    <3>1. admitted \in Seq(0..MaxTime) /\ admitted' = Append(admitted, now)
      BY <1>4 DEF Admit, AdmissionInv, LimiterInv, LimiterTypeOK
    <3> QED
      BY <3>1
  <2> QED
    BY <1>1, <1>2, <2>1, <2>2 DEF AdmissionInv, SlotsAreJobs
<1>5. CASE JobConfirmed
  <2>1. PICK i \in stored : Confirm(i) /\ UNCHANGED limiterVars
    BY <1>5 DEF JobConfirmed
  <2>2. /\ record \in Seq([state : States, finishedAt : Nat]) /\ i \in 1..Len(record)
    BY <1>2, StoreFacts
  <2>3. record[i] \in [state : States, finishedAt : Nat]
    BY <2>2, ElementOfSeq
  <2>4. record[i].state = "active"
    BY <2>1 DEF Confirm, In
  <2>5. PICK new : new = [record[i] EXCEPT !.state = "confirmed"]
    OBVIOUS
  <2>6. new \in [state : States, finishedAt : Nat] /\ new.state = "confirmed"
    BY <2>3, <2>5 DEF States
  <2>7. record' = [record EXCEPT ![i] = new] /\ stored' = stored
    BY <2>1, <2>5 DEF Confirm
  <2>8. /\ StoreTypeOK' /\ ActiveCeiling' /\ Cardinality(LiveJobs') <= LiveBound
        /\ Len(record') = Len(record)
    BY <1>2, <2>4, <2>6, <2>7, JobMoves
  <2> QED
    BY <1>1, <1>2, <2>1, <2>8 DEF AdmissionInv, SlotsAreJobs, limiterVars
<1>6. CASE JobFinished
  <2>1. PICK i \in stored : Finish(i, now) /\ UNCHANGED limiterVars
    BY <1>6 DEF JobFinished
  <2>2. record[i].state # "finished"
    BY <2>1 DEF Finish, In
  <2>3. now \in Nat
    BY LimiterTypes DEF AdmissionInv, LimiterInv
  <2>4. PICK new : new = [state |-> "finished", finishedAt |-> now]
    OBVIOUS
  <2>5. new \in [state : States, finishedAt : Nat] /\ new.state = "finished"
    BY <2>3, <2>4 DEF States
  <2>6. record' = [record EXCEPT ![i] = new] /\ stored' \subseteq stored
    BY <2>1, <2>4, PrunedFacts DEF Finish
  <2>7. /\ StoreTypeOK' /\ ActiveCeiling' /\ Cardinality(LiveJobs') <= LiveBound
        /\ Len(record') = Len(record)
    BY <1>2, <2>2, <2>5, <2>6, JobMoves
  <2> QED
    BY <1>1, <1>2, <2>1, <2>7 DEF AdmissionInv, SlotsAreJobs, limiterVars
<1>7. \/ UNCHANGED storeVars /\ UNCHANGED admitted
      \/ AtCapacity = "none" /\ Admit /\ Create
      \/ JobConfirmed \/ JobFinished
  BY DEF Next, Post, Stats, Refuse, Query, Tick, vars, limiterVars
<1> QED
  BY <1>3, <1>4, <1>5, <1>6, <1>7

\* The inductive invariant holds in every run of the endpoint.
THEOREM AdmissionSafe == Spec => []AdmissionInv
  BY AdmissionInitInv, AdmissionStepInv, PTL DEF Spec

\* Every variable has its type.
THEOREM AdmissionTypes == Spec => []TypeOK
<1>1. AdmissionInv => TypeOK
  BY DEF AdmissionInv, LimiterInv, TypeOK
<1> QED
  BY <1>1, AdmissionSafe, PTL

\* An arrival slot is spent on every job and on nothing else.
THEOREM SlotsSpentOnJobs == Spec => []SlotsAreJobs
<1>1. AdmissionInv => SlotsAreJobs
  BY DEF AdmissionInv
<1> QED
  BY <1>1, AdmissionSafe, PTL

\* MAX_ACTIVE_JOBS bounds the jobs that hold or want an address.
THEOREM ActiveJobsAreBounded == Spec => []ActiveCeiling
<1>1. AdmissionInv => ActiveCeiling
  BY DEF AdmissionInv
<1> QED
  BY <1>1, AdmissionSafe, PTL

LEMMA LiveCeilingFollows == AdmissionInv => LiveCeiling
<1> SUFFICES ASSUME AdmissionInv PROVE LiveCeiling
  OBVIOUS
<1>1. Cardinality(LiveJobs) = ActiveCount + AwaitingRespondCount
  BY StoreFacts, Counts DEF AdmissionInv
<1> QED
  BY <1>1 DEF AdmissionInv, LiveCeiling, LiveBound

\* Together the two ceilings bound the jobs that are live, by one less than
\* their sum.
THEOREM LiveJobsAreBounded == Spec => []LiveCeiling
  BY LiveCeilingFollows, AdmissionSafe, PTL

-----------------------------------------------------------------------------
(***************************************************************************)
(* Pruning.  Finished records are ordered by SortsAfter, so that at most   *)
(* one of them, the first, is dropped whenever a job finishes.             *)
(***************************************************************************)
Recorded(rec, F) == F \subseteq Nat /\ \A i \in F : rec[i].finishedAt \in Nat

LEMMA SortOrder ==
    ASSUME NEW rec, NEW F, Recorded(rec, F), NEW i \in F, NEW k \in F, NEW l \in F
    PROVE  /\ ~SortsAfter(rec, i, i)
           /\ i # k => SortsAfter(rec, i, k) \/ SortsAfter(rec, k, i)
           /\ SortsAfter(rec, i, k) => ~SortsAfter(rec, k, i)
           /\ SortsAfter(rec, i, k) /\ SortsAfter(rec, k, l) => SortsAfter(rec, i, l)
<1>1. /\ i \in Nat /\ k \in Nat /\ l \in Nat
      /\ rec[i].finishedAt \in Nat /\ rec[k].finishedAt \in Nat /\ rec[l].finishedAt \in Nat
  BY DEF Recorded
<1> QED
  BY <1>1 DEF SortsAfter

\* Some record comes before all others: the one created first of those that
\* finished first.
LEMMA FirstRecord ==
    ASSUME NEW rec, NEW F, Recorded(rec, F), F # {}
    PROVE  \E m \in F : \A k \in F \ {m} : SortsAfter(rec, m, k)
<1> DEFINE T == {rec[i].finishedAt : i \in F}
<1>1. T \subseteq Nat /\ T # {}
  BY DEF Recorded
<1>2. PICK t \in T : \A u \in T : t <= u
  <2> HIDE DEF T
  <2> QED
    BY <1>1, LeastNat
<1> DEFINE G == {i \in F : rec[i].finishedAt = t}
<1>3. G \subseteq Nat /\ G # {}
  BY <1>2 DEF Recorded
<1>4. PICK m \in G : \A k \in G : m <= k
  <2> HIDE DEF G
  <2> QED
    BY <1>3, LeastNat
<1>5. m \in F /\ rec[m].finishedAt = t
  BY <1>4
<1>6. ASSUME NEW k \in F \ {m} PROVE SortsAfter(rec, m, k)
  <2>1. /\ k \in Nat /\ m \in Nat /\ k # m /\ rec[k].finishedAt \in Nat /\ t \in Nat
        /\ t <= rec[k].finishedAt
    BY <1>1, <1>2, <1>5, <1>6 DEF Recorded
  <2>2. CASE rec[k].finishedAt = t
    <3>1. m <= k
      BY <1>4, <1>6, <2>2
    <3> QED
      BY <1>5, <2>1, <2>2, <3>1 DEF SortsAfter
  <2>3. CASE rec[k].finishedAt # t
    BY <1>5, <2>1, <2>3 DEF SortsAfter
  <2> QED
    BY <2>2, <2>3
<1> QED
  BY <1>5, <1>6

\* Nothing is dropped as long as the finished records fit.
LEMMA PruneDropsNone ==
    ASSUME NEW rec, NEW kept, IsFiniteSet(In(rec, kept, "finished")),
           Recorded(rec, In(rec, kept, "finished")),
           Cardinality(In(rec, kept, "finished")) <= Retained
    PROVE  Pruned(rec, kept) = kept
<1> DEFINE F == In(rec, kept, "finished")
           After(i) == {k \in F : SortsAfter(rec, i, k)}
<1>1. ASSUME NEW i \in F PROVE Cardinality(After(i)) < Retained
  <2>1. After(i) \subseteq F \ {i}
    BY <1>1, SortOrder
  <2>2. /\ IsFiniteSet(F \ {i}) /\ Cardinality(F \ {i}) = Cardinality(F) - 1
        /\ Cardinality(F) \in Nat
    BY <1>1, FS_RemoveElement, FS_CardinalityType
  <2> HIDE DEF F, After
  <2>3. Cardinality(After(i)) \in Nat /\ Cardinality(After(i)) <= Cardinality(F \ {i})
    BY <2>1, <2>2, FS_Subset, FS_CardinalityType
  <2> QED
    BY <2>2, <2>3, StoreAssumption DEF F
<1> QED
  BY <1>1 DEF Pruned

\* One record too many: the first one goes.
LEMMA PruneDropsFirst ==
    ASSUME NEW rec, NEW kept, IsFiniteSet(In(rec, kept, "finished")),
           Recorded(rec, In(rec, kept, "finished")),
           Cardinality(In(rec, kept, "finished")) = Retained + 1
    PROVE  \E m \in In(rec, kept, "finished") :
            /\ \A k \in In(rec, kept, "finished") \ {m} : SortsAfter(rec, m, k)
            /\ Pruned(rec, kept) = kept \ {m}
<1> DEFINE F == In(rec, kept, "finished")
           After(i) == {k \in F : SortsAfter(rec, i, k)}
<1>1. Retained \in Nat
  BY StoreAssumption
<1>2. F # {}
  <2>1. Cardinality({}) = 0
    BY FS_EmptySet
  <2> QED
    BY <1>1, <2>1
<1>3. PICK m \in F : \A k \in F \ {m} : SortsAfter(rec, m, k)
  <2> HIDE DEF F
  <2> QED
    BY <1>2, FirstRecord DEF F
<1>4. /\ IsFiniteSet(F \ {m}) /\ Cardinality(F \ {m}) = Retained
  <2>1. IsFiniteSet(F) /\ Cardinality(F) = Retained + 1 /\ m \in F
    BY <1>3, Zenon
  <2> HIDE DEF F
  <2>2. IsFiniteSet(F \ {m}) /\ Cardinality(F \ {m}) = Cardinality(F) - 1
    BY <2>1, FS_RemoveElement
  <2> QED
    BY <1>1, <2>1, <2>2
<1>5. After(m) = F \ {m}
  BY <1>3, SortOrder
<1>6. ASSUME NEW i \in F \ {m} PROVE Cardinality(After(i)) < Retained
  <2>1. After(i) \subseteq (F \ {m}) \ {i}
    BY <1>3, <1>6, SortOrder
  <2>2. /\ IsFiniteSet((F \ {m}) \ {i})
        /\ Cardinality((F \ {m}) \ {i}) = Retained - 1
    BY <1>4, <1>6, FS_RemoveElement
  <2> HIDE DEF F, After
  <2>3. /\ Cardinality(After(i)) \in Nat
        /\ Cardinality(After(i)) <= Cardinality((F \ {m}) \ {i})
    BY <2>1, <2>2, FS_Subset, FS_CardinalityType
  <2> QED
    BY <1>1, <2>2, <2>3
<1>7. Pruned(rec, kept) = {i \in kept : i \in F => Cardinality(After(i)) < Retained}
  BY DEF Pruned
<1>8. ~(Cardinality(After(m)) < Retained)
  BY <1>1, <1>4, <1>5
<1> HIDE DEF After
<1>9. Pruned(rec, kept) = kept \ {m}
  BY <1>3, <1>6, <1>7, <1>8
<1> QED
  BY <1>3, <1>9

StoreFinished == In(record, stored, "finished")

LEMMA FinishedFacts ==
    ASSUME StoreTypeOK
    PROVE  IsFiniteSet(StoreFinished) /\ Recorded(record, DOMAIN record)
<1>1. StoreFinished \subseteq stored
  BY DEF StoreFinished, In
<1>2. ASSUME NEW i \in DOMAIN record PROVE i \in Nat /\ record[i].finishedAt \in Nat
  <2>1. i \in 1..Len(record) /\ record \in Seq([state : States, finishedAt : Nat])
    BY <1>2, StoreFacts
  <2>2. record[i] \in [state : States, finishedAt : Nat]
    BY <2>1, ElementOfSeq
  <2> QED
    BY <2>1, <2>2
<1> QED
  BY <1>1, <1>2, StoreFacts, FS_Subset DEF Recorded

LEMMA CreateKeeps ==
    ASSUME StoreTypeOK, StoreTypeOK', RecordsKept, Create
    PROVE  RecordsKept'
<1> DEFINE n == Len(record)
           new == [state |-> "active", finishedAt |-> 0]
<1>1. /\ record \in Seq([state : States, finishedAt : Nat]) /\ n \in Nat
      /\ DOMAIN record = 1..n /\ stored \subseteq 1..n
      /\ new \in [state : States, finishedAt : Nat]
  BY StoreFacts DEF States
<1>2. record' = Append(record, new) /\ stored' = Pruned(record', stored \cup {Len(record')})
  BY DEF Create
<1>3. new.state = "active"
  OBVIOUS
<1> HIDE DEF new
<1>4. /\ Len(record') = n + 1 /\ DOMAIN record' = 1..(n + 1)
      /\ \A i \in 1..n : record'[i] = record[i]
      /\ record'[n + 1] = new
  BY <1>1, <1>2
<1>5. In(record', stored \cup {n + 1}, "finished") = StoreFinished
  BY <1>1, <1>3, <1>4 DEF In, StoreFinished
<1>6. Recorded(record', StoreFinished)
  <2>1. StoreFinished \subseteq 1..n /\ Recorded(record, 1..n)
    BY <1>1, FinishedFacts DEF StoreFinished, In
  <2> QED
    BY <1>4, <2>1 DEF Recorded
<1>7. stored' = stored \cup {n + 1}
  <2>1. Cardinality(StoreFinished) <= Retained
    BY DEF RecordsKept, StoreFinished
  <2> QED
    BY <1>2, <1>4, <1>5, <1>6, <2>1, FinishedFacts, PruneDropsNone
<1>8. DOMAIN record' \ stored' = DOMAIN record \ stored
  BY <1>1, <1>4, <1>7
<1>9. In(record', stored', "finished") = In(record, stored, "finished")
  BY <1>5, <1>7 DEF StoreFinished
<1>10. ASSUME NEW i \in DOMAIN record \ stored PROVE record'[i] = record[i]
  BY <1>1, <1>4
<1>11. ASSUME NEW i \in DOMAIN record \ stored, NEW k \in In(record, stored, "finished")
       PROVE  SortsAfter(record', i, k) <=> SortsAfter(record, i, k)
  <2>1. k \in 1..n
    BY <1>1 DEF In
  <2> QED
    BY <1>4, <1>10, <2>1 DEF SortsAfter
<1> QED
  BY <1>8, <1>9, <1>10, <1>11 DEF RecordsKept

LEMMA ConfirmKeeps ==
    ASSUME StoreTypeOK, RecordsKept, NEW i \in stored, Confirm(i)
    PROVE  RecordsKept'
<1>1. /\ record \in Seq([state : States, finishedAt : Nat])
      /\ DOMAIN record = 1..Len(record) /\ stored \subseteq 1..Len(record)
      /\ record[i].state = "active" /\ stored' = stored
  BY StoreFacts DEF Confirm, In
<1>2. PICK new : new = [record[i] EXCEPT !.state = "confirmed"]
  OBVIOUS
<1>3. new.state = "confirmed"
  <2>1. record[i] \in [state : States, finishedAt : Nat]
    BY <1>1, ElementOfSeq
  <2> QED
    BY <1>2, <2>1
<1>4. record' = [record EXCEPT ![i] = new]
  BY <1>2 DEF Confirm
<1>5. /\ DOMAIN record' = DOMAIN record
      /\ \A k \in DOMAIN record : record'[k] = IF k = i THEN new ELSE record[k]
  BY <1>1, <1>4
<1>6. In(record', stored', "finished") = In(record, stored, "finished")
  BY <1>1, <1>3, <1>5 DEF In
<1>7. ASSUME NEW d \in DOMAIN record \ stored PROVE record'[d] = record[d]
  BY <1>5
<1>8. ASSUME NEW d \in DOMAIN record \ stored, NEW k \in In(record, stored, "finished")
      PROVE  SortsAfter(record', d, k) <=> SortsAfter(record, d, k)
  <2>1. k # i /\ k \in DOMAIN record
    BY <1>1 DEF In
  <2> QED
    BY <1>5, <1>7, <2>1 DEF SortsAfter
<1> QED
  BY <1>1, <1>5, <1>6, <1>7, <1>8 DEF RecordsKept

LEMMA FinishKeeps ==
    ASSUME StoreTypeOK, StoreTypeOK', RecordsKept, NEW t \in Nat, NEW i \in stored, Finish(i, t)
    PROVE  RecordsKept'
<1> DEFINE D == DOMAIN record \ stored
           K == In(record, stored, "finished")
           F == K \cup {i}
<1>1. /\ record \in Seq([state : States, finishedAt : Nat])
      /\ DOMAIN record = 1..Len(record) /\ stored \subseteq 1..Len(record)
      /\ record[i].state # "finished" /\ stored' = Pruned(record', stored)
  BY StoreFacts DEF Finish, In
<1>2. PICK new : new = [state |-> "finished", finishedAt |-> t]
  OBVIOUS
<1>3. new.state = "finished" /\ record' = [record EXCEPT ![i] = new]
  BY <1>2 DEF Finish
<1>4. /\ DOMAIN record' = DOMAIN record
      /\ \A k \in DOMAIN record : record'[k] = IF k = i THEN new ELSE record[k]
  BY <1>1, <1>3
<1>5. In(record', stored, "finished") = F
  BY <1>1, <1>3, <1>4 DEF In
<1>6. i \notin K /\ IsFiniteSet(K) /\ Cardinality(K) \in Nat
  BY <1>1, FinishedFacts, FS_CardinalityType DEF StoreFinished, In
<1>7. IsFiniteSet(F) /\ Cardinality(F) = Cardinality(K) + 1
  BY <1>6, FS_AddElement
<1>8. Recorded(record', DOMAIN record)
  <2>1. new.finishedAt \in Nat
    BY <1>2
  <2> QED
    BY <1>4, <2>1, FinishedFacts DEF Recorded
<1>9. F \subseteq DOMAIN record /\ D \subseteq DOMAIN record
  BY <1>1 DEF In
<1>10. Recorded(record', F)
  BY <1>8, <1>9 DEF Recorded
<1>11. /\ \A d \in D : record[d].state = "finished"
       /\ \A d \in D, k \in K : SortsAfter(record, d, k)
       /\ Cardinality(K) <= Retained
       /\ D # {} => Cardinality(K) = Retained
  BY DEF RecordsKept
<1>12. ASSUME NEW d \in D, NEW k \in K PROVE SortsAfter(record', d, k)
  <2>1. d # i /\ k # i
    BY <1>6
  <2>2. record'[d] = record[d] /\ record'[k] = record[k]
    BY <1>4, <1>9, <2>1
  <2> QED
    BY <1>11, <2>2 DEF SortsAfter
<1>13. \A d \in D : record'[d].state = "finished"
  BY <1>4, <1>11
<1>14. CASE Cardinality(F) <= Retained
  <2>1. stored' = stored
    BY <1>1, <1>5, <1>7, <1>10, <1>14, PruneDropsNone
  <2>2. D = {}
    BY <1>6, <1>7, <1>11, <1>14, StoreAssumption
  <2>3. DOMAIN record' \ stored' = {} /\ In(record', stored', "finished") = F
    BY <1>4, <1>5, <2>1, <2>2
  <2> QED
    BY <1>14, <2>3 DEF RecordsKept
<1>15. CASE ~(Cardinality(F) <= Retained)
  <2>1. Cardinality(F) = Retained + 1 /\ Retained \in Nat
    BY <1>6, <1>7, <1>11, <1>15, StoreAssumption
  <2>2. PICK m \in F :
          /\ \A k \in F \ {m} : SortsAfter(record', m, k)
          /\ stored' = stored \ {m}
    BY <1>1, <1>5, <1>7, <1>10, <2>1, PruneDropsFirst
  <2>3. In(record', stored', "finished") = F \ {m}
    BY <1>5, <2>2 DEF In
  <2>4. Cardinality(F \ {m}) = Retained
    <3> HIDE DEF F
    <3>1. Cardinality(F \ {m}) = Cardinality(F) - 1
      BY <1>7, <2>2, FS_RemoveElement
    <3> QED
      BY <2>1, <3>1
  <2>5. DOMAIN record' \ stored' = D \cup {m}
    BY <1>4, <1>9, <2>2
  <2>6. record'[m].state = "finished"
    BY <1>5, <2>2 DEF In
  <2>7. ASSUME NEW d \in D, NEW k \in F \ {m} PROVE SortsAfter(record', d, k)
    <3>1. CASE k \in K
      BY <1>12, <3>1
    <3>2. CASE k = i
      <4>1. m \in K
        BY <2>2, <2>7, <3>2
      <4>2. SortsAfter(record', d, m) /\ SortsAfter(record', m, k)
        BY <1>12, <2>2, <4>1
      <4> QED
        BY <1>8, <1>9, <4>2, SortOrder
    <3> QED
      BY <3>1, <3>2
  <2> HIDE DEF F, D
  <2>8. \A d \in D \cup {m} : record'[d].state = "finished"
    BY <1>13, <2>6
  <2>9. \A d \in D \cup {m}, k \in F \ {m} : SortsAfter(record', d, k)
    BY <2>2, <2>7
  <2>10. Cardinality(F \ {m}) <= Retained
    BY <2>1, <2>4
  <2> QED
    BY <2>3, <2>4, <2>5, <2>8, <2>9, <2>10, Zenon DEF RecordsKept
<1> QED
  BY <1>14, <1>15

LEMMA RecordsInit == ASSUME record = <<>>, stored = {} PROVE RecordsKept
<1>1. DOMAIN record \ stored = {} /\ In(record, stored, "finished") = {}
  BY DEF In
<1>2. Cardinality(In(record, stored, "finished")) = 0 /\ 0 <= Retained
  BY <1>1, FS_EmptySet, StoreAssumption
<1> QED
  BY <1>1, <1>2, Zenon DEF RecordsKept

LEMMA RecordsStep == ASSUME AdmissionInv, RecordsKept, [Next]_vars PROVE RecordsKept'
<1>1. StoreTypeOK /\ StoreTypeOK' /\ now \in Nat
  BY AdmissionStepInv, LimiterTypes DEF AdmissionInv, LimiterInv
<1>2. CASE UNCHANGED storeVars
  BY <1>2 DEF storeVars, RecordsKept, In, SortsAfter
<1>3. CASE Create
  BY <1>1, <1>3, CreateKeeps
<1>4. CASE JobConfirmed
  BY <1>1, <1>4, ConfirmKeeps DEF JobConfirmed
<1>5. CASE JobFinished
  BY <1>1, <1>5, FinishKeeps DEF JobFinished
<1> QED
  BY <1>2, <1>3, <1>4, <1>5 DEF Next, Post, Stats, vars

\* Running jobs are never dropped, and of the finished ones the last Retained
\* are kept, in whatever order jobs finish.
THEOREM RecordsAreKept == Spec => []RecordsKept
<1>1. Init => RecordsKept
  BY RecordsInit DEF Init, StoreInit
<1> QED
  BY <1>1, RecordsStep, AdmissionSafe, PTL DEF Spec

-----------------------------------------------------------------------------
(***************************************************************************)
(* The load driver, other clients, and restarts.  ServiceInv is what the   *)
(* service keeps in each process; a restart begins it anew, with whatever  *)
(* time the clock shows.                                                   *)
(***************************************************************************)
ServiceInv == AdmissionInv /\ ClockOrder /\ RecordsKept

\* What a step of LoadSpec does to the service.
LEMMA LoadStepOfService == LoadNext => [Next]_vars \/ Restart
  BY DEF LoadNext, Driver, Submit, WakeUp, AllSubmitted, StartRound, PollNext, Report,
         RequestFails, OtherPost, Service, Next, Post, loadVars

LEMMA ServiceStep == ASSUME ServiceInv, [Next]_vars PROVE ServiceInv'
<1>1. AdmissionInv' /\ RecordsKept'
  BY AdmissionStepInv, RecordsStep DEF ServiceInv
<1>2. ClockOrder'
  BY StepUsesLimiter, ClockOrderStep DEF ServiceInv, AdmissionInv
<1> QED
  BY <1>1, <1>2 DEF ServiceInv

\* A process that has accepted nothing, at any time of the clock.
Fresh ==
    /\ now \in 0..MaxTime
    /\ hits = <<>> /\ admitted = <<>> /\ record = <<>> /\ stored = {}

LEMMA FreshProcess == Fresh => ServiceInv
<1> SUFFICES ASSUME Fresh PROVE ServiceInv
  OBVIOUS
<1> USE DEF Fresh
<1>1. Len(hits) = 0 /\ Len(admitted) = 0 /\ Len(record) = 0
  OBVIOUS
<1>2. LimiterTypeOK /\ StoreTypeOK
  BY EmptySeq DEF LimiterTypeOK, StoreTypeOK
<1>3. LatestAdmissions(hits) /\ Len(hits) <= Limit /\ WindowBound
  BY <1>1, LimiterAssumption DEF LatestAdmissions, WindowBound
<1>4. ClockOrder
  BY <1>1, <1>2 DEF ClockOrder
<1>5. In(record, stored, "active") = {} /\ LiveJobs = {} /\ Cardinality({}) = 0
  BY FS_EmptySet DEF In, LiveJobs
<1>6. 0 <= MaxActiveJobs /\ 0 <= LiveBound
  BY StoreAssumption DEF LiveBound
<1>7. ActiveCeiling /\ Cardinality(LiveJobs) <= LiveBound
  BY <1>5, <1>6 DEF ActiveCeiling, ActiveCount
<1>8. SlotsAreJobs
  BY <1>1 DEF SlotsAreJobs
<1>9. AdmissionInv
  BY <1>2, <1>3, <1>7, <1>8 DEF AdmissionInv, LimiterInv
<1> QED
  BY <1>4, <1>9, RecordsInit DEF ServiceInv

LEMMA RestartIsFresh == ASSUME ServiceInv, Restart PROVE ServiceInv'
<1>1. Fresh'
  BY DEF Fresh, Restart, ServiceInv, AdmissionInv, LimiterInv, LimiterTypeOK
<1> QED
  BY <1>1, FreshProcess, PTL

\* The ids the driver holds are of this process or an earlier one, and of its jobs.
\* A miss that was not a failure to serve a record says that the job is gone, and
\* MaxMisses of either kind are behind every job that is reported lost.
DriverTypes ==
    /\ phase \in {"submit", "backoff", "sleep", "poll", "report", "exit"}
    /\ wakeAt \in Nat
    /\ process \in Nat
    /\ jobIds \in Seq([process : Nat, job : Nat])
    /\ phase \in {"sleep", "poll", "report"} => Len(jobIds) = NumJobs
    /\ toPoll \subseteq {i \in Submitted : finished[i] = "none"}
    /\ finished \in [Submitted -> {"none", "over", "lost_by_server"}]
    /\ missing \in [Submitted -> Nat] /\ unserved \in [Submitted -> Nat]

Issued ==
    \A i \in 1..Len(jobIds) :
        /\ jobIds[i].process <= process
        /\ jobIds[i].process = process => jobIds[i].job \in DOMAIN record

Gone(i) == i \in 1..Len(jobIds) /\ ~Known(jobIds[i])

MissesCounted ==
    \A i \in Submitted :
        /\ missing[i] > unserved[i] => Gone(i)
        /\ finished[i] = "lost_by_server" => missing[i] >= MaxMisses

\* Once the limiter has refused the driver, and until it admits somebody, there is
\* room for the driver when it is to ask again.
RoomIsDue ==
    owed /\ Limit > 0 /\ phase \in {"submit", "backoff"} =>
        HasRoom(Prune(hits, IF phase = "submit" THEN now ELSE wakeAt))

LoadInv == ServiceInv /\ DriverTypes /\ Issued /\ MissesCounted /\ RoomIsDue

LEMMA LoadTypes ==
    ASSUME ServiceInv
    PROVE  /\ now \in Nat /\ hits \in Seq(0..MaxTime) /\ Limit \in Nat
           /\ Len(record) \in Nat /\ DOMAIN record = 1..Len(record)
           /\ stored \subseteq 1..Len(record)
           /\ NumJobs \in Nat \ {0} /\ ActiveWait \in Nat /\ RespondWait \in Nat /\ Slack \in Nat
  BY LimiterTypes, StoreFacts, DriverAssumption
  DEF ServiceInv, AdmissionInv, LimiterInv, LimiterTypeOK

(***************************************************************************)
(* What was dropped stays dropped: a process does not issue an id twice.   *)
(***************************************************************************)
LEMMA DroppedStaysDropped ==
    ASSUME ServiceInv, [Next]_vars
    PROVE  /\ DOMAIN record \subseteq DOMAIN record'
           /\ \A n \in DOMAIN record : n \notin stored => n \notin stored'
<1> DEFINE n == Len(record)
<1>1. /\ record \in Seq([state : States, finishedAt : Nat]) /\ n \in Nat
      /\ DOMAIN record = 1..n /\ stored \subseteq 1..n
  BY StoreFacts DEF ServiceInv, AdmissionInv
<1>2. CASE UNCHANGED storeVars
  BY <1>2 DEF storeVars
<1>3. CASE Create
  <2>1. PICK new : new = [state |-> "active", finishedAt |-> 0]
    OBVIOUS
  <2>2. record' = Append(record, new) /\ stored' = Pruned(record', stored \cup {Len(record')})
    BY <1>3, <2>1 DEF Create
  <2>3. new \in [state : States, finishedAt : Nat]
    BY <2>1 DEF States
  <2>4. Len(record') = n + 1 /\ DOMAIN record' = 1..(n + 1)
    BY <1>1, <2>2, <2>3
  <2>5. stored' \subseteq stored \cup {n + 1}
    BY <2>2, <2>4, PrunedFacts
  <2> QED
    BY <1>1, <2>4, <2>5
<1>4. CASE JobConfirmed
  <2>1. PICK i \in stored : Confirm(i)
    BY <1>4 DEF JobConfirmed
  <2> QED
    BY <1>1, <2>1 DEF Confirm
<1>5. CASE JobFinished
  <2>1. PICK i \in stored : Finish(i, now)
    BY <1>5 DEF JobFinished
  <2>2. DOMAIN record' = DOMAIN record /\ stored' \subseteq stored
    BY <1>1, <2>1, PrunedFacts DEF Finish
  <2> QED
    BY <2>2
<1> QED
  BY <1>2, <1>3, <1>4, <1>5 DEF Next, Post, Stats, vars

LEMMA GoneStaysGone ==
    ASSUME LoadInv, [Next]_vars, UNCHANGED <<jobIds, missing, unserved, finished, process>>
    PROVE  Issued' /\ MissesCounted'
<1>1. Issued'
  BY DroppedStaysDropped DEF LoadInv, Issued
<1>2. ASSUME NEW i \in Submitted, Gone(i)
      PROVE  i \in 1..Len(jobIds) /\ ~(jobIds[i].process = process /\ jobIds[i].job \in stored')
  <2>1. /\ i \in 1..Len(jobIds)
        /\ ~(jobIds[i].process = process /\ jobIds[i].job \in stored)
    BY <1>2 DEF Gone, Known
  <2>2. jobIds[i].process = process => jobIds[i].job \in DOMAIN record
    BY <2>1 DEF LoadInv, Issued
  <2> QED
    BY <2>1, <2>2, DroppedStaysDropped DEF LoadInv
<1>3. ASSUME NEW i \in Submitted
      PROVE  /\ missing[i] > unserved[i] => Gone(i)'
             /\ finished[i] = "lost_by_server" => missing[i] >= MaxMisses
  <2>1. /\ missing[i] > unserved[i] => Gone(i)
        /\ finished[i] = "lost_by_server" => missing[i] >= MaxMisses
    BY DEF LoadInv, MissesCounted
  <2>2. Gone(i) => Gone(i)'
    BY <1>2 DEF Gone, Known
  <2> QED
    BY <2>1, <2>2
<1> QED
  BY <1>1, <1>3 DEF MissesCounted

LEMMA RestartLoses ==
    ASSUME LoadInv, Restart
    PROVE  DriverTypes' /\ Issued' /\ MissesCounted'
<1>1. /\ process \in Nat /\ process' = process + 1
      /\ jobIds \in Seq([process : Nat, job : Nat])
      /\ UNCHANGED <<phase, wakeAt, jobIds, toPoll, missing, finished, unserved>>
  BY DEF LoadInv, DriverTypes, Restart, driverVars
<1>2. ASSUME NEW i \in 1..Len(jobIds)
      PROVE  jobIds[i].process <= process' /\ jobIds[i].process # process'
  <2>1. jobIds[i].process \in Nat /\ jobIds[i].process <= process
    <3>1. jobIds[i] \in [process : Nat, job : Nat]
      BY <1>1, <1>2, ElementOfSeq
    <3> QED
      BY <1>2, <3>1 DEF LoadInv, Issued
  <2> QED
    BY <1>1, <2>1
<1>3. DriverTypes'
  BY <1>1 DEF LoadInv, DriverTypes
<1>4. Issued'
  BY <1>1, <1>2 DEF Issued
<1>5. MissesCounted'
  BY <1>1, <1>2 DEF LoadInv, MissesCounted, Gone, Known
<1> QED
  BY <1>3, <1>4, <1>5

(***************************************************************************)
(* The driver's own steps.                                                 *)
(***************************************************************************)
LEMMA RetryType == ASSUME ServiceInv PROVE RetryAfterMs(Prune(hits, now), now) \in Nat
<1>1. /\ now \in Int /\ Limit \in Nat /\ WindowMs \in Nat /\ hits \in Seq(0..MaxTime)
  BY LoadTypes, LimiterAssumption
<1> DEFINE p == Prune(hits, now)
<1>2. p \in Seq(0..MaxTime) /\ Len(p) \in Nat
  BY <1>1, PruneFacts, LenProperties
<1> HIDE DEF p
<1>3. ASSUME ~(Len(p) < Limit), Limit # 0 PROVE p[1] \in Nat
  <2>1. 1 \in 1..Len(p)
    BY <1>1, <1>2, <1>3
  <2>2. p[1] \in 0..MaxTime
    BY <1>2, <2>1, ElementOfSeq
  <2> QED
    BY <2>2, LimiterAssumption
<1>4. RetryAfterMs(p, now) \in Nat
  BY <1>1, <1>2, <1>3 DEF RetryAfterMs, NotNegative
<1> QED
  BY <1>4 DEF p

LEMMA SubmitInv ==
    ASSUME LoadInv, phase = "submit", Submit, ServiceInv', [Next]_vars
    PROVE  LoadInv'
<1>1. /\ ServiceInv /\ DriverTypes /\ Issued /\ MissesCounted /\ RoomIsDue
      /\ Len(jobIds) < NumJobs /\ UNCHANGED <<toPoll, missing, finished, unserved, process>>
  BY DEF LoadInv, Submit
<1>2. /\ now \in Nat /\ now \in Int /\ hits \in Seq(0..MaxTime) /\ Limit \in Nat
      /\ ActiveWait \in Nat /\ RespondWait \in Nat /\ Slack \in Nat
      /\ jobIds \in Seq([process : Nat, job : Nat]) /\ process \in Nat
      /\ Len(record) \in Nat /\ DOMAIN record = 1..Len(record)
  BY <1>1, LoadTypes DEF DriverTypes
<1>3. CASE \E ms \in {ActiveWait, RespondWait} : BackOff(ms) /\ UNCHANGED vars /\ UNCHANGED owed
  <2>1. PICK ms \in Nat : BackOff(ms) /\ UNCHANGED vars /\ UNCHANGED owed
    BY <1>2, <1>3
  <2>2. phase' = "backoff" /\ wakeAt' = now + (ms + Slack) /\ jobIds' = jobIds /\ hits' = hits
        /\ ms + Slack \in Nat
    BY <1>2, <2>1 DEF BackOff, vars, limiterVars
  <2>3. DriverTypes'
    BY <1>1, <1>2, <2>2 DEF DriverTypes
  <2>4. Issued' /\ MissesCounted'
    BY <1>1, <2>2, GoneStaysGone
  <2>5. RoomIsDue'
    <3>1. ASSUME owed, Limit > 0 PROVE HasRoom(Prune(hits, now + (ms + Slack)))
      <4>1. HasRoom(Prune(hits, now))
        BY <1>1, <3>1 DEF RoomIsDue
      <4> QED
        BY <1>2, <2>2, <4>1, RoomStays
    <3> QED
      BY <2>1, <2>2, <3>1 DEF RoomIsDue
  <2> QED
    BY <2>3, <2>4, <2>5 DEF LoadInv
<1>4. CASE /\ Admit /\ Create
           /\ jobIds' = Append(jobIds, [process |-> process, job |-> Len(record')])
           /\ owed' = FALSE
           /\ UNCHANGED <<phase, wakeAt>>
  <2>1. Len(record') \in Nat /\ DOMAIN record' = 1..Len(record') /\ Len(record') = Len(record) + 1
    <3>1. PICK new \in [state : States, finishedAt : Nat] : record' = Append(record, new)
      BY <1>4 DEF Create, States
    <3>2. record \in Seq([state : States, finishedAt : Nat])
      BY <1>1, StoreFacts DEF ServiceInv, AdmissionInv
    <3> QED
      BY <1>2, <3>1, <3>2
  <2>2. PICK id \in [process : Nat, job : Nat] :
          /\ id.process = process /\ id.job = Len(record')
          /\ jobIds' = Append(jobIds, id)
    BY <1>2, <1>4, <2>1
  <2>3. /\ jobIds' \in Seq([process : Nat, job : Nat]) /\ Len(jobIds) \in Nat
        /\ Len(jobIds') = Len(jobIds) + 1
        /\ \A i \in 1..Len(jobIds) : jobIds'[i] = jobIds[i]
        /\ jobIds'[Len(jobIds) + 1] = id
    BY <1>2, <2>2
  <2>4. DriverTypes'
    BY <1>1, <1>4, <2>3 DEF DriverTypes
  <2>5. Issued'
    <3>1. ASSUME NEW i \in 1..Len(jobIds')
          PROVE  /\ jobIds'[i].process <= process
                 /\ jobIds'[i].process = process => jobIds'[i].job \in DOMAIN record'
      <4>1. CASE i \in 1..Len(jobIds)
        BY <1>1, <2>3, <4>1, DroppedStaysDropped DEF Issued
      <4>2. CASE i = Len(jobIds) + 1
        BY <1>2, <2>1, <2>2, <2>3, <4>2
      <4> QED
        BY <2>3, <3>1, <4>1, <4>2
    <3> QED
      BY <1>1, <3>1 DEF Issued
  <2>6. MissesCounted'
    <3>1. ASSUME NEW i \in Submitted, Gone(i) PROVE Gone(i)'
      <4>1. /\ i \in 1..Len(jobIds)
            /\ ~(jobIds[i].process = process /\ jobIds[i].job \in stored)
        BY <3>1 DEF Gone, Known
      <4>2. jobIds[i].process = process => jobIds[i].job \in DOMAIN record
        BY <1>1, <4>1 DEF Issued
      <4>3. i \in 1..Len(jobIds') /\ jobIds'[i] = jobIds[i]
        BY <2>3, <4>1
      <4> QED
        BY <1>1, <4>1, <4>2, <4>3, DroppedStaysDropped DEF Gone, Known
    <3> QED
      BY <1>1, <3>1 DEF MissesCounted
  <2>7. RoomIsDue'
    BY <1>4 DEF RoomIsDue
  <2> QED
    BY <2>4, <2>5, <2>6, <2>7 DEF LoadInv
<1>5. CASE Refuse /\ BackOff(RetryAfterMs(hits', now)) /\ owed' = TRUE
  <2> DEFINE ms == RetryAfterMs(Prune(hits, now), now)
  <2>1. hits' = Prune(hits, now) /\ ms \in Nat
    BY <1>1, <1>5, RetryType DEF Refuse
  <2>2. phase' = "backoff" /\ wakeAt' = (now + ms) + Slack /\ jobIds' = jobIds
    BY <1>2, <1>5, <2>1 DEF BackOff
  <2> HIDE DEF ms
  <2>3. DriverTypes'
    BY <1>1, <1>2, <2>1, <2>2 DEF DriverTypes
  <2>4. Issued' /\ MissesCounted'
    BY <1>1, <2>2, GoneStaysGone
  <2>5. RoomIsDue'
    <3>1. ASSUME Limit > 0 PROVE HasRoom(Prune(hits', (now + ms) + Slack))
      <4>1. HasRoom(Prune(hits, now + ms))
        BY <1>1, <1>2, <2>1, <3>1, RoomAfter DEF ms, ServiceInv, AdmissionInv, LimiterInv
      <4>2. now + ms \in Int /\ (now + ms) + Slack \in Int
        BY <1>2, <2>1
      <4>3. HasRoom(Prune(hits, (now + ms) + Slack))
        BY <1>2, <4>1, <4>2, RoomStays
      <4> QED
        BY <1>2, <2>1, <4>2, <4>3, RoomSurvivesPrune
    <3> QED
      BY <2>2, <3>1 DEF RoomIsDue
  <2> QED
    BY <2>3, <2>4, <2>5 DEF LoadInv
<1>6. \/ \E ms \in {ActiveWait, RespondWait} : BackOff(ms) /\ UNCHANGED vars /\ UNCHANGED owed
      \/ /\ Admit /\ Create
         /\ jobIds' = Append(jobIds, [process |-> process, job |-> Len(record')])
         /\ owed' = FALSE
         /\ UNCHANGED <<phase, wakeAt>>
      \/ Refuse /\ BackOff(RetryAfterMs(hits', now)) /\ owed' = TRUE
  BY DEF Submit
<1> QED
  BY <1>3, <1>4, <1>5, <1>6

LEMMA PollInv ==
    ASSUME LoadInv, PollNext
    PROVE  DriverTypes' /\ Issued' /\ MissesCounted'
<1>1. /\ DriverTypes /\ Issued /\ MissesCounted
      /\ phase = "poll" /\ phase' \in {"poll", "sleep", "report"}
      /\ UNCHANGED <<vars, wakeAt, jobIds, process>>
  BY DEF LoadInv, PollNext
<1>2. PICK i \in toPoll : Poll(i) /\ toPoll' = toPoll \ {i}
  BY DEF PollNext
<1>3. i \in Submitted /\ i \in 1..Len(jobIds) /\ finished[i] = "none"
  BY <1>1, <1>2 DEF DriverTypes, Submitted
<1>4. /\ missing \in [Submitted -> Nat] /\ unserved \in [Submitted -> Nat]
      /\ missing' \in [Submitted -> Nat] /\ unserved' \in [Submitted -> Nat]
      /\ finished' \in [Submitted -> {"none", "over", "lost_by_server"}]
      /\ \A k \in Submitted \ {i} :
            missing'[k] = missing[k] /\ unserved'[k] = unserved[k] /\ finished'[k] = finished[k]
  <2>1. /\ missing \in [Submitted -> Nat] /\ unserved \in [Submitted -> Nat]
        /\ finished \in [Submitted -> {"none", "over", "lost_by_server"}]
    BY <1>1 DEF DriverTypes
  <2>2. PICK m \in Nat, u \in Nat, f \in {"none", "over", "lost_by_server"} :
            /\ missing' = [missing EXCEPT ![i] = m]
            /\ unserved' = [unserved EXCEPT ![i] = u]
            /\ finished' = [finished EXCEPT ![i] = f]
    <3>1. missing[i] \in Nat /\ unserved[i] \in Nat
      BY <1>3, <2>1
    <3>2. missing[i] + 1 \in Nat /\ unserved[i] + 1 \in Nat
      BY <3>1
    <3> QED
      BY <1>2, <1>3, <2>1, <3>1, <3>2, Zenon DEF Poll
  <2> QED
    BY <1>3, <2>1, <2>2
<1>5. DriverTypes'
  BY <1>1, <1>2, <1>4 DEF DriverTypes
<1>6. record' = record /\ stored' = stored
  BY <1>1 DEF vars, storeVars
<1>7. Issued'
  BY <1>1, <1>6 DEF Issued
<1>8. \A k \in Submitted : Gone(k)' <=> Gone(k)
  BY <1>1, <1>6 DEF Gone, Known
<1>9. /\ missing'[i] > unserved'[i] => Gone(i)
      /\ finished'[i] = "lost_by_server" => missing'[i] >= MaxMisses
  <2>1. missing[i] > unserved[i] => Gone(i)
    BY <1>1, <1>3 DEF MissesCounted
  <2>2. missing[i] \in Nat /\ unserved[i] \in Nat
    BY <1>3, <1>4
  <2>3. CASE missing'[i] = 0 /\ unserved'[i] = 0 /\ finished'[i] \in {"over", finished[i]}
             /\ finished[i] # "lost_by_server"
    BY <2>3
  <2>4. CASE /\ missing'[i] = missing[i] + 1
             /\ finished'[i] = IF missing'[i] >= MaxMisses THEN "lost_by_server" ELSE finished[i]
             /\ unserved'[i] = IF Known(jobIds[i]) THEN unserved[i] + 1 ELSE unserved[i]
    <3>1. missing'[i] > unserved'[i] => Gone(i)
      BY <1>3, <2>1, <2>2, <2>4 DEF Gone
    <3>2. finished[i] = "lost_by_server" => missing[i] >= MaxMisses
      BY <1>1, <1>3 DEF MissesCounted
    <3> QED
      BY <2>2, <2>4, <3>1, <3>2, DriverAssumption
  <2> QED
    BY <1>1, <1>2, <1>3, <1>4, <2>3, <2>4 DEF Poll, DriverTypes
<1>10. MissesCounted'
  BY <1>1, <1>4, <1>8, <1>9 DEF MissesCounted
<1> QED
  BY <1>5, <1>7, <1>10

\* Time, prunes and other clients leave the driver the room it was promised, unless
\* they are admitted.
LEMMA RoomIsKept ==
    ASSUME LoadInv, [Next]_vars, UNCHANGED <<phase, wakeAt>>,
           owed' => owed /\ admitted' = admitted
    PROVE  RoomIsDue'
<1> SUFFICES ASSUME owed, admitted' = admitted, Limit > 0, phase \in {"submit", "backoff"}
             PROVE  HasRoom(Prune(hits', IF phase = "submit" THEN now' ELSE wakeAt))
  BY DEF RoomIsDue
<1> DEFINE t == IF phase = "submit" THEN now ELSE wakeAt
<1>1. /\ now \in Int /\ hits \in Seq(0..MaxTime) /\ wakeAt \in Int
      /\ admitted \in Seq(0..MaxTime)
  BY LoadTypes
  DEF LoadInv, DriverTypes, ServiceInv, AdmissionInv, LimiterInv, LimiterTypeOK
<1>2. HasRoom(Prune(hits, t)) /\ t \in Int
  BY <1>1 DEF LoadInv, RoomIsDue
<1>3. CASE hits' = Prune(hits, now) /\ now' = now
  BY <1>1, <1>2, <1>3, RoomSurvivesPrune
<1>4. CASE hits' = hits /\ now' = now
  BY <1>2, <1>4
<1>5. CASE Tick
  <2>1. hits' = hits /\ now' = now + 1 /\ 1 \in Nat
    BY <1>5 DEF Tick
  <2>2. phase = "submit" => HasRoom(Prune(hits, now + 1))
    BY <1>1, <1>2, <2>1, RoomStays
  <2> QED
    BY <1>2, <2>1, <2>2
<1>6. CASE Admit
  <2>1. admitted' = Append(admitted, now) /\ now \in 0..MaxTime
    BY <1>6 DEF Admit, LoadInv, ServiceInv, AdmissionInv, LimiterInv, LimiterTypeOK
  <2>2. Len(admitted') = Len(admitted) + 1 /\ Len(admitted) \in Nat
    BY <1>1, <2>1
  <2> QED
    BY <2>2
<1> QED
  BY <1>3, <1>4, <1>5, <1>6
  DEF Next, Post, Stats, JobConfirmed, JobFinished, Refuse, Query, vars, limiterVars

LEMMA LoadInitInv == LoadInit => LoadInv
<1> SUFFICES ASSUME LoadInit PROVE LoadInv
  OBVIOUS
<1>1. ServiceInv
  <2>1. Fresh
    BY LimiterAssumption DEF Fresh, LoadInit, Init, LimiterInit, StoreInit
  <2> QED
    BY <2>1, FreshProcess
<1>2. jobIds \in Seq([process : Nat, job : Nat]) /\ Len(jobIds) = 0
  BY EmptySeq DEF LoadInit
<1> QED
  BY <1>1, <1>2 DEF LoadInit, LoadInv, DriverTypes, Issued, MissesCounted, RoomIsDue

LEMMA LoadStepInv == LoadInv /\ [LoadNext]_loadVars => LoadInv'
<1> SUFFICES ASSUME LoadInv, [LoadNext]_loadVars PROVE LoadInv'
  OBVIOUS
<1>1. ServiceInv /\ ServiceInv'
  BY LoadStepOfService, ServiceStep, RestartIsFresh DEF LoadInv, loadVars
<1>2. CASE Restart
  <2>1. RoomIsDue'
    <3>1. ASSUME Limit > 0, NEW t \in Int PROVE HasRoom(Prune(<<>>, t))
      <4>1. <<>> \in Seq(0..MaxTime) /\ Len(<<>>) = 0
        BY EmptySeq
      <4>2. PICK h \in Seq(0..MaxTime) : h = <<>> /\ Len(h) = 0
        BY <4>1
      <4>3. PICK k \in 0..Len(h) : Len(Prune(h, t)) = Len(h) - k
        BY PruneFacts
      <4>4. Len(Prune(<<>>, t)) = 0
        BY <4>2, <4>3
      <4> QED
        BY <3>1, <4>4 DEF HasRoom
    <3>2. hits' = <<>> /\ now' \in Int /\ wakeAt' \in Int
      BY <1>1, <1>2, LoadTypes DEF Restart, driverVars, LoadInv, DriverTypes
    <3> QED
      BY <3>1, <3>2 DEF RoomIsDue
  <2> QED
    BY <1>1, <1>2, <2>1, RestartLoses DEF LoadInv
<1>3. CASE phase = "submit" /\ Submit
  BY <1>1, <1>3, SubmitInv DEF Submit, Next, Post
<1>4. CASE PollNext
  <2>1. RoomIsDue'
    BY <1>4 DEF PollNext, RoomIsDue
  <2> QED
    BY <1>1, <1>4, <2>1, PollInv DEF LoadInv
<1>5. CASE /\ WakeUp \/ AllSubmitted \/ StartRound \/ Report \/ RequestFails
  <2>1. [Next]_vars /\ UNCHANGED <<jobIds, missing, finished, unserved, process, owed>>
    BY <1>5 DEF WakeUp, AllSubmitted, StartRound, Report, RequestFails, Next
  <2>2. Issued' /\ MissesCounted'
    BY <2>1, GoneStaysGone
  <2>3. DriverTypes'
    BY <1>5 DEF LoadInv, DriverTypes, WakeUp, AllSubmitted, StartRound, Report, RequestFails
  <2>4. RoomIsDue'
    <3>1. CASE WakeUp
      <4>1. /\ now \in Nat /\ hits \in Seq(0..MaxTime) /\ wakeAt \in Nat /\ now >= wakeAt
            /\ phase = "backoff" /\ phase' = "submit"
            /\ hits' = hits /\ now' = now /\ owed' = owed
        BY <1>1, <3>1, LoadTypes DEF WakeUp, LoadInv, DriverTypes, vars, limiterVars
      <4>2. PICK wait \in Nat : now = wakeAt + wait
        <5>1. now - wakeAt \in Nat /\ now = wakeAt + (now - wakeAt)
          BY <4>1
        <5> QED
          BY <5>1
      <4>3. ASSUME owed, Limit > 0 PROVE HasRoom(Prune(hits, now))
        <5>1. HasRoom(Prune(hits, wakeAt)) /\ wakeAt \in Int
          BY <4>1, <4>3 DEF LoadInv, RoomIsDue
        <5>2. HasRoom(Prune(hits, wakeAt + wait))
          BY <4>1, <5>1, RoomStays
        <5> QED
          BY <4>2, <5>2
      <4> QED
        BY <4>1, <4>3 DEF RoomIsDue
    <3>2. CASE AllSubmitted \/ StartRound \/ Report \/ RequestFails
      BY <3>2 DEF AllSubmitted, StartRound, Report, RequestFails, RoomIsDue
    <3> QED
      BY <1>5, <3>1, <3>2
  <2> QED
    BY <1>1, <2>2, <2>3, <2>4 DEF LoadInv
<1>6. CASE OtherPost \/ Service \/ UNCHANGED loadVars
  <2>1. /\ [Next]_vars /\ UNCHANGED <<driverVars, process>>
        /\ owed' => owed /\ admitted' = admitted
    <3>1. CASE OtherPost
      BY <3>1 DEF OtherPost, Next
    <3>2. CASE Service
      <4>1. admitted' = admitted
        BY <3>2 DEF Service, Stats, Query, JobConfirmed, JobFinished, Tick, limiterVars
      <4> QED
        BY <3>2, <4>1 DEF Service, Next
    <3>3. CASE UNCHANGED loadVars
      BY <3>3 DEF loadVars, vars, limiterVars
    <3> QED
      BY <1>6, <3>1, <3>2, <3>3
  <2>2. UNCHANGED <<phase, wakeAt, jobIds, toPoll, missing, finished, unserved, process>>
    BY <2>1 DEF driverVars
  <2>3. Issued' /\ MissesCounted' /\ RoomIsDue'
    BY <2>1, <2>2, GoneStaysGone, RoomIsKept
  <2>4. DriverTypes'
    BY <2>2 DEF LoadInv, DriverTypes
  <2> QED
    BY <1>1, <2>3, <2>4 DEF LoadInv
<1> QED
  BY <1>2, <1>3, <1>4, <1>5, <1>6 DEF LoadNext, Driver, Submit

\* The inductive invariant holds in every run of the driver.
THEOREM LoadSafe == LoadSpec => []LoadInv
  BY LoadInitInv, LoadStepInv, PTL DEF LoadSpec

\* Restarts included, every process keeps what was proved of one: no window of its
\* own sees more admissions than the limit, its Retry-After and its use are exact, it
\* drops only the oldest finished records, and the live jobs stay bounded.
THEOREM EachProcessIsSafe ==
    LoadSpec => [](/\ TypeOK /\ WindowBound /\ UsedIsExact /\ RetryAfterIsExact
                   /\ RecordsKept /\ LiveCeiling /\ SlotsAreJobs)
<1>1. ASSUME ServiceInv
      PROVE  /\ TypeOK /\ WindowBound /\ UsedIsExact /\ RetryAfterIsExact
             /\ RecordsKept /\ LiveCeiling /\ SlotsAreJobs
  BY <1>1, UsedFollows, RetryAfterFollows, LiveCeilingFollows
  DEF ServiceInv, AdmissionInv, LimiterInv, TypeOK
<1>2. LoadInv => ServiceInv
  BY DEF LoadInv
<1> QED
  BY <1>1, <1>2, LoadSafe, PTL

\* A refusal of the limiter that was slept off is not repeated, unless another client
\* was admitted meanwhile (loadtest.ts:85-86), however long the sleep really took.
THEOREM RetriesAreEnough == LoadSpec => []RetryIsEnough
<1>1. LoadInv => RetryIsEnough
  BY DEF LoadInv, RoomIsDue, RetryIsEnough
<1> QED
  BY <1>1, LoadSafe, PTL

\* Of what is reported lost, a job was issued by an earlier process, or it finished and
\* Retained later ones pushed its record out, or MaxMisses polls failed to serve a
\* record that was there (loadtest.ts:147-156).
THEOREM LostJobsHaveACause == LoadSpec => []LostHasACause
<1>1. ASSUME LoadInv, NEW i \in Submitted, finished[i] = "lost_by_server",
             jobIds[i].process = process, ~(unserved[i] >= MaxMisses)
      PROVE  /\ Over(jobIds[i])
             /\ Cardinality({k \in DOMAIN record :
                    record[k].state = "finished" /\ SortsAfter(record, jobIds[i].job, k)}) >= Retained
  <2> DEFINE d == jobIds[i].job
             kept == In(record, stored, "finished")
             later == {k \in DOMAIN record : record[k].state = "finished" /\ SortsAfter(record, d, k)}
  <2>1. d \in DOMAIN record \ stored
    <3>1. missing[i] \in Nat /\ unserved[i] \in Nat /\ MaxMisses \in Nat
      BY DriverAssumption, <1>1 DEF LoadInv, DriverTypes
    <3>2. Gone(i)
      BY <1>1, <3>1 DEF LoadInv, MissesCounted
    <3> QED
      BY <1>1, <3>2 DEF LoadInv, Issued, Gone, Known
  <2>2. /\ record[d].state = "finished"
        /\ \A k \in kept : SortsAfter(record, d, k)
        /\ Cardinality(kept) = Retained
    BY <1>1, <2>1, Zenon DEF LoadInv, ServiceInv, RecordsKept
  <2>3. /\ Len(record) \in Nat /\ DOMAIN record = 1..Len(record) /\ stored \subseteq 1..Len(record)
    BY <1>1, LoadTypes DEF LoadInv
  <2>4. kept \subseteq later
    BY <2>2, <2>3 DEF In
  <2>5. IsFiniteSet(later)
    <3>1. IsFiniteSet(1..Len(record))
      BY <2>3, FS_Interval
    <3> QED
      BY <2>3, <3>1, FS_Subset
  <2> HIDE DEF kept, later, d
  <2>6. Cardinality(kept) <= Cardinality(later) /\ Cardinality(later) \in Nat
    BY <2>4, <2>5, FS_Subset, FS_CardinalityType
  <2>7. Cardinality(later) >= Retained
    BY <2>2, <2>6, StoreAssumption
  <2> QED
    BY <2>2, <2>7 DEF Over, d, later
<1>2. LoadInv => LostHasACause
  BY <1>1 DEF LostHasACause
<1> QED
  BY <1>2, LoadSafe, PTL
=============================================================================
