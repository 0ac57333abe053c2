---------------------- MODULE SignBidirectionalProofs ----------------------
(***************************************************************************)
(* Proofs about the service, for any number of jobs, viewers and workers.  *)
(***************************************************************************)
EXTENDS SignBidirectional, WorkerPoolProofs

(***************************************************************************)
(* The inductive invariant.  Its first part says what an actor may have    *)
(* heard from the node where it is parked: a balance where it acts on one, *)
(* and nothing left over from the loop it finished.  Its second part ties  *)
(* a job's phase to its lease, its transaction and the flags of the        *)
(* address: the nonce is safe because an unsettled transaction's address   *)
(* is held by the job watching it or quarantined, never free.  A job that  *)
(* is over without a reason can be a lost one: SignRestartProofs needs the *)
(* invariant to hold across a restart, and shows the rest.                 *)
(***************************************************************************)
HeardOK(a) ==
    /\ answer[a] # None => pc[a] \in {"reconcile", "refresh", "preflight", "build"}
    /\ answer[a] # None /\ pc[a] # "reconcile" => answer[a] \in Balances
    /\ pc[a] = "build" => answer[a] # None
    /\ pc[a] \in {"reconcile", "refresh"} /\ todo[a] = {} => answer[a] = None
    /\ a \in Viewers => pc[a] \in {"idle", "derive", "reconcile", "refresh", "done"}

JobOK(j) ==
    /\ lease[j] # None <=> pc[j] \in Holding
    /\ Parked(j) <=> pc[j] = "lease"
    /\ j \in aborted => pc[j] # "lease"
    /\ pc[j] \in {"send", "signature", "broadcast", "receipt"} => built[j].from = lease[j]
    /\ fate[j] # "none" => pc[j] \in {"broadcast", "receipt", "respond", "done"}
    /\ fate[j] \in {"sent", "pending"} =>
        /\ pc[j] # "respond"
        /\ pc[j] = "done" => failureReason[j] \in {"broadcast_failed", "confirmation_timeout", None}
        /\ pc[j] \in {"broadcast", "receipt"} \/ built[j].from \in quarantined \cup exposed

SignInv ==
    /\ PoolInv
    /\ TypeOK
    /\ \A a \in Actors : HeardOK(a)
    /\ \A j \in Jobs : JobOK(j)

-----------------------------------------------------------------------------
(***************************************************************************)
(* Frames: what a call of the pool leaves alone.                           *)
(***************************************************************************)

\* Every job but j keeps its lease and its place in the queue, or leaves the
\* queue with a lease.
LeaseFrame(j) ==
    \A k \in Jobs \ {j} :
        \/ lease'[k] = lease[k] /\ (Parked(k)' <=> Parked(k))
        \/ Parked(k) /\ ~Parked(k)' /\ lease'[k] # None

LEMMA IdleFrame ==
    ASSUME NEW j, UNCHANGED poolVars
    PROVE  /\ LeaseFrame(j) /\ quarantined' = quarantined /\ [PoolNext]_poolVars
           /\ lease' = lease /\ \A k : Parked(k)' <=> Parked(k)
  BY DEF poolVars, LeaseFrame, Parked

LEMMA AcquireFrame ==
    ASSUME PoolInv, NEW j \in Jobs, Acquire(j)
    PROVE  /\ LeaseFrame(j) /\ quarantined' = quarantined /\ [PoolNext]_poolVars
           /\ lease'[j] # None /\ ~Parked(j)'
<1>1. PICK w \in Workers : lease' = [lease EXCEPT ![j] = w]
  BY DEF Acquire
<1>2. lease'[j] = w /\ \A k \in Jobs \ {j} : lease'[k] = lease[k]
  BY <1>1 DEF PoolInv, PoolTypeOK, Jobs
<1>3. waiters' = waiters /\ ~Parked(j) /\ quarantined' = quarantined
  BY DEF Acquire, Asking
<1> QED
  BY <1>2, <1>3, NoneIsNoWorker DEF LeaseFrame, Parked, PoolNext, Jobs

LEMMA EnqueueFrame ==
    ASSUME PoolInv, NEW j \in Jobs, Enqueue(j)
    PROVE  /\ LeaseFrame(j) /\ quarantined' = quarantined /\ [PoolNext]_poolVars
           /\ lease'[j] = None /\ Parked(j)'
<1>1. \A d : Parked(d)' <=> Parked(d) \/ d = j
  BY QueueAfterEnqueue DEF Jobs
<1> QED
  BY <1>1 DEF Enqueue, Asking, LeaseFrame, PoolNext, Jobs

LEMMA TimeoutFrame ==
    ASSUME PoolInv, NEW j \in Jobs, WaitTimeout(j)
    PROVE  /\ LeaseFrame(j) /\ quarantined' = quarantined /\ [PoolNext]_poolVars
           /\ lease'[j] = lease[j] /\ ~Parked(j)'
<1>1. \A d : Parked(d)' <=> Parked(d) /\ d # j
  BY QueueAfterTimeout DEF Jobs
<1> QED
  BY <1>1 DEF WaitTimeout, LeaseFrame, PoolNext, Jobs

LEMMA ReleaseFrame ==
    ASSUME PoolInv, NEW j \in Jobs,
           \/ Release(j)
           \/ QuarantineAndRelease(j)
           \/ \E b \in Balances : \E min \in Thresholds(b) : SetBalanceAndRelease(j, b, min)
    PROVE  /\ LeaseFrame(j) /\ quarantined \subseteq quarantined' /\ [PoolNext]_poolVars
           /\ lease'[j] = None /\ ~Parked(j)'
           /\ QuarantineAndRelease(j) => lease[j] \in quarantined'
<1>1. [PoolNext]_poolVars
  BY DEF PoolNext, Jobs
<1>2. /\ lease \in [Clients -> Workers \cup {None}]
      /\ underfunded \subseteq Workers /\ quarantined \subseteq Workers
  BY DEF PoolInv, PoolTypeOK
<1>3. PICK u \in SUBSET Workers, q \in SUBSET Workers :
        /\ ReleaseWith(j, u, q) /\ quarantined \subseteq q
        /\ QuarantineAndRelease(j) => lease[j] \in q
  <2>1. CASE QuarantineAndRelease(j)
    <3>1. quarantined \cup {lease[j]} \in SUBSET Workers
      BY <1>2, <2>1 DEF QuarantineAndRelease, ReleaseWith, Jobs
    <3> QED
      BY <1>2, <2>1, <3>1 DEF QuarantineAndRelease
  <2>2. CASE ~QuarantineAndRelease(j) /\ Release(j)
    BY <1>2, <2>2 DEF Release
  <2>3. ASSUME ~QuarantineAndRelease(j),
               NEW b \in Balances, NEW min \in Thresholds(b), SetBalanceAndRelease(j, b, min)
        PROVE  \E u, q \in SUBSET Workers :
                /\ ReleaseWith(j, u, q) /\ quarantined \subseteq q
                /\ QuarantineAndRelease(j) => lease[j] \in q
    <3>1. Measured(lease[j], b, min) \in SUBSET Workers
      BY <1>2, <2>3 DEF SetBalanceAndRelease, ReleaseWith, Measured, Jobs
    <3> QED
      BY <1>2, <2>3, <3>1 DEF SetBalanceAndRelease
  <2> QED
    BY <2>1, <2>2, <2>3
<1>4. /\ lease'[j] = None /\ ~Parked(j)'
      /\ \A d \in Clients : d # j /\ ~Parked(d) => lease'[d] = lease[d] /\ ~Parked(d)'
      /\ \A d \in Clients : Parked(d) => (lease'[d] = None <=> Parked(d)')
  BY <1>3, LeasesAfterRelease DEF Jobs
<1>5. quarantined' = q
  BY <1>3 DEF ReleaseWith
<1>6. \A d \in Clients : Parked(d) => lease[d] = None
  BY DEF PoolInv, ExclusiveLease, Parked
<1>7. LeaseFrame(j)
  BY <1>4, <1>6 DEF LeaseFrame, Jobs
<1> QED
  BY <1>1, <1>3, <1>4, <1>5, <1>7

-----------------------------------------------------------------------------
(***************************************************************************)
(* A step of one actor, seen from the others and from the invariant.       *)
(***************************************************************************)
LEMMA InitInv == Init => SignInv
<1> SUFFICES ASSUME Init PROVE SignInv
  OBVIOUS
<1>1. PoolInv
  BY PoolInitInv DEF Init
<1>2. TypeOK
  BY <1>1 DEF Init, TypeOK, PoolInv, Phases, Nothing
<1>3. \A a \in Actors : HeardOK(a)
  BY DEF Init, HeardOK
<1>4. \A j \in Jobs : lease[j] = None /\ ~Parked(j)
  BY DEF Init, PoolInit, Jobs, Parked, ToSet
<1>5. \A j \in Jobs : JobOK(j)
  BY <1>4 DEF Init, JobOK, Actors, Holding
<1> QED
  BY <1>1, <1>2, <1>3, <1>5 DEF SignInv

LEMMA GotoFacts ==
    ASSUME SignInv, NEW a \in Actors, NEW phase \in Phases, Goto(a, phase)
    PROVE  /\ pc' \in [Actors -> Phases]
           /\ pc'[a] = phase
           /\ \A b \in Actors \ {a} :
                pc'[b] = IF pc[b] = "lease" /\ lease'[b] # None THEN "preflight" ELSE pc[b]
  BY DEF Goto, SignInv, TypeOK, Phases, Holding

\* The other actors: they stand still, or are woken up with a lease.
LEMMA OthersInv ==
    ASSUME SignInv, NEW a \in Actors, NEW phase \in Phases, Goto(a, phase), LeaseFrame(a),
           aborted' = aborted,
           \A b \in Actors \ {a} : answer'[b] = answer[b] /\ todo'[b] = todo[b],
           \A j \in Jobs \ {a} : built'[j] = built[j] /\ fate'[j] = fate[j]
                                 /\ failureReason'[j] = failureReason[j],
           quarantined \subseteq quarantined', exposed \subseteq exposed'
    PROVE  /\ \A b \in Actors \ {a} : HeardOK(b)'
           /\ \A j \in Jobs \ {a} : JobOK(j)'
<1>1. \A b \in Actors \ {a} :
        pc'[b] = IF pc[b] = "lease" /\ lease'[b] # None THEN "preflight" ELSE pc[b]
  BY GotoFacts
<1>2. ASSUME NEW b \in Actors \ {a} PROVE HeardOK(b)'
  <2>1. HeardOK(b)
    BY <1>2 DEF SignInv
  <2> QED
    BY <1>1, <1>2, <2>1 DEF HeardOK
<1>3. ASSUME NEW j \in Jobs \ {a} PROVE JobOK(j)'
  <2>1. JobOK(j) /\ j \in Actors
    BY <1>3 DEF SignInv, Actors
  <2>2. CASE lease'[j] = lease[j] /\ (Parked(j)' <=> Parked(j))
    <3>1. pc'[j] = pc[j]
      BY <1>1, <1>3, <2>1, <2>2 DEF JobOK, Holding
    <3> QED
      BY <1>3, <2>1, <2>2, <3>1 DEF JobOK
  <2>3. CASE Parked(j) /\ ~Parked(j)' /\ lease'[j] # None
    <3>1. pc[j] = "lease" /\ pc'[j] = "preflight"
      BY <1>1, <1>3, <2>1, <2>3 DEF JobOK
    <3> QED
      BY <1>3, <2>1, <2>3, <3>1 DEF JobOK, Holding
  <2> QED
    BY <1>3, <2>2, <2>3 DEF LeaseFrame
<1> QED
  BY <1>2, <1>3

\* A step by actor a to another await preserves the invariant if it does for a,
\* and the variables the step may set keep their types.
LEMMA ActorMoves ==
    ASSUME SignInv, [PoolNext]_poolVars,
           NEW a \in Actors, NEW phase \in Phases, Goto(a, phase), LeaseFrame(a),
           aborted' = aborted,
           \A b \in Actors \ {a} : answer'[b] = answer[b] /\ todo'[b] = todo[b],
           \A j \in Jobs \ {a} : built'[j] = built[j] /\ fate'[j] = fate[j]
                                 /\ failureReason'[j] = failureReason[j],
           quarantined \subseteq quarantined', exposed' = exposed,
           addressesReady' \in {"unset", "deriving", "ready"},
           failureReason' \in [Jobs -> FailureReasons \cup {None}],
           todo' \in [Actors -> SUBSET Workers],
           answer' \in [Actors -> Nat \cup {None}],
           latestCount' \in [Actors -> Nat \cup {None}],
           built' \in [Jobs -> [from : Workers \cup {None}, nonce : Nat]],
           fate' \in [Jobs -> {"none", "sent", "pending", "mined", "reverted", "gone"}],
           UNCHANGED <<latest, funds>>,
           HeardOK(a)', a \in Jobs => JobOK(a)'
    PROVE  SignInv'
<1>1. PoolInv'
  BY PoolStepInv DEF SignInv
<1>2. /\ \A b \in Actors \ {a} : HeardOK(b)'
      /\ \A j \in Jobs \ {a} : JobOK(j)'
  BY OthersInv
<1>3. TypeOK'
  <2>1. pc' \in [Actors -> Phases]
    BY GotoFacts
  <2> QED
    BY <1>1, <2>1 DEF SignInv, TypeOK, PoolInv
<1> QED
  BY <1>1, <1>2, <1>3 DEF SignInv

-----------------------------------------------------------------------------
(***************************************************************************)
(* The steps, one lemma each.                                              *)
(***************************************************************************)

\* What the invariant says of one job, in the form the steps use.
LEMMA JobFacts ==
    ASSUME SignInv, NEW j \in Jobs
    PROVE  /\ j \in Actors /\ j \in Clients /\ j \notin Viewers
           /\ JobOK(j) /\ HeardOK(j) /\ TypeOK /\ PoolInv
           /\ lease[j] \in Workers \cup {None}
  BY SignAssumption DEF SignInv, PoolInv, PoolTypeOK, Jobs, Actors

LEMMA ArriveInv == ASSUME SignInv, NEW a \in Actors, Arrive(a) PROVE SignInv'
<1>1. /\ pc[a] = "idle" /\ UNCHANGED <<poolVars, failureReason, aborted, todo, readVars, built, chainVars, exposed>>
      /\ Goto(a, "derive") /\ addressesReady' \in {"unset", "deriving", "ready"}
  BY DEF Arrive, Proceed, SignInv, TypeOK
<1>2. "derive" \in Phases
  BY DEF Phases
<1>3. /\ LeaseFrame(a) /\ quarantined' = quarantined /\ [PoolNext]_poolVars
      /\ lease' = lease /\ \A k : Parked(k)' <=> Parked(k)
  BY <1>1, IdleFrame
<1>4. pc'[a] = "derive"
  BY <1>1, <1>2, GotoFacts
<1>5. HeardOK(a)'
  BY <1>1, <1>4 DEF HeardOK, SignInv, readVars
<1>6. a \in Jobs => JobOK(a)'
  BY <1>1, <1>3, <1>4, JobFacts DEF JobOK, Holding, chainVars
<1> QED
  BY <1>1, <1>2, <1>3, <1>5, <1>6, ActorMoves DEF SignInv, TypeOK, readVars, chainVars

LEMMA LoopMoves ==
    ASSUME SignInv, NEW a \in Actors, NEW phase \in {"reconcile", "refresh", "done"},
           pc[a] \in {"derive", "reconcile", "refresh"}, answer[a] = None,
           a \in Viewers \/ a \in Jobs,
           Proceed(a, phase),
           NEW T \in SUBSET Workers, todo' = [todo EXCEPT ![a] = T],
           phase = "done" => a \notin Jobs,
           UNCHANGED readVars, LoopOnly
    PROVE  SignInv'
<1>1. /\ UNCHANGED <<poolVars, failureReason, aborted, addressesReady, built, readVars, chainVars, exposed>>
      /\ Goto(a, phase)
  BY DEF Proceed, LoopOnly
<1>2. phase \in Phases
  BY DEF Phases
<1>3. /\ LeaseFrame(a) /\ quarantined' = quarantined /\ [PoolNext]_poolVars
      /\ lease' = lease /\ \A k : Parked(k)' <=> Parked(k)
  BY <1>1, IdleFrame
<1>4. pc'[a] = phase
  BY <1>1, <1>2, GotoFacts
<1>5. todo' \in [Actors -> SUBSET Workers] /\ \A b \in Actors \ {a} : todo'[b] = todo[b]
  BY DEF SignInv, TypeOK
<1>6. HeardOK(a)'
  BY <1>1, <1>4 DEF HeardOK, SignInv, readVars
<1>7. a \in Jobs => JobOK(a)'
  BY <1>1, <1>3, <1>4, JobFacts DEF JobOK, Holding, chainVars
<1> QED
  BY <1>1, <1>2, <1>3, <1>5, <1>6, <1>7, ActorMoves DEF SignInv, TypeOK, readVars, chainVars

LEMMA DerivedInv == ASSUME SignInv, NEW a \in Actors, Derived(a) PROVE SignInv'
<1>1. answer[a] = None /\ pc[a] = "derive"
  BY DEF Derived, SignInv, HeardOK
<1>2. quarantined \in SUBSET Workers
  BY DEF SignInv, PoolInv, PoolTypeOK
<1>3. CASE a \in Jobs
  BY <1>1, <1>2, <1>3, LoopMoves DEF Derived
<1>4. CASE a \notin Jobs
  BY <1>1, <1>4, LoopMoves DEF Derived, Actors
<1> QED
  BY <1>3, <1>4

LEMMA ReconcileDoneInv == ASSUME SignInv, NEW a \in Actors, ReconcileDone(a) PROVE SignInv'
<1>1. answer[a] = None /\ pc[a] = "reconcile"
  BY DEF ReconcileDone, SignInv, HeardOK
<1>2. NextShort(0) \in SUBSET Workers
  BY DEF NextShort
<1>3. CASE a \in Jobs
  BY <1>1, <1>2, <1>3, LoopMoves DEF ReconcileDone
<1>4. CASE a \notin Jobs
  BY <1>1, <1>4, LoopMoves DEF ReconcileDone, Actors
<1> QED
  BY <1>3, <1>4

LEMMA BalancesDoneInv == ASSUME SignInv, NEW v \in Actors, BalancesDone(v) PROVE SignInv'
<1>1. answer[v] = None /\ pc[v] = "refresh"
  BY DEF BalancesDone, SignInv, HeardOK
<1>2. quarantined \in SUBSET Workers
  BY DEF SignInv, PoolInv, PoolTypeOK
<1> QED
  BY <1>1, <1>2, LoopMoves DEF BalancesDone

\* Nobody moves; the actors' answers and the flags of the pool may change.
LEMMA AnswersChange ==
    ASSUME SignInv, [PoolNext]_poolVars,
           UNCHANGED <<pc, lease, waiters, failureReason, aborted, addressesReady, built, chainVars>>,
           exposed' \subseteq Workers,
           todo' \in [Actors -> SUBSET Workers],
           answer' \in [Actors -> Nat \cup {None}],
           latestCount' \in [Actors -> Nat \cup {None}],
           \A a \in Actors : HeardOK(a)',
           \A j \in Jobs : fate[j] \in {"sent", "pending"} /\ built[j].from \in quarantined \cup exposed
                           => built[j].from \in quarantined' \cup exposed'
    PROVE  SignInv'
<1>1. PoolInv'
  BY PoolStepInv DEF SignInv
<1>2. TypeOK'
  BY <1>1 DEF SignInv, TypeOK, PoolInv, chainVars
<1>3. \A j \in Jobs : JobOK(j)'
  BY DEF SignInv, JobOK, Parked, chainVars
<1> QED
  BY <1>1, <1>2, <1>3 DEF SignInv

LEMMA AnswerInv == ASSUME SignInv, NEW a \in Actors, Answer(a) PROVE SignInv'
<1>1. PICK w \in Workers :
        /\ answer[a] = None /\ About(a, w)
        /\ answer' = [answer EXCEPT ![a] =
            IF pc[a] # "reconcile" THEN funds[w]
            ELSE IF From(w, {"pending"}) # {} THEN latest[w] + 1 ELSE latest[w]]
  BY DEF Answer
<1>2. UNCHANGED <<poolVars, pc, todo, latestCount, failureReason, aborted, addressesReady, built, chainVars, exposed>>
  BY DEF Answer, LoopOnly
<1>3. /\ answer \in [Actors -> Nat \cup {None}] /\ TypeOK
      /\ funds[w] \in Balances /\ latest[w] \in Nat /\ Balances \subseteq Nat
  BY PoolAssumption DEF SignInv, TypeOK
<1>4. PICK n : /\ answer' = [answer EXCEPT ![a] = n]
               /\ n \in {funds[w], latest[w] + 1, latest[w]}
               /\ pc[a] # "reconcile" => n = funds[w]
  BY <1>1
<1>5. n \in Nat /\ (pc[a] # "reconcile" => n \in Balances)
  <2>1. funds[w] \in Nat
    BY <1>3
  <2>2. latest[w] \in Nat
    BY <1>3
  <2>3. latest[w] + 1 \in Nat
    BY <2>2
  <2> QED
    BY <1>3, <1>4, <2>1, <2>2, <2>3, Zenon
<1>6. /\ answer' \in [Actors -> Nat \cup {None}]
      /\ \A b \in Actors \ {a} : answer'[b] = answer[b]
      /\ pc[a] # "reconcile" => answer'[a] \in Balances
  BY <1>3, <1>4, <1>5
<1>7. /\ pc[a] \in {"preflight", "reconcile", "refresh"}
      /\ pc[a] # "preflight" => todo[a] # {}
  BY <1>1 DEF About, IsFirst
<1>8. \A b \in Actors : HeardOK(b)'
  <2> TAKE b \in Actors
  <2>1. HeardOK(b)
    BY DEF SignInv
  <2> QED
    BY <2>1, <1>2, <1>6, <1>7 DEF HeardOK
<1> QED
  BY <1>2, <1>3, <1>6, <1>8, AnswersChange, IdleFrame DEF poolVars, TypeOK

LEMMA AnswerLatestInv == ASSUME SignInv, NEW a \in Actors, AnswerLatest(a) PROVE SignInv'
<1>1. PICK w \in Workers : latestCount' = [latestCount EXCEPT ![a] = latest[w]]
  BY DEF AnswerLatest
<1>2. UNCHANGED <<poolVars, pc, todo, answer, failureReason, aborted, addressesReady, built, chainVars, exposed>>
  BY DEF AnswerLatest, LoopOnly
<1>3. TypeOK /\ latestCount' \in [Actors -> Nat \cup {None}]
  BY <1>1 DEF SignInv, TypeOK
<1>4. \A b \in Actors : HeardOK(b)'
  BY <1>2 DEF SignInv, HeardOK
<1> QED
  BY <1>2, <1>3, <1>4, AnswersChange, IdleFrame DEF poolVars, TypeOK

LEMMA ApplyCountsInv == ASSUME SignInv, NEW a \in Actors, ApplyCounts(a) PROVE SignInv'
<1>1. PICK w \in Workers :
        /\ Reconcile(w, answer[a] > latestCount[a])
        /\ todo' = [todo EXCEPT ![a] = @ \ {w}]
        /\ exposed' = IF /\ w \in quarantined /\ answer[a] <= latestCount[a]
                         /\ From(w, {"sent", "pending"}) # {}
                      THEN exposed \cup {w}
                      ELSE exposed
  BY DEF ApplyCounts
<1>2. /\ pc[a] = "reconcile" /\ answer[a] # None /\ latestCount[a] # None
      /\ answer' = [answer EXCEPT ![a] = None] /\ latestCount' = [latestCount EXCEPT ![a] = None]
      /\ UNCHANGED <<pc, failureReason, aborted, addressesReady, built, chainVars>>
  BY DEF ApplyCounts, Answered
<1>3. TypeOK /\ answer[a] \in Nat /\ latestCount[a] \in Nat
  BY <1>2 DEF SignInv, TypeOK
<1>4. /\ answer' \in [Actors -> Nat \cup {None}] /\ latestCount' \in [Actors -> Nat \cup {None}]
      /\ todo' \in [Actors -> SUBSET Workers] /\ exposed' \subseteq Workers
      /\ answer'[a] = None
      /\ \A b \in Actors \ {a} : answer'[b] = answer[b] /\ todo'[b] = todo[b]
  BY <1>1, <1>2, <1>3 DEF TypeOK
<1>5. UNCHANGED <<busy, underfunded, balanceWei, waiters, lease>>
  BY <1>1 DEF Reconcile
<1>6. [PoolNext]_poolVars
  <2>1. CASE answer[a] > latestCount[a]
    BY <1>1, <2>1 DEF Reconcile, poolVars
  <2>2. CASE ~(answer[a] > latestCount[a])
    BY <1>1, <2>2 DEF Reconcile, PoolNext
  <2> QED
    BY <2>1, <2>2
<1>7. \A b \in Actors : HeardOK(b)'
  <2> TAKE b \in Actors
  <2>1. HeardOK(b)
    BY DEF SignInv
  <2> QED
    BY <2>1, <1>2, <1>4 DEF HeardOK
<1>8. ASSUME NEW j \in Jobs, fate[j] \in {"sent", "pending"},
             built[j].from \in quarantined \cup exposed
      PROVE  built[j].from \in quarantined' \cup exposed'
  <2>1. CASE answer[a] > latestCount[a]
    BY <1>1, <1>8, <2>1 DEF Reconcile
  <2>2. CASE answer[a] <= latestCount[a] /\ built[j].from = w
    <3>1. From(w, {"sent", "pending"}) # {}
      BY <1>8, <2>2 DEF From
    <3> QED
      BY <1>1, <1>8, <2>2, <3>1
  <2>3. CASE built[j].from # w
    BY <1>1, <1>8, <2>3 DEF Reconcile
  <2> QED
    BY <1>3, <2>1, <2>2, <2>3
<1> QED
  BY <1>2, <1>4, <1>5, <1>6, <1>7, <1>8, AnswersChange

LEMMA ApplyBalanceInv == ASSUME SignInv, NEW a \in Actors, ApplyBalance(a) PROVE SignInv'
<1>1. PICK w \in Workers :
        /\ SetBalance(w, answer[a])
        /\ todo' = [todo EXCEPT ![a] = IF a \in Jobs THEN NextShort(w) ELSE @ \ {w}]
  BY DEF ApplyBalance
<1>2. /\ pc[a] = "refresh" /\ answer[a] # None /\ answer' = [answer EXCEPT ![a] = None]
      /\ UNCHANGED <<pc, latestCount, failureReason, aborted, addressesReady, built, chainVars, exposed>>
  BY DEF ApplyBalance, LoopOnly
<1>3. TypeOK /\ answer[a] \in Balances
  BY <1>2 DEF SignInv, HeardOK
<1>4. /\ answer' \in [Actors -> Nat \cup {None}]
      /\ todo' \in [Actors -> SUBSET Workers]
      /\ answer'[a] = None
      /\ \A b \in Actors \ {a} : answer'[b] = answer[b] /\ todo'[b] = todo[b]
  <2>1. NextShort(w) \in SUBSET Workers
    BY DEF NextShort
  <2> QED
    BY <1>1, <1>2, <1>3, <2>1 DEF TypeOK
<1>5. [PoolNext]_poolVars /\ UNCHANGED <<busy, quarantined, waiters, lease>>
  BY <1>1, <1>3 DEF PoolNext, SetBalance
<1>6. \A b \in Actors : HeardOK(b)'
  <2> TAKE b \in Actors
  <2>1. HeardOK(b)
    BY DEF SignInv
  <2> QED
    BY <2>1, <1>2, <1>4 DEF HeardOK
<1> QED
  BY <1>2, <1>3, <1>4, <1>5, <1>6, AnswersChange DEF TypeOK

\* A job goes on, or back to the queue: it holds an address unless it is parked.
LEMMA AdvanceInv ==
    ASSUME SignInv, NEW j \in Jobs, NEW phase \in Holding \cup {"lease"}, Goto(j, phase),
           LeaseFrame(j), quarantined' = quarantined, [PoolNext]_poolVars,
           lease'[j] # None <=> phase # "lease",
           Parked(j)' <=> phase = "lease",
           j \in aborted => phase # "lease",
           UNCHANGED <<failureReason, aborted, addressesReady, todo, latestCount, latest, funds, exposed>>,
           answer' \in [Actors -> Nat \cup {None}],
           \A b \in Actors \ {j} : answer'[b] = answer[b],
           answer'[j] # None <=> phase = "build",
           phase = "build" => answer'[j] \in Balances,
           built' \in [Jobs -> [from : Workers \cup {None}, nonce : Nat]],
           \A k \in Jobs \ {j} : built'[k] = built[k],
           phase \in {"send", "signature", "broadcast", "receipt"} => built'[j].from = lease'[j],
           fate' \in [Jobs -> {"none", "sent", "pending", "mined", "reverted", "gone"}],
           \A k \in Jobs \ {j} : fate'[k] = fate[k],
           fate'[j] # "none" => phase \in {"broadcast", "receipt"}
    PROVE  SignInv'
<1>1. /\ j \in Actors /\ j \notin Viewers /\ TypeOK
      /\ phase \in Phases /\ quarantined \subseteq quarantined'
  BY JobFacts DEF Phases
<1>2. pc'[j] = phase
  BY <1>1, GotoFacts
<1>3. HeardOK(j)'
  BY <1>1, <1>2 DEF HeardOK, Holding
<1>4. JobOK(j)'
  BY <1>2 DEF JobOK, Holding
<1>5. addressesReady' \in {"unset", "deriving", "ready"}
  BY <1>1 DEF TypeOK
<1>6. /\ failureReason' \in [Jobs -> FailureReasons \cup {None}]
      /\ todo' \in [Actors -> SUBSET Workers]
      /\ latestCount' \in [Actors -> Nat \cup {None}]
  BY <1>1 DEF TypeOK
<1>7. /\ \A b \in Actors \ {j} : answer'[b] = answer[b] /\ todo'[b] = todo[b]
      /\ \A k \in Jobs \ {j} : built'[k] = built[k] /\ fate'[k] = fate[k]
                               /\ failureReason'[k] = failureReason[k]
  OBVIOUS
<1> QED
  BY <1>1, <1>3, <1>4, <1>5, <1>6, <1>7, ActorMoves

\* A job ends, or goes on to respond: it has given its address back, and what
\* became of its transaction is known or its address is withheld.
LEMMA EndInv ==
    ASSUME SignInv, NEW j \in Jobs, NEW phase \in {"respond", "done"}, Goto(j, phase),
           LeaseFrame(j), quarantined \subseteq quarantined', [PoolNext]_poolVars,
           lease'[j] = None, ~Parked(j)',
           UNCHANGED <<aborted, addressesReady, built, chainVars, exposed>>,
           failureReason' \in [Jobs -> FailureReasons \cup {None}],
           \A k \in Jobs \ {j} : failureReason'[k] = failureReason[k],
           todo' \in [Actors -> SUBSET Workers],
           answer' \in [Actors -> Nat \cup {None}],
           latestCount' \in [Actors -> Nat \cup {None}],
           \A b \in Actors \ {j} : answer'[b] = answer[b] /\ todo'[b] = todo[b],
           answer'[j] = None,
           fate[j] \in {"sent", "pending"} =>
                /\ phase = "done"
                /\ failureReason'[j] \in {"broadcast_failed", "confirmation_timeout"}
                /\ built[j].from \in quarantined'
    PROVE  SignInv'
<1>1. /\ j \in Actors /\ j \notin Viewers /\ TypeOK
      /\ phase \in Phases
  BY JobFacts DEF Phases
<1>2. pc'[j] = phase
  BY <1>1, GotoFacts
<1>3. HeardOK(j)'
  BY <1>1, <1>2 DEF HeardOK
<1>4. JobOK(j)'
  BY <1>2 DEF JobOK, Holding, chainVars
<1>5. /\ addressesReady' \in {"unset", "deriving", "ready"}
      /\ built' \in [Jobs -> [from : Workers \cup {None}, nonce : Nat]]
      /\ fate' \in [Jobs -> {"none", "sent", "pending", "mined", "reverted", "gone"}]
      /\ UNCHANGED <<latest, funds>>
  BY <1>1 DEF TypeOK, chainVars
<1>6. \A k \in Jobs \ {j} : built'[k] = built[k] /\ fate'[k] = fate[k]
                           /\ failureReason'[k] = failureReason[k]
  BY DEF chainVars
<1> QED
  BY <1>1, <1>3, <1>4, <1>5, <1>6, ActorMoves

LEMMA FieldTypes ==
    ASSUME SignInv
    PROVE  /\ failureReason \in [Jobs -> FailureReasons \cup {None}]
           /\ todo \in [Actors -> SUBSET Workers]
           /\ answer \in [Actors -> Nat \cup {None}]
           /\ latestCount \in [Actors -> Nat \cup {None}]
           /\ built \in [Jobs -> [from : Workers \cup {None}, nonce : Nat]]
           /\ fate \in [Jobs -> {"none", "sent", "pending", "mined", "reverted", "gone"}]
           /\ latest \in [Workers -> Nat]
  BY DEF SignInv, TypeOK

LEMMA FailFacts ==
    ASSUME SignInv, NEW j \in Jobs, NEW reason \in FailureReasons, Fail(j, reason)
    PROVE  /\ Goto(j, "done")
           /\ failureReason' \in [Jobs -> FailureReasons \cup {None}]
           /\ failureReason'[j] = reason
           /\ \A k \in Jobs \ {j} : failureReason'[k] = failureReason[k]
  BY FieldTypes DEF Fail

\* A job fails and gives its address back: nothing of its transaction is left.
LEMMA FailAndReleaseInv ==
    ASSUME SignInv, NEW j \in Jobs, NEW reason \in FailureReasons, Fail(j, reason),
           \/ Release(j)
           \/ \E b \in Balances : \E min \in Thresholds(b) : SetBalanceAndRelease(j, b, min),
           fate[j] \notin {"sent", "pending"},
           UNCHANGED <<aborted, addressesReady, built, chainVars, exposed>>,
           todo' \in [Actors -> SUBSET Workers],
           answer' \in [Actors -> Nat \cup {None}],
           latestCount' \in [Actors -> Nat \cup {None}],
           \A b \in Actors \ {j} : answer'[b] = answer[b] /\ todo'[b] = todo[b],
           answer'[j] = None
    PROVE  SignInv'
<1>1. /\ LeaseFrame(j) /\ quarantined \subseteq quarantined' /\ [PoolNext]_poolVars
      /\ lease'[j] = None /\ ~Parked(j)'
  BY ReleaseFrame DEF SignInv
<1>2. /\ Goto(j, "done")
      /\ failureReason' \in [Jobs -> FailureReasons \cup {None}]
      /\ \A k \in Jobs \ {j} : failureReason'[k] = failureReason[k]
  BY FailFacts
<1> QED
  BY <1>1, <1>2, EndInv

\* A job fails with its address quarantined.
LEMMA FailAndQuarantineInv ==
    ASSUME SignInv, NEW j \in Jobs, NEW reason \in {"broadcast_failed", "confirmation_timeout"},
           pc[j] \in {"broadcast", "receipt"},
           FailAndQuarantine(j, reason), LeaseOnly
    PROVE  SignInv'
<1>1. reason \in FailureReasons /\ Fail(j, reason) /\ QuarantineAndRelease(j)
  BY DEF FailureReasons, FailAndQuarantine
<1>2. /\ LeaseFrame(j) /\ quarantined \subseteq quarantined' /\ [PoolNext]_poolVars
      /\ lease'[j] = None /\ ~Parked(j)' /\ lease[j] \in quarantined'
  BY <1>1, ReleaseFrame DEF SignInv
<1>3. /\ Goto(j, "done") /\ failureReason'[j] = reason
      /\ failureReason' \in [Jobs -> FailureReasons \cup {None}]
      /\ \A k \in Jobs \ {j} : failureReason'[k] = failureReason[k]
  BY <1>1, FailFacts
<1>4. built[j].from = lease[j] /\ answer[j] = None
  BY JobFacts DEF JobOK, HeardOK
<1>5. UNCHANGED <<aborted, addressesReady, built, chainVars, exposed, todo, answer, latestCount>>
  BY DEF LeaseOnly, readVars
<1> QED
  BY <1>2, <1>3, <1>4, <1>5, FieldTypes, EndInv

LEMMA TakeLeaseInv == ASSUME SignInv, NEW j \in Jobs, TakeLease(j) PROVE SignInv'
<1>1. /\ pc[j] = "refresh" /\ j \in Actors /\ PoolInv
      /\ answer[j] = None /\ fate[j] = "none" /\ lease[j] = None /\ ~Parked(j)
  BY JobFacts DEF TakeLease, HeardOK, JobOK, Holding
<1>2. UNCHANGED <<aborted, addressesReady, built, chainVars, exposed, todo, answer, latestCount, fate, latest, funds>>
  BY DEF TakeLease, LeaseOnly, readVars, chainVars
<1>3. ASSUME NEW reason \in FailureReasons, UNCHANGED poolVars, Fail(j, reason)
      PROVE  SignInv'
  <2>1. /\ LeaseFrame(j) /\ quarantined' = quarantined /\ [PoolNext]_poolVars
        /\ lease'[j] = None /\ ~Parked(j)'
    BY <1>1, <1>3, IdleFrame
  <2>2. /\ Goto(j, "done")
        /\ failureReason' \in [Jobs -> FailureReasons \cup {None}]
        /\ \A k \in Jobs \ {j} : failureReason'[k] = failureReason[k]
    BY <1>3, FailFacts
  <2> QED
    BY <1>1, <1>2, <2>1, <2>2, FieldTypes, EndInv
<1>4. CASE j \in aborted /\ UNCHANGED poolVars /\ Fail(j, "shutdown")
  BY <1>3, <1>4 DEF FailureReasons
<1>5. CASE j \notin aborted /\ Refuse(j) /\ Fail(j, "all_workers_underfunded")
  BY <1>3, <1>5 DEF FailureReasons, Refuse
<1>6. CASE j \notin aborted /\ Acquire(j) /\ Goto(j, "preflight") /\ UNCHANGED failureReason
  <2>1. /\ LeaseFrame(j) /\ quarantined' = quarantined /\ [PoolNext]_poolVars
        /\ lease'[j] # None /\ ~Parked(j)'
    BY <1>1, <1>6, AcquireFrame
  <2>2. "preflight" \in Holding \cup {"lease"}
    BY DEF Holding
  <2> QED
    BY <1>1, <1>2, <1>6, <2>1, <2>2, FieldTypes, AdvanceInv
<1>7. CASE j \notin aborted /\ Enqueue(j) /\ Goto(j, "lease") /\ UNCHANGED failureReason
  <2>1. /\ LeaseFrame(j) /\ quarantined' = quarantined /\ [PoolNext]_poolVars
        /\ lease'[j] = None /\ Parked(j)'
    BY <1>1, <1>7, EnqueueFrame
  <2>2. "lease" \in Holding \cup {"lease"}
    OBVIOUS
  <2> QED
    BY <1>1, <1>2, <1>7, <2>1, <2>2, FieldTypes, AdvanceInv
<1> QED
  BY <1>4, <1>5, <1>6, <1>7 DEF TakeLease

LEMMA LeaseTimeoutInv == ASSUME SignInv, NEW j \in Jobs, LeaseTimeout(j) PROVE SignInv'
<1>1. /\ pc[j] = "lease" /\ PoolInv /\ Fail(j, "all_workers_busy") /\ WaitTimeout(j)
      /\ answer[j] = None /\ fate[j] = "none" /\ lease[j] = None
  BY JobFacts DEF LeaseTimeout, HeardOK, JobOK, Holding
<1>2. UNCHANGED <<aborted, addressesReady, built, chainVars, exposed, todo, answer, latestCount>>
  BY DEF LeaseTimeout, LeaseOnly, readVars
<1>3. /\ LeaseFrame(j) /\ quarantined' = quarantined /\ [PoolNext]_poolVars
      /\ lease'[j] = None /\ ~Parked(j)'
  BY <1>1, TimeoutFrame
<1>4. "all_workers_busy" \in FailureReasons
  BY DEF FailureReasons
<1>5. /\ Goto(j, "done")
      /\ failureReason' \in [Jobs -> FailureReasons \cup {None}]
      /\ \A k \in Jobs \ {j} : failureReason'[k] = failureReason[k]
  BY <1>1, <1>4, FailFacts
<1> QED
  BY <1>1, <1>2, <1>3, <1>5, FieldTypes, EndInv

\* A job that keeps its address over a step that leaves the pool alone.
LEMMA KeepsLease ==
    ASSUME SignInv, NEW j \in Jobs, pc[j] \in Holding, UNCHANGED poolVars
    PROVE  /\ LeaseFrame(j) /\ quarantined' = quarantined /\ [PoolNext]_poolVars
           /\ lease'[j] # None /\ lease'[j] = lease[j] /\ ~Parked(j)'
<1>1. lease[j] # None /\ ~Parked(j)
  BY JobFacts DEF JobOK, Holding
<1> QED
  BY <1>1, IdleFrame

LEMMA PreflightInv == ASSUME SignInv, NEW j \in Jobs, Preflight(j) PROVE SignInv'
<1>1. /\ pc[j] = "preflight" /\ j \in Actors
      /\ answer[j] \in Balances /\ answer[j] # None /\ fate[j] = "none"
  BY JobFacts DEF Preflight, HeardOK, JobOK
<1>2. UNCHANGED <<aborted, addressesReady, built, chainVars, exposed, todo, latestCount, fate, latest, funds>>
  BY DEF Preflight, BuildOnly, chainVars
<1>3. ASSUME NEW reason \in FailureReasons, Fail(j, reason),
             \/ Release(j)
             \/ \E b \in Balances : \E min \in Thresholds(b) : SetBalanceAndRelease(j, b, min),
             answer' = [answer EXCEPT ![j] = None]
      PROVE  SignInv'
  <2>1. /\ answer' \in [Actors -> Nat \cup {None}] /\ answer'[j] = None
        /\ \A b \in Actors \ {j} : answer'[b] = answer[b]
    BY <1>1, <1>3, FieldTypes
  <2> QED
    BY <1>1, <1>2, <1>3, <2>1, FieldTypes, FailAndReleaseInv
<1>4. CASE Underfunded(j, MinBalance) /\ answer' = [answer EXCEPT ![j] = None]
  <2>1. MinBalance \in Thresholds(answer[j])
    BY DEF Thresholds
  <2>2. "preflight_underfunded" \in FailureReasons
    BY DEF FailureReasons
  <2> QED
    BY <1>1, <1>3, <1>4, <2>1, <2>2 DEF Underfunded
<1>5. CASE ShuttingDown(j) /\ answer' = [answer EXCEPT ![j] = None]
  BY <1>3, <1>5 DEF ShuttingDown, FailAndRelease, FailureReasons
<1>6. CASE j \notin aborted /\ Proceed(j, "build") /\ UNCHANGED answer
  <2>1. "build" \in Holding \cup {"lease"} /\ pc[j] \in Holding
    BY <1>1 DEF Holding
  <2>2. Goto(j, "build") /\ UNCHANGED poolVars /\ UNCHANGED failureReason
    BY <1>6 DEF Proceed
  <2>3. /\ LeaseFrame(j) /\ quarantined' = quarantined /\ [PoolNext]_poolVars
        /\ lease'[j] # None /\ ~Parked(j)'
    BY <2>1, <2>2, KeepsLease
  <2> QED
    BY <1>1, <1>2, <1>6, <2>1, <2>2, <2>3, FieldTypes, AdvanceInv
<1> QED
  BY <1>4, <1>5, <1>6 DEF Preflight

LEMMA BuildInv == ASSUME SignInv, NEW j \in Jobs, Build(j) PROVE SignInv'
<1>1. /\ pc[j] = "build" /\ j \in Actors
      /\ answer[j] \in Balances /\ fate[j] = "none" /\ lease[j] \in Workers
  BY JobFacts DEF Build, BuildTransaction, HeardOK, JobOK, Holding
<1>2. UNCHANGED <<aborted, addressesReady, chainVars, exposed, todo, latestCount, fate, latest, funds>>
  BY DEF Build, BuildOnly, chainVars
<1>3. /\ answer' \in [Actors -> Nat \cup {None}] /\ answer'[j] = None
      /\ \A b \in Actors \ {j} : answer'[b] = answer[b]
  BY <1>1, FieldTypes DEF Build, BuildTransaction
<1>4. ASSUME NEW reason \in FailureReasons, Fail(j, reason),
             \/ Release(j)
             \/ \E b \in Balances : \E min \in Thresholds(b) : SetBalanceAndRelease(j, b, min),
             UNCHANGED built
      PROVE  SignInv'
  BY <1>1, <1>2, <1>3, <1>4, FieldTypes, FailAndReleaseInv
<1>5. PICK gas \in GasCosts :
        \/ Underfunded(j, answer[j] + 1) /\ UNCHANGED built
        \/ Underfunded(j, gas) /\ UNCHANGED built
        \/ ShuttingDown(j) /\ UNCHANGED built
        \/ /\ built' = [built EXCEPT ![j] = [from |-> lease[j], nonce |-> latest[lease[j]]]]
           /\ Proceed(j, "send")
  BY DEF Build, BuildTransaction
<1>6. ASSUME NEW min \in Thresholds(answer[j]), Underfunded(j, min), UNCHANGED built
      PROVE  SignInv'
  BY <1>1, <1>4, <1>6 DEF Underfunded, FailureReasons
<1>7. CASE ShuttingDown(j) /\ UNCHANGED built
  BY <1>4, <1>7 DEF ShuttingDown, FailAndRelease, FailureReasons
<1>8. CASE /\ built' = [built EXCEPT ![j] = [from |-> lease[j], nonce |-> latest[lease[j]]]]
           /\ Proceed(j, "send")
  <2>1. "send" \in Holding \cup {"lease"} /\ pc[j] \in Holding
    BY <1>1 DEF Holding
  <2>2. Goto(j, "send") /\ UNCHANGED poolVars /\ UNCHANGED failureReason
    BY <1>8 DEF Proceed
  <2>3. /\ LeaseFrame(j) /\ quarantined' = quarantined /\ [PoolNext]_poolVars
        /\ lease'[j] # None /\ lease'[j] = lease[j] /\ ~Parked(j)'
    BY <2>1, <2>2, KeepsLease
  <2>4. latest[lease[j]] \in Nat
    BY <1>1, FieldTypes
  <2>5. [from |-> lease[j], nonce |-> latest[lease[j]]] \in [from : Workers \cup {None}, nonce : Nat]
    BY <1>1, <2>4
  <2>6. /\ built' \in [Jobs -> [from : Workers \cup {None}, nonce : Nat]]
        /\ built'[j].from = lease[j]
        /\ \A k \in Jobs \ {j} : built'[k] = built[k]
    BY <1>8, <2>5, FieldTypes
  <2> QED
    BY <1>1, <1>2, <1>3, <2>1, <2>2, <2>3, <2>6, FieldTypes, AdvanceInv
<1> QED
  BY <1>5, <1>6, <1>7, <1>8 DEF Thresholds

LEMMA CallThrowsInv == ASSUME SignInv, NEW a \in Actors, CallThrows(a) PROVE SignInv'
<1>1. /\ todo' = [todo EXCEPT ![a] = {}] /\ answer' = [answer EXCEPT ![a] = None]
      /\ latestCount' = [latestCount EXCEPT ![a] = None]
      /\ UNCHANGED <<aborted, addressesReady, built, chainVars, exposed>>
  BY DEF CallThrows
<1>2. /\ todo' \in [Actors -> SUBSET Workers]
      /\ answer' \in [Actors -> Nat \cup {None}]
      /\ latestCount' \in [Actors -> Nat \cup {None}]
      /\ answer'[a] = None /\ todo'[a] = {}
      /\ \A b \in Actors \ {a} : answer'[b] = answer[b] /\ todo'[b] = todo[b]
  BY <1>1, FieldTypes
<1>3. CASE a \in Jobs
  <2>1. Fail(a, "internal_error") /\ "internal_error" \in FailureReasons
    BY <1>3 DEF CallThrows, FailureReasons
  <2>2. CASE Release(a) /\ pc[a] \in {"preflight", "build", "send"}
    <3>1. fate[a] \notin {"sent", "pending"}
      BY <1>3, <2>2, JobFacts DEF JobOK
    <3> QED
      BY <1>1, <1>2, <1>3, <2>1, <2>2, <3>1, FailAndReleaseInv
  <2>3. CASE UNCHANGED poolVars /\ pc[a] \in {"reconcile", "refresh"}
    <3>1. fate[a] = "none" /\ lease[a] = None /\ ~Parked(a)
      BY <1>3, <2>3, JobFacts DEF JobOK, Holding
    <3>2. /\ LeaseFrame(a) /\ quarantined \subseteq quarantined' /\ [PoolNext]_poolVars
          /\ lease'[a] = None /\ ~Parked(a)'
      BY <2>3, <3>1, IdleFrame
    <3>3. /\ Goto(a, "done")
          /\ failureReason' \in [Jobs -> FailureReasons \cup {None}]
          /\ \A k \in Jobs \ {a} : failureReason'[k] = failureReason[k]
      BY <1>3, <2>1, FailFacts
    <3> QED
      BY <1>1, <1>2, <1>3, <3>1, <3>2, <3>3, EndInv
  <2> QED
    BY <2>2, <2>3 DEF CallThrows
<1>4. CASE a \notin Jobs
  <2>1. Goto(a, "done") /\ UNCHANGED failureReason /\ "done" \in Phases /\ a \in Viewers
    BY <1>4 DEF CallThrows, Phases, Actors
  <2>2. HeardOK(a) /\ pc[a] \notin {"preflight", "build", "send"}
    BY <2>1 DEF SignInv, HeardOK
  <2>3. UNCHANGED poolVars
    BY <2>2 DEF CallThrows
  <2>4. LeaseFrame(a) /\ quarantined \subseteq quarantined' /\ [PoolNext]_poolVars
    BY <2>3, IdleFrame
  <2>5. pc'[a] = "done"
    BY <2>1, GotoFacts
  <2>6. HeardOK(a)'
    BY <1>2, <2>5 DEF HeardOK
  <2>7. /\ \A k \in Jobs \ {a} : built'[k] = built[k] /\ fate'[k] = fate[k]
                              /\ failureReason'[k] = failureReason[k]
        /\ UNCHANGED <<latest, funds>>
    BY <1>1, <2>1 DEF chainVars
  <2>8. /\ addressesReady' \in {"unset", "deriving", "ready"}
        /\ failureReason' \in [Jobs -> FailureReasons \cup {None}]
        /\ built' \in [Jobs -> [from : Workers \cup {None}, nonce : Nat]]
        /\ fate' \in [Jobs -> {"none", "sent", "pending", "mined", "reverted", "gone"}]
    BY <1>1, <2>1 DEF SignInv, TypeOK, chainVars
  <2> QED
    BY <1>1, <1>2, <1>4, <2>1, <2>4, <2>6, <2>7, <2>8, ActorMoves
<1> QED
  BY <1>3, <1>4

\* A job whose call returned: it keeps its address, its transaction stays.
LEMMA NextCallInv ==
    ASSUME SignInv, NEW j \in Jobs, pc[j] \in Holding \ {"preflight", "build"},
           NEW phase \in {"signature", "broadcast", "receipt"}, Proceed(j, phase),
           UNCHANGED <<aborted, addressesReady, todo, readVars, built, latest, funds, exposed>>,
           fate' \in [Jobs -> {"none", "sent", "pending", "mined", "reverted", "gone"}],
           \A k \in Jobs \ {j} : fate'[k] = fate[k],
           fate'[j] # "none" => phase \in {"broadcast", "receipt"}
    PROVE  SignInv'
<1>1. /\ answer[j] = None /\ built[j].from = lease[j]
  BY JobFacts DEF HeardOK, JobOK, Holding
<1>2. Goto(j, phase) /\ UNCHANGED poolVars /\ UNCHANGED failureReason
  BY DEF Proceed
<1>3. /\ LeaseFrame(j) /\ quarantined' = quarantined /\ [PoolNext]_poolVars
      /\ lease'[j] # None /\ lease'[j] = lease[j] /\ ~Parked(j)'
  BY <1>2, KeepsLease
<1>4. phase \in Holding \cup {"lease"}
  BY DEF Holding
<1>5. UNCHANGED <<answer, latestCount>>
  BY DEF readVars
<1> QED
  BY <1>1, <1>2, <1>3, <1>4, <1>5, FieldTypes, AdvanceInv

LEMMA SignSentInv == ASSUME SignInv, NEW j \in Jobs, SignSent(j) PROVE SignInv'
<1>1. pc[j] = "send" /\ Proceed(j, "signature") /\ fate[j] = "none"
  BY JobFacts DEF SignSent, JobOK
<1>2. UNCHANGED <<aborted, addressesReady, todo, readVars, built, fate, latest, funds, exposed>>
  BY DEF SignSent, LeaseOnly, chainVars
<1> QED
  BY <1>1, <1>2, FieldTypes, NextCallInv DEF Holding

LEMMA SignedInv == ASSUME SignInv, NEW j \in Jobs, Signed(j) PROVE SignInv'
<1>1. /\ fate' \in [Jobs -> {"none", "sent", "pending", "mined", "reverted", "gone"}]
      /\ \A k \in Jobs \ {j} : fate'[k] = fate[k]
  BY FieldTypes DEF Signed
<1> QED
  BY <1>1, NextCallInv DEF Signed, Holding

LEMMA NotSignedInv == ASSUME SignInv, NEW j \in Jobs, NotSigned(j) PROVE SignInv'
<1>1. pc[j] = "signature" /\ fate[j] = "none" /\ answer[j] = None
  BY JobFacts DEF NotSigned, HeardOK, JobOK
<1>2. UNCHANGED <<aborted, addressesReady, built, chainVars, exposed, todo, answer, latestCount>>
  BY DEF NotSigned, LeaseOnly, readVars
<1>3. PICK reason \in FailureReasons : FailAndRelease(j, reason)
  BY DEF NotSigned, FailureReasons
<1> QED
  BY <1>1, <1>2, <1>3, FieldTypes, FailAndReleaseInv DEF FailAndRelease

LEMMA BroadcastAnsweredInv == ASSUME SignInv, NEW j \in Jobs, BroadcastAnswered(j) PROVE SignInv'
<1>1. UNCHANGED <<aborted, addressesReady, todo, readVars, built, fate, latest, funds, exposed>>
  BY DEF BroadcastAnswered, LeaseOnly, chainVars
<1> QED
  BY <1>1, FieldTypes, NextCallInv DEF BroadcastAnswered, Holding

LEMMA WatchFailsInv ==
    ASSUME SignInv, NEW j \in Jobs, BroadcastThrows(j) \/ ReceiptTimeout(j)
    PROVE  SignInv'
  BY FailAndQuarantineInv DEF BroadcastThrows, ReceiptTimeout

\* A job that sees a receipt: its own transaction is settled.
LEMMA ReceiptFacts ==
    ASSUME SignInv, NEW j \in Jobs, NEW status \in {"mined", "reverted"},
           pc[j] = "receipt", HasReceipt(j, status)
    PROVE  fate[j] \notin {"sent", "pending"} /\ answer[j] = None
  BY JobFacts DEF HasReceipt, HeardOK

LEMMA ConfirmedInv == ASSUME SignInv, NEW j \in Jobs, Confirmed(j) PROVE SignInv'
<1>1. Release(j) /\ fate[j] \notin {"sent", "pending"} /\ answer[j] = None
  BY ReceiptFacts DEF Confirmed
<1>2. /\ LeaseFrame(j) /\ quarantined \subseteq quarantined' /\ [PoolNext]_poolVars
      /\ lease'[j] = None /\ ~Parked(j)'
  BY <1>1, ReleaseFrame DEF SignInv
<1>3. /\ Goto(j, "respond") /\ UNCHANGED failureReason
      /\ UNCHANGED <<aborted, addressesReady, built, chainVars, exposed, todo, answer, latestCount>>
  BY DEF Confirmed, LeaseOnly, readVars
<1> QED
  BY <1>1, <1>2, <1>3, FieldTypes, EndInv

LEMMA RevertedInv == ASSUME SignInv, NEW j \in Jobs, Reverted(j) PROVE SignInv'
<1>1. /\ Release(j) /\ Fail(j, "transaction_reverted")
      /\ fate[j] \notin {"sent", "pending"} /\ answer[j] = None
  BY ReceiptFacts DEF Reverted, FailAndRelease
<1>2. UNCHANGED <<aborted, addressesReady, built, chainVars, exposed, todo, answer, latestCount>>
  BY DEF Reverted, LeaseOnly, readVars
<1>3. "transaction_reverted" \in FailureReasons
  BY DEF FailureReasons
<1> QED
  BY <1>1, <1>2, <1>3, FieldTypes, FailAndReleaseInv

LEMMA RespondInv == ASSUME SignInv, NEW j \in Jobs, Respond(j) PROVE SignInv'
<1>1. /\ pc[j] = "respond" /\ fate[j] \notin {"sent", "pending"} /\ answer[j] = None
      /\ lease[j] = None /\ ~Parked(j)
  BY JobFacts DEF Respond, HeardOK, JobOK, Holding
<1>2. UNCHANGED <<aborted, addressesReady, built, chainVars, exposed, todo, answer, latestCount>>
  BY DEF Respond, LeaseOnly, readVars
<1>3. UNCHANGED poolVars
  BY DEF Respond, Proceed
<1>4. /\ LeaseFrame(j) /\ quarantined \subseteq quarantined' /\ [PoolNext]_poolVars
      /\ lease'[j] = None /\ ~Parked(j)'
  BY <1>1, <1>3, IdleFrame
<1>5. /\ Goto(j, "done")
      /\ failureReason' \in [Jobs -> FailureReasons \cup {None}]
      /\ \A k \in Jobs \ {j} : failureReason'[k] = failureReason[k]
  <2>1. CASE Proceed(j, "done")
    BY <2>1, FieldTypes DEF Proceed
  <2>2. CASE \E reason \in {"respond_timeout", "respond_mismatch"} : Fail(j, reason)
    BY <2>2, FailFacts DEF FailureReasons
  <2> QED
    BY <2>1, <2>2 DEF Respond
<1> QED
  BY <1>1, <1>2, <1>4, <1>5, FieldTypes, EndInv

LEMMA DeriveInv == SignInv /\ (DeriveSucceeds \/ DeriveFails) => SignInv'
<1> SUFFICES ASSUME SignInv, DeriveSucceeds \/ DeriveFails PROVE SignInv'
  OBVIOUS
<1>1. /\ UNCHANGED <<poolVars, aborted, todo, readVars, built, chainVars, exposed>>
      /\ addressesReady' \in {"unset", "deriving", "ready"}
  BY DEF DeriveSucceeds, DeriveFails
<1>2. PoolInv'
  BY <1>1, PoolStepInv DEF SignInv
<1>3. /\ pc' \in [Actors -> Phases]
      /\ \A a \in Actors : pc'[a] = pc[a] \/ (pc[a] = "derive" /\ pc'[a] = "done")
      /\ failureReason' \in [Jobs -> FailureReasons \cup {None}]
      /\ \A j \in Jobs : failureReason'[j] = failureReason[j] \/ pc[j] = "derive"
  <2>1. TypeOK
    BY DEF SignInv
  <2>2. CASE DeriveSucceeds
    BY <2>1, <2>2 DEF TypeOK, DeriveSucceeds
  <2>3. CASE DeriveFails
    <3>1. "done" \in Phases /\ "internal_error" \in FailureReasons
      BY DEF Phases, FailureReasons
    <3>2. /\ pc \in [Actors -> Phases]
          /\ pc' = [a \in Actors |-> IF pc[a] = "derive" THEN "done" ELSE pc[a]]
      BY <2>1, <2>3 DEF TypeOK, DeriveFails
    <3>3. /\ failureReason \in [Jobs -> FailureReasons \cup {None}]
          /\ failureReason' =
                [j \in Jobs |-> IF pc[j] = "derive" THEN "internal_error" ELSE failureReason[j]]
      BY <2>1, <2>3 DEF TypeOK, DeriveFails
    <3> QED
      BY <3>1, <3>2, <3>3
  <2> QED
    BY <2>2, <2>3
<1>4. TypeOK'
  BY <1>1, <1>2, <1>3 DEF SignInv, TypeOK, PoolInv, readVars, chainVars
<1>5. ASSUME NEW a \in Actors PROVE HeardOK(a)'
  BY <1>1, <1>3, <1>5 DEF SignInv, HeardOK, readVars
<1>6. ASSUME NEW j \in Jobs PROVE JobOK(j)'
  <2>1. JobOK(j) /\ j \in Actors
    BY <1>6, JobFacts
  <2>2. lease' = lease /\ (Parked(j)' <=> Parked(j)) /\ quarantined' = quarantined
    BY <1>1, IdleFrame
  <2> QED
    BY <1>1, <1>3, <1>6, <2>1, <2>2 DEF JobOK, Holding, chainVars
<1> QED
  BY <1>2, <1>4, <1>5, <1>6 DEF SignInv

LEMMA ShutdownInv == SignInv /\ Shutdown => SignInv'
<1> SUFFICES ASSUME SignInv, Shutdown PROVE SignInv'
  OBVIOUS
<1>1. /\ UNCHANGED <<addressesReady, todo, readVars, built, chainVars, exposed>>
      /\ aborted' = aborted \cup Live
      /\ waiters' = <<>> /\ UNCHANGED <<busy, underfunded, quarantined, balanceWei, lease>>
  BY DEF Shutdown, RejectWaiters
<1>2. PoolInv'
  BY PoolStepInv DEF SignInv, Shutdown, PoolNext
<1>3. /\ pc \in [Actors -> Phases]
      /\ pc' = [a \in Actors |-> IF pc[a] = "lease" THEN "done" ELSE pc[a]]
      /\ "done" \in Phases
  BY DEF SignInv, TypeOK, Shutdown, Phases
<1>4. /\ pc' \in [Actors -> Phases]
      /\ \A a \in Actors : pc'[a] = IF pc[a] = "lease" THEN "done" ELSE pc[a]
  BY <1>3
<1>5. /\ failureReason \in [Jobs -> FailureReasons \cup {None}]
      /\ failureReason' =
            [j \in Jobs |-> IF pc[j] = "lease" THEN "internal_error" ELSE failureReason[j]]
      /\ "internal_error" \in FailureReasons
  BY DEF SignInv, TypeOK, Shutdown, FailureReasons
<1>6. /\ failureReason' \in [Jobs -> FailureReasons \cup {None}]
      /\ \A j \in Jobs : failureReason'[j] = failureReason[j] \/ pc[j] = "lease"
  BY <1>5
<1>7. TypeOK'
  BY <1>1, <1>2, <1>4, <1>6 DEF SignInv, TypeOK, PoolInv, readVars, chainVars, Live
<1>8. ASSUME NEW a \in Actors PROVE HeardOK(a)'
  BY <1>1, <1>4, <1>8 DEF SignInv, HeardOK, readVars
<1>9. ASSUME NEW j \in Jobs PROVE JobOK(j)'
  <2>1. JobOK(j) /\ j \in Actors
    BY <1>9, JobFacts
  <2>2. ~Parked(j)'
    BY <1>1 DEF Parked, ToSet
  <2>3. pc'[j] = IF pc[j] = "lease" THEN "done" ELSE pc[j]
    BY <1>4, <2>1
  <2> QED
    BY <1>1, <1>6, <1>9, <2>1, <2>2, <2>3 DEF JobOK, Holding, chainVars
<1> QED
  BY <1>2, <1>7, <1>8, <1>9 DEF SignInv

\* The node and the wallets: no transaction comes back to life.
LEMMA NodeMoves ==
    ASSUME SignInv, NodeOnly,
           fate' \in [Jobs -> {"none", "sent", "pending", "mined", "reverted", "gone"}],
           \A j \in Jobs : fate'[j] = fate[j] \/ fate[j] \in {"sent", "pending"},
           latest' \in [Workers -> Nat],
           funds' \in [Workers -> Balances]
    PROVE  SignInv'
<1>1. UNCHANGED <<poolVars, pc, failureReason, aborted, addressesReady, todo, answer, latestCount,
                  built, exposed, lease, waiters, quarantined>>
  BY DEF NodeOnly, readVars, poolVars
<1>2. PoolInv'
  BY <1>1, PoolStepInv DEF SignInv
<1>3. TypeOK'
  BY <1>1, <1>2 DEF SignInv, TypeOK, PoolInv
<1>4. \A a \in Actors : HeardOK(a)'
  BY <1>1 DEF SignInv, HeardOK
<1>5. ASSUME NEW j \in Jobs PROVE JobOK(j)'
  BY <1>1, <1>5 DEF SignInv, JobOK, Parked
<1> QED
  BY <1>2, <1>3, <1>4, <1>5 DEF SignInv

LEMMA NodeInv ==
    ASSUME SignInv, FundsChange \/ \E j \in Jobs : NodeAccepts(j) \/ Mine(j) \/ Vanish(j)
    PROVE  SignInv'
<1>1. /\ fate \in [Jobs -> {"none", "sent", "pending", "mined", "reverted", "gone"}]
      /\ built \in [Jobs -> [from : Workers \cup {None}, nonce : Nat]]
      /\ latest \in [Workers -> Nat] /\ funds \in [Workers -> Balances]
  BY DEF SignInv, TypeOK
<1>2. CASE FundsChange
  <2>1. PICK w \in Workers, b \in Balances : funds' = [funds EXCEPT ![w] = b]
    BY <1>2 DEF FundsChange
  <2>2. funds' \in [Workers -> Balances]
    BY <1>1, <2>1
  <2> QED
    BY <1>1, <1>2, <2>2, NodeMoves DEF FundsChange
<1>3. ASSUME NEW j \in Jobs, NodeAccepts(j) PROVE SignInv'
  <2>1. /\ fate[j] = "sent"
        /\ fate' = [k \in Jobs |->
            IF k = j THEN "pending"
            ELSE IF k \in From(built[j].from, {"pending"}) THEN "gone"
            ELSE fate[k]]
    BY <1>3 DEF NodeAccepts
  <2>2. /\ fate' \in [Jobs -> {"none", "sent", "pending", "mined", "reverted", "gone"}]
        /\ \A k \in Jobs : fate'[k] = fate[k] \/ fate[k] \in {"sent", "pending"}
    BY <1>1, <2>1 DEF From
  <2> QED
    BY <1>1, <1>3, <2>2, NodeMoves DEF NodeAccepts
<1>4. ASSUME NEW j \in Jobs, Mine(j) PROVE SignInv'
  <2>1. PICK outcome \in {"mined", "reverted"} : fate' = [fate EXCEPT ![j] = outcome]
    BY <1>4 DEF Mine
  <2>2. /\ fate' \in [Jobs -> {"none", "sent", "pending", "mined", "reverted", "gone"}]
        /\ \A k \in Jobs : fate'[k] = fate[k] \/ fate[k] \in {"sent", "pending"}
    BY <1>1, <1>4, <2>1 DEF Mine
  <2>3. latest' \in [Workers -> Nat]
    <3>1. latest' = [latest EXCEPT ![built[j].from] = latest[built[j].from] + 1]
      BY <1>4 DEF Mine
    <3>2. \A w \in Workers : latest[w] + 1 \in Nat
      <4> TAKE w \in Workers
      <4>1. latest[w] \in Nat
        BY <1>1
      <4> QED
        BY <4>1
    <3> QED
      BY <1>1, <3>1, <3>2
  <2> QED
    BY <1>1, <1>4, <2>2, <2>3, NodeMoves DEF Mine
<1>5. ASSUME NEW j \in Jobs, Vanish(j) PROVE SignInv'
  <2>1. /\ fate' \in [Jobs -> {"none", "sent", "pending", "mined", "reverted", "gone"}]
        /\ \A k \in Jobs : fate'[k] = fate[k] \/ fate[k] \in {"sent", "pending"}
    BY <1>1, <1>5 DEF Vanish
  <2> QED
    BY <1>1, <1>5, <2>1, NodeMoves DEF Vanish
<1> QED
  BY <1>2, <1>3, <1>4, <1>5

LEMMA JobStepInv == ASSUME SignInv, NEW j \in Jobs, JobStep(j) PROVE SignInv'
  BY TakeLeaseInv, LeaseTimeoutInv, PreflightInv, BuildInv, SignSentInv, SignedInv,
     NotSignedInv, BroadcastAnsweredInv, WatchFailsInv, ConfirmedInv, RevertedInv,
     RespondInv DEF JobStep

LEMMA ActorStepInv == ASSUME SignInv, NEW a \in Actors, ActorStep(a) PROVE SignInv'
  BY DerivedInv, ApplyCountsInv, ReconcileDoneInv, ApplyBalanceInv, BalancesDoneInv,
     CallThrowsInv DEF ActorStep

LEMMA StutterInv == ASSUME SignInv, UNCHANGED vars PROVE SignInv'
<1>1. UNCHANGED <<poolVars, pc, failureReason, aborted, addressesReady, todo, answer, latestCount,
                  built, fate, latest, funds, exposed, lease, waiters, quarantined>>
  BY DEF vars, signVars, poolVars, readVars, chainVars
<1>2. PoolInv'
  BY <1>1, PoolStepInv DEF SignInv
<1>3. TypeOK'
  BY <1>1, <1>2 DEF SignInv, TypeOK, PoolInv
<1>4. \A a \in Actors : HeardOK(a)'
  BY <1>1 DEF SignInv, HeardOK
<1>5. \A j \in Jobs : JobOK(j)'
  BY <1>1 DEF SignInv, JobOK, Parked
<1> QED
  BY <1>2, <1>3, <1>4, <1>5 DEF SignInv

LEMMA SignStepInv == SignInv /\ [Next]_vars => SignInv'
<1> SUFFICES ASSUME SignInv, [Next]_vars PROVE SignInv'
  OBVIOUS
<1>1. ASSUME NEW j \in Jobs, JobStep(j) PROVE SignInv'
  BY <1>1, JobStepInv
<1>2. ASSUME NEW a \in Actors, Arrive(a) \/ Answer(a) \/ AnswerLatest(a) \/ ActorStep(a)
      PROVE  SignInv'
  BY <1>2, ArriveInv, AnswerInv, AnswerLatestInv, ActorStepInv
<1>3. CASE Environment
  BY <1>3, DeriveInv, ShutdownInv, NodeInv DEF Environment
<1>4. CASE Terminating \/ UNCHANGED vars
  BY <1>4, StutterInv DEF Terminating
<1> QED
  BY <1>1, <1>2, <1>3, <1>4 DEF Next

-----------------------------------------------------------------------------
(***************************************************************************)
(* The theorems.                                                           *)
(***************************************************************************)

\* The inductive invariant holds in every run of the service.
THEOREM SignSafe == Spec => []SignInv
  BY InitInv, SignStepInv, PTL DEF Spec

\* The service is well typed.
THEOREM SignTypes == Spec => []TypeOK
<1>1. SignInv => TypeOK
  BY DEF SignInv
<1> QED
  BY <1>1, SignSafe, PTL

\* A job owns an address exactly between its lease and the end of the
\* confirmation wait, and is queued exactly while it waits for one: whichever of
\* its exits `run` takes, the lease is given back once.
THEOREM LeaseFollowsTheJob == Spec => []LeaseMatchesPhase
<1>1. SignInv => LeaseMatchesPhase
  BY DEF SignInv, JobOK, LeaseMatchesPhase
<1> QED
  BY <1>1, SignSafe, PTL

\* An address with an unsettled transaction is owned by the job watching that
\* transaction, or quarantined, or was returned on an answer that missed it.
LEMMA SignInvWithholds == SignInv => OutstandingIsWithheld
<1> SUFFICES ASSUME SignInv, NEW j \in Jobs, fate[j] \in {"sent", "pending"}
             PROVE  \/ pc[j] \in {"broadcast", "receipt"} /\ lease[j] = built[j].from
                    \/ built[j].from \in quarantined \cup exposed
  BY DEF OutstandingIsWithheld
<1> QED
  BY JobFacts DEF JobOK

\* ... (workerPool.ts:9-15), in every run of the service.
THEOREM OutstandingWithheld == Spec => []OutstandingIsWithheld
  BY SignInvWithholds, SignSafe, PTL

\* No nonce the node holds a transaction for is signed again, as long as its
\* address was not returned to service on an answer that missed the transaction.
LEMMA SignInvSignsOnce == SignInv => NonceSafeUnlessExposed
<1>1. ASSUME SignInv, NEW j \in Jobs, NEW k \in Jobs, j # k, SecondSignature(j, k)
      PROVE  built[j].from \in exposed
  <2>1. /\ JobOK(j) /\ JobOK(k) /\ lease[j] \in Workers \cup {None}
        /\ ExclusiveLease /\ QuarantineWithheld
        /\ lease \in [Clients -> Workers \cup {None}]
    BY <1>1, JobFacts DEF PoolInv, PoolTypeOK
  <2>2. /\ built[j].from = lease[j] /\ lease[j] # None
        /\ fate[k] = "pending" /\ built[j] = built[k]
    BY <1>1, <2>1 DEF SecondSignature, JobOK, Holding
  <2>3. lease[j] \in busy
    <3>1. lease[j] \in Range(lease)
      BY <1>1, <2>1 DEF Range, Jobs
    <3> QED
      BY <2>1, <2>2, <3>1 DEF ExclusiveLease
  <2>4. CASE pc[k] \in {"broadcast", "receipt"}
    <3>1. built[k].from = lease[k]
      BY <2>1, <2>4 DEF JobOK
    <3> QED
      BY <1>1, <2>1, <2>2, <3>1 DEF ExclusiveLease, Jobs
  <2>5. CASE built[k].from \in quarantined \cup exposed
    BY <2>1, <2>2, <2>3, <2>5 DEF QuarantineWithheld
  <2> QED
    BY <2>1, <2>2, <2>4, <2>5 DEF JobOK
<1> QED
  BY <1>1 DEF NonceSafeUnlessExposed

\* ... (workerPool.ts:10-13), in every run of the service.
THEOREM NonceSignedOnce == Spec => []NonceSafeUnlessExposed
  BY SignInvSignsOnce, SignSafe, PTL

-----------------------------------------------------------------------------
(***************************************************************************)
(* The service implements the pool: its steps use the pool only through    *)
(* the pool's own operations, with arguments the pool is specified for.    *)
(***************************************************************************)
LEMMA JobUsesPool == ASSUME SignInv, NEW j \in Jobs, JobStep(j) PROVE [PoolNext]_poolVars
<1>1. j \in Clients /\ JobOK(j) /\ HeardOK(j)
  BY JobFacts
<1>2. Acquire(j) \/ Enqueue(j) \/ WaitTimeout(j) \/ Release(j) \/ QuarantineAndRelease(j)
        => PoolNext
  BY <1>1 DEF PoolNext
<1>3. ASSUME NEW min \in Thresholds(answer[j]), Underfunded(j, min), answer[j] \in Balances
      PROVE  PoolNext
  BY <1>1, <1>3 DEF PoolNext, Underfunded
<1>4. CASE TakeLease(j)
  BY <1>2, <1>4 DEF TakeLease, Refuse
<1>5. CASE LeaseTimeout(j)
  BY <1>2, <1>5 DEF LeaseTimeout
<1>6. CASE Preflight(j)
  <2>1. answer[j] \in Balances /\ MinBalance \in Thresholds(answer[j])
    BY <1>1, <1>6 DEF Preflight, HeardOK, Thresholds
  <2> QED
    BY <1>2, <1>3, <1>6, <2>1 DEF Preflight, ShuttingDown, FailAndRelease, Proceed
<1>7. CASE Build(j)
  <2>1. answer[j] \in Balances
    BY <1>1, <1>7 DEF Build, HeardOK
  <2>2. PICK gas \in GasCosts :
          \/ Underfunded(j, answer[j] + 1) \/ Underfunded(j, gas)
          \/ ShuttingDown(j) \/ Proceed(j, "send")
    BY <1>7 DEF Build
  <2>3. answer[j] + 1 \in Thresholds(answer[j]) /\ gas \in Thresholds(answer[j])
    BY DEF Thresholds
  <2> QED
    BY <1>2, <1>3, <2>1, <2>2, <2>3 DEF ShuttingDown, FailAndRelease, Proceed
<1>8. CASE SignSent(j) \/ Signed(j) \/ BroadcastAnswered(j) \/ Respond(j)
  BY <1>8 DEF SignSent, Signed, BroadcastAnswered, Respond, Proceed
<1>9. CASE NotSigned(j) \/ Confirmed(j) \/ Reverted(j)
  BY <1>2, <1>9 DEF NotSigned, Confirmed, Reverted, FailAndRelease
<1>10. CASE BroadcastThrows(j) \/ ReceiptTimeout(j)
  BY <1>2, <1>10 DEF BroadcastThrows, ReceiptTimeout, FailAndQuarantine
<1> QED
  BY <1>4, <1>5, <1>6, <1>7, <1>8, <1>9, <1>10 DEF JobStep

LEMMA ActorUsesPool == ASSUME SignInv, NEW a \in Actors, ActorStep(a) PROVE [PoolNext]_poolVars
<1>1. HeardOK(a)
  BY DEF SignInv
<1>2. CASE Derived(a) \/ ReconcileDone(a) \/ BalancesDone(a)
  BY <1>2 DEF Derived, ReconcileDone, BalancesDone, Proceed
<1>3. CASE ApplyCounts(a)
  <2>1. PICK w \in Workers : Reconcile(w, answer[a] > latestCount[a])
    BY <1>3 DEF ApplyCounts
  <2>2. CASE answer[a] > latestCount[a]
    BY <2>1, <2>2 DEF Reconcile, poolVars
  <2>3. CASE ~(answer[a] > latestCount[a])
    BY <2>1, <2>3 DEF Reconcile, PoolNext
  <2> QED
    BY <2>2, <2>3
<1>4. CASE ApplyBalance(a)
  BY <1>1, <1>4 DEF ApplyBalance, HeardOK, PoolNext
<1>5. CASE CallThrows(a)
  <2>1. CASE UNCHANGED poolVars
    BY <2>1
  <2>2. CASE pc[a] \in {"preflight", "build", "send"} /\ Release(a)
    <3>1. a \in Clients
      BY <1>1, <2>2 DEF HeardOK, Actors, Jobs
    <3> QED
      BY <2>2, <3>1 DEF PoolNext
  <2> QED
    BY <1>5, <2>1, <2>2 DEF CallThrows
<1> QED
  BY <1>2, <1>3, <1>4, <1>5 DEF ActorStep

LEMMA StepUsesPool == SignInv /\ [Next]_vars => [PoolNext]_poolVars
<1> SUFFICES ASSUME SignInv, [Next]_vars PROVE [PoolNext]_poolVars
  OBVIOUS
<1>1. ASSUME NEW j \in Jobs, JobStep(j) PROVE [PoolNext]_poolVars
  BY <1>1, JobUsesPool
<1>2. ASSUME NEW a \in Actors, Arrive(a) \/ Answer(a) \/ AnswerLatest(a) \/ ActorStep(a)
      PROVE  [PoolNext]_poolVars
  BY <1>2, ActorUsesPool DEF Arrive, Answer, AnswerLatest, Proceed
<1>3. CASE Environment
  <2>1. CASE Shutdown
    BY <2>1 DEF Shutdown, PoolNext
  <2>2. CASE DeriveSucceeds \/ DeriveFails
    BY <2>2 DEF DeriveSucceeds, DeriveFails
  <2>3. CASE FundsChange \/ \E j \in Jobs : NodeAccepts(j) \/ Mine(j) \/ Vanish(j)
    BY <2>3 DEF FundsChange, NodeAccepts, Mine, Vanish, NodeOnly
  <2> QED
    BY <1>3, <2>1, <2>2, <2>3 DEF Environment
<1>4. CASE Terminating \/ UNCHANGED vars
  BY <1>4 DEF Terminating, vars
<1> QED
  BY <1>1, <1>2, <1>3, <1>4 DEF Next

\* Every run of the service is a run of the pool: what is proved of the pool
\* under any caller is true of it under these jobs and viewers.
THEOREM ServiceImplementsPool == Spec => PoolSpec
<1>1. Init => PoolInit
  BY DEF Init
<1> QED
  BY <1>1, StepUsesPool, SignSafe, PTL DEF Spec, PoolSpec

\* In the service no address is leased to two jobs, and no lease leaks ...
THEOREM ServiceLeasesAreExclusive == Spec => []ExclusiveLease
  BY ServiceImplementsPool, LeasesAreExclusive, PTL

\* ... and the queue is served in order, with addresses fit for use.
THEOREM ServiceServesTheQueue == Spec => GrantsAreUsable /\ FirstComeFirstServed
  BY ServiceImplementsPool, GrantedAddressesAreUsable, QueueIsServedInOrder, PTL

-----------------------------------------------------------------------------
(***************************************************************************)
(* Shutdown.                                                               *)
(***************************************************************************)
StartsWork == {"lease", "preflight", "build", "send", "broadcast"}

\* A job's own steps: an aborted one starts nothing.
LEMMA AbortedStep ==
    ASSUME SignInv, NEW j \in Jobs, j \in aborted, JobStep(j)
    PROVE  \E phase \in Phases \ StartsWork : Goto(j, phase)
<1>1. pc[j] # "lease"
  BY JobFacts DEF JobOK
<1>2. /\ "done" \in Phases \ StartsWork /\ "respond" \in Phases \ StartsWork
      /\ "signature" \in Phases \ StartsWork /\ "receipt" \in Phases \ StartsWork
  BY DEF Phases, Holding, StartsWork
<1>3. (\E reason : Fail(j, reason)) => Goto(j, "done")
  BY DEF Fail
<1>4. CASE TakeLease(j)
  BY <1>2, <1>3, <1>4 DEF TakeLease
<1>5. CASE LeaseTimeout(j)
  BY <1>1, <1>5 DEF LeaseTimeout
<1>6. CASE Preflight(j)
  BY <1>2, <1>3, <1>6 DEF Preflight, Underfunded, ShuttingDown, FailAndRelease
<1>7. CASE Build(j)
  BY <1>2, <1>3, <1>7 DEF Build, Underfunded, ShuttingDown, FailAndRelease
<1>8. CASE SignSent(j) \/ Signed(j) \/ BroadcastAnswered(j)
  BY <1>2, <1>8 DEF SignSent, Signed, BroadcastAnswered, Proceed
<1>9. CASE Respond(j)
  BY <1>2, <1>3, <1>9 DEF Respond, Proceed
<1>10. CASE NotSigned(j)
  BY <1>2, <1>3, <1>10 DEF NotSigned, FailAndRelease
<1>11. CASE Confirmed(j) \/ Reverted(j)
  BY <1>2, <1>3, <1>11 DEF Confirmed, Reverted, FailAndRelease
<1>12. CASE BroadcastThrows(j) \/ ReceiptTimeout(j)
  BY <1>2, <1>3, <1>12 DEF BroadcastThrows, ReceiptTimeout, FailAndQuarantine
<1> QED
  BY <1>4, <1>5, <1>6, <1>7, <1>8, <1>9, <1>10, <1>11, <1>12 DEF JobStep

\* Any step, seen from one job that is not parked.
LEMMA MovesOf ==
    ASSUME SignInv, [Next]_vars, NEW j \in aborted, pc'[j] # pc[j]
    PROVE  pc'[j] \notin StartsWork
<1>1. /\ j \in Jobs /\ j \in Actors /\ pc[j] # "lease"
      /\ pc \in [Actors -> Phases]
  BY JobFacts DEF SignInv, TypeOK, JobOK, Actors
<1>2. ASSUME NEW a \in Actors, NEW phase \in Phases, Goto(a, phase),
             a = j => phase \notin StartsWork
      PROVE  pc'[j] \notin StartsWork
  BY <1>1, <1>2, GotoFacts
<1>3. ASSUME NEW k \in Jobs, JobStep(k) PROVE pc'[j] \notin StartsWork
  <2>1. k \in Actors
    BY <1>3 DEF Actors
  <2>2. CASE k = j
    BY <1>1, <1>2, <1>3, <2>1, <2>2, AbortedStep
  <2>3. CASE k # j
    <3>1. \E phase : Goto(k, phase)
      BY <1>3 DEF JobStep, TakeLease, LeaseTimeout, Preflight, Build, SignSent, Signed,
         NotSigned, BroadcastAnswered, BroadcastThrows, Confirmed, Reverted, ReceiptTimeout,
         Respond, Underfunded, ShuttingDown, FailAndRelease, FailAndQuarantine, Fail, Proceed
    <3>2. pc'[j] = pc[j]
      BY <1>1, <2>3, <3>1 DEF Goto
    <3> QED
      BY <3>2
  <2> QED
    BY <2>2, <2>3
<1>4. ASSUME NEW a \in Actors, Arrive(a) \/ Answer(a) \/ AnswerLatest(a) \/ ActorStep(a)
      PROVE  pc'[j] \notin StartsWork
  <2>1. \/ pc' = pc
        \/ \E phase \in {"derive", "reconcile", "refresh", "done"} : Goto(a, phase)
    BY <1>4 DEF Arrive, Answer, AnswerLatest, ActorStep, Derived, ApplyCounts, ReconcileDone,
       ApplyBalance, BalancesDone, CallThrows, Proceed, Fail
  <2>2. {"derive", "reconcile", "refresh", "done"} \subseteq Phases \ StartsWork
    BY DEF Phases, StartsWork
  <2> QED
    BY <1>2, <2>1, <2>2
<1>5. CASE Environment
  <2>1. \A a \in Actors : pc'[a] \in {pc[a], "done"}
    BY <1>1, <1>5 DEF Environment, DeriveSucceeds, DeriveFails, Shutdown, FundsChange,
       NodeAccepts, Mine, Vanish, NodeOnly
  <2> QED
    BY <1>1, <2>1 DEF StartsWork
<1>6. CASE Terminating \/ UNCHANGED vars
  BY <1>6 DEF Terminating, vars, signVars
<1> QED
  BY <1>3, <1>4, <1>5, <1>6 DEF Next

\* A job whose watch is aborted neither takes nor asks for an address again, and
\* builds, signs and broadcasts nothing more.
THEOREM AbortedStartNothing == Spec => AbortedJobsStartNothing
<1>1. ASSUME SignInv, [Next]_vars
      PROVE  [\A j \in aborted : pc'[j] # pc[j] =>
                pc'[j] \notin {"lease", "preflight", "build", "send", "broadcast"}]_vars
  BY <1>1, MovesOf DEF StartsWork
<1> QED
  BY <1>1, SignSafe, PTL DEF Spec, AbortedJobsStartNothing
=============================================================================
