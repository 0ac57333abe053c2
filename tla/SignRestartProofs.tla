-------------------------- MODULE SignRestartProofs --------------------------
(***************************************************************************)
(* Proofs about the job records, as a client of the service reads them,    *)
(* and about restarts, for any number of jobs, viewers and workers.        *)
(***************************************************************************)
EXTENDS SignRestart, SignBidirectionalProofs

(***************************************************************************)
(* The states of a record, by where its job is parked.                     *)
(***************************************************************************)
LEMMA StateNames ==
    /\ Lifecycle!States = {"none", "pending", "awaiting_signature", "verified", "broadcast",
                           "confirmed", "responded", "failed"}
    /\ FailureReasons \subseteq Lifecycle!Reasons
    /\ DOMAIN Lifecycle!NextState =
        {"none", "pending", "awaiting_signature", "verified", "broadcast", "confirmed"}
    /\ DOMAIN Lifecycle!ReasonsIn =
        {"pending", "awaiting_signature", "verified", "broadcast", "confirmed"}
    /\ Lifecycle!ReasonsIn["pending"] = {"all_workers_busy", "all_workers_underfunded",
            "preflight_underfunded", "shutdown", "internal_error"}
    /\ Lifecycle!ReasonsIn["awaiting_signature"] =
            {"signature_timeout", "derivation_mismatch", "internal_error"}
    /\ Lifecycle!ReasonsIn["verified"] = {"broadcast_failed"}
    /\ Lifecycle!ReasonsIn["broadcast"] = {"confirmation_timeout", "transaction_reverted"}
    /\ Lifecycle!ReasonsIn["confirmed"] = {"respond_timeout", "respond_mismatch"}
    /\ Lifecycle!NextState["none"] = "pending"
    /\ Lifecycle!NextState["pending"] = "awaiting_signature"
    /\ Lifecycle!NextState["awaiting_signature"] = "verified"
    /\ Lifecycle!NextState["verified"] = "broadcast"
    /\ Lifecycle!NextState["broadcast"] = "confirmed"
    /\ Lifecycle!NextState["confirmed"] = "responded"
<1>1. /\ DOMAIN Lifecycle!NextState =
            {"none", "pending", "awaiting_signature", "verified", "broadcast", "confirmed"}
      /\ Lifecycle!NextState["none"] = "pending"
      /\ Lifecycle!NextState["pending"] = "awaiting_signature"
      /\ Lifecycle!NextState["awaiting_signature"] = "verified"
      /\ Lifecycle!NextState["verified"] = "broadcast"
      /\ Lifecycle!NextState["broadcast"] = "confirmed"
      /\ Lifecycle!NextState["confirmed"] = "responded"
  BY DEF Lifecycle!NextState
<1>2. DOMAIN Lifecycle!ReasonsIn =
        {"pending", "awaiting_signature", "verified", "broadcast", "confirmed"}
  BY DEF Lifecycle!ReasonsIn
<1>3. /\ Lifecycle!ReasonsIn["pending"] = {"all_workers_busy", "all_workers_underfunded",
            "preflight_underfunded", "shutdown", "internal_error"}
      /\ Lifecycle!ReasonsIn["awaiting_signature"] =
            {"signature_timeout", "derivation_mismatch", "internal_error"}
      /\ Lifecycle!ReasonsIn["verified"] = {"broadcast_failed"}
      /\ Lifecycle!ReasonsIn["broadcast"] = {"confirmation_timeout", "transaction_reverted"}
      /\ Lifecycle!ReasonsIn["confirmed"] = {"respond_timeout", "respond_mismatch"}
  BY DEF Lifecycle!ReasonsIn
<1>4. Lifecycle!Reasons =
        Lifecycle!ReasonsIn["pending"] \cup Lifecycle!ReasonsIn["awaiting_signature"]
        \cup Lifecycle!ReasonsIn["verified"] \cup Lifecycle!ReasonsIn["broadcast"]
        \cup Lifecycle!ReasonsIn["confirmed"]
  BY <1>2 DEF Lifecycle!Reasons
<1>5. FailureReasons \subseteq Lifecycle!Reasons
  BY <1>3, <1>4 DEF FailureReasons
<1> QED
  BY <1>1, <1>2, <1>3, <1>5 DEF Lifecycle!States

Waits == {"derive", "reconcile", "refresh", "lease", "preflight", "build", "send"}

LEMMA StateAt ==
    ASSUME NEW j \in Jobs
    PROVE  /\ pc[j] = "idle" => JobState(j) = "none"
           /\ pc[j] \in Waits => JobState(j) = "pending"
           /\ pc[j] = "signature" => JobState(j) = "awaiting_signature"
           /\ pc[j] = "broadcast" => JobState(j) = "verified"
           /\ pc[j] = "receipt" => JobState(j) = "broadcast"
           /\ pc[j] = "respond" => JobState(j) = "confirmed"
           /\ pc[j] = "done" /\ failureReason[j] = None => JobState(j) = "responded"
           /\ pc[j] = "done" /\ failureReason[j] # None => JobState(j) = "failed"
           /\ JobState(j) \in {"responded", "failed"} <=> pc[j] = "done"
  BY DEF JobState, Waits

LEMMA StateAfter ==
    ASSUME NEW j \in Jobs
    PROVE  /\ pc'[j] = "idle" => JobState(j)' = "none"
           /\ pc'[j] \in Waits => JobState(j)' = "pending"
           /\ pc'[j] = "signature" => JobState(j)' = "awaiting_signature"
           /\ pc'[j] = "broadcast" => JobState(j)' = "verified"
           /\ pc'[j] = "receipt" => JobState(j)' = "broadcast"
           /\ pc'[j] = "respond" => JobState(j)' = "confirmed"
           /\ pc'[j] = "done" /\ failureReason'[j] = None => JobState(j)' = "responded"
           /\ pc'[j] = "done" /\ failureReason'[j] # None => JobState(j)' = "failed"
           /\ JobState(j)' \in {"responded", "failed"} <=> pc'[j] = "done"
  BY DEF JobState, Waits

Seen(j) == Lifecycle!Stays(j) \/ Lifecycle!Advances(j) \/ Lifecycle!Fails(j)

LEMMA SeenIs ==
    ASSUME NEW j \in Jobs
    PROVE  /\ JobState(j)' = JobState(j) /\ failureReason'[j] = failureReason[j] => Seen(j)
           /\ /\ JobState(j) \in DOMAIN Lifecycle!NextState
              /\ JobState(j)' = Lifecycle!NextState[JobState(j)]
              /\ failureReason'[j] = failureReason[j]
              => Seen(j)
           /\ /\ JobState(j) \in DOMAIN Lifecycle!ReasonsIn
              /\ JobState(j)' = "failed"
              /\ failureReason'[j] \in Lifecycle!ReasonsIn[JobState(j)]
              => Seen(j)
           /\ Seen(j) =>
              \/ JobState(j)' = JobState(j) /\ failureReason'[j] = failureReason[j]
              \/ /\ JobState(j) \in DOMAIN Lifecycle!NextState
                 /\ JobState(j)' = Lifecycle!NextState[JobState(j)]
                 /\ failureReason'[j] = failureReason[j]
              \/ /\ JobState(j) \in DOMAIN Lifecycle!ReasonsIn
                 /\ JobState(j)' = "failed"
                 /\ failureReason'[j] \in Lifecycle!ReasonsIn[JobState(j)]
  BY DEF Seen, Lifecycle!Stays, Lifecycle!Advances, Lifecycle!Fails

\* A job that is not over has no reason yet.
NotYet(j) == pc[j] # "done" => failureReason[j] = None

LEMMA PhaseFacts ==
    ASSUME SignInv, NEW j \in Jobs
    PROVE  /\ pc \in [Actors -> Phases] /\ j \in Actors
           /\ failureReason \in [Jobs -> FailureReasons \cup {None}]
           /\ None \notin FailureReasons
           /\ "lease" \in Waits /\ "preflight" \in Waits
  BY ReasonAssumption DEF SignInv, TypeOK, Actors, Waits

\* Another actor's step.
LEMMA OthersSeen ==
    ASSUME SignInv, NEW a \in Actors, NEW phase, Goto(a, phase),
           NEW j \in Jobs, j # a, failureReason'[j] = failureReason[j]
    PROVE  Seen(j)
<1>1. pc'[j] = pc[j] \/ (pc[j] = "lease" /\ pc'[j] = "preflight")
  BY PhaseFacts DEF Goto
<1>2. CASE pc'[j] = pc[j]
  BY <1>2, SeenIs DEF JobState
<1>3. CASE pc[j] = "lease" /\ pc'[j] = "preflight"
  BY <1>3, PhaseFacts, StateAt, StateAfter, SeenIs
<1> QED
  BY <1>1, <1>2, <1>3

\* A job's own failure.
LEMMA FailSeen ==
    ASSUME SignInv, NEW j \in Jobs, NEW reason \in FailureReasons, Fail(j, reason),
           JobState(j) \in DOMAIN Lifecycle!ReasonsIn,
           reason \in Lifecycle!ReasonsIn[JobState(j)]
    PROVE  Seen(j)
<1>1. failureReason'[j] = reason /\ pc'[j] = "done" /\ reason # None
  BY PhaseFacts DEF Fail, Goto
<1> QED
  BY <1>1, StateAfter, SeenIs

\* A job's own move on.
LEMMA GoesOn ==
    ASSUME SignInv, NEW j \in Jobs, NEW phase, Goto(j, phase), failureReason' = failureReason
    PROVE  /\ pc'[j] = phase
           /\ pc[j] \in Waits /\ phase \in Waits => Seen(j)
  BY PhaseFacts, StateAt, StateAfter, SeenIs DEF Goto

-----------------------------------------------------------------------------
(***************************************************************************)
(* Every step, seen from every record.                                     *)
(***************************************************************************)
LEMMA WaitingStepSeen ==
    ASSUME SignInv, NEW j \in Jobs,
           \/ TakeLease(j) \/ LeaseTimeout(j) \/ Preflight(j) \/ Build(j)
    PROVE  Seen(j)
<1>1. pc[j] \in Waits
  BY DEF TakeLease, LeaseTimeout, Preflight, Build, Waits
<1>2. JobState(j) = "pending"
  BY <1>1, StateAt
<1>3. ASSUME NEW reason \in {"all_workers_busy", "all_workers_underfunded",
                             "preflight_underfunded", "shutdown"},
             Fail(j, reason)
      PROVE  Seen(j)
  <2>1. reason \in FailureReasons
    BY DEF FailureReasons
  <2> QED
    BY <1>2, <1>3, <2>1, StateNames, FailSeen
<1>4. ASSUME NEW phase \in {"preflight", "lease", "build", "send"}, Goto(j, phase),
             failureReason' = failureReason
      PROVE  Seen(j)
  <2>1. phase \in Waits
    BY DEF Waits
  <2> QED
    BY <1>1, <1>4, <2>1, GoesOn
<1>5. CASE TakeLease(j)
  BY <1>3, <1>4, <1>5 DEF TakeLease
<1>6. CASE LeaseTimeout(j)
  BY <1>3, <1>6 DEF LeaseTimeout
<1>7. CASE Preflight(j)
  BY <1>3, <1>4, <1>7 DEF Preflight, Underfunded, ShuttingDown, FailAndRelease, Proceed
<1>8. CASE Build(j)
  BY <1>3, <1>4, <1>8 DEF Build, Underfunded, ShuttingDown, FailAndRelease, Proceed
<1> QED
  BY <1>5, <1>6, <1>7, <1>8

LEMMA TripStepSeen ==
    ASSUME SignInv, NEW j \in Jobs, NotYet(j),
           \/ SignSent(j) \/ Signed(j) \/ NotSigned(j) \/ BroadcastAnswered(j)
           \/ BroadcastThrows(j) \/ Confirmed(j) \/ Reverted(j) \/ ReceiptTimeout(j) \/ Respond(j)
    PROVE  Seen(j)
<1>1. ASSUME NEW from \in {"pending", "awaiting_signature", "verified", "broadcast", "confirmed"},
             JobState(j) = from, NEW reason \in Lifecycle!ReasonsIn[from], Fail(j, reason)
      PROVE  Seen(j)
  <2>1. reason \in FailureReasons
    BY <1>1, StateNames DEF FailureReasons
  <2> QED
    BY <1>1, <2>1, StateNames, FailSeen
<1>2. CASE SignSent(j)
  <2>1. pc[j] = "send" /\ Goto(j, "signature") /\ failureReason' = failureReason
    BY <1>2 DEF SignSent, Proceed
  <2>2. JobState(j) = "pending" /\ pc'[j] = "signature"
    BY <2>1, StateAt, GoesOn DEF Waits
  <2> QED
    BY <2>1, <2>2, StateAfter, StateNames, SeenIs
<1>3. CASE Signed(j)
  <2>1. pc[j] = "signature" /\ Goto(j, "broadcast") /\ failureReason' = failureReason
    BY <1>3 DEF Signed, Proceed
  <2>2. JobState(j) = "awaiting_signature" /\ pc'[j] = "broadcast"
    BY <2>1, StateAt, GoesOn
  <2> QED
    BY <2>1, <2>2, StateAfter, StateNames, SeenIs
<1>4. CASE NotSigned(j)
  <2>1. JobState(j) = "awaiting_signature"
    BY <1>4, StateAt DEF NotSigned
  <2>2. PICK reason \in {"signature_timeout", "derivation_mismatch", "internal_error"} :
            Fail(j, reason)
    BY <1>4 DEF NotSigned, FailAndRelease
  <2>3. reason \in Lifecycle!ReasonsIn["awaiting_signature"]
    BY StateNames
  <2> QED
    BY <1>1, <2>1, <2>2, <2>3
<1>5. CASE BroadcastAnswered(j)
  <2>1. pc[j] = "broadcast" /\ Goto(j, "receipt") /\ failureReason' = failureReason
    BY <1>5 DEF BroadcastAnswered, Proceed
  <2>2. JobState(j) = "verified" /\ pc'[j] = "receipt"
    BY <2>1, StateAt, GoesOn
  <2> QED
    BY <2>1, <2>2, StateAfter, StateNames, SeenIs
<1>6. CASE BroadcastThrows(j)
  <2>1. JobState(j) = "verified" /\ Fail(j, "broadcast_failed")
    BY <1>6, StateAt DEF BroadcastThrows, FailAndQuarantine
  <2>2. "broadcast_failed" \in Lifecycle!ReasonsIn["verified"]
    BY StateNames
  <2> QED
    BY <1>1, <2>1, <2>2
<1>7. CASE Confirmed(j)
  <2>1. pc[j] = "receipt" /\ Goto(j, "respond") /\ failureReason' = failureReason
    BY <1>7 DEF Confirmed
  <2>2. JobState(j) = "broadcast" /\ pc'[j] = "respond"
    BY <2>1, StateAt, GoesOn
  <2> QED
    BY <2>1, <2>2, StateAfter, StateNames, SeenIs
<1>8. CASE Reverted(j) \/ ReceiptTimeout(j)
  <2>1. JobState(j) = "broadcast"
    BY <1>8, StateAt DEF Reverted, ReceiptTimeout
  <2>2. PICK reason \in {"transaction_reverted", "confirmation_timeout"} : Fail(j, reason)
    BY <1>8 DEF Reverted, ReceiptTimeout, FailAndRelease, FailAndQuarantine
  <2>3. reason \in Lifecycle!ReasonsIn["broadcast"]
    BY StateNames
  <2> QED
    BY <1>1, <2>1, <2>2, <2>3
<1>9. CASE Respond(j)
  <2>1. pc[j] = "respond" /\ JobState(j) = "confirmed"
    BY <1>9, StateAt DEF Respond
  <2>2. CASE Proceed(j, "done")
    <3>1. pc'[j] = "done" /\ failureReason' = failureReason
      BY <2>2, GoesOn DEF Proceed
    <3>2. failureReason[j] = None
      BY <2>1 DEF NotYet
    <3> QED
      BY <2>1, <3>1, <3>2, StateAfter, StateNames, SeenIs
  <2>3. ASSUME NEW reason \in {"respond_timeout", "respond_mismatch"}, Fail(j, reason)
        PROVE  Seen(j)
    <3>1. reason \in Lifecycle!ReasonsIn["confirmed"]
      BY StateNames
    <3> QED
      BY <1>1, <2>1, <2>3, <3>1
  <2> QED
    BY <1>9, <2>2, <2>3 DEF Respond
<1> QED
  BY <1>2, <1>3, <1>4, <1>5, <1>6, <1>7, <1>8, <1>9

\* The steps a job shares with the viewers.
LEMMA SharedStepSeen ==
    ASSUME SignInv, NEW j \in Jobs, Arrive(j) \/ Answer(j) \/ AnswerLatest(j) \/ ActorStep(j)
    PROVE  Seen(j)
<1>1. CASE Arrive(j)
  <2>1. pc[j] = "idle" /\ Goto(j, "derive") /\ failureReason' = failureReason
    BY <1>1 DEF Arrive, Proceed
  <2>2. JobState(j) = "none" /\ pc'[j] = "derive"
    BY <2>1, StateAt, GoesOn
  <2> QED
    BY <2>1, <2>2, StateAfter, StateNames, SeenIs DEF Waits
<1>2. CASE Answer(j) \/ AnswerLatest(j) \/ ApplyCounts(j) \/ ApplyBalance(j)
  <2>1. pc' = pc /\ failureReason' = failureReason
    BY <1>2 DEF Answer, AnswerLatest, ApplyCounts, ApplyBalance, LoopOnly
  <2> QED
    BY <2>1, SeenIs DEF JobState
<1>3. CASE Derived(j) \/ ReconcileDone(j)
  <2>1. /\ pc[j] \in {"derive", "reconcile"} /\ failureReason' = failureReason
        /\ Goto(j, "reconcile") \/ Goto(j, "refresh")
    BY <1>3 DEF Derived, ReconcileDone, Proceed
  <2> QED
    BY <2>1, GoesOn DEF Waits
<1>4. CASE BalancesDone(j)
  BY <1>4, SignAssumption DEF BalancesDone
<1>5. CASE CallThrows(j)
  <2>1. pc[j] \in Waits /\ Fail(j, "internal_error")
    BY <1>5 DEF CallThrows, Waits
  <2>2. JobState(j) = "pending" /\ "internal_error" \in FailureReasons
    BY <2>1, StateAt DEF FailureReasons
  <2> QED
    BY <2>1, <2>2, StateNames, FailSeen
<1> QED
  BY <1>1, <1>2, <1>3, <1>4, <1>5 DEF ActorStep

LEMMA EnvironmentSeen == ASSUME SignInv, NEW j \in Jobs, Environment PROVE Seen(j)
<1>1. CASE \/ DeriveSucceeds \/ FundsChange \/ \E k \in Jobs : NodeAccepts(k) \/ Mine(k) \/ Vanish(k)
  <2>1. pc' = pc /\ failureReason' = failureReason
    BY <1>1 DEF DeriveSucceeds, FundsChange, NodeAccepts, Mine, Vanish, NodeOnly
  <2> QED
    BY <2>1, SeenIs DEF JobState
<1>2. ASSUME NEW wait \in {"derive", "lease"},
             pc' = [a \in Actors |-> IF pc[a] = wait THEN "done" ELSE pc[a]],
             failureReason' =
                [k \in Jobs |-> IF pc[k] = wait THEN "internal_error" ELSE failureReason[k]]
      PROVE  Seen(j)
  <2>1. CASE pc[j] = wait
    <3>1. pc'[j] = "done" /\ failureReason'[j] = "internal_error"
      BY <1>2, <2>1, PhaseFacts
    <3>2. JobState(j) = "pending" /\ "internal_error" # None
      BY <1>2, <2>1, StateAt, PhaseFacts DEF Waits, FailureReasons
    <3> QED
      BY <3>1, <3>2, StateAfter, StateNames, SeenIs
  <2>2. CASE pc[j] # wait
    <3>1. pc'[j] = pc[j] /\ failureReason'[j] = failureReason[j]
      BY <1>2, <2>2, PhaseFacts
    <3> QED
      BY <3>1, SeenIs DEF JobState
  <2> QED
    BY <2>1, <2>2
<1>3. CASE DeriveFails \/ Shutdown
  BY <1>2, <1>3 DEF DeriveFails, Shutdown
<1> QED
  BY <1>1, <1>3 DEF Environment

LEMMA StepSeen ==
    ASSUME SignInv, [Next]_vars, NEW j \in Jobs, NotYet(j)
    PROVE  Seen(j) /\ NotYet(j)'
<1>1. ASSUME NEW k \in Jobs, JobStep(k) PROVE Seen(j)
  <2>1. CASE k = j
    BY <1>1, <2>1, WaitingStepSeen, TripStepSeen DEF JobStep
  <2>2. CASE k # j
    <3>1. \E phase : Goto(k, phase)
      BY <1>1 DEF JobStep, TakeLease, LeaseTimeout, Preflight, Build, SignSent, Signed,
         NotSigned, BroadcastAnswered, BroadcastThrows, Confirmed, Reverted, ReceiptTimeout,
         Respond, Underfunded, ShuttingDown, FailAndRelease, FailAndQuarantine, Fail, Proceed
    <3>2. failureReason' = failureReason \/ \E reason : failureReason' = [failureReason EXCEPT ![k] = reason]
      BY <1>1 DEF JobStep, TakeLease, LeaseTimeout, Preflight, Build, SignSent, Signed,
         NotSigned, BroadcastAnswered, BroadcastThrows, Confirmed, Reverted, ReceiptTimeout,
         Respond, Underfunded, ShuttingDown, FailAndRelease, FailAndQuarantine, Fail, Proceed
    <3>3. failureReason'[j] = failureReason[j] /\ k \in Actors
      BY <2>2, <3>2, PhaseFacts
    <3> QED
      BY <2>2, <3>1, <3>3, OthersSeen
  <2> QED
    BY <2>1, <2>2
<1>2. ASSUME NEW a \in Actors, Arrive(a) \/ Answer(a) \/ AnswerLatest(a) \/ ActorStep(a)
      PROVE  Seen(j)
  <2>1. CASE a = j
    BY <1>2, <2>1, SharedStepSeen
  <2>2. CASE a # j
    <3>1. /\ pc' = pc \/ \E phase : Goto(a, phase)
          /\ \/ failureReason' = failureReason
             \/ \E reason : failureReason' = [failureReason EXCEPT ![a] = reason]
      BY <1>2 DEF Arrive, Answer, AnswerLatest, ActorStep, Derived, ApplyCounts,
         ReconcileDone, ApplyBalance, BalancesDone, CallThrows, Proceed, Fail, LoopOnly
    <3>2. failureReason'[j] = failureReason[j]
      BY <2>2, <3>1, PhaseFacts
    <3>3. CASE pc' = pc
      BY <3>2, <3>3, SeenIs DEF JobState
    <3>4. CASE \E phase : Goto(a, phase)
      BY <2>2, <3>2, <3>4, OthersSeen
    <3> QED
      BY <3>1, <3>3, <3>4
  <2> QED
    BY <2>1, <2>2
<1>3. ASSUME Terminating \/ UNCHANGED vars PROVE Seen(j)
  <2>1. pc' = pc /\ failureReason' = failureReason
    BY <1>3 DEF Terminating, vars, signVars
  <2>2. JobState(j)' = JobState(j) /\ failureReason'[j] = failureReason[j]
    BY <2>1 DEF JobState
  <2> QED
    BY <2>1, <2>2, SeenIs
<1>4. Seen(j)
  BY <1>1, <1>2, <1>3, EnvironmentSeen DEF Next
<1>5. NotYet(j)'
  <2> SUFFICES ASSUME pc'[j] # "done" PROVE failureReason'[j] = None
    BY DEF NotYet
  <2>1. JobState(j)' \notin {"responded", "failed"}
    BY StateAfter
  <2>2. failureReason'[j] = failureReason[j]
    BY <1>4, <2>1, SeenIs
  <2>3. JobState(j) \notin {"responded", "failed"}
    <3>1. JobState(j)' = JobState(j) \/ JobState(j) \in DOMAIN Lifecycle!NextState
      BY <1>4, <2>1, SeenIs
    <3>2. "responded" \notin DOMAIN Lifecycle!NextState /\ "failed" \notin DOMAIN Lifecycle!NextState
      BY StateNames
    <3> QED
      BY <2>1, <3>1, <3>2
  <2>4. pc[j] # "done"
    BY <2>3, StateAt
  <2> QED
    BY <2>2, <2>4 DEF NotYet
<1> QED
  BY <1>4, <1>5

-----------------------------------------------------------------------------
(***************************************************************************)
(* Records, and what is left on the chain.                                 *)
(***************************************************************************)
Outstanding(j) == fate[j] \in {"sent", "pending"}
Unexplained(j) == pc[j] = "done" /\ failureReason[j] = None /\ Outstanding(j)

LEMMA FateStep ==
    ASSUME SignInv, [Next]_vars, NEW j \in Jobs, Outstanding(j)'
    PROVE  Outstanding(j) \/ pc[j] = "signature"
<1>1. fate \in [Jobs -> {"none", "sent", "pending", "mined", "reverted", "gone"}]
  BY DEF SignInv, TypeOK
<1>2. CASE fate' = fate
  BY <1>2 DEF Outstanding
<1>3. ASSUME NEW k \in Jobs, NodeAccepts(k) \/ Mine(k) \/ Vanish(k) PROVE Outstanding(j)
  BY <1>1, <1>3 DEF NodeAccepts, Mine, Vanish, Outstanding
<1>4. ASSUME NEW k \in Jobs, JobStep(k) PROVE Outstanding(j) \/ pc[j] = "signature"
  <2>1. CASE Signed(k)
    BY <1>1, <2>1 DEF Signed, Outstanding
  <2>2. CASE ~Signed(k)
    <3>1. fate' = fate
      BY <1>4, <2>2 DEF JobStep, TakeLease, LeaseTimeout, Preflight, Build, SignSent,
         NotSigned, BroadcastAnswered, BroadcastThrows, Confirmed, Reverted, ReceiptTimeout,
         Respond, LeaseOnly, BuildOnly, chainVars
    <3> QED
      BY <1>2, <3>1
  <2> QED
    BY <2>1, <2>2
<1>5. ASSUME NEW a \in Actors, Arrive(a) \/ Answer(a) \/ AnswerLatest(a) \/ ActorStep(a)
      PROVE  fate' = fate
  BY <1>5 DEF Arrive, Answer, AnswerLatest, ActorStep, Derived, ApplyCounts, ReconcileDone,
     ApplyBalance, BalancesDone, CallThrows, LoopOnly, chainVars
<1>6. CASE DeriveSucceeds \/ DeriveFails \/ Shutdown \/ FundsChange
  BY <1>2, <1>6 DEF DeriveSucceeds, DeriveFails, Shutdown, FundsChange, chainVars
<1>7. CASE Terminating \/ UNCHANGED vars
  BY <1>2, <1>7 DEF Terminating, vars, signVars, chainVars
<1> QED
  BY <1>2, <1>3, <1>4, <1>5, <1>6, <1>7 DEF Next, Environment

\* Only a lost job is over without a reason and without having responded.
LEMMA StepExplains ==
    ASSUME SignInv, [Next]_vars, NEW j \in Jobs, NotYet(j), Unexplained(j)'
    PROVE  Unexplained(j)
<1>1. JobState(j)' = "responded" /\ failureReason'[j] = None /\ Outstanding(j)'
  BY StateAfter DEF Unexplained
<1>2. Seen(j)
  BY StepSeen
<1>3. JobState(j) = "responded" \/ JobState(j) = "confirmed"
  BY <1>1, <1>2, StateNames, SeenIs
<1>4. /\ pc \in [Actors -> Phases] /\ j \in Actors /\ JobOK(j)
      /\ Phases = Waits \cup {"idle", "signature", "broadcast", "receipt", "respond", "done"}
  BY PhaseFacts, JobFacts DEF Phases, Holding, Waits
<1>5. CASE JobState(j) = "confirmed"
  <2>1. pc[j] = "respond"
    BY <1>4, <1>5, StateAt
  <2> QED
    BY <1>1, <1>4, <2>1, FateStep DEF JobOK, Outstanding
<1>6. CASE JobState(j) = "responded"
  <2>1. pc[j] = "done" /\ failureReason[j] = None
    BY <1>6, StateAt
  <2> QED
    BY <1>1, <2>1, FateStep DEF Unexplained
<1> QED
  BY <1>3, <1>5, <1>6

RecordInv ==
    /\ SignInv
    /\ \A j \in Jobs : NotYet(j) /\ ~Unexplained(j)

LEMMA RecordInit == Init => RecordInv
<1>1. ASSUME Init, NEW j \in Jobs PROVE NotYet(j) /\ ~Unexplained(j)
  BY <1>1 DEF Init, NotYet, Unexplained, Outstanding
<1> QED
  BY <1>1, InitInv DEF RecordInv

THEOREM RecordsSafe == Spec => []RecordInv
<1>1. RecordInv /\ [Next]_vars => RecordInv'
  BY SignStepInv, StepSeen, StepExplains DEF RecordInv
<1> QED
  BY <1>1, RecordInit, PTL DEF Spec

\* A job that ended with its transaction unsettled says so in its failure
\* (signBidirectional.ts:430-465).
THEOREM OrphansAreReported == Spec => []NoOrphanTransaction
<1>1. RecordInv => NoOrphanTransaction
  BY DEF RecordInv, SignInv, JobOK, Unexplained, Outstanding, NoOrphanTransaction
<1> QED
  BY <1>1, RecordsSafe, PTL

\* However the jobs interleave, throw, time out or are shut down, the record of
\* each goes through the states of store.ts:5-13 in order and fails once, for a
\* reason of the state it failed in.
THEOREM ServiceKeepsTheLifecycle == Spec => LifecycleSpec
<1>1. Init => Lifecycle!Init
  <2> SUFFICES ASSUME Init PROVE Lifecycle!Init
    OBVIOUS
  <2>1. \A j \in Jobs : JobState(j) = "none"
    BY StateAt DEF Init, Actors
  <2> QED
    BY <2>1 DEF Init, Lifecycle!Init
<1>2. RecordInv /\ [Next]_vars => Lifecycle!Next
  <2> SUFFICES ASSUME RecordInv, [Next]_vars PROVE Lifecycle!Next
    OBVIOUS
  <2>1. TypeOK' /\ \A j \in Jobs : Seen(j)
    BY SignStepInv, StepSeen DEF RecordInv, SignInv
  <2>2. [j \in Jobs |-> JobState(j)]' \in [Jobs -> Lifecycle!States]
    <3>1. ASSUME NEW j \in Jobs PROVE JobState(j)' \in Lifecycle!States
      <4>1. pc'[j] \in Waits \cup {"idle", "signature", "broadcast", "receipt", "respond", "done"}
        BY <2>1 DEF TypeOK, Phases, Holding, Waits, Actors
      <4> QED
        BY <4>1, StateAfter, StateNames
    <3> QED
      BY <3>1
  <2>3. failureReason' \in [Jobs -> Lifecycle!Reasons \cup {None}]
    BY <2>1, StateNames DEF TypeOK
  <2> QED
    BY <2>1, <2>2, <2>3 DEF Lifecycle!Next, Seen
<1>3. RecordInv /\ [Next]_vars => [Lifecycle!Next]_Lifecycle!lifecycleVars
  BY <1>2
<1> QED
  BY <1>1, <1>3, RecordsSafe, PTL DEF Spec, LifecycleSpec, Lifecycle!Spec

-----------------------------------------------------------------------------
(***************************************************************************)
(* Restarts.                                                               *)
(***************************************************************************)
RestartInv ==
    /\ SignInv
    /\ lost \subseteq Jobs
    /\ \A j \in Jobs : NotYet(j) /\ (Unexplained(j) => j \in lost)

\* Whose transaction is outstanding holds its address, or it is quarantined, or
\* was returned.
LEMMA UnsettledAddress ==
    ASSUME SignInv, NEW j \in Jobs, Outstanding(j)
    PROVE  /\ built[j].from \in Workers
           /\ built[j].from \in busy \cup quarantined \cup exposed
<1>1. /\ JobOK(j) /\ ExclusiveLease
      /\ lease \in [Clients -> Workers \cup {None}]
      /\ quarantined \subseteq Workers /\ exposed \subseteq Workers
  BY JobFacts DEF SignInv, PoolInv, PoolTypeOK, TypeOK
<1>2. CASE pc[j] \in {"broadcast", "receipt"}
  <2>1. lease[j] # None /\ built[j].from = lease[j]
    BY <1>1, <1>2 DEF JobOK, Holding
  <2>2. lease[j] \in Range(lease)
    BY <1>1 DEF Range, Jobs
  <2> QED
    BY <1>1, <2>1, <2>2 DEF ExclusiveLease, Jobs
<1>3. CASE pc[j] \notin {"broadcast", "receipt"}
  BY <1>1, <1>3 DEF JobOK, Outstanding
<1> QED
  BY <1>2, <1>3

LEMMA RestartKeeps == ASSUME RestartInv, Restart PROVE RestartInv'
<1>1. PoolInv'
  <2>1. PoolInit'
    BY DEF Restart, PoolInit
  <2> QED
    BY <2>1, PoolInitInv, PTL
<1>2. /\ pc' = [a \in Actors |-> IF pc[a] = "idle" THEN "idle" ELSE "done"]
      /\ answer' = [a \in Actors |-> None] /\ latestCount' = [a \in Actors |-> None]
      /\ todo' = [a \in Actors |-> {}] /\ lease' = [c \in Clients |-> None]
      /\ waiters' = <<>> /\ aborted' = {} /\ addressesReady' = "unset"
      /\ exposed' = exposed \cup Unsettled /\ lost' = lost \cup Live
      /\ UNCHANGED <<failureReason, built, fate, latest, funds>>
  BY DEF Restart, chainVars
<1>3. TypeOK'
  <2>1. PoolTypeOK'
    BY <1>1 DEF PoolInv
  <2>2. pc' \in [Actors -> Phases]
    BY <1>2 DEF Phases
  <2>3. exposed' \subseteq Workers
    BY <1>2 DEF RestartInv, SignInv, TypeOK, Unsettled
  <2> QED
    BY <1>2, <2>1, <2>2, <2>3 DEF RestartInv, SignInv, TypeOK
<1>4. ASSUME NEW a \in Actors PROVE HeardOK(a)'
  BY <1>2 DEF HeardOK
<1>5. ASSUME NEW j \in Jobs PROVE JobOK(j)' /\ NotYet(j)' /\ (Unexplained(j)' => j \in lost')
  <2>1. /\ JobOK(j) /\ NotYet(j) /\ (Unexplained(j) => j \in lost) /\ j \in Actors /\ j \in Clients
        /\ failureReason[j] \in FailureReasons \cup {None}
    BY JobFacts DEF RestartInv, SignInv, TypeOK, Actors, Jobs
  <2>2. pc'[j] = (IF pc[j] = "idle" THEN "idle" ELSE "done") /\ lease'[j] = None
    BY <1>2, <2>1
  <2>3. ~Parked(j)'
    BY <1>2 DEF Parked, ToSet
  <2>4. Outstanding(j) => /\ pc'[j] = "done"
                          /\ failureReason[j] \in {"broadcast_failed", "confirmation_timeout", None}
                          /\ built[j].from \in exposed'
    <3> SUFFICES ASSUME Outstanding(j)
                 PROVE  /\ pc'[j] = "done"
                        /\ failureReason[j] \in {"broadcast_failed", "confirmation_timeout", None}
                        /\ built[j].from \in exposed'
      OBVIOUS
    <3>1. pc[j] # "idle"
      BY <2>1 DEF JobOK, Outstanding
    <3>2. built[j].from \in Unsettled
      BY UnsettledAddress DEF Unsettled, From, Outstanding, RestartInv
    <3> QED
      BY <1>2, <2>1, <2>2, <3>1, <3>2 DEF JobOK, NotYet, Outstanding
  <2>5. JobOK(j)'
    <3>1. fate'[j] = fate[j] /\ built'[j] = built[j] /\ failureReason'[j] = failureReason[j]
      BY <1>2
    <3>2. fate[j] # "none" => pc'[j] = "done"
      BY <2>1, <2>2 DEF JobOK
    <3> QED
      BY <1>2, <2>2, <2>3, <2>4, <3>1, <3>2 DEF JobOK, Holding, Outstanding
  <2>6. NotYet(j)'
    BY <1>2, <2>1, <2>2 DEF NotYet
  <2>7. Unexplained(j)' => j \in lost'
    <3> SUFFICES ASSUME Unexplained(j)' PROVE j \in lost'
      OBVIOUS
    <3>1. Outstanding(j) /\ failureReason[j] = None
      BY <1>2 DEF Unexplained, Outstanding
    <3>2. pc[j] # "idle"
      BY <2>1, <3>1 DEF JobOK, Outstanding
    <3> QED
      BY <1>2, <2>1, <3>1, <3>2 DEF Unexplained, Live
  <2> QED
    BY <2>5, <2>6, <2>7
<1>6. lost' \subseteq Jobs
  BY <1>2 DEF RestartInv, Live
<1> QED
  BY <1>1, <1>3, <1>4, <1>5, <1>6 DEF RestartInv, SignInv

\* The inductive invariant holds across restarts.
THEOREM RestartSafe == RSpec => []RestartInv
<1>1. RInit => RestartInv
  BY RecordInit DEF RInit, RestartInv, RecordInv
<1>2. RestartInv /\ [RNext]_restartVars => RestartInv'
  <2> SUFFICES ASSUME RestartInv, [RNext]_restartVars PROVE RestartInv'
    OBVIOUS
  <2>1. CASE Restart
    BY <2>1, RestartKeeps
  <2>2. CASE ~Restart
    <3>1. [Next]_vars /\ lost' = lost
      BY <2>2 DEF RNext, restartVars
    <3> QED
      BY <3>1, SignStepInv, StepSeen, StepExplains DEF RestartInv
  <2> QED
    BY <2>1, <2>2
<1> QED
  BY <1>1, <1>2, PTL DEF RSpec

\* A restart orphans no transaction but those of the jobs it ends
\* (README.md:271-274): whatever else is left on the chain was reported.
THEOREM RestartsExplainOrphans == RSpec => []OrphansAreExplained
<1>1. RestartInv => OrphansAreExplained
  BY DEF RestartInv, SignInv, JobOK, Unexplained, Outstanding, OrphansAreExplained
<1> QED
  BY <1>1, RestartSafe, PTL

\* With restarts, too, a nonce is signed twice only from an address that went back
\* into service unsettled: by a stale answer or by the restart (workerPool.ts:9-15).
THEOREM NonceSignedOnceAcrossRestarts == RSpec => []NonceSafeUnlessExposed
<1>1. RestartInv => NonceSafeUnlessExposed
  BY SignInvSignsOnce DEF RestartInv
<1> QED
  BY <1>1, RestartSafe, PTL

\* ... and every other address with an unsettled transaction stays withheld.
THEOREM OutstandingWithheldAcrossRestarts == RSpec => []OutstandingIsWithheld
<1>1. RestartInv => OutstandingIsWithheld
  BY SignInvWithholds DEF RestartInv
<1> QED
  BY <1>1, RestartSafe, PTL

\* What a restart puts at risk was leased or quarantined at that moment
\* (workerPool.ts:9-15), and would have been safe had it been kept.
THEOREM RestartForgets == RSpec => RestartForgetsOnlyWithheld
<1>1. ASSUME RestartInv, Restart PROVE exposed' \ exposed \subseteq busy \cup quarantined
  <2> SUFFICES ASSUME NEW w \in Unsettled PROVE w \in busy \cup quarantined \cup exposed
    BY <1>1 DEF Restart
  <2>1. PICK j \in Jobs : built[j].from = w /\ Outstanding(j)
    BY DEF Unsettled, From, Outstanding
  <2> QED
    BY <1>1, <2>1, UnsettledAddress DEF RestartInv
<1>2. RestartInv /\ [RNext]_restartVars =>
        [restarts' # restarts => exposed' \ exposed \subseteq busy \cup quarantined]_restartVars
  BY <1>1 DEF RNext
<1> QED
  BY <1>2, RestartSafe, PTL DEF RSpec, RestartForgetsOnlyWithheld
=============================================================================
