--------------------------- MODULE RoundTripProofs ---------------------------
(***************************************************************************)
(* Proofs about the clocks of a job, for any number of jobs and any        *)
(* budgets.                                                                *)
(***************************************************************************)
EXTENDS RoundTrip, FiniteSetTheorems, TLAPS

(***************************************************************************)
(* The inductive invariant, job by job.                                    *)
(***************************************************************************)

\* The stamps are set in order, and each within the budget of its stage.
StampsInOrder(j) ==
    LET t == timings[j] IN
    /\ t.signatureAt # None =>
        /\ t.signSentAt # None
        /\ t.signatureAt <= t.signSentAt + SignatureTimeout /\ t.signatureAt <= now
    /\ t.broadcastAt # None =>
        t.signatureAt # None /\ t.signatureAt <= t.broadcastAt /\ t.broadcastAt <= now
    /\ t.confirmedAt # None =>
        /\ t.broadcastAt # None
        /\ t.confirmedAt <= t.broadcastAt + EthConfirmTimeout /\ t.confirmedAt <= now
    /\ t.respondedAt # None =>
        t.confirmedAt # None /\ t.respondedAt <= t.confirmedAt + RespondTimeout

\* What is set in each state, and that a wait is not over its time.
StampsOfState(j) ==
    LET t == timings[j] IN
    /\ state[j] \in {"none", "pending"} => t.signSentAt = None
    /\ state[j] = "awaiting_signature" =>
        /\ t.signSentAt # None /\ t.broadcastAt = None
        /\ t.signatureAt = None /\ j \notin aborted => now <= t.signSentAt + SignatureTimeout
    /\ state[j] = "verified" => t.signatureAt # None /\ t.broadcastAt = None
    /\ state[j] = "broadcast" =>
        /\ t.broadcastAt # None /\ t.confirmedAt = None
        /\ now <= t.broadcastAt + EthConfirmTimeout
    /\ state[j] = "confirmed" =>
        /\ t.confirmedAt # None /\ t.respondedAt = None
        /\ now <= t.confirmedAt + RespondTimeout

\* A watcher is there from the request to the end of the job, and one that was
\* rejected without a shutdown had its own budget or the deadline's.
WatcherOfState(j) ==
    LET t == timings[j] IN
    /\ watcher[j] # "off" <=>
        state[j] \in {"awaiting_signature", "verified", "broadcast", "confirmed"}
    /\ watcher[j] = "rejected" /\ j \notin aborted =>
        \/ now >= t.signSentAt + Span
        \/ state[j] = "confirmed" /\ now >= t.confirmedAt + RespondTimeout

FailureOf(j) ==
    LET t == timings[j] IN
    /\ state[j] # "failed" => failureReason[j] = None
    /\ failureReason[j] = "signature_timeout" => t.signatureAt = None
    /\ failureReason[j] \in {"confirmation_timeout", "transaction_reverted"} =>
        t.confirmedAt = None
    /\ failureReason[j] = "respond_timeout" =>
        /\ t.respondedAt = None
        /\ j \notin aborted =>
            (t.finishedAt - t.confirmedAt) + (t.broadcastAt - t.signatureAt) >= RespondTimeout

JobOK(j) == StampsInOrder(j) /\ StampsOfState(j) /\ WatcherOfState(j) /\ FailureOf(j)

RoundTripInv == TypeOK /\ \A j \in Jobs : JobOK(j)

LEMMA Names ==
    /\ Lifecycle!States = {"none", "pending", "awaiting_signature", "verified", "broadcast",
                           "confirmed", "responded", "failed"}
    /\ Lifecycle!Reasons = {"all_workers_busy", "all_workers_underfunded",
            "preflight_underfunded", "shutdown", "internal_error", "signature_timeout",
            "derivation_mismatch", "broadcast_failed", "confirmation_timeout",
            "transaction_reverted", "respond_timeout", "respond_mismatch"}
    /\ DOMAIN Lifecycle!NextState =
        {"none", "pending", "awaiting_signature", "verified", "broadcast", "confirmed"}
    /\ DOMAIN Lifecycle!ReasonsIn =
        {"pending", "awaiting_signature", "verified", "broadcast", "confirmed"}
    /\ Lifecycle!ReasonsIn["pending"] = {"all_workers_busy", "all_workers_underfunded",
            "preflight_underfunded", "shutdown", "internal_error"}
    /\ Lifecycle!ReasonsIn["awaiting_signature"] =
            {"signature_timeout", "derivation_mismatch", "internal_error"}
    /\ Lifecycle!ReasonsIn["verified"] = {"broadcast_failed"}
    /\ Lifecycle!ReasonsIn["broadcast"] = {"confirmation_timeout", "transaction_reverted"}
    /\ Lifecycle!ReasonsIn["confirmed"] = {"respond_timeout", "respond_mismatch"}
    /\ Lifecycle!NextState["none"] = "pending"
    /\ Lifecycle!NextState["pending"] = "awaiting_signature"
    /\ Lifecycle!NextState["awaiting_signature"] = "verified"
    /\ Lifecycle!NextState["verified"] = "broadcast"
    /\ Lifecycle!NextState["broadcast"] = "confirmed"
    /\ Lifecycle!NextState["confirmed"] = "responded"
<1>1. DOMAIN Lifecycle!NextState =
        {"none", "pending", "awaiting_signature", "verified", "broadcast", "confirmed"}
  BY DEF Lifecycle!NextState
<1>2. DOMAIN Lifecycle!ReasonsIn =
        {"pending", "awaiting_signature", "verified", "broadcast", "confirmed"}
  BY DEF Lifecycle!ReasonsIn
<1>3. Lifecycle!Reasons =
        Lifecycle!ReasonsIn["pending"] \cup Lifecycle!ReasonsIn["awaiting_signature"]
        \cup Lifecycle!ReasonsIn["verified"] \cup Lifecycle!ReasonsIn["broadcast"]
        \cup Lifecycle!ReasonsIn["confirmed"]
  BY <1>2 DEF Lifecycle!Reasons
<1>4. /\ Lifecycle!ReasonsIn["pending"] = {"all_workers_busy", "all_workers_underfunded",
            "preflight_underfunded", "shutdown", "internal_error"}
      /\ Lifecycle!ReasonsIn["awaiting_signature"] =
            {"signature_timeout", "derivation_mismatch", "internal_error"}
      /\ Lifecycle!ReasonsIn["verified"] = {"broadcast_failed"}
      /\ Lifecycle!ReasonsIn["broadcast"] = {"confirmation_timeout", "transaction_reverted"}
      /\ Lifecycle!ReasonsIn["confirmed"] = {"respond_timeout", "respond_mismatch"}
  BY DEF Lifecycle!ReasonsIn
<1>5. /\ Lifecycle!NextState["none"] = "pending"
      /\ Lifecycle!NextState["pending"] = "awaiting_signature"
      /\ Lifecycle!NextState["awaiting_signature"] = "verified"
      /\ Lifecycle!NextState["verified"] = "broadcast"
      /\ Lifecycle!NextState["broadcast"] = "confirmed"
      /\ Lifecycle!NextState["confirmed"] = "responded"
  BY DEF Lifecycle!NextState
<1> QED
  BY <1>1, <1>2, <1>3, <1>4, <1>5 DEF Lifecycle!States

LEMMA Budgets ==
    /\ SignatureTimeout \in Nat /\ EthConfirmTimeout \in Nat /\ RespondTimeout \in Nat
    /\ Span = SignatureTimeout + EthConfirmTimeout + RespondTimeout
    /\ None \notin Nat /\ None \notin Lifecycle!Reasons
  BY BudgetAssumption, NoneAssumption DEF Span

NoReason ==
    /\ None # "signature_timeout" /\ None # "respond_timeout"
    /\ None # "confirmation_timeout" /\ None # "transaction_reverted"

LEMMA NoneIsNoReason == NoReason
  BY Budgets, Names DEF NoReason

LEMMA InitInv == Init => RoundTripInv
<1> SUFFICES ASSUME Init PROVE RoundTripInv
  OBVIOUS
<1>1. TypeOK
  BY Names DEF Init, TypeOK
<1>2. ASSUME NEW j \in Jobs PROVE JobOK(j)
  <2>1. /\ state[j] = "none" /\ failureReason[j] = None /\ watcher[j] = "off"
        /\ timings[j].signSentAt = None /\ timings[j].signatureAt = None
        /\ timings[j].broadcastAt = None /\ timings[j].confirmedAt = None
        /\ timings[j].respondedAt = None
    BY DEF Init, Stamps
  <2>2. None \notin Lifecycle!Reasons
    BY Budgets
  <2> QED
    BY <2>1, <2>2, Names
    DEF JobOK, StampsInOrder, StampsOfState, WatcherOfState, FailureOf
<1> QED
  BY <1>1, <1>2 DEF RoundTripInv

-----------------------------------------------------------------------------
(***************************************************************************)
(* What a step of one job leaves alone.                                    *)
(***************************************************************************)
LEMMA Typed ==
    ASSUME RoundTripInv, NEW j \in Jobs
    PROVE  /\ now \in Nat
           /\ timings[j] \in [Stamps -> Nat \cup {None}]
           /\ timings[j].signSentAt \in Nat \cup {None}
           /\ timings[j].signatureAt \in Nat \cup {None}
           /\ timings[j].broadcastAt \in Nat \cup {None}
           /\ timings[j].confirmedAt \in Nat \cup {None}
           /\ timings[j].respondedAt \in Nat \cup {None}
           /\ timings[j].finishedAt \in Nat \cup {None}
  BY DEF RoundTripInv, TypeOK, Stamps

\* Only job j moves, and every variable keeps its type.
Moves(j) ==
    /\ now' = now /\ aborted' = aborted /\ TypeOK'
    /\ \A q \in Jobs \ {j} :
        /\ state'[q] = state[q] /\ failureReason'[q] = failureReason[q]
        /\ timings'[q] = timings[q] /\ watcher'[q] = watcher[q]

LEMMA MoveInv ==
    ASSUME RoundTripInv, NEW j \in Jobs, Moves(j), JobOK(j)'
    PROVE  RoundTripInv'
<1>1. ASSUME NEW q \in Jobs, q # j PROVE JobOK(q)'
  <2>1. JobOK(q) /\ Moves(j)
    BY DEF RoundTripInv
  <2>2. StampsInOrder(q)'
    BY <1>1, <2>1 DEF JobOK, Moves, StampsInOrder
  <2>3. StampsOfState(q)'
    BY <1>1, <2>1 DEF JobOK, Moves, StampsOfState
  <2>4. WatcherOfState(q)'
    BY <1>1, <2>1 DEF JobOK, Moves, WatcherOfState
  <2>5. FailureOf(q)'
    BY <1>1, <2>1 DEF JobOK, Moves, FailureOf
  <2> QED
    BY <2>2, <2>3, <2>4, <2>5 DEF JobOK
<1> QED
  BY <1>1 DEF RoundTripInv, Moves

LEMMA Updated ==
    ASSUME RoundTripInv, NEW j \in Jobs, NEW next \in Lifecycle!States,
           NEW stamps \in SUBSET Stamps, Update(j, next, stamps)
    PROVE  /\ state' \in [Jobs -> Lifecycle!States]
           /\ timings' \in [Jobs -> [Stamps -> Nat \cup {None}]]
           /\ \A q \in Jobs \ {j} : state'[q] = state[q] /\ timings'[q] = timings[q]
           /\ state'[j] = next
           /\ timings'[j].acceptedAt =
                IF "acceptedAt" \in stamps THEN now ELSE timings[j].acceptedAt
           /\ timings'[j].signSentAt =
                IF "signSentAt" \in stamps THEN now ELSE timings[j].signSentAt
           /\ timings'[j].signatureAt =
                IF "signatureAt" \in stamps THEN now ELSE timings[j].signatureAt
           /\ timings'[j].broadcastAt =
                IF "broadcastAt" \in stamps THEN now ELSE timings[j].broadcastAt
           /\ timings'[j].confirmedAt =
                IF "confirmedAt" \in stamps THEN now ELSE timings[j].confirmedAt
           /\ timings'[j].respondedAt =
                IF "respondedAt" \in stamps THEN now ELSE timings[j].respondedAt
           /\ timings'[j].finishedAt =
                IF "finishedAt" \in stamps THEN now ELSE timings[j].finishedAt
<1> DEFINE new == [s \in Stamps |-> IF s \in stamps THEN now ELSE timings[j][s]]
<1>1. /\ state \in [Jobs -> Lifecycle!States]
      /\ timings \in [Jobs -> [Stamps -> Nat \cup {None}]] /\ now \in Nat
  BY DEF RoundTripInv, TypeOK
<1>2. state' = [state EXCEPT ![j] = next] /\ timings' = [timings EXCEPT ![j] = new]
  BY DEF Update
<1>3. new \in [Stamps -> Nat \cup {None}]
  BY <1>1
<1>4. /\ new.acceptedAt = IF "acceptedAt" \in stamps THEN now ELSE timings[j].acceptedAt
      /\ new.signSentAt = IF "signSentAt" \in stamps THEN now ELSE timings[j].signSentAt
      /\ new.signatureAt = IF "signatureAt" \in stamps THEN now ELSE timings[j].signatureAt
      /\ new.broadcastAt = IF "broadcastAt" \in stamps THEN now ELSE timings[j].broadcastAt
      /\ new.confirmedAt = IF "confirmedAt" \in stamps THEN now ELSE timings[j].confirmedAt
      /\ new.respondedAt = IF "respondedAt" \in stamps THEN now ELSE timings[j].respondedAt
      /\ new.finishedAt = IF "finishedAt" \in stamps THEN now ELSE timings[j].finishedAt
  BY DEF Stamps
<1> HIDE DEF new
<1>5. timings'[j] = new
  BY <1>1, <1>2
<1> QED
  BY <1>1, <1>2, <1>3, <1>4, <1>5

LEMMA AdvanceMoves ==
    ASSUME RoundTripInv, NEW j \in Jobs, NEW next \in Lifecycle!States,
           NEW stamps \in SUBSET Stamps, Advance(j, next, stamps)
    PROVE  /\ Moves(j) /\ Update(j, next, stamps)
           /\ failureReason' = failureReason /\ watcher' = watcher
<1>1. /\ Update(j, next, stamps)
      /\ UNCHANGED <<now, failureReason, watcher, aborted>>
  BY DEF Advance
<1>2. TypeOK'
  BY <1>1, Updated DEF RoundTripInv, TypeOK
<1> QED
  BY <1>1, <1>2, Updated DEF Moves

\* A failure: the reason tells how far the job got.
LEMMA FailInv ==
    ASSUME RoundTripInv, NEW j \in Jobs, NEW reason \in Lifecycle!Reasons,
           NEW stamps \in {{}, {"respondedAt"}}, FailWith(j, reason, stamps),
           stamps # {} => state[j] = "confirmed" /\ reason = "respond_mismatch",
           reason = "signature_timeout" => timings[j].signatureAt = None,
           reason \in {"confirmation_timeout", "transaction_reverted"} =>
                timings[j].confirmedAt = None,
           reason = "respond_timeout" =>
                state[j] = "confirmed" /\ watcher[j] = "rejected"
    PROVE  /\ Moves(j) /\ JobOK(j)'
           /\ state'[j] = "failed" /\ failureReason'[j] = reason /\ watcher'[j] = "off"
<1> DEFINE all == stamps \cup {"finishedAt"}
<1>1. /\ Update(j, "failed", all) /\ failureReason' = [failureReason EXCEPT ![j] = reason]
      /\ watcher' = [watcher EXCEPT ![j] = "off"] /\ now' = now /\ aborted' = aborted
  BY DEF FailWith, TearDown
<1>2. "failed" \in Lifecycle!States /\ all \in SUBSET Stamps
  BY Names DEF Stamps
<1>3. /\ state' \in [Jobs -> Lifecycle!States]
      /\ timings' \in [Jobs -> [Stamps -> Nat \cup {None}]]
      /\ \A q \in Jobs \ {j} : state'[q] = state[q] /\ timings'[q] = timings[q]
      /\ state'[j] = "failed"
      /\ timings'[j].signSentAt = timings[j].signSentAt
      /\ timings'[j].signatureAt = timings[j].signatureAt
      /\ timings'[j].broadcastAt = timings[j].broadcastAt
      /\ timings'[j].confirmedAt = timings[j].confirmedAt
      /\ timings'[j].respondedAt = (IF stamps = {} THEN timings[j].respondedAt ELSE now)
      /\ timings'[j].finishedAt = now
  <2> HIDE DEF all
  <2>1. /\ "finishedAt" \in all /\ "signSentAt" \notin all /\ "signatureAt" \notin all
        /\ "broadcastAt" \notin all /\ "confirmedAt" \notin all
        /\ "respondedAt" \in all <=> stamps # {}
    BY DEF all
  <2> QED
    BY <1>1, <1>2, <2>1, Updated
<1>4. /\ failureReason' \in [Jobs -> Lifecycle!Reasons \cup {None}] /\ failureReason'[j] = reason
      /\ watcher' \in [Jobs -> {"off", "listening", "delivered", "rejected"}]
      /\ watcher'[j] = "off"
      /\ \A q \in Jobs \ {j} : failureReason'[q] = failureReason[q] /\ watcher'[q] = watcher[q]
  BY <1>1 DEF RoundTripInv, TypeOK
<1> HIDE DEF all
<1>5. Moves(j)
  BY <1>1, <1>3, <1>4 DEF RoundTripInv, TypeOK, Moves
<1>6. JobOK(j) /\ reason # None
  BY Budgets DEF RoundTripInv
<1>7. StampsInOrder(j)'
  <2>1. stamps # {} => timings[j].confirmedAt # None /\ now <= timings[j].confirmedAt + RespondTimeout
    BY <1>6 DEF JobOK, StampsOfState
  <2> QED
    BY <1>1, <1>3, <1>6, <2>1 DEF JobOK, StampsInOrder
<1>8. StampsOfState(j)' /\ WatcherOfState(j)'
  BY <1>3, <1>4 DEF StampsOfState, WatcherOfState
<1>9. FailureOf(j)'
  <2>1. ASSUME reason = "respond_timeout", j \notin aborted
        PROVE  (now - timings[j].confirmedAt) + (timings[j].broadcastAt - timings[j].signatureAt)
                    >= RespondTimeout
    <3>1. /\ timings[j].confirmedAt \in Nat /\ timings[j].broadcastAt \in Nat
          /\ timings[j].signatureAt \in Nat /\ timings[j].signSentAt \in Nat /\ now \in Nat
      BY <1>6, <2>1, Typed DEF JobOK, StampsOfState, StampsInOrder
    <3>2. /\ timings[j].signatureAt <= timings[j].signSentAt + SignatureTimeout
          /\ timings[j].confirmedAt <= timings[j].broadcastAt + EthConfirmTimeout
          /\ timings[j].signatureAt <= timings[j].broadcastAt
      BY <1>6, <3>1, Budgets DEF JobOK, StampsInOrder
    <3>3. \/ now >= timings[j].signSentAt + Span
          \/ now >= timings[j].confirmedAt + RespondTimeout
      BY <1>6, <2>1 DEF JobOK, WatcherOfState
    <3> QED
      BY <3>1, <3>2, <3>3, Budgets
  <2>2. reason = "respond_timeout" => stamps = {} /\ timings[j].respondedAt = None
    BY <1>6 DEF JobOK, StampsOfState
  <2> QED
    BY <1>1, <1>3, <1>4, <1>6, <2>1, <2>2 DEF FailureOf
<1> QED
  BY <1>3, <1>4, <1>5, <1>7, <1>8, <1>9 DEF JobOK

-----------------------------------------------------------------------------
(***************************************************************************)
(* The steps of a job, and what a client sees of each.                     *)
(***************************************************************************)
Seen(j) == Lifecycle!Stays(j) \/ Lifecycle!Advances(j) \/ Lifecycle!Fails(j)

\* What each step preserves.
Kept(j) == Moves(j) /\ JobOK(j)' /\ Seen(j)

\* A failure for a reason of the state the job is in.
LEMMA FailKept ==
    ASSUME RoundTripInv, NEW j \in Jobs, state[j] \in DOMAIN Lifecycle!ReasonsIn,
           NEW reason \in Lifecycle!ReasonsIn[state[j]],
           Fail(j, reason),
           reason = "signature_timeout" => timings[j].signatureAt = None,
           reason = "respond_timeout" => watcher[j] = "rejected"
    PROVE  Kept(j)
<1>1. /\ reason \in Lifecycle!Reasons
      /\ reason \in {"confirmation_timeout", "transaction_reverted"} => state[j] = "broadcast"
      /\ reason = "respond_timeout" => state[j] = "confirmed"
      /\ reason # "respond_mismatch" \/ state[j] = "confirmed"
  BY Names
<1>2. state[j] = "broadcast" => timings[j].confirmedAt = None
  BY DEF RoundTripInv, JobOK, StampsOfState
<1>3. FailWith(j, reason, {})
  BY DEF Fail
<1>4. /\ Moves(j) /\ JobOK(j)'
      /\ state'[j] = "failed" /\ failureReason'[j] = reason
  BY <1>1, <1>2, <1>3, FailInv
<1> QED
  BY <1>4 DEF Kept, Seen, Lifecycle!Fails

LEMMA AcceptKept == ASSUME RoundTripInv, NEW j \in Jobs, Accept(j) PROVE Kept(j)
<1>1. state[j] = "none" /\ Advance(j, "pending", {"acceptedAt"})
  BY DEF Accept
<1>2. "pending" \in Lifecycle!States /\ {"acceptedAt"} \in SUBSET Stamps
  BY Names DEF Stamps
<1>3. Moves(j) /\ Update(j, "pending", {"acceptedAt"}) /\ UNCHANGED <<failureReason, watcher>>
  BY <1>1, <1>2, AdvanceMoves
<1>4. /\ state'[j] = "pending"
      /\ timings'[j].signSentAt = timings[j].signSentAt
      /\ timings'[j].signatureAt = timings[j].signatureAt
      /\ timings'[j].broadcastAt = timings[j].broadcastAt
      /\ timings'[j].confirmedAt = timings[j].confirmedAt
      /\ timings'[j].respondedAt = timings[j].respondedAt
      /\ timings'[j].finishedAt = timings[j].finishedAt
  BY <1>2, <1>3, Updated
<1>5. JobOK(j) /\ now' = now /\ aborted' = aborted
  BY <1>3 DEF RoundTripInv, Moves
<1>6. JobOK(j)'
  BY <1>1, <1>3, <1>4, <1>5
  DEF JobOK, StampsInOrder, StampsOfState, WatcherOfState, FailureOf
<1>7. Lifecycle!Advances(j)
  BY <1>1, <1>3, <1>4, Names DEF Lifecycle!Advances
<1> QED
  BY <1>3, <1>6, <1>7 DEF Kept, Seen

LEMMA LeasedKept == ASSUME RoundTripInv, NEW j \in Jobs, Leased(j) PROVE Kept(j)
<1>1. state[j] = "pending" /\ Advance(j, "pending", {"leaseAcquiredAt"})
  BY DEF Leased
<1>2. "pending" \in Lifecycle!States /\ {"leaseAcquiredAt"} \in SUBSET Stamps
  BY Names DEF Stamps
<1>3. Moves(j) /\ Update(j, "pending", {"leaseAcquiredAt"}) /\ UNCHANGED <<failureReason, watcher>>
  BY <1>1, <1>2, AdvanceMoves
<1>4. /\ state'[j] = "pending"
      /\ timings'[j].signSentAt = timings[j].signSentAt
      /\ timings'[j].signatureAt = timings[j].signatureAt
      /\ timings'[j].broadcastAt = timings[j].broadcastAt
      /\ timings'[j].confirmedAt = timings[j].confirmedAt
      /\ timings'[j].respondedAt = timings[j].respondedAt
      /\ timings'[j].finishedAt = timings[j].finishedAt
  BY <1>2, <1>3, Updated
<1>5. JobOK(j) /\ now' = now /\ aborted' = aborted
  BY <1>3 DEF RoundTripInv, Moves
<1>6. JobOK(j)'
  BY <1>1, <1>3, <1>4, <1>5
  DEF JobOK, StampsInOrder, StampsOfState, WatcherOfState, FailureOf
<1>7. Lifecycle!Stays(j)
  BY <1>1, <1>3, <1>4 DEF Lifecycle!Stays
<1> QED
  BY <1>3, <1>6, <1>7 DEF Kept, Seen

LEMMA FailsEarlyKept == ASSUME RoundTripInv, NEW j \in Jobs, FailsEarly(j) PROVE Kept(j)
<1>1. state[j] = "pending"
  BY DEF FailsEarly
<1>2. PICK reason \in {"all_workers_busy", "all_workers_underfunded", "preflight_underfunded",
                       "shutdown", "internal_error"} : Fail(j, reason)
  BY DEF FailsEarly
<1>3. /\ state[j] \in DOMAIN Lifecycle!ReasonsIn /\ reason \in Lifecycle!ReasonsIn[state[j]]
      /\ reason \notin {"signature_timeout", "respond_timeout"}
  BY <1>1, Names
<1> QED
  BY <1>2, <1>3, FailKept

LEMMA SignSentKept == ASSUME RoundTripInv, NEW j \in Jobs, SignSent(j) PROVE Kept(j)
<1>1. /\ state[j] = "pending" /\ Update(j, "awaiting_signature", {"signSentAt"})
      /\ watcher' = [watcher EXCEPT ![j] = IF j \in aborted THEN "rejected" ELSE "listening"]
      /\ now' = now /\ failureReason' = failureReason /\ aborted' = aborted
  BY DEF SignSent
<1>2. "awaiting_signature" \in Lifecycle!States /\ {"signSentAt"} \in SUBSET Stamps
  BY Names DEF Stamps
<1>3. /\ state' \in [Jobs -> Lifecycle!States]
      /\ timings' \in [Jobs -> [Stamps -> Nat \cup {None}]]
      /\ \A q \in Jobs \ {j} : state'[q] = state[q] /\ timings'[q] = timings[q]
      /\ state'[j] = "awaiting_signature"
      /\ timings'[j].signSentAt = now
      /\ timings'[j].signatureAt = timings[j].signatureAt
      /\ timings'[j].broadcastAt = timings[j].broadcastAt
      /\ timings'[j].confirmedAt = timings[j].confirmedAt
      /\ timings'[j].respondedAt = timings[j].respondedAt
      /\ timings'[j].finishedAt = timings[j].finishedAt
  BY <1>1, <1>2, Updated
<1>4. /\ watcher' \in [Jobs -> {"off", "listening", "delivered", "rejected"}]
      /\ watcher'[j] = (IF j \in aborted THEN "rejected" ELSE "listening")
      /\ \A q \in Jobs \ {j} : watcher'[q] = watcher[q]
  BY <1>1 DEF RoundTripInv, TypeOK
<1>5. Moves(j)
  BY <1>1, <1>3, <1>4 DEF RoundTripInv, TypeOK, Moves
<1>6. /\ JobOK(j) /\ now \in Nat /\ timings[j].signSentAt = None
      /\ timings[j].signatureAt = None /\ timings[j].broadcastAt = None
      /\ timings[j].confirmedAt = None /\ timings[j].respondedAt = None
  BY <1>1, Typed DEF RoundTripInv, JobOK, StampsOfState, StampsInOrder
<1>7. JobOK(j)'
  BY <1>1, <1>3, <1>4, <1>6, Budgets
  DEF JobOK, StampsInOrder, StampsOfState, WatcherOfState, FailureOf
<1>8. Lifecycle!Advances(j)
  BY <1>1, <1>3, Names DEF Lifecycle!Advances
<1> QED
  BY <1>5, <1>7, <1>8 DEF Kept, Seen

LEMMA SignedKept == ASSUME RoundTripInv, NEW j \in Jobs, Signed(j) PROVE Kept(j)
<1>1. /\ state[j] = "awaiting_signature" /\ timings[j].signatureAt = None /\ j \notin aborted
      /\ Advance(j, "awaiting_signature", {"signatureAt"})
  BY DEF Signed, AwaitsSignature
<1>2. "awaiting_signature" \in Lifecycle!States /\ {"signatureAt"} \in SUBSET Stamps
  BY Names DEF Stamps
<1>3. /\ Moves(j) /\ Update(j, "awaiting_signature", {"signatureAt"})
      /\ UNCHANGED <<failureReason, watcher>>
  BY <1>1, <1>2, AdvanceMoves
<1>4. /\ state'[j] = "awaiting_signature"
      /\ timings'[j].signSentAt = timings[j].signSentAt
      /\ timings'[j].signatureAt = now
      /\ timings'[j].broadcastAt = timings[j].broadcastAt
      /\ timings'[j].confirmedAt = timings[j].confirmedAt
      /\ timings'[j].respondedAt = timings[j].respondedAt
      /\ timings'[j].finishedAt = timings[j].finishedAt
  BY <1>2, <1>3, Updated
<1>5. /\ JobOK(j) /\ now' = now /\ aborted' = aborted /\ now \in Nat
      /\ timings[j].signSentAt # None /\ timings[j].broadcastAt = None
      /\ now <= timings[j].signSentAt + SignatureTimeout
  BY <1>1, <1>3, Typed DEF RoundTripInv, Moves, JobOK, StampsOfState
<1>6. JobOK(j)'
  <2>1. failureReason[j] = None /\ NoReason
    BY <1>1, <1>5, NoneIsNoReason DEF JobOK, FailureOf
  <2> QED
    BY <1>1, <1>3, <1>4, <1>5, <2>1, Budgets
    DEF JobOK, StampsInOrder, StampsOfState, WatcherOfState, FailureOf, NoReason
<1>7. Lifecycle!Stays(j)
  BY <1>1, <1>3, <1>4 DEF Lifecycle!Stays
<1> QED
  BY <1>3, <1>6, <1>7 DEF Kept, Seen

LEMMA SignatureTimesOutKept ==
    ASSUME RoundTripInv, NEW j \in Jobs, SignatureTimesOut(j) PROVE Kept(j)
<1>1. /\ state[j] = "awaiting_signature" /\ timings[j].signatureAt = None
      /\ Fail(j, "signature_timeout")
  BY DEF SignatureTimesOut, SignatureDue, AwaitsSignature
<1>2. /\ state[j] \in DOMAIN Lifecycle!ReasonsIn
      /\ "signature_timeout" \in Lifecycle!ReasonsIn[state[j]]
  BY <1>1, Names
<1> QED
  BY <1>1, <1>2, FailKept

LEMMA VerifiedKept == ASSUME RoundTripInv, NEW j \in Jobs, Verified(j) PROVE Kept(j)
<1>1. state[j] = "awaiting_signature" /\ timings[j].signatureAt # None
  BY DEF Verified
<1>2. CASE Advance(j, "verified", {})
  <2>1. "verified" \in Lifecycle!States
    BY Names
  <2>2. Moves(j) /\ Update(j, "verified", {}) /\ UNCHANGED <<failureReason, watcher>>
    BY <1>2, <2>1, AdvanceMoves
  <2>3. /\ state'[j] = "verified"
        /\ timings'[j].signSentAt = timings[j].signSentAt
        /\ timings'[j].signatureAt = timings[j].signatureAt
        /\ timings'[j].broadcastAt = timings[j].broadcastAt
        /\ timings'[j].confirmedAt = timings[j].confirmedAt
        /\ timings'[j].respondedAt = timings[j].respondedAt
        /\ timings'[j].finishedAt = timings[j].finishedAt
    BY <2>1, <2>2, Updated
  <2>4. JobOK(j) /\ now' = now /\ aborted' = aborted
    BY <2>2 DEF RoundTripInv, Moves
  <2>5. JobOK(j)'
    BY <1>1, <2>2, <2>3, <2>4
    DEF JobOK, StampsInOrder, StampsOfState, WatcherOfState, FailureOf
  <2>6. Lifecycle!Advances(j)
    BY <1>1, <2>2, <2>3, Names DEF Lifecycle!Advances
  <2> QED
    BY <2>2, <2>5, <2>6 DEF Kept, Seen
<1>3. CASE \E reason \in {"derivation_mismatch", "internal_error"} : Fail(j, reason)
  <2>1. PICK reason \in {"derivation_mismatch", "internal_error"} : Fail(j, reason)
    BY <1>3
  <2>2. /\ state[j] \in DOMAIN Lifecycle!ReasonsIn /\ reason \in Lifecycle!ReasonsIn[state[j]]
        /\ reason \notin {"signature_timeout", "respond_timeout"}
    BY <1>1, Names
  <2> QED
    BY <2>1, <2>2, FailKept
<1> QED
  BY <1>2, <1>3 DEF Verified

LEMMA BroadcastKept == ASSUME RoundTripInv, NEW j \in Jobs, Broadcast(j) PROVE Kept(j)
<1>1. state[j] = "verified"
  BY DEF Broadcast
<1>2. CASE Advance(j, "broadcast", {"broadcastAt"})
  <2>1. "broadcast" \in Lifecycle!States /\ {"broadcastAt"} \in SUBSET Stamps
    BY Names DEF Stamps
  <2>2. /\ Moves(j) /\ Update(j, "broadcast", {"broadcastAt"})
        /\ UNCHANGED <<failureReason, watcher>>
    BY <1>2, <2>1, AdvanceMoves
  <2>3. /\ state'[j] = "broadcast"
        /\ timings'[j].signSentAt = timings[j].signSentAt
        /\ timings'[j].signatureAt = timings[j].signatureAt
        /\ timings'[j].broadcastAt = now
        /\ timings'[j].confirmedAt = timings[j].confirmedAt
        /\ timings'[j].respondedAt = timings[j].respondedAt
        /\ timings'[j].finishedAt = timings[j].finishedAt
    BY <2>1, <2>2, Updated
  <2>4. /\ JobOK(j) /\ now' = now /\ aborted' = aborted /\ now \in Nat
        /\ timings[j].confirmedAt = None /\ failureReason[j] = None /\ NoReason
    BY <1>1, <2>2, Typed, NoneIsNoReason
    DEF RoundTripInv, Moves, JobOK, StampsOfState, StampsInOrder, FailureOf
  <2>5. JobOK(j)'
    BY <1>1, <2>2, <2>3, <2>4, Budgets
    DEF JobOK, StampsInOrder, StampsOfState, WatcherOfState, FailureOf, NoReason
  <2>6. Lifecycle!Advances(j)
    BY <1>1, <2>2, <2>3, Names DEF Lifecycle!Advances
  <2> QED
    BY <2>2, <2>5, <2>6 DEF Kept, Seen
<1>3. CASE Fail(j, "broadcast_failed")
  <2>1. /\ state[j] \in DOMAIN Lifecycle!ReasonsIn
        /\ "broadcast_failed" \in Lifecycle!ReasonsIn[state[j]]
    BY <1>1, Names
  <2> QED
    BY <1>3, <2>1, FailKept
<1> QED
  BY <1>2, <1>3 DEF Broadcast

LEMMA ConfirmedKept == ASSUME RoundTripInv, NEW j \in Jobs, Confirmed(j) PROVE Kept(j)
<1>1. state[j] = "broadcast"
  BY DEF Confirmed
<1>2. CASE Advance(j, "confirmed", {"confirmedAt"})
  <2>1. "confirmed" \in Lifecycle!States /\ {"confirmedAt"} \in SUBSET Stamps
    BY Names DEF Stamps
  <2>2. /\ Moves(j) /\ Update(j, "confirmed", {"confirmedAt"})
        /\ UNCHANGED <<failureReason, watcher>>
    BY <1>2, <2>1, AdvanceMoves
  <2>3. /\ state'[j] = "confirmed"
        /\ timings'[j].signSentAt = timings[j].signSentAt
        /\ timings'[j].signatureAt = timings[j].signatureAt
        /\ timings'[j].broadcastAt = timings[j].broadcastAt
        /\ timings'[j].confirmedAt = now
        /\ timings'[j].respondedAt = timings[j].respondedAt
        /\ timings'[j].finishedAt = timings[j].finishedAt
    BY <2>1, <2>2, Updated
  <2>4. /\ JobOK(j) /\ now' = now /\ aborted' = aborted /\ now \in Nat
        /\ timings[j].respondedAt = None /\ failureReason[j] = None /\ NoReason
        /\ timings[j].broadcastAt # None
        /\ now <= timings[j].broadcastAt + EthConfirmTimeout
    BY <1>1, <2>2, Typed, NoneIsNoReason
    DEF RoundTripInv, Moves, JobOK, StampsOfState, StampsInOrder, FailureOf
  <2>5. JobOK(j)'
    BY <1>1, <2>2, <2>3, <2>4, Budgets
    DEF JobOK, StampsInOrder, StampsOfState, WatcherOfState, FailureOf, NoReason
  <2>6. Lifecycle!Advances(j)
    BY <1>1, <2>2, <2>3, Names DEF Lifecycle!Advances
  <2> QED
    BY <2>2, <2>5, <2>6 DEF Kept, Seen
<1>3. CASE Fail(j, "transaction_reverted")
  <2>1. /\ state[j] \in DOMAIN Lifecycle!ReasonsIn
        /\ "transaction_reverted" \in Lifecycle!ReasonsIn[state[j]]
    BY <1>1, Names
  <2> QED
    BY <1>3, <2>1, FailKept
<1> QED
  BY <1>2, <1>3 DEF Confirmed

LEMMA ReceiptTimesOutKept ==
    ASSUME RoundTripInv, NEW j \in Jobs, ReceiptTimesOut(j) PROVE Kept(j)
<1>1. state[j] = "broadcast" /\ Fail(j, "confirmation_timeout")
  BY DEF ReceiptTimesOut, ReceiptDue
<1>2. /\ state[j] \in DOMAIN Lifecycle!ReasonsIn
      /\ "confirmation_timeout" \in Lifecycle!ReasonsIn[state[j]]
  BY <1>1, Names
<1> QED
  BY <1>1, <1>2, FailKept

\* The watcher alone.
LEMMA WatcherKept ==
    ASSUME RoundTripInv, NEW j \in Jobs, NEW next \in {"delivered", "rejected"},
           watcher[j] = "listening", watcher' = [watcher EXCEPT ![j] = next],
           UNCHANGED <<now, state, failureReason, timings, aborted>>,
           next = "rejected" =>
                \/ now >= timings[j].signSentAt + Span
                \/ state[j] = "confirmed" /\ now >= timings[j].confirmedAt + RespondTimeout
    PROVE  Kept(j)
<1>1. /\ watcher' \in [Jobs -> {"off", "listening", "delivered", "rejected"}]
      /\ watcher'[j] = next /\ \A q \in Jobs \ {j} : watcher'[q] = watcher[q]
  BY DEF RoundTripInv, TypeOK
<1>2. Moves(j)
  BY <1>1 DEF RoundTripInv, TypeOK, Moves
<1>3. JobOK(j)
  BY DEF RoundTripInv
<1>4. JobOK(j)'
  BY <1>1, <1>3 DEF JobOK, StampsInOrder, StampsOfState, WatcherOfState, FailureOf
<1> QED
  BY <1>2, <1>4 DEF Kept, Seen, Lifecycle!Stays

LEMMA RespondedKept == ASSUME RoundTripInv, NEW j \in Jobs, Responded(j) PROVE Kept(j)
<1>1. state[j] = "confirmed" /\ watcher[j] \in {"delivered", "rejected"}
  BY DEF Responded, Settled
<1>2. CASE watcher[j] = "rejected" /\ Fail(j, "respond_timeout")
  <2>1. /\ state[j] \in DOMAIN Lifecycle!ReasonsIn
        /\ "respond_timeout" \in Lifecycle!ReasonsIn[state[j]]
    BY <1>1, Names
  <2> QED
    BY <1>2, <2>1, FailKept
<1>3. CASE FailWith(j, "respond_mismatch", {"respondedAt"})
  <2>1. /\ "respond_mismatch" \in Lifecycle!Reasons
        /\ state[j] \in DOMAIN Lifecycle!ReasonsIn
        /\ "respond_mismatch" \in Lifecycle!ReasonsIn[state[j]]
    BY <1>1, Names
  <2>2. /\ Moves(j) /\ JobOK(j)'
        /\ state'[j] = "failed" /\ failureReason'[j] = "respond_mismatch"
    BY <1>1, <1>3, <2>1, FailInv
  <2> QED
    BY <2>1, <2>2 DEF Kept, Seen, Lifecycle!Fails
<1>4. CASE /\ Update(j, "responded", {"respondedAt", "finishedAt"})
           /\ TearDown(j) /\ UNCHANGED <<now, failureReason, aborted>>
  <2>1. /\ "responded" \in Lifecycle!States
        /\ {"respondedAt", "finishedAt"} \in SUBSET Stamps
    BY Names DEF Stamps
  <2>2. /\ state' \in [Jobs -> Lifecycle!States]
        /\ timings' \in [Jobs -> [Stamps -> Nat \cup {None}]]
        /\ \A q \in Jobs \ {j} : state'[q] = state[q] /\ timings'[q] = timings[q]
        /\ state'[j] = "responded"
        /\ timings'[j].signSentAt = timings[j].signSentAt
        /\ timings'[j].signatureAt = timings[j].signatureAt
        /\ timings'[j].broadcastAt = timings[j].broadcastAt
        /\ timings'[j].confirmedAt = timings[j].confirmedAt
        /\ timings'[j].respondedAt = now
        /\ timings'[j].finishedAt = now
    BY <1>4, <2>1, Updated
  <2>3. /\ watcher' \in [Jobs -> {"off", "listening", "delivered", "rejected"}]
        /\ watcher'[j] = "off"
        /\ \A q \in Jobs \ {j} : watcher'[q] = watcher[q]
    BY <1>4 DEF RoundTripInv, TypeOK, TearDown
  <2>4. Moves(j)
    BY <1>4, <2>2, <2>3 DEF RoundTripInv, TypeOK, Moves
  <2>5. /\ JobOK(j) /\ failureReason[j] = None /\ NoReason
        /\ timings[j].confirmedAt # None /\ now <= timings[j].confirmedAt + RespondTimeout
    BY <1>1, NoneIsNoReason DEF RoundTripInv, JobOK, StampsOfState, FailureOf
  <2>6. JobOK(j)'
    BY <1>1, <1>4, <2>2, <2>3, <2>5
    DEF JobOK, StampsInOrder, StampsOfState, WatcherOfState, FailureOf, NoReason
  <2>7. Lifecycle!Advances(j)
    BY <1>1, <1>4, <2>2, Names DEF Lifecycle!Advances
  <2> QED
    BY <2>4, <2>6, <2>7 DEF Kept, Seen
<1> QED
  BY <1>2, <1>3, <1>4 DEF Responded

LEMMA JobStepKept == ASSUME RoundTripInv, NEW j \in Jobs, JobStep(j) PROVE Kept(j)
<1>1. CASE Accept(j)
  BY <1>1, AcceptKept
<1>2. CASE Leased(j)
  BY <1>2, LeasedKept
<1>3. CASE FailsEarly(j)
  BY <1>3, FailsEarlyKept
<1>4. CASE SignSent(j)
  BY <1>4, SignSentKept
<1>5. CASE Signed(j)
  BY <1>5, SignedKept
<1>6. CASE SignatureTimesOut(j)
  BY <1>6, SignatureTimesOutKept
<1>7. CASE Verified(j)
  BY <1>7, VerifiedKept
<1>8. CASE Broadcast(j)
  BY <1>8, BroadcastKept
<1>9. CASE Confirmed(j)
  BY <1>9, ConfirmedKept
<1>10. CASE ReceiptTimesOut(j)
  BY <1>10, ReceiptTimesOutKept
<1>11. CASE Deliver(j)
  BY <1>11, WatcherKept DEF Deliver
<1>12. CASE WatcherRejects(j)
  BY <1>12, WatcherKept DEF WatcherRejects, WatcherDue, DeadlineDue
<1>13. CASE Responded(j)
  BY <1>13, RespondedKept
<1> QED
  BY <1>1, <1>2, <1>3, <1>4, <1>5, <1>6, <1>7, <1>8, <1>9, <1>10, <1>11, <1>12, <1>13
  DEF JobStep

-----------------------------------------------------------------------------
(***************************************************************************)
(* Shutdown and time.                                                      *)
(***************************************************************************)
LEMMA ShutdownInv == ASSUME RoundTripInv, Shutdown PROVE RoundTripInv'
<1>1. /\ aborted' = aborted \cup Live
      /\ watcher' = [j \in Jobs |-> IF watcher[j] = "listening" THEN "rejected" ELSE watcher[j]]
      /\ UNCHANGED <<now, state, failureReason, timings>>
  BY DEF Shutdown
<1>2. TypeOK'
  BY <1>1 DEF RoundTripInv, TypeOK, Live
<1>3. ASSUME NEW j \in Jobs PROVE JobOK(j)'
  <2>1. /\ JobOK(j) /\ (j \in aborted => j \in aborted')
        /\ watcher'[j] = (IF watcher[j] = "listening" THEN "rejected" ELSE watcher[j])
    BY <1>1 DEF RoundTripInv
  <2>2. watcher[j] # "off" => j \in aborted'
    BY <1>1, <2>1 DEF JobOK, WatcherOfState, Live, Over
  <2>3. StampsInOrder(j)' /\ StampsOfState(j)'
    BY <1>1, <2>1 DEF JobOK, StampsInOrder, StampsOfState
  <2>4. WatcherOfState(j)'
    BY <1>1, <2>1, <2>2 DEF JobOK, WatcherOfState
  <2>5. FailureOf(j)'
    BY <1>1, <2>1 DEF JobOK, FailureOf
  <2> QED
    BY <2>3, <2>4, <2>5 DEF JobOK
<1> QED
  BY <1>2, <1>3 DEF RoundTripInv

LEMMA TickInv == ASSUME RoundTripInv, Tick PROVE RoundTripInv'
<1>1. /\ now' = now + 1 /\ now \in Nat
      /\ UNCHANGED <<state, failureReason, timings, watcher, aborted>>
  BY DEF RoundTripInv, TypeOK, Tick
<1>2. TypeOK'
  BY <1>1 DEF RoundTripInv, TypeOK
<1>3. ASSUME NEW j \in Jobs PROVE JobOK(j)'
  <2>1. JobOK(j) /\ ~SignatureDue(j) /\ ~ReceiptDue(j) /\ ~DeadlineDue(j) /\ ~Settled(j)
    BY DEF RoundTripInv, Tick, Due
  <2>2. /\ timings[j].signSentAt \in Nat \cup {None}
        /\ timings[j].signatureAt \in Nat \cup {None}
        /\ timings[j].broadcastAt \in Nat \cup {None}
        /\ timings[j].confirmedAt \in Nat \cup {None}
        /\ watcher[j] \in {"off", "listening", "delivered", "rejected"}
    BY Typed DEF RoundTripInv, TypeOK
  <2>3. StampsInOrder(j)'
    BY <1>1, <2>1, <2>2 DEF JobOK, StampsInOrder
  <2>4. state[j] = "awaiting_signature" /\ timings[j].signatureAt = None /\ j \notin aborted =>
            now + 1 <= timings[j].signSentAt + SignatureTimeout
    <3> SUFFICES ASSUME state[j] = "awaiting_signature", timings[j].signatureAt = None
                 PROVE  now + 1 <= timings[j].signSentAt + SignatureTimeout
      OBVIOUS
    <3>1. ~(now >= timings[j].signSentAt + SignatureTimeout)
      BY <2>1 DEF SignatureDue, AwaitsSignature
    <3>2. timings[j].signSentAt \in Nat
      BY <2>1, <2>2 DEF JobOK, StampsOfState
    <3> QED
      BY <1>1, <3>1, <3>2, Budgets
  <2>5. state[j] = "broadcast" => now + 1 <= timings[j].broadcastAt + EthConfirmTimeout
    <3> SUFFICES ASSUME state[j] = "broadcast"
                 PROVE  now + 1 <= timings[j].broadcastAt + EthConfirmTimeout
      OBVIOUS
    <3>1. ~(now >= timings[j].broadcastAt + EthConfirmTimeout) /\ timings[j].broadcastAt \in Nat
      BY <2>1, <2>2 DEF ReceiptDue, JobOK, StampsOfState
    <3> QED
      BY <1>1, <3>1, Budgets
  <2>6. state[j] = "confirmed" => now + 1 <= timings[j].confirmedAt + RespondTimeout
    <3> SUFFICES ASSUME state[j] = "confirmed"
                 PROVE  now + 1 <= timings[j].confirmedAt + RespondTimeout
      OBVIOUS
    <3>1. watcher[j] = "listening"
      BY <2>1, <2>2 DEF Settled, JobOK, WatcherOfState
    <3>2. ~(now >= timings[j].confirmedAt + RespondTimeout) /\ timings[j].confirmedAt \in Nat
      BY <2>1, <2>2, <3>1 DEF DeadlineDue, JobOK, StampsOfState
    <3> QED
      BY <1>1, <3>2, Budgets
  <2>7. StampsOfState(j)'
    BY <1>1, <2>1, <2>4, <2>5, <2>6 DEF JobOK, StampsOfState
  <2>8. WatcherOfState(j)'
    <3>1. watcher[j] = "rejected" => timings[j].signSentAt \in Nat
      BY <2>1, <2>2, Budgets DEF JobOK, WatcherOfState, StampsOfState, StampsInOrder
    <3>2. state[j] = "confirmed" => timings[j].confirmedAt \in Nat
      BY <2>1, <2>2 DEF JobOK, StampsOfState
    <3> QED
      BY <1>1, <2>1, <3>1, <3>2, Budgets DEF JobOK, WatcherOfState
  <2>9. FailureOf(j)'
    BY <1>1, <2>1 DEF JobOK, FailureOf
  <2> QED
    BY <2>3, <2>7, <2>8, <2>9 DEF JobOK
<1> QED
  BY <1>2, <1>3 DEF RoundTripInv

LEMMA StepInv == RoundTripInv /\ [Next]_vars => RoundTripInv'
<1> SUFFICES ASSUME RoundTripInv, [Next]_vars PROVE RoundTripInv'
  OBVIOUS
<1>1. ASSUME NEW j \in Jobs, JobStep(j) PROVE RoundTripInv'
  BY <1>1, JobStepKept, MoveInv DEF Kept
<1>2. CASE UNCHANGED vars
  <2>1. UNCHANGED <<now, state, failureReason, timings, watcher, aborted>>
    BY <1>2 DEF vars
  <2>2. TypeOK'
    BY <2>1 DEF RoundTripInv, TypeOK
  <2>3. ASSUME NEW j \in Jobs PROVE JobOK(j)'
    BY <2>1 DEF RoundTripInv, JobOK, StampsInOrder, StampsOfState, WatcherOfState, FailureOf
  <2> QED
    BY <2>2, <2>3 DEF RoundTripInv
<1> QED
  BY <1>1, <1>2, ShutdownInv, TickInv DEF Next

-----------------------------------------------------------------------------
(***************************************************************************)
(* The statistics.  With ties a sort has several outcomes, so first that   *)
(* there is one: number each key by how many come before it, where ties    *)
(* go by a numbering of the keys.                                          *)
(***************************************************************************)

\* The keys that do not come after j, when ties go by the numbering.
UpToKey(values, number, j) ==
    {k \in DOMAIN values :
        \/ values[k] < values[j]
        \/ values[k] = values[j] /\ number[k] <= number[j]}

LEMMA Numbering ==
    ASSUME NEW S, IsFiniteSet(S)
    PROVE  \E number \in [S -> Nat] : \A j, k \in S : number[j] = number[k] => j = k
<1>1. Cardinality(S) \in Nat /\ ExistsBijection(1..Cardinality(S), S)
  BY FS_CardinalityType
<1>2. PICK f \in Bijection(1..Cardinality(S), S) : TRUE
  BY <1>1 DEF ExistsBijection
<1>3. f \in [1..Cardinality(S) -> S] /\ \A j \in S : \E i \in 1..Cardinality(S) : f[i] = j
  BY <1>2 DEF Bijection, Surjection
<1> DEFINE number == [j \in S |-> CHOOSE i \in 1..Cardinality(S) : f[i] = j]
<1>4. \A j \in S : number[j] \in 1..Cardinality(S) /\ f[number[j]] = j
  BY <1>3
<1>5. number \in [S -> Nat]
  BY <1>1, <1>4
<1>6. \A j, k \in S : number[j] = number[k] => j = k
  BY <1>4
<1> QED
  BY <1>5, <1>6

LEMMA OrderExists ==
    ASSUME NEW values, IsFiniteSet(DOMAIN values), \A j \in DOMAIN values : values[j] \in Int
    PROVE  Orders(values) # {}
<1> DEFINE S == DOMAIN values
           n == Cardinality(S)
<1>1. n \in Nat
  BY FS_CardinalityType
<1>2. PICK number \in [S -> Nat] : \A j, k \in S : number[j] = number[k] => j = k
  BY Numbering
<1> DEFINE upTo(j) == UpToKey(values, number, j)
           place == [j \in S |-> Cardinality(upTo(j))]
<1>3. ASSUME NEW j \in S
      PROVE  /\ upTo(j) \subseteq S /\ j \in upTo(j) /\ IsFiniteSet(upTo(j))
             /\ Cardinality(upTo(j)) \in 1..n
  <2>1. upTo(j) \in SUBSET S /\ j \in upTo(j)
    BY <1>2 DEF UpToKey
  <2>2. IsFiniteSet(upTo(j)) /\ Cardinality(upTo(j)) <= n
    BY <2>1, FS_Subset
  <2>3. Cardinality(upTo(j)) \in Nat /\ Cardinality(upTo(j)) # 0
    BY <2>1, <2>2, FS_CardinalityType, FS_EmptySet
  <2> QED
    BY <1>1, <2>1, <2>2, <2>3
<1>4. ASSUME NEW j \in S, NEW k \in S, j # k, j \in upTo(k)
      PROVE  place[j] < place[k]
  <2>1. upTo(j) \in SUBSET upTo(k) /\ k \notin upTo(j)
    BY <1>2, <1>4 DEF UpToKey
  <2>2. /\ Cardinality(upTo(j)) <= Cardinality(upTo(k))
        /\ Cardinality(upTo(j)) # Cardinality(upTo(k))
    BY <1>3, <2>1, FS_Subset
  <2> QED
    BY <1>1, <1>3, <2>2
<1>5. \A j, k \in S : j \in upTo(k) \/ k \in upTo(j)
  BY <1>2 DEF UpToKey
<1>6. \A j, k \in S : values[j] > values[k] => j \notin upTo(k)
  BY DEF UpToKey
<1> HIDE DEF upTo
<1>7. place \in [S -> 1..n]
  BY <1>3
<1>8. \A j, k \in S : place[j] = place[k] => j = k
  BY <1>1, <1>4, <1>5, <1>7
<1>9. \A j, k \in S : values[j] > values[k] => place[j] > place[k]
  BY <1>1, <1>4, <1>5, <1>6, <1>7
<1> HIDE DEF place
<1>10. place \in Injection(S, 1..n)
  BY <1>7, <1>8 DEF Injection, IsInjective
<1>11. IsFiniteSet(1..n) /\ Cardinality(1..n) = n
  BY <1>1, FS_Interval
<1>12. place \in Surjection(S, 1..n)
  BY <1>10, <1>11, FS_Injection
<1>13. \A i \in 1..n : \E j \in S : place[j] = i
  BY <1>12 DEF Surjection
<1> DEFINE order == [i \in 1..n |-> CHOOSE j \in S : place[j] = i]
<1>14. order \in [1..n -> S] /\ \A i \in 1..n : place[order[i]] = i
  BY <1>13
<1> HIDE DEF order
<1>15. \A j \in S : order[place[j]] = j
  BY <1>7, <1>8, <1>14
<1>16. order \in Bijection(1..n, S)
  BY <1>7, <1>14, <1>15 DEF Bijection, Injection, Surjection, IsInjective
<1>17. ASSUME NEW i \in DOMAIN order, NEW k \in DOMAIN order, i <= k
       PROVE  values[order[i]] <= values[order[k]]
  BY <1>1, <1>9, <1>14, <1>17
<1> QED
  BY <1>16, <1>17 DEF Orders

Below(values, v) == Cardinality({j \in DOMAIN values : values[j] < v})
NotAbove(values, v) == Cardinality({j \in DOMAIN values : values[j] <= v})

\* What Sorted returns, and that it counts: fewer than m values are below the m-th,
\* and at least m are not above it.
LEMMA SortedCounts ==
    ASSUME NEW values, IsFiniteSet(DOMAIN values), \A j \in DOMAIN values : values[j] \in Int,
           NEW n, n = Cardinality(DOMAIN values)
    PROVE  /\ n \in Nat /\ Sorted(values) \in [1..n -> Int] /\ Len(Sorted(values)) = n
           /\ \A m \in 1..n :
                /\ Below(values, Sorted(values)[m]) \in 0..(m - 1)
                /\ NotAbove(values, Sorted(values)[m]) \in Nat
                /\ NotAbove(values, Sorted(values)[m]) >= m
           /\ \A m \in 1..n : \E j \in DOMAIN values : Sorted(values)[m] = values[j]
           /\ n > 0 => \A j \in DOMAIN values : values[j] <= Sorted(values)[n]
<1> DEFINE S == DOMAIN values
           order == CHOOSE f \in Orders(values) : TRUE
<1>1. n \in Nat
  BY FS_CardinalityType
<1>2. order \in Orders(values)
  BY OrderExists
<1>3. Sorted(values) = [i \in DOMAIN order |-> values[order[i]]]
  BY DEF Sorted
<1> HIDE DEF order
<1>4. /\ order \in Injection(1..n, S) /\ order \in Surjection(1..n, S)
      /\ \A i, k \in DOMAIN order : i <= k => values[order[i]] <= values[order[k]]
  BY <1>2 DEF Orders, Bijection
<1>5. /\ order \in [1..n -> S] /\ \A i, k \in 1..n : order[i] = order[k] => i = k
      /\ \A j \in S : \E i \in 1..n : order[i] = j
  BY <1>4 DEF Injection, Surjection, IsInjective
<1>6. /\ Sorted(values) = [i \in 1..n |-> values[order[i]]]
      /\ \A i, k \in 1..n : i <= k => values[order[i]] <= values[order[k]]
  BY <1>3, <1>4, <1>5
<1>7. Sorted(values) \in [1..n -> Int]
  BY <1>5, <1>6
<1>8. Len(Sorted(values)) = n
  BY <1>1, <1>7
<1>9. ASSUME NEW m \in 1..n, NEW v, v = Sorted(values)[m]
      PROVE  Below(values, v) \in 0..(m - 1)
  <2> DEFINE below == {j \in S : values[j] < v}
             at == {i \in 1..n : values[order[i]] < v}
             f == [i \in at |-> order[i]]
  <2>1. v = values[order[m]] /\ v \in Int
    BY <1>5, <1>6, <1>7, <1>9
  <2>2. at \in SUBSET (1..(m - 1))
    BY <1>1, <1>5, <1>6, <2>1
  <2>3. IsFiniteSet(1..(m - 1)) /\ Cardinality(1..(m - 1)) = m - 1
    <3>1. 1 \in Int /\ m - 1 \in Int /\ (1 > m - 1 => m - 1 = 0) /\ (m - 1) - 1 + 1 = m - 1
      BY <1>1
    <3> QED
      BY <3>1, FS_Interval, Zenon
  <2>4. IsFiniteSet(at) /\ Cardinality(at) <= m - 1
    BY <2>2, <2>3, FS_Subset
  <2>5. f \in Surjection(at, below)
    BY <1>5 DEF Surjection
  <2> HIDE DEF at, below, f
  <2>6. IsFiniteSet(below) /\ Cardinality(below) <= Cardinality(at)
    BY <2>4, <2>5, FS_Surjection
  <2>7. Cardinality(below) \in Nat /\ Cardinality(at) \in Nat
    BY <2>4, <2>6, FS_CardinalityType
  <2> QED
    BY <1>1, <2>4, <2>6, <2>7 DEF below, Below
<1>10. ASSUME NEW m \in 1..n, NEW v, v = Sorted(values)[m]
       PROVE  NotAbove(values, v) \in Nat /\ NotAbove(values, v) >= m
  <2> DEFINE upTo == {j \in S : values[j] <= v}
             f == [i \in 1..m |-> order[i]]
  <2>1. upTo \in SUBSET S
    OBVIOUS
  <2>2. IsFiniteSet(upTo) /\ Cardinality(upTo) \in Nat
    BY <2>1, FS_Subset, FS_CardinalityType
  <2>3. IsFiniteSet(1..m) /\ Cardinality(1..m) = m
    BY <1>1, FS_Interval
  <2>4. f \in [1..m -> upTo]
    BY <1>1, <1>5, <1>6, <1>10
  <2>5. f \in Injection(1..m, upTo)
    BY <1>1, <1>5, <2>4 DEF Injection, IsInjective
  <2> HIDE DEF upTo, f
  <2>6. Cardinality(1..m) <= Cardinality(upTo)
    BY <2>2, <2>5, FS_Injection
  <2> QED
    BY <1>1, <2>2, <2>3, <2>6 DEF upTo, NotAbove
<1>11. n > 0 => \A j \in S : values[j] <= Sorted(values)[n]
  BY <1>1, <1>5, <1>6
<1>12. \A m \in 1..n : \E j \in S : Sorted(values)[m] = values[j]
  BY <1>5, <1>6
<1> QED
  BY <1>1, <1>7, <1>8, <1>9, <1>10, <1>11, <1>12

LEMMA PercentileIsExact ==
    ASSUME NEW values, IsFiniteSet(DOMAIN values), \A j \in DOMAIN values : values[j] \in Int,
           DOMAIN values # {}, NEW p \in {0, 5, 50, 95}
    PROVE  IsPercentile(Percentile(Sorted(values), p), p, values)
<1> DEFINE n == Cardinality(DOMAIN values)
           m == (p * n) \div 100 + 1
           v == Sorted(values)[m]
           below == Below(values, v)
           upTo == NotAbove(values, v)
<1>1. n \in Nat /\ n # 0
  BY FS_CardinalityType, FS_EmptySet
<1>2. m \in 1..n /\ m - 1 = (p * n) \div 100 /\ 100 * (m - 1) <= p * n /\ 100 * m > p * n
  <2> HIDE DEF n
  <2>1. CASE p = 0
    BY <1>1, <2>1
  <2>2. CASE p = 5
    BY <1>1, <2>2
  <2>3. CASE p = 50
    BY <1>1, <2>3
  <2>4. CASE p = 95
    BY <1>1, <2>4
  <2> QED
    BY <2>1, <2>2, <2>3, <2>4
<1>3. Len(Sorted(values)) = n /\ below \in 0..(m - 1) /\ upTo >= m /\ upTo \in Nat
  <2> HIDE DEF m
  <2> QED
    BY <1>2, SortedCounts
<1>4. Percentile(Sorted(values), p) = v
  <2>1. (p * n) \div 100 < n
    BY <1>1, <1>2
  <2> HIDE DEF n, below, upTo
  <2> QED
    BY <1>3, <2>1 DEF Percentile
<1>5. 100 * below <= p * n /\ 100 * upTo > p * n
  <2> HIDE DEF n, m, below, upTo
  <2> QED
    BY <1>1, <1>2, <1>3
<1> QED
  BY <1>4, <1>5 DEF IsPercentile, Below, NotAbove

LEMMA DisjointUnion ==
    ASSUME NEW S, IsFiniteSet(S), NEW T, IsFiniteSet(T), S \cap T = {}
    PROVE  IsFiniteSet(S \cup T) /\ Cardinality(S \cup T) = Cardinality(S) + Cardinality(T)
<1>1. Cardinality(S) \in Nat /\ Cardinality(T) \in Nat /\ Cardinality(S \cap T) = 0
  BY FS_CardinalityType, FS_EmptySet
<1>2. /\ IsFiniteSet(S \cup T)
      /\ Cardinality(S \cup T) = Cardinality(S) + Cardinality(T) - Cardinality(S \cap T)
  BY FS_Union, Zenon
<1> QED
  BY <1>1, <1>2

\* The figures of a summary are what they are called.
SummaryOf(values) ==
    LET summary == Summarize(values) IN
    summary.count > 0 =>
        /\ IsPercentile(summary.min, 0, values)
        /\ IsPercentile(summary.p05, 5, values)
        /\ IsPercentile(summary.p50, 50, values)
        /\ IsPercentile(summary.p95, 95, values)
        /\ \E j \in DOMAIN values : summary.max = values[j]
        /\ \A j \in DOMAIN values : values[j] <= summary.max

LEMMA SummaryIsExact ==
    ASSUME NEW values, IsFiniteSet(DOMAIN values), \A j \in DOMAIN values : values[j] \in Int
    PROVE  Summarize(values).count = Cardinality(DOMAIN values) /\ SummaryOf(values)
<1> DEFINE sorted == Sorted(values)
           n == Cardinality(DOMAIN values)
<1>1. /\ n \in Nat /\ Len(sorted) = n
      /\ \A m \in 1..n : \E j \in DOMAIN values : sorted[m] = values[j]
      /\ n > 0 => \A j \in DOMAIN values : values[j] <= sorted[n]
  BY SortedCounts
<1>2. Summarize(values).count = n
  BY <1>1 DEF Summarize
<1>3. ASSUME n > 0
      PROVE  /\ Summarize(values).min = sorted[1]
             /\ Summarize(values).p05 = Percentile(sorted, 5)
             /\ Summarize(values).p50 = Percentile(sorted, 50)
             /\ Summarize(values).p95 = Percentile(sorted, 95)
             /\ Summarize(values).max = sorted[n]
  BY <1>1, <1>3 DEF Summarize
<1>4. n > 0 => Percentile(sorted, 0) = sorted[1]
  <2> HIDE DEF sorted, n
  <2>1. n > 0 => (0 * n) \div 100 = 0 /\ 0 < n
    BY <1>1
  <2> QED
    BY <1>1, <2>1 DEF Percentile
<1>5. ASSUME n > 0, NEW p \in {0, 5, 50, 95}
      PROVE  IsPercentile(Percentile(sorted, p), p, values)
  <2>1. DOMAIN values # {}
    BY <1>5, FS_EmptySet
  <2> QED
    BY <2>1, PercentileIsExact
<1> HIDE DEF sorted, n
<1> QED
  BY <1>1, <1>2, <1>3, <1>4, <1>5 DEF n, SummaryOf

-----------------------------------------------------------------------------
(***************************************************************************)
(* What the statistics need of the records beyond RoundTripInv: only the   *)
(* jobs that were accepted have a record, a finite number, and their first *)
(* and last timestamps are there when the total is taken.                  *)
(***************************************************************************)
Accepted == {j \in Jobs : state[j] # "none"}

TimedJob(j) ==
    /\ state[j] # "none" => timings[j].acceptedAt # None
    /\ state[j] = "responded" => timings[j].finishedAt # None

StatsInv == IsFiniteSet(Accepted) /\ \A j \in Jobs : TimedJob(j)

\* What the two stamps of a total depend on.
TimedMove(j, next, stamps) ==
    /\ next # "none" /\ (state[j] = "none" => "acceptedAt" \in stamps)
    /\ (state[j] # "none" => "acceptedAt" \notin stamps)
    /\ (next = "responded" => "finishedAt" \in stamps)

LEMMA StepStamps ==
    ASSUME NEW j \in Jobs, JobStep(j)
    PROVE  \/ UNCHANGED <<state, timings>>
           \/ \E next \in Lifecycle!States, stamps \in SUBSET Stamps :
                Update(j, next, stamps) /\ TimedMove(j, next, stamps)
<1> DEFINE P == \E next \in Lifecycle!States, stamps \in SUBSET Stamps :
                Update(j, next, stamps) /\ TimedMove(j, next, stamps)
<1>1. ASSUME NEW next \in Lifecycle!States, NEW stamps \in SUBSET Stamps,
             Update(j, next, stamps), TimedMove(j, next, stamps)
      PROVE  P
  BY <1>1
<1> SUFFICES UNCHANGED <<state, timings>> \/ P
  OBVIOUS
<1> HIDE DEF P
<1>2. ASSUME state[j] # "none", NEW reason, NEW stamps \in {{}, {"respondedAt"}},
             FailWith(j, reason, stamps)
      PROVE  P
  <2> DEFINE all == stamps \cup {"finishedAt"}
  <2>1. Update(j, "failed", all)
    BY <1>2 DEF FailWith
  <2>2. "failed" \in Lifecycle!States /\ all \in SUBSET Stamps
    BY Names DEF Stamps
  <2>3. TimedMove(j, "failed", all)
    BY <1>2 DEF TimedMove
  <2> QED
    BY <1>1, <2>1, <2>2, <2>3
<1>3. ASSUME state[j] # "none", NEW reason, Fail(j, reason) PROVE P
  BY <1>2, <1>3 DEF Fail
<1>4. ASSUME NEW next \in Lifecycle!States \ {"none", "responded"},
             NEW stamps \in SUBSET Stamps, Advance(j, next, stamps),
             state[j] = "none" <=> "acceptedAt" \in stamps
      PROVE  P
  BY <1>1, <1>4 DEF Advance, TimedMove
<1>5. /\ {"pending", "awaiting_signature", "verified", "broadcast", "confirmed"}
            \subseteq Lifecycle!States \ {"none", "responded"}
      /\ "responded" \in Lifecycle!States
      /\ {"acceptedAt", "leaseAcquiredAt", "signSentAt", "signatureAt", "broadcastAt",
          "confirmedAt", "respondedAt", "finishedAt"} \subseteq Stamps
  BY Names DEF Stamps
<1>6. CASE Accept(j)
  BY <1>4, <1>5, <1>6 DEF Accept
<1>7. CASE Leased(j)
  BY <1>4, <1>5, <1>7 DEF Leased
<1>8. CASE FailsEarly(j)
  BY <1>3, <1>8 DEF FailsEarly
<1>9. CASE SignSent(j)
  BY <1>1, <1>5, <1>9 DEF SignSent, TimedMove
<1>10. CASE Signed(j)
  BY <1>4, <1>5, <1>10 DEF Signed, AwaitsSignature
<1>11. CASE SignatureTimesOut(j)
  BY <1>3, <1>11 DEF SignatureTimesOut, SignatureDue, AwaitsSignature
<1>12. CASE Verified(j)
  BY <1>3, <1>4, <1>5, <1>12 DEF Verified
<1>13. CASE Broadcast(j)
  BY <1>3, <1>4, <1>5, <1>13 DEF Broadcast
<1>14. CASE Confirmed(j)
  BY <1>3, <1>4, <1>5, <1>14 DEF Confirmed
<1>15. CASE ReceiptTimesOut(j)
  BY <1>3, <1>15 DEF ReceiptTimesOut, ReceiptDue
<1>16. CASE Deliver(j) \/ WatcherRejects(j)
  BY <1>16 DEF Deliver, WatcherRejects
<1>17. CASE Responded(j)
  BY <1>1, <1>2, <1>3, <1>5, <1>17 DEF Responded, Settled, TimedMove
<1> QED
  BY <1>6, <1>7, <1>8, <1>9, <1>10, <1>11, <1>12, <1>13, <1>14, <1>15, <1>16, <1>17
  DEF JobStep

LEMMA StatsStep == RoundTripInv /\ StatsInv /\ [Next]_vars => StatsInv'
<1> SUFFICES ASSUME RoundTripInv, StatsInv, [Next]_vars PROVE StatsInv'
  OBVIOUS
<1>1. CASE UNCHANGED <<state, timings>>
  <2>1. Accepted' = Accepted
    BY <1>1 DEF Accepted
  <2>2. ASSUME NEW j \in Jobs PROVE TimedJob(j)'
    BY <1>1 DEF StatsInv, TimedJob
  <2> QED
    BY <2>1, <2>2 DEF StatsInv
<1>2. ASSUME NEW j \in Jobs, JobStep(j), NEW next \in Lifecycle!States,
             NEW stamps \in SUBSET Stamps, Update(j, next, stamps), TimedMove(j, next, stamps)
      PROVE  StatsInv'
  <2>1. now # None
    BY Budgets DEF RoundTripInv, TypeOK
  <2>2. /\ state'[j] = next /\ \A q \in Jobs \ {j} : state'[q] = state[q] /\ timings'[q] = timings[q]
        /\ timings'[j].acceptedAt = IF "acceptedAt" \in stamps THEN now ELSE timings[j].acceptedAt
        /\ timings'[j].finishedAt = IF "finishedAt" \in stamps THEN now ELSE timings[j].finishedAt
    BY <1>2, Updated
  <2>3. Accepted' = Accepted \cup {j}
    BY <1>2, <2>2 DEF Accepted, TimedMove
  <2>4. IsFiniteSet(Accepted)'
    BY <2>3, FS_AddElement DEF StatsInv
  <2>5. TimedJob(j)'
    <3>1. TimedJob(j)
      BY DEF StatsInv
    <3> QED
      BY <1>2, <2>1, <2>2, <3>1 DEF TimedJob, TimedMove
  <2>6. ASSUME NEW q \in Jobs \ {j} PROVE TimedJob(q)'
    <3>1. TimedJob(q)
      BY DEF StatsInv
    <3> QED
      BY <2>2, <3>1 DEF TimedJob
  <2> QED
    BY <2>4, <2>5, <2>6 DEF StatsInv
<1>3. Shutdown \/ Tick \/ UNCHANGED vars => UNCHANGED <<state, timings>>
  BY DEF Shutdown, Tick, vars
<1> QED
  BY <1>1, <1>2, <1>3, StepStamps DEF Next

\* Any span of accepted jobs is one of finitely many integers.
LEMMA SpansAreSummarized ==
    ASSUME RoundTripInv, StatsInv, NEW jobs \in SUBSET Accepted,
           NEW from \in Stamps, NEW to \in Stamps
    PROVE  LET spans == Collect(jobs, timings, from, to) IN
           Summarize(spans).count = Cardinality(DOMAIN spans) /\ SummaryOf(spans)
<1> DEFINE spans == Collect(jobs, timings, from, to)
<1>1. DOMAIN spans \in SUBSET Accepted
  BY DEF Collect
<1>2. IsFiniteSet(DOMAIN spans)
  BY <1>1, FS_Subset DEF StatsInv
<1>3. ASSUME NEW j \in DOMAIN spans PROVE spans[j] \in Int
  <2>1. timings[j] \in [Stamps -> Nat \cup {None}]
    BY <1>1, Typed DEF Accepted
  <2>2. timings[j][from] # None /\ timings[j][to] # None
    BY <1>3 DEF Collect
  <2>3. spans[j] = timings[j][to] - timings[j][from]
    BY <1>3 DEF Collect
  <2> QED
    BY <2>1, <2>2, <2>3
<1> HIDE DEF spans
<1>4. Summarize(spans).count = Cardinality(DOMAIN spans) /\ SummaryOf(spans)
  BY <1>2, <1>3, SummaryIsExact
<1> QED
  BY <1>4 DEF spans

-----------------------------------------------------------------------------
(***************************************************************************)
(* The theorems.                                                           *)
(***************************************************************************)

\* The inductive invariant holds throughout.
THEOREM RoundTripSafe == Spec => []RoundTripInv
<1>1. Init => RoundTripInv
  BY InitInv
<1>2. RoundTripInv /\ [Next]_vars => RoundTripInv'
  BY StepInv
<1> QED
  BY <1>1, <1>2, PTL DEF Spec

\* Every variable keeps its type, for any number of jobs and any budgets.
THEOREM RoundTripTypes == Spec => []TypeOK
<1>1. RoundTripInv => TypeOK
  BY DEF RoundTripInv
<1> QED
  BY <1>1, RoundTripSafe, PTL

\* The respond leg gets its budget from confirmation on, less what the verification
\* and the broadcast took (signBidirectional.ts:363-376, :475-491).
THEOREM RespondLegHasItsBudget == Spec => []RespondBudget
<1>1. RoundTripInv => RespondBudget
  BY DEF RoundTripInv, JobOK, FailureOf, RespondBudget
<1> QED
  BY <1>1, RoundTripSafe, PTL

\* No reported latency exceeds the budget of its stage (stats.ts:45-68).
THEOREM LatenciesAreWithinBudgets == Spec => []SpansWithinBudgets
<1>1. ASSUME RoundTripInv, NEW j \in Jobs
      PROVE  /\ (timings[j].signSentAt # None /\ timings[j].signatureAt # None) =>
                    timings[j].signatureAt - timings[j].signSentAt <= SignatureTimeout
             /\ (timings[j].broadcastAt # None /\ timings[j].confirmedAt # None) =>
                    timings[j].confirmedAt - timings[j].broadcastAt <= EthConfirmTimeout
             /\ (timings[j].confirmedAt # None /\ timings[j].respondedAt # None) =>
                    timings[j].respondedAt - timings[j].confirmedAt <= RespondTimeout
  <2>1. StampsInOrder(j)
    BY <1>1 DEF RoundTripInv, JobOK
  <2> QED
    BY <1>1, <2>1, Typed, Budgets DEF StampsInOrder
<1>2. RoundTripInv => SpansWithinBudgets
  BY <1>1 DEF SpansWithinBudgets, Collect
<1> QED
  BY <1>2, RoundTripSafe, PTL

\* A watcher does not outlive its job (signBidirectional.ts:211-215).
THEOREM WatchersEnd == Spec => []WatchersEndWithTheirJob
<1>1. RoundTripInv => WatchersEndWithTheirJob
  BY DEF RoundTripInv, JobOK, WatcherOfState, WatchersEndWithTheirJob, Live, Over
<1> QED
  BY <1>1, RoundTripSafe, PTL

\* A stage that failed adds nothing to its own figures (stats.ts:58-61).
THEOREM FailuresAreFiltered == Spec => []StagesFilterFailures
<1>1. RoundTripInv => StagesFilterFailures
  BY DEF RoundTripInv, JobOK, FailureOf, StagesFilterFailures
<1> QED
  BY <1>1, RoundTripSafe, PTL

\* The records' times are there when the statistics are taken.
THEOREM RecordsAreTimed == Spec => []StatsInv
<1>1. Init => StatsInv
  <2> SUFFICES ASSUME Init PROVE StatsInv
    OBVIOUS
  <2>1. \A j \in Jobs : state[j] = "none"
    BY DEF Init
  <2>2. Accepted = {}
    BY <2>1 DEF Accepted
  <2> QED
    BY <2>1, <2>2, FS_EmptySet DEF StatsInv, TimedJob
<1>2. RoundTripInv /\ StatsInv /\ [Next]_vars => StatsInv'
  BY StatsStep
<1> QED
  BY <1>1, <1>2, RoundTripSafe, PTL DEF Spec

\* /stats counts each job once, and its figures for the total are of the successes
\* and are what they are called (stats.ts:4-28, :62-67, :76-88).
THEOREM StatisticsAreExact == Spec => []StatsAreExact
<1>1. ASSUME RoundTripInv, StatsInv PROVE StatsAreExact
  <2> DEFINE done == Succeeded(Accepted, state)
             failed == {j \in Accepted : state[j] = "failed"}
             total == Collect(done, timings, "acceptedAt", "finishedAt")
  <2>1. ASSUME NEW j \in done
        PROVE  timings[j].acceptedAt # None /\ timings[j].finishedAt # None
    BY <1>1 DEF StatsInv, TimedJob, Succeeded, Accepted
  <2>2. DOMAIN total = done
    BY <2>1 DEF Collect
  <2>3. done \in SUBSET Accepted /\ failed \in SUBSET Accepted /\ Live \in SUBSET Accepted
    BY DEF Succeeded, Accepted, Live, Over
  <2>4. IsFiniteSet(done) /\ IsFiniteSet(failed) /\ IsFiniteSet(Live)
    BY <1>1, <2>3, FS_Subset DEF StatsInv
  <2>5. Cardinality(Accepted) = Cardinality(done) + Cardinality(failed) + Cardinality(Live)
    <3>1. Accepted = (done \cup failed) \cup Live
      BY DEF Succeeded, Accepted, Live, Over
    <3>2. done \cap failed = {} /\ (done \cup failed) \cap Live = {}
      BY DEF Succeeded, Live, Over
    <3> HIDE DEF done, failed
    <3>3. /\ IsFiniteSet(done \cup failed)
          /\ Cardinality(done \cup failed) = Cardinality(done) + Cardinality(failed)
      BY <2>4, <3>2, DisjointUnion, Zenon
    <3>4. Cardinality((done \cup failed) \cup Live) = Cardinality(done \cup failed) + Cardinality(Live)
      BY <2>4, <3>2, <3>3, DisjointUnion, Zenon
    <3> QED
      BY <3>1, <3>3, <3>4
  <2>6. Summarize(total).count = Cardinality(DOMAIN total) /\ SummaryOf(total)
    <3>1. "acceptedAt" \in Stamps /\ "finishedAt" \in Stamps
      BY DEF Stamps
    <3> HIDE DEF done
    <3> QED
      BY <1>1, <2>3, <3>1, SpansAreSummarized
  <2> HIDE DEF total, done, failed
  <2>7. /\ ModeStats(Accepted, state, timings).total = Cardinality(Accepted)
        /\ ModeStats(Accepted, state, timings).succeeded = Cardinality(done)
        /\ ModeStats(Accepted, state, timings).failed = Cardinality(failed)
        /\ ModeStats(Accepted, state, timings).latencies.totalMs = Summarize(total)
    BY DEF ModeStats, Latencies, total, done, failed
  <2> QED
    BY <2>2, <2>5, <2>6, <2>7 DEF StatsAreExact, SummaryOf, Accepted, total, done
<1>2. RoundTripInv /\ StatsInv => StatsAreExact
  BY <1>1
<1> QED
  BY <1>2, RoundTripSafe, RecordsAreTimed, PTL

\* So are the figures of every stage, and no stage's maximum exceeds its budget.
ReportsAreExact ==
    LET latencies == ModeStats(Accepted, state, timings).latencies
        Spans(from, to) == Collect(Accepted, timings, from, to)
        Exact(summary, values) ==
            /\ summary = Summarize(values) /\ summary.count = Cardinality(DOMAIN values)
            /\ SummaryOf(values)
        Within(summary, budget) == summary.count > 0 => summary.max <= budget
    IN  /\ Exact(latencies.leaseWaitMs, Spans("acceptedAt", "leaseAcquiredAt"))
        /\ Exact(latencies.signatureMs, Spans("signSentAt", "signatureAt"))
        /\ Exact(latencies.confirmationMs, Spans("broadcastAt", "confirmedAt"))
        /\ Exact(latencies.respondMs, Spans("confirmedAt", "respondedAt"))
        /\ Within(latencies.signatureMs, SignatureTimeout)
        /\ Within(latencies.confirmationMs, EthConfirmTimeout)
        /\ Within(latencies.respondMs, RespondTimeout)

LEMMA StageIsExact ==
    ASSUME RoundTripInv, StatsInv, SpansWithinBudgets,
           NEW stage \in {<<"acceptedAt", "leaseAcquiredAt">>, <<"signSentAt", "signatureAt">>,
                          <<"broadcastAt", "confirmedAt">>, <<"confirmedAt", "respondedAt">>}
    PROVE  LET spans == Collect(Accepted, timings, stage[1], stage[2])
               summary == Summarize(spans)
               all == Collect(Jobs, timings, stage[1], stage[2])
           IN  /\ summary.count = Cardinality(DOMAIN spans) /\ SummaryOf(spans)
               /\ summary.count > 0 => \E j \in DOMAIN all : summary.max = all[j]
<1> DEFINE spans == Collect(Accepted, timings, stage[1], stage[2])
           all == Collect(Jobs, timings, stage[1], stage[2])
<1>1. stage[1] \in Stamps /\ stage[2] \in Stamps
  BY DEF Stamps
<1>2. Summarize(spans).count = Cardinality(DOMAIN spans) /\ SummaryOf(spans)
  BY <1>1, SpansAreSummarized
<1>3. \A j \in DOMAIN spans : j \in DOMAIN all /\ spans[j] = all[j]
  BY DEF Collect, Accepted
<1>4. Summarize(spans).count > 0 => \E j \in DOMAIN spans : Summarize(spans).max = spans[j]
  BY <1>2 DEF SummaryOf
<1> HIDE DEF spans, all
<1>5. Summarize(spans).count > 0 => \E j \in DOMAIN all : Summarize(spans).max = all[j]
  BY <1>3, <1>4
<1> QED
  BY <1>2, <1>5 DEF spans, all

\* The figures of every stage are exact and within its budget (stats.ts:45-61).
THEOREM ReportsStayWithinBudgets == Spec => []ReportsAreExact
<1>1. ASSUME RoundTripInv, StatsInv, SpansWithinBudgets PROVE ReportsAreExact
  <2> DEFINE stages == {<<"acceptedAt", "leaseAcquiredAt">>, <<"signSentAt", "signatureAt">>,
                        <<"broadcastAt", "confirmedAt">>, <<"confirmedAt", "respondedAt">>}
             Spans(stage) == Collect(Accepted, timings, stage[1], stage[2])
             All(stage) == Collect(Jobs, timings, stage[1], stage[2])
             figures == ModeStats(Accepted, state, timings).latencies
  <2>1. ASSUME NEW stage \in stages
        PROVE  /\ Summarize(Spans(stage)).count = Cardinality(DOMAIN Spans(stage))
               /\ SummaryOf(Spans(stage))
               /\ Summarize(Spans(stage)).count > 0 =>
                    \E j \in DOMAIN All(stage) : Summarize(Spans(stage)).max = All(stage)[j]
    BY <1>1, StageIsExact
  <2>2. /\ figures.leaseWaitMs = Summarize(Spans(<<"acceptedAt", "leaseAcquiredAt">>))
        /\ figures.signatureMs = Summarize(Spans(<<"signSentAt", "signatureAt">>))
        /\ figures.confirmationMs = Summarize(Spans(<<"broadcastAt", "confirmedAt">>))
        /\ figures.respondMs = Summarize(Spans(<<"confirmedAt", "respondedAt">>))
    BY DEF ModeStats, Latencies
  <2>3. /\ \A j \in DOMAIN All(<<"signSentAt", "signatureAt">>) :
            All(<<"signSentAt", "signatureAt">>)[j] <= SignatureTimeout
        /\ \A j \in DOMAIN All(<<"broadcastAt", "confirmedAt">>) :
            All(<<"broadcastAt", "confirmedAt">>)[j] <= EthConfirmTimeout
        /\ \A j \in DOMAIN All(<<"confirmedAt", "respondedAt">>) :
            All(<<"confirmedAt", "respondedAt">>)[j] <= RespondTimeout
    BY <1>1 DEF SpansWithinBudgets
  <2> HIDE DEF All, figures
  <2>4. /\ figures.signatureMs.count > 0 => figures.signatureMs.max <= SignatureTimeout
        /\ figures.confirmationMs.count > 0 => figures.confirmationMs.max <= EthConfirmTimeout
        /\ figures.respondMs.count > 0 => figures.respondMs.max <= RespondTimeout
    <3> HIDE DEF Spans
    <3> QED
      BY <2>1, <2>2, <2>3
  <2> QED
    BY <2>1, <2>2, <2>4 DEF ReportsAreExact, figures
<1>2. RoundTripInv /\ StatsInv /\ SpansWithinBudgets => ReportsAreExact
  BY <1>1
<1> QED
  BY <1>2, RoundTripSafe, RecordsAreTimed, LatenciesAreWithinBudgets, PTL

\* A step seen by a client of the job records.
LEMMA StepIsSeen ==
    ASSUME RoundTripInv, [Next]_vars
    PROVE  [Lifecycle!Next]_<<state, failureReason>>
<1>1. TypeOK' 
  BY StepInv DEF RoundTripInv
<1>2. ASSUME NEW j \in Jobs, JobStep(j) PROVE \A q \in Jobs : Seen(q)
  BY <1>2, JobStepKept DEF Kept, Moves, Seen, Lifecycle!Stays
<1>3. CASE \E j \in Jobs : JobStep(j)
  BY <1>1, <1>2, <1>3 DEF TypeOK, Seen, Lifecycle!Next
<1>4. CASE Shutdown \/ Tick \/ UNCHANGED vars
  BY <1>4 DEF Shutdown, Tick, vars
<1> QED
  BY <1>3, <1>4 DEF Next

\* The clocked jobs implement the lifecycle a client relies on (store.ts:5-38).
THEOREM ClocksKeepTheLifecycle == Spec => LifecycleSpec
<1>1. Init => Lifecycle!Init
  BY DEF Init, Lifecycle!Init
<1>2. RoundTripInv /\ [Next]_vars => [Lifecycle!Next]_<<state, failureReason>>
  BY StepIsSeen
<1>3. RoundTripInv /\ [Next]_vars => [Lifecycle!Next]_Lifecycle!lifecycleVars
  BY <1>2 DEF Lifecycle!lifecycleVars
<1> QED
  BY <1>1, <1>3, RoundTripSafe, PTL DEF Spec, LifecycleSpec, Lifecycle!Spec

\* No timer and no shutdown takes an event back once it was delivered
\* (signBidirectional.ts:348-349, :496-505).
THEOREM DeliveredIsNotLost == Spec => DeliveredIsKept
<1>1. ASSUME RoundTripInv, [Next]_vars, NEW j \in Jobs, watcher[j] = "delivered"
      PROVE  failureReason'[j] # "respond_timeout"
  <2>1. failureReason[j] = None /\ NoReason
    BY <1>1, NoneIsNoReason DEF RoundTripInv, JobOK, WatcherOfState, FailureOf
  <2>2. CASE failureReason'[j] = failureReason[j]
    BY <2>1, <2>2 DEF NoReason
  <2>3. ASSUME NEW q \in Jobs, JobStep(q), failureReason'[j] # failureReason[j]
        PROVE  failureReason'[j] # "respond_timeout"
    <3>1. q = j
      BY <2>3, <1>1, JobStepKept DEF Kept, Moves
    <3>2. Lifecycle!Fails(j)
      BY <1>1, <2>3, <3>1, JobStepKept
      DEF Kept, Seen, Lifecycle!Stays, Lifecycle!Advances
    <3>3. failureReason'[j] = "respond_timeout" => state[j] = "confirmed" /\ state'[j] = "failed"
      BY <3>2, Names DEF Lifecycle!Fails
    <3>4. state[j] = "confirmed" /\ state'[j] = "failed" => Responded(j)
      <4>1. \A next : next # "failed" /\ (\E stamps : Update(j, next, stamps)) => state'[j] # "failed"
        BY <1>1 DEF Update, RoundTripInv, TypeOK
      <4> QED
        BY <2>3, <3>1, <4>1 DEF JobStep, Accept, Leased, FailsEarly, SignSent, Signed,
            SignatureTimesOut, SignatureDue, AwaitsSignature, Verified, Broadcast, Confirmed,
            ReceiptTimesOut, ReceiptDue, Deliver, WatcherRejects
    <3>5. Responded(j) => failureReason'[j] # "respond_timeout"
      <4> SUFFICES ASSUME Responded(j) PROVE failureReason'[j] # "respond_timeout"
        OBVIOUS
      <4>1. \/ FailWith(j, "respond_mismatch", {"respondedAt"})
            \/ UNCHANGED failureReason
        BY <1>1 DEF Responded
      <4> QED
        BY <1>1, <2>1, <4>1 DEF FailWith, RoundTripInv, TypeOK, NoReason
    <3> QED
      BY <3>3, <3>4, <3>5
  <2> QED
    BY <1>1, <2>2, <2>3 DEF Next, Shutdown, Tick, vars
<1>2. RoundTripInv /\ [Next]_vars =>
        [\A j \in Jobs : watcher[j] = "delivered" => failureReason'[j] # "respond_timeout"]_vars
  BY <1>1
<1> QED
  BY <1>2, RoundTripSafe, PTL DEF Spec, DeliveredIsKept
=============================================================================
