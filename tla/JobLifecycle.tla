---------------------------- MODULE JobLifecycle ----------------------------
(***************************************************************************)
(* What a client that polls GET /sign_bidirectional/:jobId may rely on:    *)
(* the states of src/jobs/store.ts, in the order a job goes through them,  *)
(* and the reasons it can fail for in each.  A failure is final and tells  *)
(* how far the round trip got.                                             *)
(***************************************************************************)
CONSTANTS
    Jobs,
    None            \* the reason of a job that has not failed

VARIABLES
    state,          \* JobRecord.state; "none" before the job is accepted
    reason          \* JobRecord.failureReason

lifecycleVars == <<state, reason>>

\* `sign_sent` is left out: `run` overwrites it before its next await, so no
\* request ever sees it.
NextState ==
    [none |-> "pending",
     pending |-> "awaiting_signature",
     awaiting_signature |-> "verified",
     verified |-> "broadcast",
     broadcast |-> "confirmed",
     confirmed |-> "responded"]

ReasonsIn ==
    [pending |->
        {"all_workers_busy", "all_workers_underfunded", "preflight_underfunded",
         "shutdown", "internal_error"},
     awaiting_signature |-> {"signature_timeout", "derivation_mismatch", "internal_error"},
     verified |-> {"broadcast_failed"},
     broadcast |-> {"confirmation_timeout", "transaction_reverted"},
     confirmed |-> {"respond_timeout", "respond_mismatch"}]

States == DOMAIN NextState \cup {"responded", "failed"}
Reasons == UNION {ReasonsIn[s] : s \in DOMAIN ReasonsIn}

Init ==
    /\ state = [j \in Jobs |-> "none"]
    /\ reason = [j \in Jobs |-> None]

Stays(j) == state'[j] = state[j] /\ reason'[j] = reason[j]

Advances(j) ==
    /\ state[j] \in DOMAIN NextState
    /\ state'[j] = NextState[state[j]]
    /\ reason'[j] = reason[j]

Fails(j) ==
    /\ state[j] \in DOMAIN ReasonsIn
    /\ state'[j] = "failed"
    /\ reason'[j] \in ReasonsIn[state[j]]

\* One turn of the event loop can move several jobs: a shutdown fails all that
\* are parked, a failed derivation all that await it.
Next ==
    /\ state' \in [Jobs -> States]
    /\ reason' \in [Jobs -> Reasons \cup {None}]
    /\ \A j \in Jobs : Stays(j) \/ Advances(j) \/ Fails(j)

Spec == Init /\ [][Next]_lifecycleVars
=============================================================================
