----------------------------- MODULE LoadDriver -----------------------------
(***************************************************************************)
(* scripts/loadtest.ts against the service: it submits jobs, sleeps when   *)
(* it is told 429, then polls every job until each has finished or is      *)
(* given up as lost.  Other clients post beside it, and the process can be *)
(* restarted, which empties the store and the limiter.                     *)
(*                                                                         *)
(* A job id is a UUID: here the number of the process that issued it and   *)
(* the job's place in that process's store.                                *)
(***************************************************************************)
EXTENDS Admission

CONSTANTS
    NumJobs,        \* --jobs
    MaxMisses,      \* MAX_MISSES
    ActiveWait,     \* retryAfterMs of a 429 at the active ceiling
    RespondWait,    \* retryAfterMs of a 429 at the respond ceiling
    Slack,          \* what the driver adds to every retryAfterMs
    MaxRecords,     \* bound: other clients post until a process has this many jobs
    MaxRestarts     \* bound: restarts of the service

ASSUME DriverAssumption ==
    /\ NumJobs \in Nat \ {0}
    /\ MaxMisses \in Nat \ {0}
    /\ {ActiveWait, RespondWait, Slack, MaxRecords, MaxRestarts} \subseteq Nat

VARIABLES
    phase,          \* where the driver is
    wakeAt,         \* when it wakes from a back-off
    jobIds,         \* the ids it was given
    toPoll,         \* jobs it has yet to ask for in this round of polls
    missing,        \* polls in a row whose answer for each job was not ok
    finished,       \* what it reports of each job, "none" until it is over
    process,        \* which process of the service is running
    owed,           \* history: the limiter refused the driver, and has admitted
                    \* nobody since
    unserved        \* history: polls for each job since the last good answer that
                    \* were misses although the process had its record

driverVars == <<phase, wakeAt, jobIds, toPoll, missing, finished, unserved>>
loadVars == <<vars, driverVars, process, owed>>

Submitted == 1..NumJobs

LoadInit ==
    /\ Init
    /\ phase = "submit"
    /\ wakeAt = 0
    /\ jobIds = <<>>
    /\ toPoll = {}
    /\ missing = [i \in Submitted |-> 0]
    /\ finished = [i \in Submitted |-> "none"]
    /\ process = 1
    /\ owed = FALSE
    /\ unserved = [i \in Submitted |-> 0]

(***************************************************************************)
(* Submission.                                                             *)
(***************************************************************************)
BackOff_at_once(ms) ==
    /\ phase' = "backoff"
    /\ wakeAt' = now
    /\ UNCHANGED jobIds
BackOff(ms) ==
    /\ phase' = "backoff"
    /\ wakeAt' = now + ms + Slack
    /\ UNCHANGED jobIds

Submit ==
    /\ phase = "submit" /\ Len(jobIds) < NumJobs
    /\ \/ AtCapacity = "active" /\ UNCHANGED vars /\ BackOff(ActiveWait) /\ UNCHANGED owed
       \/ AtCapacity = "awaiting_respond" /\ UNCHANGED vars /\ BackOff(RespondWait) /\ UNCHANGED owed
       \/ /\ AtCapacity = "none" /\ Admit /\ Create
          /\ jobIds' = Append(jobIds, [process |-> process, job |-> Len(record')])
          /\ owed' = FALSE
          /\ UNCHANGED <<phase, wakeAt>>
       \/ /\ AtCapacity = "none" /\ Refuse /\ UNCHANGED storeVars
          /\ BackOff(RetryAfterMs(hits', now))
          /\ owed' = TRUE
    /\ UNCHANGED <<toPoll, missing, finished, unserved, process>>

WakeUp ==
    /\ phase = "backoff" /\ now >= wakeAt
    /\ phase' = "submit"
    /\ wakeAt' = 0
    /\ UNCHANGED <<vars, jobIds, toPoll, missing, finished, unserved, process, owed>>

AllSubmitted ==
    /\ phase = "submit" /\ Len(jobIds) = NumJobs
    /\ phase' = "sleep"
    /\ UNCHANGED <<vars, wakeAt, jobIds, toPoll, missing, finished, unserved, process, owed>>

(***************************************************************************)
(* Polling, one round after another.                                       *)
(***************************************************************************)
StartRound ==
    /\ phase = "sleep"
    /\ phase' = "poll"
    /\ toPoll' = {i \in Submitted : finished[i] = "none"}
    /\ UNCHANGED <<vars, wakeAt, jobIds, missing, finished, unserved, process, owed>>

\* GET /sign_bidirectional/:jobId knows the jobs of the running process's store.
Known(id) == id.process = process /\ id.job \in stored
Over(id) == record[id.job].state = "finished"

Poll_keeps_misses(i) ==
    LET id == jobIds[i] IN
    \/ /\ Known(id)
       /\ finished' = [finished EXCEPT ![i] = IF Over(id) THEN "over" ELSE @]
       /\ unserved' = [unserved EXCEPT ![i] = 0]
       /\ UNCHANGED missing
    \/ /\ missing' = [missing EXCEPT ![i] = @ + 1]
       /\ finished' = [finished EXCEPT ![i] =
            IF missing'[i] >= MaxMisses THEN "lost_by_server" ELSE @]
       /\ unserved' = [unserved EXCEPT ![i] = IF Known(id) THEN @ + 1 ELSE @]
Poll_forever(i) ==
    LET id == jobIds[i] IN
    /\ finished' = [finished EXCEPT ![i] = IF Known(id) /\ Over(id) THEN "over" ELSE @]
    /\ UNCHANGED <<missing, unserved>>
\* Any answer that is not ok is a miss: the 404 for a job the process does not know,
\* and whatever else the service or a proxy before it may answer (401, 500, 502).
Poll(i) ==
    LET id == jobIds[i] IN
    \/ /\ Known(id)
       /\ finished' = [finished EXCEPT ![i] = IF Over(id) THEN "over" ELSE @]
       /\ missing' = [missing EXCEPT ![i] = 0]
       /\ unserved' = [unserved EXCEPT ![i] = 0]
    \/ /\ missing' = [missing EXCEPT ![i] = @ + 1]
       /\ finished' = [finished EXCEPT ![i] =
            IF missing'[i] >= MaxMisses THEN "lost_by_server" ELSE @]
       /\ unserved' = [unserved EXCEPT ![i] = IF Known(id) THEN @ + 1 ELSE @]

PollNext ==
    /\ phase = "poll"
    /\ \E i \in toPoll :
        /\ \A k \in toPoll : i <= k
        /\ Poll(i)
        /\ toPoll' = toPoll \ {i}
    /\ phase' = IF toPoll' # {} THEN "poll"
                ELSE IF \E i \in Submitted : finished'[i] = "none" THEN "sleep"
                ELSE "report"
    /\ UNCHANGED <<vars, wakeAt, jobIds, process, owed>>

\* The report ends with GET /sign_bidirectional/stats, and the driver exits.
Report ==
    /\ phase = "report"
    /\ Stats
    /\ phase' = "exit"
    /\ UNCHANGED <<wakeAt, jobIds, toPoll, missing, finished, unserved, process, owed>>

\* A request that throws, or a submission answered with neither 202 nor 429: exit 1.
RequestFails ==
    /\ phase \in {"submit", "poll", "report"}
    /\ phase' = "exit"
    /\ UNCHANGED <<vars, wakeAt, jobIds, toPoll, missing, finished, unserved, process, owed>>

Driver ==
    \/ Submit \/ WakeUp \/ AllSubmitted \/ StartRound \/ PollNext \/ Report
    \/ RequestFails

(***************************************************************************)
(* The service, its other clients, and its restarts.                       *)
(***************************************************************************)
OtherPost ==
    /\ Len(record) < MaxRecords
    /\ Post
    /\ owed' = (owed /\ admitted' = admitted)
    /\ UNCHANGED <<driverVars, process>>

Service ==
    /\ Stats \/ JobConfirmed \/ JobFinished \/ (Tick /\ UNCHANGED storeVars)
    /\ UNCHANGED <<driverVars, process, owed>>

Restart ==
    /\ process <= MaxRestarts
    /\ process' = process + 1
    /\ hits' = <<>> /\ admitted' = <<>>
    /\ record' = <<>> /\ stored' = {}
    /\ UNCHANGED <<now, driverVars, owed>>

\* The behaviours end with the driver.
LoadNext ==
    \/ phase # "exit" /\ (Driver \/ OtherPost \/ Service \/ Restart)
    \/ phase = "exit" /\ UNCHANGED loadVars

LoadSpec == LoadInit /\ [][LoadNext]_loadVars

\* Requests are answered or throw, sleeps end, and every job of the service ends
\* (EveryJobEnds of SignBidirectional).  Nothing is assumed of the clock.
LoadFairness ==
    /\ WF_loadVars(Driver)
    /\ WF_loadVars(JobFinished /\ UNCHANGED <<driverVars, process, owed>>)

FairLoadSpec == LoadSpec /\ LoadFairness

-----------------------------------------------------------------------------
(***************************************************************************)
(* Properties                                                              *)
(***************************************************************************)

\* "the server ... tells us exactly how long to wait" (loadtest.ts:85-86): once it
\* has slept off a refusal of the limiter, the driver is not refused by it again,
\* unless another client took the slot meanwhile.
RetryIsEnough == phase = "submit" /\ owed /\ Limit > 0 => HasRoom(Prune(hits, now))

\* The report says of a lost job that the server restarted or the record was pruned
\* (loadtest.ts:154), but counts every answer that is not ok.  A job is reported lost
\* only if the server has restarted, or the record was pruned, which takes Retained
\* jobs that finished after it, or else MaxMisses polls failed, with no good answer
\* between them, although the record was there.  So one 404 among the misses is enough
\* for the report to be true.
LostHasACause ==
    \A i \in Submitted :
        LET id == jobIds[i] IN
        finished[i] = "lost_by_server" =>
            \/ id.process # process
            \/ /\ Over(id)
               /\ Cardinality({k \in DOMAIN record :
                    record[k].state = "finished" /\ SortsAfter(record, id.job, k)}) >= Retained
            \/ unserved[i] >= MaxMisses

\* No job is polled forever, not even one the server has forgotten
\* (loadtest.ts:128-130).
PollingEnds == phase = "sleep" ~> phase = "exit"
=============================================================================
