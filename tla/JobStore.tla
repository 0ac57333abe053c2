------------------------------ MODULE JobStore ------------------------------
(***************************************************************************)
(* The in-memory job records of src/jobs/store.ts.  A job is the position  *)
(* at which it was created, so the insertion order of the Map is the order *)
(* of the positions.  The eight states matter to the store in three        *)
(* groups: `active` up to the confirmation, `confirmed`, and `finished`    *)
(* (responded or failed).                                                  *)
(***************************************************************************)
EXTENDS Integers, Sequences, FiniteSets

CONSTANTS
    MaxActiveJobs,  \* ceiling on jobs holding an address
    MaxJobs,        \* ceiling on jobs awaiting the respond
    Retained        \* finished records kept

ASSUME StoreAssumption ==
    /\ MaxActiveJobs \in Nat
    /\ MaxJobs \in Nat
    /\ Retained \in Nat \ {0}

VARIABLES
    record,         \* every job ever created: its state and finishing time
    stored          \* the jobs still in the Map

storeVars == <<record, stored>>

StoreInit ==
    /\ record = <<>>
    /\ stored = {}

\* Sets of stored jobs, given the records and the Map.
In(rec, kept, state) == {i \in kept : rec[i].state = state}

ActiveCount == Cardinality(In(record, stored, "active"))
AwaitingRespondCount == Cardinality(In(record, stored, "confirmed"))

AtCapacity_off_by_one ==
    IF ActiveCount > MaxActiveJobs THEN "active"
    ELSE IF AwaitingRespondCount > MaxJobs THEN "awaiting_respond"
    ELSE "none"
AtCapacity ==
    IF ActiveCount >= MaxActiveJobs THEN "active"
    ELSE IF AwaitingRespondCount >= MaxJobs THEN "awaiting_respond"
    ELSE "none"

\* prune() sorts the finished jobs by finishing time, stably, and drops all but
\* the last Retained: a job stays as long as fewer than Retained come after it.
SortsAfter(rec, i, k) ==
    \/ rec[k].finishedAt > rec[i].finishedAt
    \/ rec[k].finishedAt = rec[i].finishedAt /\ k > i

Pruned_oldest_kept(rec, kept) ==
    LET finished == In(rec, kept, "finished")
    IN  {i \in kept :
            i \in finished =>
                Cardinality({k \in finished : SortsAfter(rec, k, i)}) < Retained}
Pruned(rec, kept) ==
    LET finished == In(rec, kept, "finished")
    IN  {i \in kept :
            i \in finished =>
                Cardinality({k \in finished : SortsAfter(rec, i, k)}) < Retained}

Create_wrong_id ==
    /\ record' = Append(record, [state |-> "active", finishedAt |-> 0])
    /\ stored' = stored \cup {Len(record') + 1}
Create ==
    /\ record' = Append(record, [state |-> "active", finishedAt |-> 0])
    /\ stored' = Pruned(record', stored \cup {Len(record')})

\* update() to `confirmed`.
Confirm(i) ==
    /\ i \in In(record, stored, "active")
    /\ record' = [record EXCEPT ![i].state = "confirmed"]
    /\ UNCHANGED stored

\* update() to `responded`, or fail(), at time t.
Finish(i, t) ==
    /\ i \in In(record, stored, "active") \cup In(record, stored, "confirmed")
    /\ record' = [record EXCEPT ![i] = [state |-> "finished", finishedAt |-> t]]
    /\ stored' = Pruned(record', stored)

-----------------------------------------------------------------------------
(***************************************************************************)
(* Properties                                                              *)
(***************************************************************************)

\* Every record has its type, and the Map holds created jobs.
StoreTypeOK ==
    /\ record \in Seq([state : {"active", "confirmed", "finished"}, finishedAt : Nat])
    /\ stored \subseteq DOMAIN record

\* Pruning never loses a job that is still running, and the finished jobs it
\* drops are older than every finished job it keeps (store.ts:112-122), of which
\* at most Retained are left and exactly that many once any was dropped.
RecordsKept ==
    LET dropped == DOMAIN record \ stored
        kept == In(record, stored, "finished")
    IN  /\ \A i \in dropped : record[i].state = "finished"
        /\ \A i \in dropped, k \in kept : SortsAfter(record, i, k)
        /\ Cardinality(kept) <= Retained
        /\ dropped # {} => Cardinality(kept) = Retained

\* No more jobs hold an address, or wait for one, than the active ceiling allows.
ActiveCeiling == ActiveCount <= MaxActiveJobs

\* What the two ceilings really bound is their sum: a job is only accepted below
\* both, but nothing is checked when it moves from one count to the other.
LiveCeiling ==
    ActiveCount + AwaitingRespondCount <=
        IF MaxActiveJobs = 0 \/ MaxJobs = 0 THEN 0 ELSE MaxActiveJobs + MaxJobs - 1

\* README.md:146-147: MAX_JOBS "bounds how many respond waits pile up".
RespondCeiling == AwaitingRespondCount <= MaxJobs
=============================================================================
