# Verification of contract-pinger

TLA+ models, TLC runs and TLAPS proofs for the signing service in `src/`
(source paths below are relative to the repository root). The service sends
`sign_bidirectional` requests to an MPC network on Solana, broadcasts what the
network signs on Ethereum, and waits for the network to read the result back.
What makes it hard is a pool of Ethereum addresses with one nonce each, shared
by background jobs that overlap at every `await`.

## 1. The system

| Component | State | Operations | Talks to |
|---|---|---|---|
| Worker pool, `src/utils/workerPool.ts` | per address: `busy`, `underfunded`, `pendingNonce`, `balanceWei`; the queue `waiters` | `acquire`, `acquireWithin`, `release`/`handOff`, `setBalance`, `quarantine`, `reconcile`, `rejectWaiters` | called by jobs and by `/workers` |
| Job, `src/handlers/signBidirectional.ts` | one `run` per job: phase, lease, built transaction, the `watches` controller; the memoized `addressesReady` | `start`, `run`, `ensureAddresses`, `refreshBalances`, `refreshUnderfunded`, `reconcileQuarantined`, `abortActiveJobs` | pool, store, Ethereum node, Solana |
| Job store, `src/jobs/store.ts` | a Map of records | `create`, `update`, `fail`, `prune`, `atCapacity` | jobs, the endpoints |
| Rate limiter, `src/utils/rateLimiter.ts` | `hits` | `tryAcquire`, `retryAfterMs`, `used` | `POST`, `/stats` |
| HTTP endpoints, `src/index.ts` | none of their own | `POST /sign_bidirectional`, `GET …/workers`, `…/stats`, `…/:jobId`, `/ping`, `/eth_balance`, SIGTERM | all of the above |
| Statistics, `src/jobs/stats.ts` | none | `buildStats` | store, limiter, pool |
| Transactions and derivation, `src/utils/bidirectionalTx.ts`, `derivation.ts`, `signBidirectionalIx.ts` | none | `buildTransaction`, `attachSignature`, `deriveWorkerAddresses` | Ethereum node, Solana |
| Ping, `src/handlers/ethereum.ts`, `solana.ts`, `src/utils/evmTransactions.ts`, `initEvm.ts`, `initSolana.ts` | a rotation over five keys, cached clients | one transaction per request | Ethereum node, Solana |
| Funding sweep, `scripts/fund-workers.ts` | one run, with its spend caps | derive, cross-check, top up | Ethereum node, `/workers` |
| Load driver, `scripts/loadtest.ts` | one run | submit, back off on 429, poll | the endpoints |
| Configuration, `src/utils/env.ts` | none | parse | everything |

JavaScript runs one thing at a time, so the only interleaving is at `await`s
and timers. There the behaviour is hard: a value read from the node is applied
after the pool has moved on; a call that throws may have taken effect; timers
race with answers; a shutdown lands in any phase; a release serves several
parked jobs at once. `PROJECT.json` lists each such place under `hazards`.

What makes each component correct:

- pool: an address has one holder; a withheld or underfunded address is never
  handed out; a release never leaves a usable address beside a parked caller,
  and serves the queue in order;
- job: the lease is held exactly in the phases that need it and given back on
  every path; an address whose transaction is unsettled is watched or withheld;
  no nonce is signed twice; every accepted job ends;
- store: a running job's record is never pruned, the oldest finished ones go
  first; the ceilings bound what they say they bound;
- sweep: caps and reserve hold whatever the service spends meanwhile; success
  means that every transfer arrived; a pool that is not the service's is not
  funded;
- limiter: no window admits more than the limit; `Retry-After` is exact;
- record: it passes through the states in order, and a failure says how far the
  round trip got; a timer never fires before its budget is used;
- restart: everything the process knew is gone, so whatever could then go wrong
  has to be something the pool was withholding;
- ping: two transactions take one nonce only if they really overlapped, and two of
  one key slot overlap only if a whole rotation passes the first;
- load driver: a retry that was slept off is admitted, polling ends, and a job is
  reported lost only for one of three causes: a restart, the store's limit, or
  enough answers in a row that were not ok.

## 2. The modules

| Module | Models | Used by |
|---|---|---|
| `WorkerPool` | the pool, as an abstract specification `PoolSpec` of all legal sequences of calls | `MCWorkerPool`, `SignBidirectional` |
| `JobLifecycle` | what a client sees of a record, as an abstract specification | `SignBidirectional`, `RoundTrip` |
| `SignBidirectional` | jobs, diagnostics requests, shutdown, the Ethereum node, over the pool | `MCSignBidirectional`, `SignRestart` |
| `SignRestart` | the same service, with restarts of its process | `MCSignRestart` |
| `Stats` | `buildStats` as operators on the records | `RoundTrip` |
| `RoundTrip` | the timers and timestamps of a job, and the statistics over them | `MCRoundTrip` |
| `RateLimiter` | the sliding window | `Admission` |
| `JobStore` | the records and the ceilings | `Admission` |
| `Admission` | `POST /sign_bidirectional`: store and limiter together | `LoadDriver`, the run `admission_respond` |
| `LoadDriver` | the load test against `Admission`, with other clients and restarts | the run `admission` |
| `Ping` | the overlapping requests of `POST /ping`, and the accounts they share | `MCPing` |
| `FundWorkers` | the funding sweeps, beside a service that spends | `MCFundWorkers` |
| `MC…` | the symmetry sets and values of the instances | the runs |
| `WorkerPoolProofs`, `SignBidirectionalProofs`, `SignRestartProofs`, `RoundTripProofs`, `RateLimiterProofs`, `AdmissionProofs`, `PingProofs`, `FundWorkersProofs` | theorems, for every value of the constants | tlapm |

Abstract and detailed: `SignBidirectional` implements `PoolSpec` (the clients of
the pool are the jobs and the viewers) and `JobLifecycle`; `RoundTrip` implements
`JobLifecycle`; `Admission` implements `LimiterSpec`.

### WorkerPool

A worker is its position in the pool, because `acquire` scans in that order.
`busy`, `underfunded` and `quarantined` are the sets of workers with that flag
(`quarantined` is `pendingNonce !== undefined`; the nonce itself is only ever
displayed). `lease` records which worker `acquire` gave each caller, which the
code keeps in a local variable of the caller. Each method is one action. A flag
that a job sets in the same synchronous block that releases its lease
(`quarantine` before the `finally`, `setBalance` before it) is part of the
release action (`QuarantineAndRelease`, `SetBalanceAndRelease`), because the
hand-off at the end of `release` already sees it. `HandOff` is the `while` loop
of `handOff` as one choice: a *grant* is the sequence of addresses given to the
first waiters, each the first idle one left, and it stops only when the queue
or the idle addresses are used up.

### SignBidirectional

`pc` names the `await` an actor is parked at; a step runs from one `await` to
the next.

| `pc` | the `await` | lines of `signBidirectional.ts` |
|---|---|---|
| `derive` | `ensureAddresses` | 238, 101-123 |
| `reconcile` | the two counts of one quarantined address | 239, 161-175 |
| `refresh` | the balance of one underfunded address (a viewer: of each address) | 240, 144-151, 125-133 |
| `lease` | `acquireWithin`, parked | 244 |
| `preflight` | `getBalance` of the leased address | 256 |
| `build` | `buildTransaction` | 272 |
| `send` | `sendAndConfirm` on Solana | 342 |
| `signature` | the signature event | 395 |
| `broadcast` | `sendRawTransaction` | 423 |
| `receipt` | `waitForTransactionReceipt` | 443 |
| `respond` | the respond event | 496 |

Reads of the node have two halves, `Answer` (the node looks) and the step that
acts on the answer, so every stale read the code can make is a behaviour. The
node is external: it takes a transaction whose nonce is the next one
(`NodeAccepts`, replacing a pending one with that nonce), mines it, drops it, or
never sees it. With `LateDelivery` a transaction may reach the mempool after the
call that sent it has thrown, which is what the comment at 427-430 worries about.

Choices made:

- the two counts of `reconcileQuarantined` are answered separately (`Answer`,
  `AnswerLatest`), in either order, because `Promise.all` only waits for both;
- `buildTransaction` reads nonce, fees and estimate in one step. What can go
  stale, the nonce, is stale from then on in any case;
- `verify` and `broadcast` are one step: `attachSignature` only computes;
- a transaction that vanished is gone for good: nobody rebroadcasts it. Mined
  means buried under `confirmations` blocks: reorganisations are left out;
- when a transaction is replaced, the receipt of its replacement settles the
  wait (`HasReceipt`), which is how viem's `waitForTransactionReceipt` behaves;
- an exception while the service sets itself up (`solana()`) is the same
  `internal_error` as a failed derivation;
- one service (one environment) is modelled: services share no pool or store;
- a loop over no addresses still is a step, because `await` yields.

`exposed` is a history variable: the addresses that were returned to service on
an answer that counted nothing outstanding while a transaction of theirs could
still be mined. It separates the two ways a nonce can be signed twice: by an
answer of the node that missed the transaction, which the code cannot rule out,
and by a fault in the job's own steps, which `NonceSafeUnlessExposed` rules out.

### JobLifecycle

The contract of `GET /sign_bidirectional/:jobId`: the states of `store.ts:5-13`
in order, and for each the reasons a job can fail for in it. The mapping from
`SignBidirectional` computes the state from the phase and the reason
(`JobState`). `sign_sent` is not in it, because `run` overwrites it before the
next `await` and no request ever sees it. One turn of the event loop may move
several jobs (a shutdown, a failed derivation, a hand-off), so a step of the
abstract specification does.

### SignRestart

All state is in memory (`README.md:271-274`), so a restart, at any `await`,
empties the pool, the queue, the quarantines and the store, and leaves the node
as it was, including a call that is still under way. The jobs of the dead process
are `lost`. Every address with an unsettled transaction becomes `exposed`, in the
same sense as above: nothing in the new process withholds it. That is the price of
keeping no state, which the code accepts; the properties say that the price is
no higher than that.

### RoundTrip and Stats

`SignBidirectional` has no clock: there any timer may fire at any time.
`RoundTrip` leaves the pool and the node out and has the clock. Each record has
its eight timestamps, and each job the respond watcher, which is registered
before the broadcast with the sum of the three budgets and is aborted by a second
timer that starts at confirmation. Timers are exact: `Tick` waits for whatever is
due. The wait for a lease and the calls between two waits (the send on Solana,
the verification, the broadcast) take at most `CallTime`. The network may respond
before the service has seen its confirmations (`Deliver`), since it watches
Ethereum on its own. Shutdown rejects the watcher at once, and a job that was
broadcast or confirmed is then recorded as `respond_timeout`, which is why
`RespondBudget` excepts the aborted ones.

The wait for the receipt may fail before its time is up, on any error of the node,
and the record then says `confirmation_timeout` all the same. The wait for the
signature and the respond watcher belong to the library `signet.js` and are assumed
to reject only when their time is up or on an abort, as the comment at
`signBidirectional.ts:397-402` says of the network ("silence is the only failure
signal the network gives"). `RespondBudget` rests on that assumption: the catch
block would record any other rejection under the same reason.

`Stats` is `buildStats` for the jobs of one mode: the spans of those jobs that
have both timestamps, sorted, and the percentiles by index. `Sorted` takes any
numbering of the jobs with ascending values, since jobs with equal spans may come
in either order. `ceil`, rounding and
the copied fields are left out.

### RateLimiter, JobStore, Admission

`hits` is the limiter's array; `admitted` remembers every admission so that the
window can be judged from outside. A job in the store is its creation order,
which is the Map's iteration order; its state is `active` (the five states
before confirmation), `confirmed` or `finished`. `Admission` composes the two as
`POST` does: capacity, limiter, `create`.

### LoadDriver

`phase` is the `await` of `loadtest.ts`: submitting, sleeping off a 429, between
two rounds of polls, polling, reporting. A job id is the number of the process
that issued it and the job's place in that process's store, which is all that a
UUID is used for. The service answers a poll with 404 when the running process does
not have the record: it was pruned, or another process issued it. The driver counts a
miss for every answer that is not ok (`loadtest.ts:147`), and any poll may get one, a
401, a 500 or a proxy's 502 included, so the second disjunct of `Poll` does not look
at the record. A good answer resets the count. A submission answered with neither 202
nor 429, and any request that throws, ends the driver with exit 1 (`RequestFails`).
`OtherPost` is another client. A restart empties the store and the limiter. There
are two history variables: `owed`, the driver was refused by the limiter and nobody
was admitted since; and `unserved`, how many polls for a job since its last good
answer were misses although the record was there.

### Ping

A request draws the next of the key slots before it looks at anything
(`getEthereumSetup` in the handler), so one that then fails on its configuration
has moved the rotation. It then reads fees and nonce and sends, each an `await` at
which other requests and the deployed pinger, which uses the same keys, can get
in between. `pending` and `mined` are the node's two counts; the node takes a
transaction at or below the pending count, replacing one if it outbids it, or
refuses it. `racedBy` is the history of who had a transaction taken from the same
account between a request's read and its send, and `overtaken` counts the draws of
others while a request has not sent. A ping on Solana signs with a fresh
key pair and shares no state: one step. Eviction from the mempool and the retries
inside viem's transports are left out.

### FundWorkers

`pc` is the await of `main`: `check` (the cross-check), `read` and `verify` (the
balances before and after), `wallet` (estimate and wallet balance), `send`,
`receipt`. Sweeps follow one another (`Start`), as the workflows' concurrency
group has it, and every sweep may have another target, given by `--topup` or
not. `mempool` is the wallet's pending transfers in nonce order: a sweep that
gives up on a receipt, or whose `sendTransaction` throws late, leaves its
transfer there, and the next sweep's transfers queue behind it because viem
takes the nonce under `pending`. Balances are read under `latest`, so without
them. The service spends from the addresses at any time.

`Derived` and `Reports` are functions from paths to addresses; key and prefix
drift are values of `Reports` (`MCFundWorkers`). The fee is in units of a whole
transfer; each transfer's fee is chosen anew, as `sendTransaction` estimates it.
Left out: the checks that precede any call (the key, the chain id), a second
network (only a larger pool and a second cross-check of the same kind), a
deposit into the wallet, and a pending transfer that is evicted, which is no
worse than one that is never mined. The histories `overlapped` and `outbid`
mark the two ways in which the caps and the reserve are lost in the code.

## 3. The runs

Bounds are in the `.cfg` files.

| Run | Instance | Shows |
|---|---|---|
| `pool` | 4 callers, 3 addresses | the pool's contract under every legal sequence of calls |
| `sign_nonce` | 3 jobs, 2 addresses, late delivery, 1 restart | quarantine and nonces across restarts; shutdown |
| `sign_service` | 2 jobs, 1 viewer, 1 address, late delivery, balances 0/2, gas 1/3 | the service refines `PoolSpec` and `JobLifecycle`; every job ends and its address comes back |
| `round_trip` | 2 jobs, every budget 1, calls up to 1, clock to 3 | budgets, early responds, timestamps and statistics |
| `ping` | 4 pings, slots k1/empty/k1, 2 chains of which one has an RPC, 1 foreign transaction per account | when two transactions can take one nonce |
| `admission` | the driver's 2 jobs, others' posts up to 2 records per process, limit 2 per 2 ticks, clock to 3, ceilings 2 and 1, 2 records kept, 2 misses, 1 restart | window, `Retry-After`, ceilings, pruning; the driver's retries, losses and end |
| `sweep` | 2 addresses, 2 sweeps, floor 1, targets 1/2/4, fees 1/2, wallet 5 or 7, caps 2 and 3, reserve 1 | caps, reserve, success and shortage; every sweep ends |
| `sign_nonce_reuse` | 3 jobs, 1 address | violation, see below |
| `sign_barging` | 3 jobs, 1 address | violation, see below |
| `sign_short` | 2 jobs, 1 address, balances 0/1/2 | violation, see below |
| `admission_respond` | `Admission`, clock to 5 | violation, see below |
| `sweep_drift` | as `sweep`, one sweep | violation, see below |

Why these bounds are enough. A hand-off that serves more than one caller needs
two idle addresses and two waiters; four callers on three addresses give that
with one caller still holding. A nonce clash needs the job that left a
transaction behind, the job whose answer is stale and the job that uses the
address in between: three jobs; with a restart, two addresses let one job be lost
while another is parked. Late delivery needs no more. In `sign_service` the
balance is below or above the minimum, and the gas below or above that balance, so
both shortages happen; two jobs on one address make one wait, and the viewer reads
beside both. Each job runs once, so no counter needs another bound: `latest` is at
most the number of jobs.

In `round_trip` a budget of 1 already has an inside, an end and a time after it;
with a call time of 1 the watcher's budget can be used up before the respond leg's,
which needs signature, verification, confirmation and respond, 3 ticks from the
request. The clock stops a job late in its life but no earlier property depends
on what follows; two jobs are what a percentile needs to differ from a minimum.
In `ping` four draws pass three slots once around, so two pings draw one slot, and
race if the first waits for all of them; one key in two slots lets two of one turn
race. The clock of `admission` is a window
and a half, so that hits expire while others stay; the proofs cover the rest. Others
post while a process has fewer than two records and the driver's jobs come on top: of
three records a process that keeps two finished ones drops one, and two processes let
a job be lost by a restart; with two misses to give up after, a good answer comes
between them or does not. In `sweep`, two sweeps let the first leave a transfer
behind for the second; the targets are one at the floor (refused), one that fits and
one over the per-address cap (refused); two empty addresses exceed the per-run cap,
one and a half do not; the poorer wallet cannot pay for that, the richer just can.

`round_trip` and `ping` do not check deadlock: a bounded clock, and a bounded
number of requests, do come to an end.

Fairness (`Fairness` of `SignBidirectional`). The node and Solana answer or
throw: viem's transports and `sendAndConfirm` have timeouts of their own. Every
wait of a job has a timer: `leaseWaitMs`, the signature, confirmation and respond
timeouts. So the derivation is weakly fair, and so is each job's `Turn`: the job's
next step, or the answer it waits for. No event, block, top-up or delivery is
assumed to happen, and nothing of the viewers. Under this, `EveryJobEnds` says that
every accepted job ends and its address is not leased any more. `LoadFairness` is
the same for the driver: its requests are answered or throw, its sleeps end, and
every job of the service ends, which is `EveryJobEnds`; nothing is assumed of the
clock or of other clients. `FairSpec` of `FundWorkers` is weak fairness of the
sweep's steps together: each call is answered or throws, and the wait for a receipt
has a timeout of 180 s.

### Findings

1. `sign_nonce_reuse` (`signBidirectional.ts:173`). Job B reads the counts of a
   quarantined address and learns that nothing is outstanding. Before it acts,
   job C, which read the same, lifts the quarantine, leases the address,
   broadcasts, and loses the node's answer; the address is quarantined again.
   B's old answer now lifts that *new* quarantine, and B builds over the nonce
   of C's pending transaction: the second signature that
   `workerPool.ts:10-13` is there to prevent. `reconcile` does not check that
   the quarantine it lifts is the one that was looked at.
2. `sign_barging` (`workerPool.ts:213`). `reconcile` and `setBalance` return an
   address to service without a hand-off, so the job that called them takes it
   past the parked ones, against `workerPool.ts:171`.
3. `sign_short` (`signBidirectional.ts:149`). An address flagged against the gas
   of its transaction is measured against the minimum by the next job's
   `refreshUnderfunded`, and is first in line again with the same balance, which
   the comment at 292-295 says must not happen.
4. `admission_respond` (`store.ts:170`). `MAX_JOBS` is compared when a job is
   accepted, so active jobs push the respond waits past it later. What does hold
   is `LiveCeiling`: at most `MAX_ACTIVE_JOBS + MAX_JOBS - 1` jobs are live.
5. `sweep_drift` (`fund-workers.ts:135`). The cross-check compares the number of
   paths and the addresses of the paths both sides have. A service with another
   `PATH_PREFIX` and as many paths has none in common, so nothing differs and
   the sweep funds addresses no job uses, against `README.md:186-192`.

Two statements of `README.md:200-202` hold only with a condition, which the
properties of `sweep` name. A sweep that follows one whose transfer is still
pending sends the top-up again, and the address exceeds the per-address cap
(`AddressCapUnlessOverlapped`); the workflow's concurrency group does not prevent
this. The budget's fee is estimated once, so a fee that rises during the sweep
eats into the reserve (`ReserveKeptUnlessOutbid`).

Four comments also hold only in part, and the properties state the part that does.
`signBidirectional.ts:363-369` gives the watcher the sum of the three budgets "so
it can never expire first"; the verification and the broadcast are not in that
sum, and the respond leg is shorter by what they took (`RespondBudget`).
`stats.ts:58-61` says that a failed job "never reaches" the closing timestamp of a
stage; a job that failed as `respond_mismatch` has `respondedAt`, one that failed
as `derivation_mismatch` has `signatureAt`, and both count in those stages. It
holds of the stages that timed out or reverted (`StagesFilterFailures`).
The report of `loadtest.ts:154` says of a lost job "not found after 5 polls (server
restarted, or the record was pruned)"; the loop counts 401, 500 or 502 as well, so a
job that is still running behind a failing proxy is reported so too. What holds is
`LostHasACause`: a job whose record is there is reported lost only after MAX_MISSES
such answers with no good one between them, and a single 404 among the misses makes
the report true.
`evmTransactions.ts:32-33` says that "nothing stops five concurrent requests landing
on one" key; with a key of its own in each slot the rotation does stop five, and
`RaceOutlastsTheRotation` says when it no longer stops more.

## 4. The proofs

TLAPS proves the following for every number of jobs, viewers, addresses, requests,
key slots and restarts, every limit, window, budget, ceiling, cap and fee. Nothing
is assumed beyond the `ASSUME`s of the modules, which say that the numbers are
natural (`PoolAssumption`, `LimiterAssumption`, `StoreAssumption`,
`BudgetAssumption`, `RestartAssumption`, `PingAssumption`, `SweepAssumption`,
`DriverAssumption`), that
a window and the rotation are not empty, that `None` is no other value, and that a
viewer is not a job (`SignAssumption`). The sets of actors need not be finite.

### The pool (`WorkerPoolProofs`)

`PoolInv` is the types, `ExclusiveLease` and `QuarantineWithheld`. It is
inductive only as a whole. That a hand-off gives an address to nobody else needs
`busy` to be exactly the leases; that each waiter gets one address needs the
queue to be injective and its callers to hold none; that a quarantined address
is not granted needs that a released one is not quarantined by anybody else. The
core is `HandOffSafe`: whatever flags the releasing block has just set, a grant
keeps all of that. `PoolSafe` is the invariant; `PoolTypes`,
`LeasesAreExclusive` and `QuarantinedIsIdle` are its parts.

The action properties follow from the shape of a grant (`ReleaseGrant`): it is a
sequence of distinct idle addresses for a prefix of the queue
(`GrantedAddressesAreUsable`, `QueueIsServedInOrder`), and it ends only when the
queue or the idle addresses do (`ReleasesServeTheQueue`).

### The service (`SignBidirectionalProofs`)

`SignInv` adds two parts to `PoolInv` and the types. `HeardOK(a)`: an answer of
the node is outstanding only where an actor awaits one, and is a balance
wherever it is used as one; without it, a step could store a count as a balance.
`JobOK(j)`: the phase determines the lease and the place in the queue; an
aborted job is not parked; the transaction that was built is from the leased
address until the receipt; a transaction that may still be mined belongs to a
job that is watching it, or its address is quarantined or was `exposed`. The last
clause is what makes the nonce safe: a second job that wants to sign over the
nonce of a pending transaction holds its address, so by exclusivity the first
job no longer does, and by `QuarantineWithheld` the address is not quarantined,
so it was exposed (`NonceSignedOnce`).

Most steps move one actor and call the pool once. `ActorMoves` shows what such a
step does to the others (they stay, or wake up with a lease); the frame lemmas
say what each call of the pool leaves alone; `AdvanceInv` and `EndInv` cover a
job that goes on with its address and one that gives it up. Each action then is
one short lemma. `ServiceImplementsPool` is the refinement: a step of the
service is an operation of the pool, with a balance the pool is specified for,
or leaves the pool alone. What is proved of the pool therefore holds in the
service (`ServiceLeasesAreExclusive`, `ServiceServesTheQueue`).
`AbortedStartNothing` holds because shutdown turns every parked job away, so no
later release can move an aborted one.

### Restarts and the lifecycle (`SignRestartProofs`)

`RecordInv` adds to `SignInv` that a job has no reason before it is over (`NotYet`)
and that one that is over without a reason left no unsettled transaction
(`Unexplained`). With the reasons each step gives, `OrphansAreReported` (no job ends
with its transaction unsettled, save for the two reasons that say so) and the
refinement `ServiceKeepsTheLifecycle` follow from it.

A restart is an ordinary step to the invariant: an empty pool satisfies
`PoolInv`, every phase is `idle` or `done`, and what `JobOK` says of an unsettled
transaction holds because the restart marks its address as `exposed`. `RestartInv`
carries the rest: a job that is over without an explanation left nothing behind
or is lost (`RestartsExplainOrphans`). `NonceSignedOnceAcrossRestarts` and
`OutstandingWithheldAcrossRestarts` are the earlier theorems for the larger
specification. `RestartForgets` says that what a restart exposes was leased or
quarantined at that moment; no run checks it beside the theorem.

### The round trip (`RoundTripProofs`)

The invariant is a conjunction over the jobs: the order of the timestamps
(`StampsInOrder`), which of them a state has (`StampsOfState`), the watcher
(`WatcherOfState`) and what each failure reason says of the times
(`FailureOf`). The bound of a budget needs that time cannot pass what is due, so
each part also bounds `now`. From it follow the types, `RespondBudget`,
`WatchersEndWithTheirJob`, `StagesFilterFailures` and `DeliveredIsKept`, and, proved
only, `SpansWithinBudgets` and the refinement of the lifecycle
(`ClocksKeepTheLifecycle`).

`StatisticsAreExact` needs two things more. Of `Stats`: values have an ascending
order, also with ties (`OrderExists`: number each job by how many do not come after
it, ties broken by any numbering); the m-th of the sorted values has fewer than m
below it and at least m not above it (`SortedCounts`); so the index that `percentile`
computes is right, and never past the end for the percentiles that are reported
(`PercentileIsExact`). Of the records, `StatsInv`: the accepted jobs are finitely many,
though `Jobs` need not be, and one that ended well has both timestamps of its total;
without the latter a success could drop out of the count. `ReportsStayWithinBudgets`,
proved only, says the same of the four stages and puts `SpansWithinBudgets` in terms of
what is reported: no stage's `max` exceeds its timeout.

### The endpoint (`RateLimiterProofs`, `AdmissionProofs`)

`LimiterInv` says that `hits` is a suffix of all admissions, of at most `Limit`,
and that the admissions before it are at least a window old. An admission finds
fewer than `Limit` hits, so the one `Limit` places earlier is among the old ones
(`WindowIsBounded`). `RetryAfterExact` compares two prunes of the same hits, and
needs that a later one drops no less. That a prune has a place to stop
(`PruneFacts`) uses the least-number principle, from the library's theorem on
well-founded relations. `UsedCountsTheWindow` needs the clock not to have stepped
back between admissions (`ClockOrder`), then matches the hits that are left with the
last admissions one by one.

`AdmissionInv` counts the live jobs as one set: only `Create` adds to it, and
only when both counts are below their ceilings (`LiveJobsAreBounded`,
`ActiveJobsAreBounded`, the latter proved only). `SlotsSpentOnJobs` and the
refinement `AdmissionImplementsLimiter` complete it; by the refinement what is
proved of the limiter holds of the endpoint.

`RecordsAreKept`: pruning keeps the last `Retained` of the finished records in the
order of `finishedAt`, ties by insertion. Every `create` and every end of a job
prunes, so at most `Retained + 1` finished records meet a prune, and the one that
goes is the first (`FirstRecord`, `PruneDropsFirst`). Nothing is assumed of the
clock.

The last part of `RateLimiterProofs` lets the clock be set to anything
(`SetClockSpec`, proved only). `WindowBound` and `UsedIsExact` are false then: the hits
need not be in order, and a hit in front blocks older ones behind it. What is left is
that the hits are the last admissions and at most `Limit` (`SetClockSafe`), that one is
forgotten only when the clock reads a window later (`OnlyOldHitsAreForgotten`), and
that the Retry-After is exact from the moment it is reported (`RetryAfterOnAnyClock`),
because `prune` and `retryAfterMs` look at the same first hit.

### The load driver (`AdmissionProofs`)

`LoadInv` is what the driver relies on, in every process (`LoadSafe`):

- `ServiceInv`: `AdmissionInv`, `ClockOrder` and `RecordsKept`. A step of the driver is
  a step of the service or leaves it alone (`LoadStepOfService`), and what a restart
  leaves satisfies it (`RestartIsFresh`), so each process keeps every property of the
  endpoint (`EachProcessIsSafe`);
- `Issued` and `MissesCounted`: an id names a record of its process, and a job with
  more misses than `unserved` was once answered with 404; it stays gone, since `create`
  never reuses a place in the store and no process comes back. Every lost job has
  MaxMisses misses: either all of them were `unserved`, or the job is gone, and with
  `RecordsKept` `LostJobsHaveACause` follows;
- `RoomIsDue`: after a refusal of the limiter, and while nobody else is admitted,
  pruning at the time the sleep ends leaves room. It holds at the refusal by
  `RoomAfter`, is kept by any later clock (`RoomStays`), by any prune in between
  (`RoomSurvivesPrune`) and by a restart, which empties the hits.
  `RetriesAreEnough` is `RoomIsDue` at the moment of the retry.

### The pings (`PingProofs`)

`RotationInv` says where the rotation stands relative to each slot drawn in the
last turn, so two pings from one slot are a whole rotation apart. `Counted` says that
until a request has sent, all draws since its own have overtaken it. A race is found
when a transaction is taken while another request holds its nonce: both are unsent
then, so the first of the two was overtaken by that rotation
(`RacesOutlastTheRotation`).
`RequestOK` relates what a request read to the node's counts: unless it was raced,
its nonce is still the pending count when it sends, so it is not refused
(`RefusalsAreRaces`, proved only). `PairOK` says of two requests on one account
with one nonce that one raced the other (`SameNoncesAreRaces`).

### The sweep (`FundWorkersProofs`)

`Total`, `InFlight` and `Coming` are sums, and the library has no theorem about
sums; `SumNext`, `SumSame`, `SumLess` and `SumFirst` are proved first, by the
least-number principle on the set of places where they hold. `SweepInv` is a
conjunction, each part proved on its own from those before it:

- `Solvent` and the types: the wallet pays for everything pending, so mining never
  overdraws it;
- `PlanInv`: while the sweep spends, every balance was read, and each address of
  the plan was read below the target;
- `BudgetInv`: what is sent and what is left of the plan stay within the total
  that was compared with the cap (`RunIsCapped`);
- `CapInv`: unless a read overlapped a transfer, an address of the plan has, with
  what is on its way, no more than was read, so a top-up lifts it to the target
  and no further (`AddressesAreCapped`);
- `ReserveInv`: the wallet has the reserve, what is left of the plan and one
  estimated fee for each of it, beyond what is pending (`ReserveIsKept`);
- `ShortInv`: an address that was sent to has had the target, apart from what the
  service spent and from a failed transfer (`ShortagesHaveACause`);
- `Settled`: it verifies after the receipt of its last transfer, nonces are mined
  in order, and verification sends nothing (`SuccessSettled`).

### Only model-checked

- Liveness (`EveryJobEnds`, `EverySweepEnds`, `PollingEnds`): beyond the prover.
- The five violations of section 3, which are counterexamples.

## 5. Plan and what is left out

Done, in this order: `WorkerPool`, because the nonce depends on it;
`SignBidirectional` over it; `RateLimiter`, `JobStore` and `Admission`;
`FundWorkers`; then the restart, the lifecycle, the timed round trip with the
statistics, the pings and the load driver; and the proofs about each. Every safety
property of a passing run is also a theorem.

Next: one module of `SignBidirectional` and `JobStore` together, with `prune` among the
running jobs, if an instance of it stays small enough.

Not modelled, and staying so: encoding, signature recovery and key derivation
(library calls on data), the parsing of the environment, the display fields of
records and responses, request authentication, `/eth_balance` (one read, no state),
the workflows and the image. Of two hazards the models show what happens but state
no property, because nothing promises one: the order in which two actors store the
balances they read (`signBidirectional.ts:130`), and the reason a parked job is
given at shutdown (`signBidirectional.ts:552`: `internal_error`).
