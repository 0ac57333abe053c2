---------------------------- MODULE FundWorkers ----------------------------
(***************************************************************************)
(* scripts/fund-workers.ts: sweeps that fill the worker addresses from one *)
(* funding wallet.  The workflows run sweeps one after the other, beside a *)
(* service that spends from the addresses; what an earlier sweep sent may  *)
(* still be pending.  Several networks only make the pool larger, so there *)
(* is one.  Amounts are in units of one job's gas.                         *)
(***************************************************************************)
EXTENDS Integers, Sequences, FiniteSets

CONSTANTS
    NumPaths,           \* SIG_BIDIRECTIONAL_PATHS
    MinBalance,         \* SIG_BIDIRECTIONAL_MIN_BALANCE_WEI
    Targets,            \* the targets a sweep may be given
    MaxPerAddress,      \* SIG_BIDIRECTIONAL_FUND_MAX_PER_ADDRESS_ETH
    MaxPerRun,          \* SIG_BIDIRECTIONAL_FUND_MAX_PER_RUN_ETH
    Reserve,            \* SIG_BIDIRECTIONAL_FUND_RESERVE_ETH
    Fees,               \* what a plain transfer may cost
    Derived,            \* the addresses the sweep derives: path -> address
    Reports,            \* what the service may report: path -> address
    Wallets,            \* what the funding wallet may hold at first
    None,               \* no value
    MaxSweeps           \* bound: how many sweeps are run

ASSUME SweepAssumption ==
    /\ NumPaths \in Nat /\ MinBalance \in Nat /\ Targets \subseteq Nat
    /\ MaxPerAddress \in Nat /\ MaxPerRun \in Nat /\ Reserve \in Nat
    /\ Fees \subseteq Nat /\ Wallets \subseteq Nat /\ MaxSweeps \in Nat
    /\ None \notin Nat /\ None \notin Reports

Workers == 1..NumPaths

VARIABLES
    pc,                 \* the await the sweep is parked at; "idle" between sweeps
    sweeps,             \* how many sweeps were started
    target,             \* topUpTo
    named,              \* --topup was given
    reported,           \* the service's answer to the cross-check, None without one
    read,               \* the balances read so far, None before
    plan,               \* the workers still to be sent to
    estimate,           \* the fee the budget was made with
    outcome,            \* how the last sweep ended
    balance,            \* external: what each address holds
    wallet,             \* external: what the funding wallet holds
    mempool,            \* external: the wallet's pending transfers, by nonce
    sent,               \* history: the value this sweep has sent
    drawn,              \* history: what the service spent since this sweep read
    failed,             \* history: the workers whose transfer was mined as a failure
    outbid,             \* history: a transfer paid more than the estimate
    overlapped          \* history: a balance was read beside a pending transfer

control == <<pc, outcome>>
figures == <<sweeps, target, named>>
chain == <<balance, wallet, mempool>>
history == <<sent, drawn, failed, outbid, overlapped>>
vars == <<control, figures, reported, read, plan, estimate, chain, history>>

\* The sum of the first n values of f.
Sum(f, n) == LET S[i \in 0..n] == IF i = 0 THEN 0 ELSE S[i - 1] + f[i] IN S[n]

\* What the pending transfers will take from the wallet at most.
InFlight == Sum([i \in DOMAIN mempool |-> mempool[i].value + mempool[i].fee], Len(mempool))

Init ==
    /\ pc = "idle" /\ outcome = "none"
    /\ sweeps = 0 /\ target = 0 /\ named = FALSE
    /\ reported = None /\ read = [w \in Workers |-> None]
    /\ plan = {} /\ estimate = 0
    /\ balance \in [Workers -> 0..MaxPerAddress]
    /\ wallet \in Wallets
    /\ mempool = <<>>
    /\ sent = 0 /\ drawn = [w \in Workers |-> 0] /\ failed = {}
    /\ outbid = FALSE /\ overlapped = FALSE

Goto(phase) == pc' = phase /\ UNCHANGED outcome

End(how) == pc' = "idle" /\ outcome' = how

\* A run of the script.  A target is refused that does not exceed the floor or
\* that the per-address cap does not admit.
Start ==
    /\ pc = "idle" /\ sweeps < MaxSweeps
    /\ sweeps' = sweeps + 1
    /\ target' \in Targets /\ named' \in BOOLEAN
    /\ IF target' <= MinBalance \/ target' > MaxPerAddress
       THEN End("misconfigured")
       ELSE pc' = "check" /\ outcome' = "none"
    /\ reported' = None /\ read' = [w \in Workers |-> None]
    /\ plan' = {} /\ estimate' = 0
    /\ sent' = 0 /\ drawn' = [w \in Workers |-> 0] /\ failed' = {} /\ outbid' = FALSE
    /\ UNCHANGED <<chain, overlapped>>

\* The differences crossCheck() looks for: the number of paths, and the address
\* of a path that both sides have.
Disagrees(theirs) ==
    \/ Cardinality(DOMAIN theirs) # Cardinality(DOMAIN Derived)
    \/ \E path \in DOMAIN theirs \cap DOMAIN Derived : theirs[path] # Derived[path]

\* Without a URL, without an answer or with an error the check is skipped.
CrossCheck ==
    /\ pc = "check"
    /\ reported' \in Reports \cup {None}
    /\ IF reported' # None /\ Disagrees(reported') THEN End("drift") ELSE Goto("read")
    /\ UNCHANGED <<figures, read, plan, estimate, chain, history>>

\* getBalance of one address, before the decision and again after the transfers.
ReadBalance(w) ==
    /\ pc \in {"read", "verify"}
    /\ read[w] = None
    /\ read' = [read EXCEPT ![w] = balance[w]]
    /\ drawn' = IF pc = "read" THEN [drawn EXCEPT ![w] = 0] ELSE drawn
    /\ overlapped' = (overlapped \/ mempool # <<>>)
    /\ UNCHANGED <<control, figures, reported, plan, estimate, chain, sent, failed, outbid>>

AllRead == \A w \in Workers : read[w] # None

Short_below_floor == {w \in Workers : read[w] < MinBalance}
Short_from_zero == {w - 1 : w \in {v \in Workers : read[v] < target}}
Short == {w \in Workers : read[w] < target}

Top_whole_target(w) == target
Top(w) == target - read[w]

Total_unsummed == IF Short = {} THEN 0 ELSE Top(CHOOSE w \in Short : TRUE)
Total == Sum([w \in Workers |-> IF w \in Short THEN Top(w) ELSE 0], NumPaths)

Decide ==
    /\ pc = "read" /\ AllRead
    /\ \/ Short = {} /\ End("full")
       \/ Short # {} /\ Total > MaxPerRun /\ End("per_run_cap")
       \/ Short # {} /\ Total <= MaxPerRun /\ Goto("wallet")
    /\ plan' = Short
    /\ UNCHANGED <<figures, reported, read, estimate, chain, history>>

\* The estimate, the wallet's balance, and what the wallet must hold.
Required_no_gas(fee) == Total + Reserve
Required(fee) == Total + Cardinality(plan) * fee + Reserve

CheckWallet ==
    /\ pc = "wallet"
    /\ estimate' \in Fees
    /\ \/ wallet < Required(estimate') /\ End("wallet_short")
       \/ wallet >= Required(estimate') /\ (Goto("send") \/ End("dry_run"))
    /\ UNCHANGED <<figures, reported, read, plan, chain, history>>

\* The node takes a transfer that the wallet can pay for after those pending.
IsNext(w) == w \in plan /\ \A v \in plan : w <= v
Submit(w) ==
    \E fee \in Fees :
        /\ wallet - InFlight >= Top(w) + fee
        /\ mempool' = Append(mempool, [to |-> w, value |-> Top(w), fee |-> fee])
        /\ sent' = sent + Top(w)
        /\ outbid' = (outbid \/ fee > estimate)

Send(w) ==
    /\ pc = "send" /\ IsNext(w)
    /\ Submit(w)
    /\ plan' = plan \ {w}
    /\ Goto("receipt")
    /\ UNCHANGED <<figures, reported, read, estimate, balance, wallet, drawn, failed, overlapped>>

\* sendTransaction throws, whether or not the node took the transfer.
SendThrows(w) ==
    /\ pc = "send" /\ IsNext(w)
    /\ Submit(w) \/ UNCHANGED <<mempool, sent, outbid>>
    /\ End("error")
    /\ UNCHANGED <<figures, reported, read, plan, estimate, balance, wallet, drawn, failed, overlapped>>

\* The receipt of the last transfer: nonces are mined in order.
Receipt_not_awaited ==
    /\ pc = "receipt"
    /\ Goto(IF plan = {} THEN "verify" ELSE "send")
    /\ read' = IF plan = {} THEN [w \in Workers |-> None] ELSE read
    /\ UNCHANGED <<figures, reported, plan, estimate, chain, history>>
Receipt ==
    /\ pc = "receipt" /\ mempool = <<>>
    /\ Goto(IF plan = {} THEN "verify" ELSE "send")
    /\ read' = IF plan = {} THEN [w \in Workers |-> None] ELSE read
    /\ UNCHANGED <<figures, reported, plan, estimate, chain, history>>

\* A scheduled sweep asks for the floor, one with --topup for its target.
FundedAt == IF named THEN target ELSE MinBalance

Verify ==
    /\ pc = "verify" /\ AllRead
    /\ End(IF wallet < Reserve THEN "below_reserve"
           ELSE IF \E w \in Workers : read[w] < FundedAt THEN "short"
           ELSE "funded")
    /\ UNCHANGED <<figures, reported, read, plan, estimate, chain, history>>

\* Any other call throws, the wait for a receipt times out, or the workflow's time
\* is up.
Throws_without_timeout ==
    /\ pc \in {"read", "wallet", "verify"}
    /\ End("error")
    /\ UNCHANGED <<figures, reported, read, plan, estimate, chain, history>>
Throws ==
    /\ pc \in {"read", "wallet", "receipt", "verify"}
    /\ End("error")
    /\ UNCHANGED <<figures, reported, read, plan, estimate, chain, history>>

\* External: the oldest transfer is mined.
Mine ==
    /\ mempool # <<>>
    /\ \E cost \in {fee \in Fees : fee <= Head(mempool).fee} :
        \/ /\ wallet' = wallet - Head(mempool).value - cost
           /\ balance' = [balance EXCEPT ![Head(mempool).to] = @ + Head(mempool).value]
           /\ UNCHANGED failed
        \/ /\ wallet' = wallet - cost
           /\ failed' = failed \cup {Head(mempool).to}
           /\ UNCHANGED balance
    /\ mempool' = Tail(mempool)
    /\ UNCHANGED <<control, figures, reported, read, plan, estimate, sent, drawn, outbid, overlapped>>

\* External: a job of the service pays for its gas.
ServiceSpends(w) ==
    /\ balance[w] > 0
    /\ balance' = [balance EXCEPT ![w] = @ - 1]
    /\ drawn' = [drawn EXCEPT ![w] = @ + 1]
    /\ UNCHANGED <<control, figures, reported, read, plan, estimate, wallet, mempool,
                   sent, failed, outbid, overlapped>>

SweepStep ==
    \/ CrossCheck \/ Decide \/ CheckWallet \/ Receipt \/ Verify \/ Throws
    \/ \E w \in Workers : ReadBalance(w) \/ Send(w) \/ SendThrows(w)

\* The last sweep has ended; what it sent may stay pending for ever.
Finished == pc = "idle" /\ sweeps = MaxSweeps /\ UNCHANGED vars

Next ==
    \/ Start \/ SweepStep \/ Mine \/ Finished
    \/ \E w \in Workers : ServiceSpends(w)

Spec == Init /\ [][Next]_vars

\* Every call of a sweep is answered or throws, and the wait for a receipt has a
\* timeout.
FairSpec == Spec /\ WF_vars(SweepStep)
-----------------------------------------------------------------------------
(***************************************************************************)
(* Properties                                                              *)
(***************************************************************************)

\* Every variable has its type.
TypeOK ==
    /\ pc \in {"idle", "check", "read", "wallet", "send", "receipt", "verify"}
    /\ sweeps \in 0..MaxSweeps /\ target \in Targets \cup {0} /\ named \in BOOLEAN
    /\ outcome \in {"none", "misconfigured", "drift", "full", "per_run_cap", "wallet_short",
                    "dry_run", "error", "below_reserve", "short", "funded"}
    /\ reported \in Reports \cup {None}
    /\ read \in [Workers -> Nat \cup {None}] /\ plan \subseteq Workers
    /\ estimate \in Fees \cup {0}
    /\ balance \in [Workers -> Nat] /\ wallet \in Nat
    /\ mempool \in Seq([to : Workers, value : Nat, fee : Fees])
    /\ sent \in Nat /\ drawn \in [Workers -> Nat] /\ failed \subseteq Workers
    /\ outbid \in BOOLEAN /\ overlapped \in BOOLEAN

\* However many addresses are short and however the sweep ends, it sends no more
\* than the per-run cap (fund-workers.ts:377).
RunCap == sent <= MaxPerRun

\* What is on its way to an address.
Coming(w) ==
    Sum([i \in DOMAIN mempool |-> IF mempool[i].to = w THEN mempool[i].value ELSE 0],
        Len(mempool))

\* README.md:200-202: the sweep "refuses to send beyond its per-address and
\* per-run caps".  No address gets more than the per-address cap, with what is still
\* on its way, whatever the service spends meanwhile.  This needs that no sweep
\* reads a balance beside a pending transfer: one that follows a sweep that gave up
\* on its transfer does, and sends the top-up again.
AddressCapUnlessOverlapped ==
    overlapped \/ \A w \in Workers : balance[w] + Coming(w) <= MaxPerAddress

\* README.md:200-202: the sweep "refuses to send ... below the funding wallet's
\* reserve".  A sweep that has sent leaves the reserve, even if every pending
\* transfer costs its full fee.  This needs that no transfer pays more than the
\* estimate, which is made once (fund-workers.ts:391), and that no sweep budgets
\* beside a transfer of an earlier one.
ReserveKeptUnlessOutbid ==
    sent > 0 => overlapped \/ outbid \/ wallet - InFlight >= Reserve

\* README.md:200-202: the sweep "waits for each top-up receipt before reporting
\* success".  A sweep that has topped addresses up and reports them funded leaves
\* nothing pending, of its own or of an earlier sweep.  One that finds nothing to do
\* exits 0 as well, and waits for nobody's transfer.
SuccessIsSettled == outcome = "funded" => mempool = <<>>

\* A sweep that sent everything reports a shortage only if the service has spent
\* the headroom between target and threshold meanwhile, or a transfer failed:
\* what lands an address "a job below the target" is not a fault
\* (fund-workers.ts:256-261).
ShortHasACause ==
    outcome = "short" =>
        \E w \in Workers : drawn[w] > target - FundedAt \/ w \in failed

\* README.md:186-192: the sweep compares its addresses with what the service
\* reports, "refusing to spend when they disagree".
DriftSendsNothing == sent > 0 => reported \in {None, Derived}

\* A sweep never hangs, whatever the node does.
EverySweepEnds == pc = "check" ~> pc = "idle"
=============================================================================
