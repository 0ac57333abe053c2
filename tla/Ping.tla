-------------------------------- MODULE Ping --------------------------------
(***************************************************************************)
(* POST /ping on Ethereum: every request draws the next of the five key    *)
(* slots (utils/env.ts), also one that then fails on its configuration,    *)
(* reads the fees and the nonce of its key under `pending`, and sends one  *)
(* transaction (utils/evmTransactions.ts).  Requests overlap at every      *)
(* await, and the deployed pinger sends from the same accounts.            *)
(***************************************************************************)
EXTENDS Integers, FiniteSets

CONSTANTS
    Pings,              \* requests
    NumSlots,           \* SIG_EVM_SK_1..5
    Keys, Unset, KeyOf, \* the key in each slot, or Unset
    Chains, RpcChains,  \* sepolia and mainnet; those with an RPC URL
    Outsider,           \* the deployed pinger, or a second instance
    MaxSends,           \* bound: transactions of the outsider on each account
    None

\* What a caller can be told: the transaction is sent; the two configuration errors;
\* check=true; an answer that is not about an Ethereum transaction; the node refused
\* the nonce; a call threw.
Outcomes == {"sent", "missing_rpc", "missing_key", "check_unsupported", "elsewhere",
             "refused", "error"}

ASSUME PingAssumption ==
    /\ NumSlots \in Nat \ {0}
    /\ KeyOf \in [1..NumSlots -> Keys \cup {Unset}]
    /\ Unset \notin Keys
    /\ RpcChains \subseteq Chains
    /\ MaxSends \in Nat
    /\ Outsider \notin Pings
    /\ None \notin Nat \cup Outcomes

Slots == 1..NumSlots
Accounts == Chains \X Keys
NoAccount == <<None, None>>

VARIABLES
    evmKeyIndex,    \* the slot drawn last
    drawn,          \* how many slots have been drawn
    pc,             \* where each request waits
    turn,           \* the place of each request's draw among all draws
    slot,           \* the slot it drew
    account,        \* the chain and the key it sends from
    nonce,          \* the nonce it read
    outcome,        \* what the caller is told
    overtaken,      \* history: draws by others before each request has sent
    mined, pending, \* external: each account's counts under `latest` and `pending`
    outside,        \* external: transactions the outsider sent from each account
    racedBy         \* history: who else had a transaction taken from the same
                    \* account between a request's read and its send

rotationVars == <<evmKeyIndex, drawn, turn, slot, account, overtaken>>
nodeVars == <<mined, pending, outside>>
vars == <<rotationVars, pc, nonce, outcome, nodeVars, racedBy>>

Init ==
    /\ evmKeyIndex = 0
    /\ drawn = 0
    /\ pc = [p \in Pings |-> "idle"]
    /\ turn = [p \in Pings |-> 0]
    /\ slot = [p \in Pings |-> 0]
    /\ account = [p \in Pings |-> NoAccount]
    /\ overtaken = [p \in Pings |-> 0]
    /\ nonce = [p \in Pings |-> None]
    /\ outcome = [p \in Pings |-> None]
    /\ mined = [a \in Accounts |-> 0]
    /\ pending = [a \in Accounts |-> 0]
    /\ outside = [a \in Accounts |-> 0]
    /\ racedBy = [p \in Pings |-> {}]

Finish(p, result) ==
    /\ pc' = [pc EXCEPT ![p] = "done"]
    /\ outcome' = [outcome EXCEPT ![p] = result]

(***************************************************************************)
(* Up to the first await.                                                  *)
(***************************************************************************)

\* Reading env.evmSk: all slots are visited, whichever are set.
NextSlot_misses_last == (evmKeyIndex % (NumSlots - 1)) + 1
NextSlot == (evmKeyIndex % NumSlots) + 1

ToSend == {"fees", "nonce", "send"}

Draw(p) ==
    /\ evmKeyIndex' = NextSlot
    /\ drawn' = drawn + 1
    /\ turn' = [turn EXCEPT ![p] = drawn']
    /\ slot' = [slot EXCEPT ![p] = NextSlot]
    /\ overtaken' = [q \in Pings |-> IF pc[q] \in ToSend THEN overtaken[q] + 1 ELSE overtaken[q]]

\* initEthereum() draws before it looks at anything; a request with check=true is
\* refused only afterwards.
Start(p) ==
    /\ pc[p] = "idle"
    /\ Draw(p)
    /\ \E chain \in Chains, check \in BOOLEAN :
        LET key == KeyOf[NextSlot] IN
        IF chain \in RpcChains /\ key # Unset /\ ~check
        THEN /\ account' = [account EXCEPT ![p] = <<chain, key>>]
             /\ pc' = [pc EXCEPT ![p] = "fees"]
             /\ UNCHANGED outcome
        ELSE /\ Finish(p, IF chain \notin RpcChains THEN "missing_rpc"
                          ELSE IF key = Unset THEN "missing_key"
                          ELSE "check_unsupported")
             /\ UNCHANGED account
    /\ UNCHANGED <<nonce, nodeVars, racedBy>>

\* A request with a bad parameter, and a ping on Solana, which signs with a fresh
\* key pair: neither draws a slot.
Elsewhere(p) ==
    /\ pc[p] = "idle"
    /\ Finish(p, "elsewhere")
    /\ UNCHANGED <<rotationVars, nonce, nodeVars, racedBy>>

(***************************************************************************)
(* Fees, nonce, send.                                                      *)
(***************************************************************************)
FeesRead(p) ==
    /\ pc[p] = "fees"
    /\ pc' = [pc EXCEPT ![p] = "nonce"]
    /\ UNCHANGED <<rotationVars, nonce, outcome, nodeVars, racedBy>>

NonceRead_latest(p) ==
    /\ pc[p] = "nonce"
    /\ nonce' = [nonce EXCEPT ![p] = mined[account[p]]]
    /\ pc' = [pc EXCEPT ![p] = "send"]
    /\ UNCHANGED <<rotationVars, outcome, nodeVars, racedBy>>
NonceRead(p) ==
    /\ pc[p] = "nonce"
    /\ nonce' = [nonce EXCEPT ![p] = pending[account[p]]]
    /\ pc' = [pc EXCEPT ![p] = "send"]
    /\ UNCHANGED <<rotationVars, outcome, nodeVars, racedBy>>

\* Whoever has read a nonce of account a and not sent it is raced by `sender`.
Races(sender, a) ==
    racedBy' = [q \in Pings |->
        IF q # sender /\ pc[q] = "send" /\ account[q] = a
        THEN racedBy[q] \cup {sender} ELSE racedBy[q]]

\* External: the node takes the transaction, in place of another with its nonce
\* if it outbids it ...
Taken(p) ==
    LET a == account[p] IN
    /\ pc[p] = "send"
    /\ mined[a] <= nonce[p] /\ nonce[p] <= pending[a]
    /\ pending' = [pending EXCEPT ![a] = IF nonce[p] = @ THEN @ + 1 ELSE @]
    /\ pc' = [pc EXCEPT ![p] = "taken"]
    /\ Races(p, a)
    /\ UNCHANGED <<rotationVars, nonce, outcome, mined, outside>>

\* ... or refuses it: the nonce is too low, or the replacement underpriced.
Refused(p) ==
    /\ pc[p] = "send"
    /\ nonce[p] < pending[account[p]]
    /\ Finish(p, "refused")
    /\ UNCHANGED <<rotationVars, nonce, nodeVars, racedBy>>

Answered(p) ==
    /\ pc[p] = "taken"
    /\ Finish(p, "sent")
    /\ UNCHANGED <<rotationVars, nonce, nodeVars, racedBy>>

\* A call throws; the last one possibly after the node took the transaction.
Throws(p) ==
    /\ pc[p] \in {"fees", "nonce", "send", "taken"}
    /\ Finish(p, "error")
    /\ UNCHANGED <<rotationVars, nonce, nodeVars, racedBy>>

(***************************************************************************)
(* External: blocks, and the deployed pinger.                              *)
(***************************************************************************)
Mine(a) ==
    /\ mined[a] < pending[a]
    /\ mined' = [mined EXCEPT ![a] = @ + 1]
    /\ UNCHANGED <<rotationVars, pc, nonce, outcome, pending, outside, racedBy>>

OutsiderSends(a) ==
    /\ outside[a] < MaxSends
    /\ outside' = [outside EXCEPT ![a] = @ + 1]
    /\ pending' = [pending EXCEPT ![a] = @ + 1]
    /\ Races(Outsider, a)
    /\ UNCHANGED <<rotationVars, pc, nonce, outcome, mined>>

PingStep(p) ==
    \/ Start(p) \/ Elsewhere(p) \/ FeesRead(p) \/ NonceRead(p)
    \/ Taken(p) \/ Refused(p) \/ Answered(p) \/ Throws(p)

Next ==
    \/ \E p \in Pings : PingStep(p)
    \/ \E a \in Accounts : Mine(a) \/ OutsiderSends(a)

Spec == Init /\ [][Next]_vars

-----------------------------------------------------------------------------
(***************************************************************************)
(* Properties                                                              *)
(***************************************************************************)

\* Every variable has its type.
TypeOK ==
    /\ evmKeyIndex \in 0..NumSlots
    /\ drawn \in Nat
    /\ pc \in [Pings -> {"idle", "fees", "nonce", "send", "taken", "done"}]
    /\ turn \in [Pings -> 0..drawn]
    /\ slot \in [Pings -> 0..NumSlots]
    /\ account \in [Pings -> Accounts \cup {NoAccount}]
    /\ overtaken \in [Pings -> Nat]
    /\ nonce \in [Pings -> Nat \cup {None}]
    /\ outcome \in [Pings -> Outcomes \cup {None}]
    /\ mined \in [Accounts -> Nat]
    /\ pending \in [Accounts -> Nat]
    /\ outside \in [Accounts -> 0..MaxSends]
    /\ racedBy \in [Pings -> SUBSET (Pings \cup {Outsider})]

\* The nonce of a transaction is refused only if another sender's transaction was
\* taken between the read and the send; what merely was pending before the read
\* cannot refuse it (evmTransactions.ts:28-33).
RefusalIsARace == \A p \in Pings : outcome[p] = "refused" => racedBy[p] # {}

\* Two pings that sent one nonce from one account raced: neither had read it after
\* the other's transaction was taken.  So no ping replaces the transaction of one
\* that was answered before it began.
SameNonceIsARace ==
    \A p, q \in Pings :
        /\ p # q /\ account[p] = account[q]
        /\ pc[p] = "taken" \/ outcome[p] = "sent"
        /\ pc[q] = "taken" \/ outcome[q] = "sent"
        /\ nonce[p] = nonce[q]
        => p \in racedBy[q] \/ q \in racedBy[p]

\* evmTransactions.ts:32-33: "nothing stops five concurrent requests landing on one"
\* key.  What the rotation does stop is a race of two pings for the nonce of one slot,
\* unless the one that drew first waited for its fees, its nonce or its send while
\* NumSlots others drew.  With a key of its own in every slot, pings that are sent
\* within a rotation do not race each other.
RaceOutlastsTheRotation ==
    \A p \in Pings : \A q \in racedBy[p] \ {Outsider} :
        slot[p] = slot[q] =>
            overtaken[IF turn[p] < turn[q] THEN p ELSE q] >= NumSlots

=============================================================================
