--------------------------- MODULE BillingSession ---------------------------
(***************************************************************************)
(* The billing of one user's relay requests: what NewBillingSession,       *)
(* BillingSession.{preConsume, Reserve, Settle, Refund}, the two funding   *)
(* sources and PostConsumeQuota take from, and give back to, the wallet,   *)
(* the subscription and the API token, step by step.                       *)
(*                                                                         *)
(* Every call into package model is one atomic step: it commits or it      *)
(* fails without effect.  The requests interleave between those steps.  A  *)
(* request is two threads: its own goroutine (pc) and the goroutine Refund *)
(* starts (bg).                                                            *)
(***************************************************************************)
EXTENDS Integers, FiniteSets

CONSTANTS
    Requests,     \* the requests of one user, all on one token
    Profiles,     \* what a request may be: preference, kind, playground, unlimited
    Amounts,      \* the quotas an estimate, a settlement or a turn may have
    InitWallets,  \* the balances the user may have when the requests arrive
    InitToken,    \* the token's remain_quota
    SubTotal,     \* amount_total of the subscription (0: unlimited)
    TrustQuota,   \* common.GetTrustQuota()
    Fee,          \* the violation fee (0: no fee is configured)
    MaxTurns,     \* bound on the turns of a realtime session
    MaxRefundAttempts, \* maxAttempts of refundWithRetry
    FaultPoints,  \* which model-layer calls may return a database error
    Crashes       \* whether the process may die

Preferences == {"subscription_only", "wallet_only", "wallet_first", "subscription_first"}
Kinds == {"text", "task", "realtime"}
AllFaults == {"wallet", "token", "sub", "record", "query"}

ProfileType == [pref : Preferences, kind : Kinds, playground : BOOLEAN, unlimited : BOOLEAN]

ASSUME RequestsAssumption == IsFiniteSet(Requests)
ASSUME ProfilesAssumption == Profiles \subseteq ProfileType
ASSUME AmountsAssumption == Amounts \subseteq Nat
ASSUME BalancesAssumption ==
    /\ InitWallets \subseteq Int /\ InitToken \in Int
    /\ SubTotal \in Nat /\ TrustQuota \in Nat /\ Fee \in Nat
ASSUME BoundsAssumption == MaxTurns \in Nat /\ MaxRefundAttempts \in Nat \ {0}
ASSUME FaultsAssumption == FaultPoints \subseteq AllFaults /\ Crashes \in BOOLEAN

VARIABLES
    wallet,   \* users.quota
    token,    \* tokens.remain_quota
    subUsed,  \* user_subscriptions.amount_used
    rec,      \* rec[r]: status of r's subscription pre-consume record
    req,      \* req[r]: the profile of r
    info,     \* info[r]: what the request carries into NewBillingSession
    s,        \* s[r]: r's BillingSession and its FundingSource
    op,       \* op[r]: the call in flight and the PostConsumeQuota charges
    pc,       \* pc[r]: where the goroutine of r stands
    bg,       \* bg[r]: where the refund goroutine of r stands
    paid,     \* history: what r has taken, net, from each balance
    hit       \* history: whether a model-layer call of r has failed

vars == <<wallet, token, subUsed, rec, req, info, s, op, pc, bg, paid, hit>>

-----------------------------------------------------------------------------
Sources == {"none", "wallet", "subscription"}

PCs == {"new", "auth", "free", "tryWallet", "trySub", "preToken", "preFunding",
        "undoToken", "open", "reserveToken", "undoReserve", "settle", "settleToken",
        "failing", "postFunding", "postToken",
        "done", "failed", "handed", "rejected", "lost"}

BGs == {"none", "funding", "extra", "token", "end"}

Ended == {"done", "failed", "handed", "rejected", "lost"}

NoSession ==
    [source |-> "none", pre |-> 0, tokenConsumed |-> 0, extra |-> 0, held |-> 0,
     trusted |-> FALSE, fundingSettled |-> FALSE, settled |-> FALSE, refunded |-> FALSE]

\* held is WalletFunding.consumed or SubscriptionFunding.preConsumed.
SessionType ==
    [source : Sources, pre : Nat, tokenConsumed : Nat, extra : Nat, held : Nat,
     trusted : BOOLEAN, fundingSettled : BOOLEAN, settled : BOOLEAN, refunded : BOOLEAN]

\* want: preConsumedQuota; eff: effectiveQuota; shortfall: the source refused for
\* lack of quota; fellBack: the second source is being tried.
InfoType ==
    [want : Nat, eff : Nat, ctxQuota : Int, ctxToken : Int,
     shortfall : BOOLEAN, fellBack : BOOLEAN]

\* sum, turns: usage of a realtime session; posted: what PostConsumeQuota has taken;
\* tries: failed attempts of refundWithRetry.
OpType ==
    [delta : Nat, actual : Nat, post : {"none", "turn", "legacy", "fee"},
     sum : Nat, turns : Nat, posted : Nat, tries : Nat]

PaidType == [wallet : Int, sub : Int, token : Int]

Init ==
    /\ wallet \in InitWallets /\ token = InitToken /\ subUsed = 0
    /\ rec = [r \in Requests |-> "none"]
    /\ req \in [Requests -> Profiles]
    /\ info = [r \in Requests |-> [want |-> 0, eff |-> 0, ctxQuota |-> 0, ctxToken |-> 0,
                                  shortfall |-> FALSE, fellBack |-> FALSE]]
    /\ s = [r \in Requests |-> NoSession]
    /\ op = [r \in Requests |-> [delta |-> 0, actual |-> 0, post |-> "none", sum |-> 0,
                                turns |-> 0, posted |-> 0, tries |-> 0]]
    /\ pc = [r \in Requests |-> "new"]
    /\ bg = [r \in Requests |-> "none"]
    /\ paid = [r \in Requests |-> [wallet |-> 0, sub |-> 0, token |-> 0]]
    /\ hit = [r \in Requests |-> FALSE]

-----------------------------------------------------------------------------
(* The model layer, as the session uses it.                                *)

\* A call that returns a database error and changes nothing.
Fails(r, point) ==
    /\ point \in FaultPoints
    /\ hit' = [hit EXCEPT ![r] = TRUE]

Works == UNCHANGED hit

\* IncreaseUserQuota / DecreaseUserQuota: unconditional, the balance may go below zero.
WalletTake(r, n) ==
    /\ wallet' = wallet - n
    /\ paid' = [paid EXCEPT ![r].wallet = @ + n]
    /\ UNCHANGED <<token, subUsed, rec>>

\* IncreaseTokenQuota / DecreaseTokenQuota.
TokenTake(r, n) ==
    /\ token' = token - n
    /\ paid' = [paid EXCEPT ![r].token = @ + n]
    /\ UNCHANGED <<wallet, subUsed, rec>>

\* newUsed of PostConsumeUserSubscriptionDelta.
NewUsed(n) == IF subUsed + n > 0 THEN subUsed + n ELSE 0

\* "subscription used exceeds total"
SubExceeds(n) == SubTotal > 0 /\ NewUsed(n) > SubTotal

\* PostConsumeUserSubscriptionDelta, the branch that commits.
SubTake(r, n) ==
    /\ ~ SubExceeds(n)
    /\ subUsed' = NewUsed(n)
    /\ paid' = [paid EXCEPT ![r].sub = @ + NewUsed(n) - subUsed]
    /\ UNCHANGED <<wallet, token>>

BalancesSame == UNCHANGED <<wallet, token, subUsed, rec, paid>>

IsWallet(r) == s[r].source = "wallet"
IsSub(r) == s[r].source = "subscription"
Playground(r) == req[r].playground

Goto(r, l) == pc' = [pc EXCEPT ![r] = l]

-----------------------------------------------------------------------------
(* Authentication and NewBillingSession.                                   *)

\* The auth middleware loads the balances into the request context.
Authenticate(r) ==
    /\ pc[r] = "new"
    /\ info' = [info EXCEPT ![r].ctxQuota = wallet, ![r].ctxToken = token]
    /\ Goto(r, "auth")
    /\ Works /\ BalancesSame /\ UNCHANGED <<req, s, op, bg>>

\* A free model skips pre-consumption: relayInfo.Billing stays nil.
SkipFreeModel(r) ==
    /\ pc[r] = "auth"
    /\ Goto(r, "free")
    /\ Works /\ BalancesSame /\ UNCHANGED <<req, info, s, op, bg>>

\* PreConsumeBilling: from the auth stage, or from a request that started on a
\* free group and is sent to a paid one (PrepareTieredBillingForSelectedGroup,
\* RelayTaskSubmit).
\* subscription_first asks first whether the user has an active subscription.
PreConsumeBilling(r, n) ==
    /\ pc[r] \in {"auth", "free"}
    /\ info' = [info EXCEPT ![r].want = n]
    /\ \/ /\ Works
          /\ \/ req[r].pref = "subscription_only" /\ Goto(r, "trySub")
             \/ req[r].pref \in {"wallet_only", "wallet_first"} /\ Goto(r, "tryWallet")
             \/ /\ req[r].pref = "subscription_first"
                /\ \E hasSub \in BOOLEAN : Goto(r, IF hasSub THEN "trySub" ELSE "tryWallet")
       \/ /\ req[r].pref = "subscription_first"
          /\ Fails(r, "query")
          /\ Goto(r, "rejected")
    /\ BalancesSame /\ UNCHANGED <<req, s, op, bg>>

\* shouldTrust for the wallet; a subscription is never trusted.
ShouldTrust(r) ==
    /\ req[r].kind # "task"
    /\ TrustQuota > 0
    /\ req[r].unlimited \/ info[r].ctxToken > TrustQuota
    /\ info[r].ctxQuota > TrustQuota

\* The quota check of tryWallet, on the balance read at authentication.
WalletLooksShort(r) == info[r].want > 0 /\ info[r].ctxQuota < info[r].want

\* Where NewBillingSession goes when the source it tried has too little quota.
NextSource(r) ==
    IF info[r].fellBack THEN {"rejected"}
    ELSE IF req[r].pref = "wallet_first" THEN {"trySub"}
    ELSE IF req[r].pref = "subscription_first" /\ IsSub(r) THEN {"tryWallet", "rejected"}
    ELSE {"rejected"}

\* The session that failed is dropped.
Reject(r) == Goto(r, "rejected") /\ s' = [s EXCEPT ![r] = NoSession]

FallBack(r) ==
    \E l \in NextSource(r) :
        /\ Goto(r, l)
        /\ s' = [s EXCEPT ![r] = NoSession]
        /\ info' = [info EXCEPT ![r].shortfall = FALSE, ![r].fellBack = TRUE]

TryWallet(r) ==
    /\ pc[r] = "tryWallet"
    /\ \/ WalletLooksShort(r) /\ FallBack(r)
       \/ /\ ~ WalletLooksShort(r)
          /\ s' = [s EXCEPT ![r].source = "wallet", ![r].trusted = ShouldTrust(r)]
          /\ info' = [info EXCEPT ![r].eff = IF ShouldTrust(r) THEN 0 ELSE info[r].want]
          /\ Goto(r, "preToken")
    /\ Works /\ BalancesSame /\ UNCHANGED <<req, op, bg>>

\* subConsume is at least 1.
TrySubscription(r) ==
    /\ pc[r] = "trySub"
    /\ s' = [s EXCEPT ![r].source = "subscription"]
    /\ info' = [info EXCEPT ![r].eff = IF info[r].want = 0 THEN 1 ELSE info[r].want]
    /\ Goto(r, "preToken")
    /\ Works /\ BalancesSame /\ UNCHANGED <<req, op, bg>>

\* Step 1 of preConsume.  PreConsumeTokenQuota does nothing in the playground,
\* and tokenConsumed is set all the same.
PreConsumeToken(r) ==
    /\ pc[r] = "preToken"
    /\ \/ /\ info[r].eff = 0 \/ Playground(r)
          /\ s' = [s EXCEPT ![r].tokenConsumed = info[r].eff]
          /\ Goto(r, "preFunding") /\ Works /\ BalancesSame
       \/ /\ info[r].eff > 0 /\ ~ Playground(r)
          /\ \/ /\ req[r].unlimited \/ token >= info[r].eff
                /\ TokenTake(r, info[r].eff)
                /\ s' = [s EXCEPT ![r].tokenConsumed = info[r].eff]
                /\ Goto(r, "preFunding") /\ Works
             \/ /\ ~ req[r].unlimited /\ token < info[r].eff
                /\ Reject(r) /\ Works /\ BalancesSame
             \/ Fails(r, "token") /\ Reject(r) /\ BalancesSame
    /\ UNCHANGED <<req, info, op, bg>>

\* Mutant: the decrement relies on the check made on the stale balance.
PreConsumeWalletUnchecked(r) ==
    /\ pc[r] = "preFunding" /\ IsWallet(r)
    /\ WalletTake(r, info[r].eff)
    /\ s' = [s EXCEPT ![r].held = info[r].eff, ![r].pre = info[r].eff]
    /\ Goto(r, "open") /\ Works
    /\ UNCHANGED <<req, info, op, bg>>

\* Step 2 of preConsume, wallet: TryReserveUserQuota is a conditional decrement.
PreConsumeWallet(r) ==
    /\ pc[r] = "preFunding" /\ IsWallet(r)
    /\ \/ /\ info[r].eff = 0 \/ wallet >= info[r].eff
          /\ WalletTake(r, info[r].eff)
          /\ s' = [s EXCEPT ![r].held = info[r].eff, ![r].pre = info[r].eff]
          /\ Goto(r, "open") /\ Works /\ UNCHANGED info
       \/ /\ info[r].eff > 0 /\ wallet < info[r].eff
          /\ info' = [info EXCEPT ![r].shortfall = TRUE] /\ UNCHANGED s
          /\ Goto(r, "undoToken") /\ Works /\ BalancesSame
       \/ /\ info[r].eff > 0 /\ Fails(r, "wallet")
          /\ Goto(r, "undoToken") /\ BalancesSame /\ UNCHANGED <<s, info>>
    /\ UNCHANGED <<req, op, bg>>

\* Mutant: the refusal comes after the used amount was committed.
PreConsumeSubscriptionLeaky(r) ==
    /\ pc[r] = "preFunding" /\ IsSub(r)
    /\ \/ /\ rec[r] = "none"
          /\ SubTake(r, info[r].eff)
          /\ rec' = [rec EXCEPT ![r] = "consumed"]
          /\ s' = [s EXCEPT ![r].held = info[r].eff, ![r].pre = info[r].eff]
          /\ Goto(r, "open") /\ Works /\ UNCHANGED info
       \/ /\ SubTake(r, info[r].eff) /\ UNCHANGED rec
          /\ info' = [info EXCEPT ![r].shortfall = TRUE] /\ UNCHANGED s
          /\ Goto(r, "undoToken") /\ Works
    /\ UNCHANGED <<req, op, bg>>

\* Step 2 of preConsume, subscription: PreConsumeUserSubscription writes the
\* request's record and the used amount in one transaction.  The subscription may
\* have run out or have ended by then.
PreConsumeSubscription(r) ==
    /\ pc[r] = "preFunding" /\ IsSub(r)
    /\ \/ /\ rec[r] = "none"
          /\ SubTake(r, info[r].eff)
          /\ rec' = [rec EXCEPT ![r] = "consumed"]
          /\ s' = [s EXCEPT ![r].held = info[r].eff, ![r].pre = info[r].eff]
          /\ Goto(r, "open") /\ Works /\ UNCHANGED info
       \/ /\ info' = [info EXCEPT ![r].shortfall = TRUE] /\ UNCHANGED s
          /\ Goto(r, "undoToken") /\ Works /\ BalancesSame
       \/ /\ Fails(r, "sub")
          /\ Goto(r, "undoToken") /\ BalancesSame /\ UNCHANGED <<s, info>>
    /\ UNCHANGED <<req, op, bg>>

\* Mutant: the token's rollback is forgotten.
UndoTokenForgotten(r) ==
    /\ pc[r] = "undoToken"
    /\ Works /\ BalancesSame
    /\ IF info[r].shortfall THEN FallBack(r) ELSE Reject(r) /\ UNCHANGED info
    /\ UNCHANGED <<req, op, bg>>

\* preConsume gives the token quota back when the funding source refuses, then
\* NewBillingSession falls back only on "insufficient user quota".
UndoToken(r) ==
    /\ pc[r] = "undoToken"
    /\ \/ s[r].tokenConsumed > 0 /\ ~ Playground(r) /\ TokenTake(r, - s[r].tokenConsumed) /\ Works
       \/ s[r].tokenConsumed > 0 /\ ~ Playground(r) /\ Fails(r, "token") /\ BalancesSame
       \/ (s[r].tokenConsumed = 0 \/ Playground(r)) /\ Works /\ BalancesSame
    /\ IF info[r].shortfall THEN FallBack(r) ELSE Reject(r) /\ UNCHANGED info
    /\ UNCHANGED <<req, op, bg>>

-----------------------------------------------------------------------------
(* Reserve.                                                                *)

\* reserveFunding, after the early returns of Reserve.
Reserve(r, target) ==
    /\ pc[r] = "open" /\ op[r].turns = 0
    /\ ~ s[r].settled /\ ~ s[r].refunded /\ ~ s[r].trusted
    /\ target > s[r].pre
    /\ LET d == target - s[r].pre IN
         \/ /\ IsWallet(r) /\ WalletTake(r, d)
            /\ s' = [s EXCEPT ![r].held = @ + d] /\ op' = [op EXCEPT ![r].delta = d]
            /\ Goto(r, "reserveToken") /\ Works
         \/ /\ IsSub(r) /\ SubTake(r, d) /\ UNCHANGED rec
            /\ op' = [op EXCEPT ![r].delta = d] /\ UNCHANGED s
            /\ Goto(r, "reserveToken") /\ Works
         \/ /\ IsSub(r) /\ SubExceeds(d)
            /\ Goto(r, "failing") /\ Works /\ BalancesSame /\ UNCHANGED <<s, op>>
         \/ /\ Fails(r, IF IsWallet(r) THEN "wallet" ELSE "sub")
            /\ Goto(r, "failing") /\ BalancesSame /\ UNCHANGED <<s, op>>
    /\ UNCHANGED <<req, info, bg>>

\* The fields Reserve updates once both sides are reserved.
Reserved(r) ==
    s' = [s EXCEPT ![r].pre = @ + op[r].delta, ![r].tokenConsumed = @ + op[r].delta,
                   ![r].extra = @ + op[r].delta]

ReserveToken(r) ==
    /\ pc[r] = "reserveToken"
    /\ \/ Playground(r) /\ Reserved(r) /\ Goto(r, "open") /\ Works /\ BalancesSame
       \/ /\ ~ Playground(r) /\ (req[r].unlimited \/ token >= op[r].delta)
          /\ TokenTake(r, op[r].delta) /\ Reserved(r) /\ Goto(r, "open") /\ Works
       \/ /\ ~ Playground(r) /\ ~ req[r].unlimited /\ token < op[r].delta
          /\ Goto(r, "undoReserve") /\ Works /\ BalancesSame /\ UNCHANGED s
       \/ /\ ~ Playground(r) /\ Fails(r, "token")
          /\ Goto(r, "undoReserve") /\ BalancesSame /\ UNCHANGED s
    /\ UNCHANGED <<req, info, op, bg>>

\* Mutant: the wallet's rollback takes the delta off the books although pre, which
\* never held it, is taken off too.
UndoReserveTwice(r) ==
    /\ pc[r] = "undoReserve"
    /\ IsWallet(r) /\ WalletTake(r, - op[r].delta)
    /\ s' = [s EXCEPT ![r].held = @ - op[r].delta, ![r].pre = @ - op[r].delta]
    /\ Works
    /\ Goto(r, "failing")
    /\ UNCHANGED <<req, info, op, bg>>

\* rollbackFundingReserve: a failing rollback is only logged.
UndoReserve(r) ==
    /\ pc[r] = "undoReserve"
    /\ \/ /\ IsWallet(r) /\ WalletTake(r, - op[r].delta)
          /\ s' = [s EXCEPT ![r].held = @ - op[r].delta] /\ Works
       \/ IsSub(r) /\ SubTake(r, - op[r].delta) /\ Works /\ UNCHANGED <<rec, s>>
       \/ /\ Fails(r, IF IsWallet(r) THEN "wallet" ELSE "sub")
          /\ BalancesSame /\ UNCHANGED s
    /\ Goto(r, "failing")
    /\ UNCHANGED <<req, info, op, bg>>

-----------------------------------------------------------------------------
(* Settle.                                                                 *)

\* The upstream answered: the handler computes the actual quota.  A realtime
\* session settles the usage summed over its turns.
Succeed(r, n) ==
    /\ pc[r] = "open"
    /\ req[r].kind = "realtime" => n = op[r].sum
    /\ op' = [op EXCEPT ![r].actual = n]
    /\ Goto(r, "settle")
    /\ Works /\ BalancesSame /\ UNCHANGED <<req, info, s, bg>>

\* Mutant: the whole cost is taken, not the difference to the hold.
SettleFundingWhole(r) ==
    /\ pc[r] = "settle"
    /\ \/ IsWallet(r) /\ WalletTake(r, op[r].actual)
       \/ IsSub(r) /\ SubTake(r, op[r].actual) /\ UNCHANGED rec
    /\ s' = [s EXCEPT ![r].fundingSettled = TRUE]
    /\ Goto(r, "settleToken") /\ Works
    /\ UNCHANGED <<req, info, op, bg>>

\* Settle up to funding.Settle.  An error leaves the session unsettled; every
\* caller only logs or reports it, and none of them refunds after it.
SettleFunding(r) ==
    /\ pc[r] = "settle"
    /\ LET d == op[r].actual - s[r].pre IN
         \/ /\ d = 0
            /\ s' = [s EXCEPT ![r].settled = TRUE]
            /\ Goto(r, "done") /\ Works /\ BalancesSame
         \/ /\ d # 0
            /\ \/ IsWallet(r) /\ WalletTake(r, d)
               \/ IsSub(r) /\ SubTake(r, d) /\ UNCHANGED rec
            /\ s' = [s EXCEPT ![r].fundingSettled = TRUE]
            /\ Goto(r, "settleToken") /\ Works
         \/ /\ d # 0 /\ IsSub(r) /\ SubExceeds(d)
            /\ Goto(r, "done") /\ Works /\ BalancesSame /\ UNCHANGED s
         \/ /\ d # 0 /\ Fails(r, IF IsWallet(r) THEN "wallet" ELSE "sub")
            /\ Goto(r, "done") /\ BalancesSame /\ UNCHANGED s
    /\ UNCHANGED <<req, info, op, bg>>

\* The token side of Settle: its error is logged and the session is settled anyway.
SettleToken(r) ==
    /\ pc[r] = "settleToken"
    /\ \/ Playground(r) /\ Works /\ BalancesSame
       \/ ~ Playground(r) /\ TokenTake(r, op[r].actual - s[r].pre) /\ Works
       \/ ~ Playground(r) /\ Fails(r, "token") /\ BalancesSame
    /\ s' = [s EXCEPT ![r].settled = TRUE]
    /\ Goto(r, "done")
    /\ UNCHANGED <<req, info, op, bg>>

-----------------------------------------------------------------------------
(* PostConsumeQuota: realtime turns, requests without a session, the fee.  *)

StartPost(r, what, n) ==
    /\ op' = [op EXCEPT ![r].post = what, ![r].delta = n,
                      ![r].sum = IF what = "turn" THEN @ + n ELSE @,
                      ![r].turns = IF what = "turn" THEN @ + 1 ELSE @]
    /\ Goto(r, "postFunding")

\* preConsumeUsage adds the turn to the sum and charges it right away
\* (PreWssConsumeQuota) if both balances still cover it.  It is added and not charged
\* if they do not, or cannot be read, or if the price is fixed.  A turn that was
\* refused, or whose charge failed, is added and tried once more before the session
\* ends: that is one more turn here, and Succeed; that other turns may come between
\* is more than the code does.
RealtimeTurn(r, n) ==
    /\ pc[r] = "open" /\ req[r].kind = "realtime"
    /\ op[r].turns < MaxTurns /\ n > 0
    /\ \/ /\ wallet >= n /\ (req[r].unlimited \/ token >= n)
          /\ StartPost(r, "turn", n)
       \/ op' = [op EXCEPT ![r].sum = @ + n, ![r].turns = @ + 1] /\ UNCHANGED pc
    /\ Works /\ BalancesSame /\ UNCHANGED <<req, info, s, bg>>

\* SettleBilling without a session: the old PostConsumeQuota path.
SettleLegacy(r, n) ==
    /\ pc[r] = "free"
    /\ req[r].kind = "realtime" => n = 0
    /\ \/ n = 0 /\ Goto(r, "done") /\ UNCHANGED op
       \/ n > 0 /\ StartPost(r, "legacy", n)
    /\ Works /\ BalancesSame /\ UNCHANGED <<req, info, s, bg>>

\* Where a charge without a session leads, made or failed.  After a turn it is the open
\* session again: the code ends one whose charge failed after one more try.
AfterPost(r) ==
    CASE op[r].post = "turn" -> "open"
      [] op[r].post = "legacy" -> "done"
      [] OTHER -> "failed"

\* The funding side.  Without a session the billing source is empty: the wallet.
PostFunding(r) ==
    /\ pc[r] = "postFunding"
    /\ \/ /\ \/ ~ IsSub(r) /\ WalletTake(r, op[r].delta)
             \/ IsSub(r) /\ SubTake(r, op[r].delta) /\ UNCHANGED rec
          /\ op' = [op EXCEPT ![r].posted = @ + op[r].delta]
          /\ Goto(r, "postToken") /\ Works
       \/ /\ \/ IsSub(r) /\ SubExceeds(op[r].delta) /\ Works
             \/ Fails(r, IF IsSub(r) THEN "sub" ELSE "wallet")
          /\ Goto(r, AfterPost(r)) /\ BalancesSame /\ UNCHANGED op
    /\ UNCHANGED <<req, info, s, bg>>

PostToken(r) ==
    /\ pc[r] = "postToken"
    /\ \/ Playground(r) /\ Works /\ BalancesSame
       \/ ~ Playground(r) /\ TokenTake(r, op[r].delta) /\ Works
       \/ ~ Playground(r) /\ Fails(r, "token") /\ BalancesSame
    /\ Goto(r, AfterPost(r))
    /\ UNCHANGED <<req, info, s, op, bg>>

-----------------------------------------------------------------------------
(* Refund.                                                                 *)

\* Mutant: the deferred refund ignores that the UNCONFIRMED row owns the hold.
FailAfterHandOver(r) ==
    /\ pc[r] \in {"open", "free", "handed"} /\ op[r].turns = 0
    /\ Goto(r, "failing")
    /\ Works /\ BalancesSame /\ UNCHANGED <<req, info, s, op, bg>>

\* The request fails for good: no channel, an upstream error that is not retried,
\* a cancelled context, a task row that cannot be inserted.  A realtime handler
\* that has connected never returns an error.
Fail(r) ==
    /\ pc[r] \in {"open", "free"} /\ op[r].turns = 0
    /\ Goto(r, "failing")
    /\ Works /\ BalancesSame /\ UNCHANGED <<req, info, s, op, bg>>

\* A task submission whose outcome is unknown: the UNCONFIRMED row keeps the hold.
HandOver(r) ==
    /\ pc[r] = "open" /\ req[r].kind = "task"
    /\ Goto(r, "handed")
    /\ Works /\ BalancesSame /\ UNCHANGED <<req, info, s, op, bg>>

NeedsRefund(r) ==
    /\ ~ s[r].settled /\ ~ s[r].refunded /\ ~ s[r].fundingSettled
    /\ s[r].tokenConsumed > 0 \/ (IsSub(r) /\ s[r].held > 0)

\* ChargeViolationFeeIfNeeded: a fee is due for a violation, if one is configured.  The
\* handler of task submissions never asks.
ChargesFee(r, violation) == violation /\ Fee > 0 /\ req[r].kind # "task"

\* The deferred handler: Refund (which only starts the goroutine), then
\* ChargeViolationFeeIfNeeded when the upstream reported a violation.
Refund(r) ==
    /\ pc[r] = "failing"
    /\ bg' = [bg EXCEPT ![r] = IF NeedsRefund(r) THEN "funding" ELSE @]
    /\ s' = [s EXCEPT ![r].refunded = @ \/ NeedsRefund(r)]
    /\ \E violation \in BOOLEAN :
         /\ op' = IF ChargesFee(r, violation)
                  THEN [op EXCEPT ![r].post = "fee", ![r].delta = Fee] ELSE op
         /\ Goto(r, IF ChargesFee(r, violation) THEN "postFunding" ELSE "failed")
    /\ Works /\ BalancesSame /\ UNCHANGED <<req, info>>

BgGoto(r, l) == bg' = [bg EXCEPT ![r] = l]

\* WalletFunding.Refund: not idempotent, tried once.
RefundWallet(r) ==
    /\ bg[r] = "funding" /\ IsWallet(r)
    /\ \/ s[r].held > 0 /\ WalletTake(r, - s[r].held) /\ Works
       \/ s[r].held > 0 /\ Fails(r, "wallet") /\ BalancesSame
       \/ s[r].held = 0 /\ Works /\ BalancesSame
    /\ BgGoto(r, "extra")
    /\ UNCHANGED <<req, info, s, op, pc>>

\* Mutant: refundWithRetry starts over when its attempts are used up.
RefundSubscriptionForever(r) ==
    /\ bg[r] = "funding" /\ IsSub(r)
    /\ \/ /\ s[r].held = 0 \/ rec[r] = "refunded"
          /\ BgGoto(r, "extra") /\ Works /\ BalancesSame /\ UNCHANGED op
       \/ /\ s[r].held > 0 /\ rec[r] = "consumed" /\ SubTake(r, - s[r].held)
          /\ rec' = [rec EXCEPT ![r] = "refunded"]
          /\ BgGoto(r, "extra") /\ Works /\ UNCHANGED op
       \/ /\ s[r].held > 0 /\ rec[r] = "consumed" /\ Fails(r, "sub") /\ BalancesSame
          /\ op' = [op EXCEPT ![r].tries = IF @ + 1 < MaxRefundAttempts THEN @ + 1 ELSE 0]
          /\ UNCHANGED bg
    /\ UNCHANGED <<req, info, s, pc>>

\* One attempt of RefundSubscriptionPreConsume under refundWithRetry.  The
\* decrement runs in a transaction of its own: it may have committed when the
\* outer transaction, which marks the record, fails ("record").
RefundSubscription(r) ==
    /\ bg[r] = "funding" /\ IsSub(r)
    /\ \/ /\ s[r].held = 0 \/ rec[r] = "refunded"
          /\ BgGoto(r, "extra") /\ Works /\ BalancesSame /\ UNCHANGED op
       \/ /\ s[r].held > 0 /\ rec[r] = "consumed" /\ SubTake(r, - s[r].held)
          /\ rec' = [rec EXCEPT ![r] = "refunded"]
          /\ BgGoto(r, "extra") /\ Works /\ UNCHANGED op
       \/ /\ s[r].held > 0 /\ rec[r] = "consumed"
          /\ \/ Fails(r, "sub") /\ BalancesSame
             \/ Fails(r, "record") /\ SubTake(r, - s[r].held) /\ UNCHANGED rec
          /\ op' = [op EXCEPT ![r].tries = @ + 1]
          /\ BgGoto(r, IF op[r].tries + 1 < MaxRefundAttempts THEN "funding" ELSE "extra")
    /\ UNCHANGED <<req, info, s, pc>>

\* Mutant: the extra reserve is given back to the wallet as well.
RefundExtraTwice(r) ==
    /\ bg[r] = "extra"
    /\ \/ IsSub(r) /\ SubTake(r, - s[r].extra) /\ UNCHANGED rec
       \/ ~ IsSub(r) /\ WalletTake(r, - s[r].extra)
    /\ Works /\ BgGoto(r, "token")
    /\ UNCHANGED <<req, info, s, op, pc>>

\* The quota Reserve added to a subscription is not in the record: given back apart.
RefundExtra(r) ==
    /\ bg[r] = "extra"
    /\ \/ IsSub(r) /\ s[r].extra > 0 /\ SubTake(r, - s[r].extra) /\ UNCHANGED rec /\ Works
       \/ IsSub(r) /\ s[r].extra > 0 /\ Fails(r, "sub") /\ BalancesSame
       \/ ~ (IsSub(r) /\ s[r].extra > 0) /\ Works /\ BalancesSame
    /\ BgGoto(r, "token")
    /\ UNCHANGED <<req, info, s, op, pc>>

RefundToken(r) ==
    /\ bg[r] = "token"
    /\ \/ s[r].tokenConsumed > 0 /\ ~ Playground(r) /\ TokenTake(r, - s[r].tokenConsumed) /\ Works
       \/ s[r].tokenConsumed > 0 /\ ~ Playground(r) /\ Fails(r, "token") /\ BalancesSame
       \/ (s[r].tokenConsumed = 0 \/ Playground(r)) /\ Works /\ BalancesSame
    /\ BgGoto(r, "end")
    /\ UNCHANGED <<req, info, s, op, pc>>

-----------------------------------------------------------------------------
\* The process dies: every session is in memory only, and nothing recovers it.
Crash ==
    /\ Crashes
    /\ \E r \in Requests : pc[r] \notin Ended \cup {"new"} \/ bg[r] \notin {"none", "end"}
    /\ pc' = [r \in Requests |-> IF pc[r] \in Ended \cup {"new"} THEN pc[r] ELSE "lost"]
    /\ bg' = [r \in Requests |-> IF bg[r] = "none" THEN "none" ELSE "end"]
    /\ hit' = [r \in Requests |-> hit[r] \/ pc[r] \notin Ended \cup {"new"}
                                         \/ bg[r] \notin {"none", "end"}]
    /\ BalancesSame /\ UNCHANGED <<req, info, s, op>>

Step(r) ==
    \/ Authenticate(r) \/ SkipFreeModel(r) \/ (\E n \in Amounts : PreConsumeBilling(r, n))
    \/ TryWallet(r) \/ TrySubscription(r) \/ PreConsumeToken(r)
    \/ PreConsumeWallet(r) \/ PreConsumeSubscription(r) \/ UndoToken(r)
    \/ (\E n \in Amounts : Reserve(r, n)) \/ ReserveToken(r) \/ UndoReserve(r)
    \/ (\E n \in Amounts \cup {op[r].sum} : Succeed(r, n)) \/ SettleFunding(r) \/ SettleToken(r)
    \/ (\E n \in Amounts : RealtimeTurn(r, n)) \/ (\E n \in Amounts : SettleLegacy(r, n))
    \/ PostFunding(r) \/ PostToken(r)
    \/ Fail(r) \/ HandOver(r) \/ Refund(r)

RefundStep(r) ==
    RefundWallet(r) \/ RefundSubscription(r) \/ RefundExtra(r) \/ RefundToken(r)

Closed(r) == pc[r] \in Ended /\ bg[r] \in {"none", "end"}

\* Everyone is done: no deadlock.
Finished == (\A r \in Requests : Closed(r)) /\ UNCHANGED vars

Next == (\E r \in Requests : Step(r) \/ RefundStep(r)) \/ Crash \/ Finished

Spec == Init /\ [][Next]_vars

\* A goroutine that can run eventually runs; nothing forces the process to die.
FairSpec ==
    Spec /\ \A r \in Requests : WF_vars(Step(r)) /\ WF_vars(RefundStep(r))
-----------------------------------------------------------------------------
(* What the sessions promise.                                              *)

\* Type invariant of the session state.
TypeOK ==
    /\ wallet \in Int /\ token \in Int /\ subUsed \in Nat
    /\ rec \in [Requests -> {"none", "consumed", "refunded"}]
    /\ req \in [Requests -> ProfileType]
    /\ info \in [Requests -> InfoType]
    /\ s \in [Requests -> SessionType]
    /\ op \in [Requests -> OpType]
    /\ pc \in [Requests -> PCs]
    /\ bg \in [Requests -> BGs]
    /\ paid \in [Requests -> PaidType]
    /\ hit \in [Requests -> BOOLEAN]

\* Whatever fails, wherever the process dies, and however refunds, rollbacks,
\* settlements and retries interleave, a request never gets back more than it
\* took: no step of the session layer creates quota.
NoQuotaCreated ==
    \A r \in Requests : paid[r].wallet >= 0 /\ paid[r].sub >= 0 /\ paid[r].token >= 0

\* What a closed request owes its funding source, from the way it ended.
Due(r) ==
    CASE pc[r] \in {"done", "handed"} ->
           IF s[r].settled THEN op[r].actual
           ELSE IF s[r].source = "none" THEN op[r].posted ELSE s[r].pre
      [] pc[r] = "failed" -> op[r].posted
      [] OTHER -> 0

\* A closed request that met no database error has paid exactly what it owes: the
\* actual cost when settled, the hold when the settlement was refused or the task
\* row took it over, nothing (or the fee) when it failed.  The token has paid the
\* same, or nothing in the playground.  Realtime sessions are left to
\* RealtimeChargedOnce.
ExactCharge ==
    \A r \in Requests :
        Closed(r) /\ ~ hit[r] /\ op[r].turns = 0 =>
            /\ paid[r].wallet + paid[r].sub = Due(r)
            /\ paid[r].token = IF Playground(r) THEN 0 ELSE Due(r)

\* Falling back from one funding source to the other never leaves a request
\* holding quota of both.
OneFundingSource ==
    \A r \in Requests : paid[r].wallet = 0 \/ paid[r].sub = 0

\* The consume log of a realtime session records the summed usage as the quota
\* spent; the balance should have moved by as much.
RealtimeChargedOnce ==
    \A r \in Requests :
        req[r].kind = "realtime" /\ Closed(r) /\ ~ hit[r] /\ s[r].settled =>
            paid[r].wallet + paid[r].sub = op[r].actual

\* RefundSubscriptionPreConsume "is idempotent": however often it is retried, the
\* pre-consumed amount is given back at most once.
RefundIdempotent ==
    \A r \in Requests : IsSub(r) /\ bg[r] \in {"funding", "extra"} => paid[r].sub >= s[r].extra

\* Once both threads of a request have ended its account never moves again: no
\* late refund, second settlement or retry.
ClosedStaysClosed ==
    [][\A r \in Requests : Closed(r) => Closed(r)' /\ paid'[r] = paid[r]]_vars

\* The balance read at authentication is stale when the quota is reserved, and
\* several requests may have passed the check on it.  Still the balance is negative
\* only when some request has spent beyond the hold it was admitted with, or was
\* charged the violation fee.
OverdraftOnlyBeyondHold ==
    wallet < 0 => \E r \in Requests : paid[r].wallet > info[r].eff \/ op[r].posted > 0

\* Every request that arrives is closed in the end, its refund goroutine included.
EveryRequestCloses == \A r \in Requests : (pc[r] # "new") ~> Closed(r)
=============================================================================
