------------------------ MODULE BillingAccountsProofs ------------------------
(***************************************************************************)
(* What the requests of BillingSession pay, proved: a session that met no  *)
(* error charges exactly what it owes (ExactCharge), the wallet goes below *)
(* zero only for what was spent beyond the holds (OverdraftOnlyBeyondHold) *)
(* and every step is one of ChargeOnce (ImplementsChargeOnce).             *)
(*                                                                         *)
(* Books, the invariant of BillingSessionProofs, bounds what a request has *)
(* paid from below.  The ledger says how much it is exactly, which needs   *)
(* the requests together: PostConsumeUserSubscriptionDelta clips at zero,  *)
(* and a give-back is not clipped because the used amount of the           *)
(* subscription is the sum of what its requests have taken.                *)
(***************************************************************************)
EXTENDS BillingSessionProofs, BillingRefinement, FiniteSums

\* The funding source holds quota for r that neither a settlement nor a refund has moved.
Holding(r) == ~ s[r].fundingSettled /\ bg[r] \in {"none", "funding"}

\* Where a session is open, or is charging a realtime turn.
Serving(r) ==
    \/ pc[r] \in {"open", "reserveToken", "undoReserve", "settle"}
    \/ pc[r] \in {"postFunding", "postToken"} /\ op[r].post = "turn"

\* Which fields of a session go together, beyond Shape.
SessionLedger(r) ==
    /\ s[r].source = "none" => s[r] = NoSession
    /\ pc[r] \in {"preToken", "preFunding", "undoToken", "settleToken", "handed"} \/ Serving(r) =>
         s[r].source # "none"
    /\ pc[r] \in BeforeHold \cup {"rejected"} => op[r].posted = 0 /\ bg[r] = "none"
    /\ pc[r] = "rejected" => s[r].source = "none"
    /\ pc[r] \notin BeforeHold \cup {"lost"} => s[r].tokenConsumed = s[r].pre
    /\ IsWallet(r) /\ pc[r] \notin BeforeHold \cup {"lost"} => s[r].pre >= info[r].eff
    /\ s[r].source # "none" /\ op[r].turns = 0 /\ pc[r] \notin {"postToken", "failed", "lost"} =>
         op[r].posted = 0
    /\ s[r].source # "none" /\ op[r].turns = 0 /\ pc[r] \in {"postFunding", "postToken"} =>
         op[r].post \notin {"turn", "legacy"}
    /\ bg[r] = "none" /\ pc[r] \in {"postFunding", "postToken", "failed"} =>
         s[r].pre = 0 \/ (pc[r] # "failed" /\ op[r].post \in {"turn", "legacy"})
    /\ pc[r] = "lost" => hit[r]
    /\ s[r].settled => pc[r] = "done"
    /\ pc[r] = "settleToken" => s[r].fundingSettled
    /\ s[r].fundingSettled => s[r].settled \/ pc[r] \in {"settleToken", "lost"}
    /\ s[r].refunded <=> bg[r] # "none"
    /\ bg[r] # "none" => s[r].source # "none"
    /\ rec[r] = "refunded" => bg[r] \notin {"none", "funding"}

\* What the session has taken from its funding source.
FundingLedger(r) ==
    /\ ChargeOf(r) >= 0
    /\ s[r].source = "none" => ChargeOf(r) = 0
    /\ s[r].fundingSettled \/ s[r].settled => ChargeOf(r) = op[r].actual
    /\ Holding(r) => ChargeOf(r) >= IF IsWallet(r) THEN s[r].held ELSE s[r].pre + Pending(r)
    /\ Holding(r) /\ (Serving(r) \/ ~ hit[r]) => ChargeOf(r) = s[r].pre + Pending(r)
    /\ bg[r] = "extra" /\ IsSub(r) => ChargeOf(r) >= s[r].extra
    /\ bg[r] = "extra" /\ ~ hit[r] => ChargeOf(r) = IF IsSub(r) THEN s[r].extra ELSE 0
    /\ bg[r] \in {"token", "end"} /\ ~ hit[r] => ChargeOf(r) = 0

\* What the token has paid, of a request that met no error.
TokenDue(r) ==
    (IF s[r].settled THEN op[r].actual ELSE IF bg[r] = "end" THEN 0 ELSE s[r].tokenConsumed)
      + op[r].posted - (IF pc[r] = "postToken" THEN op[r].delta ELSE 0)

TokenLedger(r) ==
    /\ Playground(r) => paid[r].token = 0
    /\ ~ Playground(r) /\ ~ hit[r] => paid[r].token = TokenDue(r)

Ledger(r) == SessionLedger(r) /\ FundingLedger(r) /\ TokenLedger(r)

\* The used amount of the subscription is what its requests have taken.
SubPaid == [r \in Requests |-> paid[r].sub]
SubLedger == subUsed = SumFunctionOnSet(SubPaid, Requests)

AInv == IInv /\ SubLedger /\ \A r \in Requests : Ledger(r)
-----------------------------------------------------------------------------
\* What r has spent beyond the hold it was admitted with, or beside its session.
Excess(r) ==
    (IF paid[r].wallet > info[r].eff THEN paid[r].wallet - info[r].eff ELSE 0) + op[r].posted

\* A step of r takes from the wallet what it leaves above zero, or what it adds to its
\* excess.
Covered(r) == wallet' >= 0 \/ wallet' + Excess(r)' >= wallet + Excess(r)

\* A step of r moves the three balances by dw, ds and dt.
Flow(r, dw, ds, dt) ==
    Moves(r, dw, ds, dt) /\ wallet' = wallet - dw /\ subUsed' = subUsed + ds

SubSynced(r) == subUsed' - subUsed = paid'[r].sub - paid[r].sub

SameAmounts(r) ==
    ChargeOf(r)' = ChargeOf(r) /\ op'[r].actual = op[r].actual /\ op'[r].posted = op[r].posted

\* The steps of ChargeOnce, as one request sees them.
AbstractStep(r) ==
    \/ StateOf(r)' \in {StateOf(r), "closed"} /\ SameAmounts(r)
    \/ /\ StateOf(r) = "none" /\ StateOf(r)' = "open" /\ ChargeOf(r)' >= 0
       /\ op'[r].actual = op[r].actual /\ op'[r].posted = op[r].posted
    \/ /\ StateOf(r) = "open" /\ StateOf(r)' = "open" /\ ChargeOf(r)' >= ChargeOf(r)
       /\ op'[r].actual = op[r].actual /\ op'[r].posted = op[r].posted
    \/ /\ StateOf(r) \in {"open", "returning"} /\ StateOf(r)' = StateOf(r)
       /\ ChargeOf(r)' \in 0..ChargeOf(r)
       /\ op'[r].actual = op[r].actual /\ op'[r].posted = op[r].posted
    \/ /\ StateOf(r) = "open" /\ StateOf(r)' = "open" /\ op'[r].actual >= 0
       /\ ChargeOf(r)' = ChargeOf(r) /\ op'[r].posted = op[r].posted
    \/ /\ StateOf(r) = "open" /\ StateOf(r)' = "settled" /\ ChargeOf(r)' = op[r].actual
       /\ op'[r].actual = op[r].actual /\ op'[r].posted = op[r].posted
    \/ StateOf(r) = "open" /\ StateOf(r)' = "returning" /\ SameAmounts(r)
    \/ /\ StateOf(r) \in {"none", "open", "returning"} /\ StateOf(r)' = StateOf(r)
       /\ ChargeOf(r)' = ChargeOf(r) /\ op'[r].actual = op[r].actual
       /\ op'[r].posted >= op[r].posted

\* A step of r leaves the marks of another request alone.
OwnMarks(r) == \A q \in Requests \ {r} : rec'[q] = rec[q] /\ hit'[q] = hit[q]

\* What every step of r establishes.
Accounted(r) ==
    Ledger(r)' /\ SubSynced(r) /\ Covered(r) /\ AbstractStep(r) /\ OwnMarks(r)
-----------------------------------------------------------------------------
\* What the invariant says of one request.
LEMMA AccountFacts ==
    ASSUME AInv, NEW r \in Requests
    PROVE  TypeOK /\ Books(r) /\ Ledger(r) /\ subUsed >= paid[r].sub /\ paid[r].sub >= 0
  <1>1. TypeOK /\ Books(r) /\ Ledger(r)
    BY DEF AInv, IInv
  <1>2. \A q \in Requests : SubPaid[q] \in Nat
    <2>1. ASSUME NEW q \in Requests PROVE SubPaid[q] \in Nat
      BY <1>1, TypeFacts DEF AInv, IInv, Books, SubBooks, SubPaid
    <2> QED BY <2>1
  <1>3. SumFunctionOnSet(SubPaid, Requests) >= SubPaid[r]
    BY <1>2, SumBounds, RequestsAssumption
  <1> QED BY <1>1, <1>3, <1>2 DEF AInv, SubLedger, SubPaid

LEMMA WalletFlows ==
    ASSUME TypeOK, NEW r \in Requests, NEW n \in Int, WalletTake(r, n)
    PROVE  Flow(r, n, 0, 0) /\ rec' = rec
  <1>1. Moves(r, n, 0, 0) /\ rec' = rec
    BY WalletMoves
  <1>2. wallet' = wallet - n /\ subUsed' = subUsed + 0
    BY DEF TypeOK, WalletTake
  <1> QED BY <1>1, <1>2 DEF Flow

LEMMA TokenFlows ==
    ASSUME TypeOK, NEW r \in Requests, NEW n \in Int, TokenTake(r, n)
    PROVE  Flow(r, 0, 0, n) /\ rec' = rec
  <1>1. Moves(r, 0, 0, n) /\ rec' = rec
    BY TokenMoves
  <1>2. wallet' = wallet - 0 /\ subUsed' = subUsed + 0
    BY DEF TypeOK, TokenTake
  <1> QED BY <1>1, <1>2 DEF Flow

LEMMA NothingFlows ==
    ASSUME TypeOK, NEW r \in Requests, BalancesSame
    PROVE  Flow(r, 0, 0, 0) /\ rec' = rec
  BY NothingMoves DEF TypeOK, Flow, BalancesSame

\* A request that takes, or gives back no more than it has taken, is never clipped.
LEMMA SubFlows ==
    ASSUME AInv, NEW r \in Requests, NEW n \in Int, SubTake(r, n), paid[r].sub + n >= 0
    PROVE  Flow(r, 0, n, 0)
  <1>1. TypeOK /\ subUsed >= paid[r].sub /\ subUsed \in Nat /\ paid[r].sub \in Int
    BY AccountFacts, TypeFacts DEF TypeOK
  <1>2. NewUsed(n) = subUsed + n
    BY <1>1 DEF NewUsed
  <1>3. NewUsed(n) - subUsed = n
    BY <1>1, <1>2
  <1>4. Moves(r, 0, n, 0)
    BY <1>1, <1>3, SubMoves
  <1> QED BY <1>1, <1>2, <1>4 DEF Flow, SubTake, TypeOK

\* A call that works and one that fails mark r only.
LEMMA Marks ==
    ASSUME TypeOK, NEW r \in Requests, Works \/ \E p \in AllFaults : Fails(r, p)
    PROVE  /\ \A q \in Requests \ {r} : hit'[q] = hit[q]
           /\ hit[r] => hit'[r]
  BY DEF TypeOK, Works, Fails

\* The actions that only look at the balances and move the request's goroutine on.
LEMMA QuietAccounted ==
    ASSUME AInv, NEW r \in Requests, BalancesSame, UNCHANGED <<s, bg, req>>,
           Works \/ \E p \in AllFaults : Fails(r, p),
           info'[r].eff = info[r].eff, op'[r].posted = op[r].posted,
           op'[r].actual \in Nat, op'[r].turns \in Nat, op'[r].turns >= op[r].turns,
           pc[r] \in {"new", "auth", "free", "open"},
           pc'[r] \in IF pc[r] = "open" THEN {"open", "settle", "postFunding", "failing", "handed"}
                      ELSE {"auth", "free", "tryWallet", "trySub", "rejected", "done",
                            "failing", "postFunding"},
           pc'[r] = "postFunding" => (pc[r] = "open" <=> op'[r].post = "turn"),
           pc[r] = "open" /\ pc'[r] = "postFunding" => op'[r].turns > 0,
           pc'[r] # "settle" => op'[r].actual = op[r].actual
    PROVE  Accounted(r)
  <1>1. TypeOK /\ Books(r) /\ Ledger(r)
    BY AccountFacts
  <1>2. Flow(r, 0, 0, 0) /\ rec' = rec
    BY <1>1, NothingFlows
  <1>3. hit[r] => hit'[r]
    BY <1>1, Marks
  <1>4. SessionLedger(r)'
    BY <1>1, <1>2, <1>3, TypeFacts
       DEF Ledger, SessionLedger, Serving, IsWallet, BeforeHold, NoSource, Books, Shape
  <1>5. FundingLedger(r)'
    <2>1. CASE pc'[r] = "open"
      <3>1. pc[r] = "open" /\ op'[r].actual = op[r].actual
        BY <2>1
      <3>2. /\ paid'[r].wallet = paid[r].wallet /\ paid'[r].sub = paid[r].sub
            /\ s' = s /\ bg' = bg
        BY <1>1, <1>2, TypeFacts DEF Flow, Moves
      <3>3. ChargeOf(r)' = ChargeOf(r) /\ Pending(r)' = Pending(r)
        BY <2>1, <3>1, <3>2 DEF ChargeOf, Pending
      <3> QED BY <1>1, <1>3, <2>1, <3>1, <3>2, <3>3
              DEF Ledger, FundingLedger, Holding, Serving, IsWallet, IsSub, NoSession
    <2>2. CASE pc'[r] # "open"
      BY <1>1, <1>2, <1>3, <2>2, TypeFacts
         DEF Ledger, SessionLedger, FundingLedger, Holding, Serving, ChargeOf, Pending, IsWallet,
             IsSub, NoSession, Flow, Moves, Books, Shape, NoSource, BeforeHold
    <2> QED BY <2>1, <2>2
  <1>6. TokenLedger(r)'
    BY <1>1, <1>2, <1>3, TypeFacts
       DEF Ledger, SessionLedger, TokenLedger, TokenDue, Playground, Flow, Moves
  <1>7. SubSynced(r) /\ Covered(r)
    BY <1>1, <1>2, TypeFacts DEF SubSynced, Covered, Excess, Flow, Moves, TypeOK
  <1>8. OwnMarks(r)
    BY <1>1, <1>2, Marks DEF OwnMarks
  <1>9. AbstractStep(r)
    BY <1>1, <1>2, TypeFacts
       DEF Ledger, SessionLedger, AbstractStep, SameAmounts, StateOf, ChargeOf, Closed, Ended,
           Flow, Moves, Books, Shape, NoSource, BeforeHold, Serving
  <1> QED BY <1>4, <1>5, <1>6, <1>7, <1>8, <1>9 DEF Accounted, Ledger

\* Reading the balances into the request context.
LEMMA AuthenticateAccounted ==
    ASSUME AInv, NEW r \in Requests, Authenticate(r)
    PROVE  Accounted(r)
  <1>1. TypeOK /\ op[r].turns \in Nat /\ op[r].actual \in Nat
    BY AccountFacts, TypeFacts
  <1>2. /\ info'[r].eff = info[r].eff /\ op' = op /\ pc'[r] = "auth" /\ pc[r] = "new"
        /\ BalancesSame /\ Works /\ UNCHANGED <<s, bg, req>>
    BY <1>1 DEF Authenticate, Goto, TypeOK, InfoType
  <1> QED BY <1>1, <1>2, QuietAccounted

\* Starting without a session, giving up, or leaving the hold to the task row.
LEMMA GotoAccounted ==
    ASSUME AInv, NEW r \in Requests, SkipFreeModel(r) \/ Fail(r) \/ HandOver(r)
    PROVE  Accounted(r)
  <1>1. TypeOK /\ op[r].turns \in Nat /\ op[r].actual \in Nat
    BY AccountFacts, TypeFacts
  <1>2. /\ info' = info /\ op' = op /\ BalancesSame /\ Works /\ UNCHANGED <<s, bg, req>>
        /\ pc[r] \in {"auth", "free", "open"}
        /\ pc'[r] \in IF pc[r] = "open" THEN {"failing", "handed"} ELSE {"free", "failing"}
    BY <1>1 DEF SkipFreeModel, Fail, HandOver, Goto, TypeOK
  <1> QED BY <1>1, <1>2, QuietAccounted

\* Choosing the funding source to try first.
LEMMA PreConsumeBillingAccounted ==
    ASSUME AInv, NEW r \in Requests, NEW n \in Amounts, PreConsumeBilling(r, n)
    PROVE  Accounted(r)
  <1>1. TypeOK /\ op[r].turns \in Nat /\ op[r].actual \in Nat
    BY AccountFacts, TypeFacts
  <1>2. \E l \in {"tryWallet", "trySub", "rejected"} : Goto(r, l)
    BY DEF PreConsumeBilling
  <1>3. Works \/ \E p \in AllFaults : Fails(r, p)
    BY DEF PreConsumeBilling, AllFaults
  <1>4. /\ info'[r].eff = info[r].eff /\ op' = op /\ BalancesSame /\ UNCHANGED <<s, bg, req>>
        /\ pc[r] \in {"auth", "free"} /\ pc'[r] \in {"tryWallet", "trySub", "rejected"}
    BY <1>1, <1>2 DEF PreConsumeBilling, Goto, TypeOK, InfoType
  <1> QED BY <1>1, <1>3, <1>4, QuietAccounted

\* Computing the actual quota.
LEMMA SucceedAccounted ==
    ASSUME AInv, NEW r \in Requests, NEW n \in Amounts \cup {op[r].sum}, Succeed(r, n)
    PROVE  Accounted(r)
  <1>1. TypeOK /\ op[r].turns \in Nat /\ n \in Nat
    BY AccountFacts, TypeFacts, AmountsAssumption
  <1>2. /\ info' = info /\ BalancesSame /\ Works /\ UNCHANGED <<s, bg, req>>
        /\ pc[r] = "open" /\ pc'[r] = "settle"
        /\ op'[r].actual = n /\ op'[r].turns = op[r].turns /\ op'[r].posted = op[r].posted
    BY <1>1 DEF Succeed, Goto, TypeOK, OpType
  <1> QED BY <1>1, <1>2, QuietAccounted

\* What StartPost writes.
LEMMA StartPostWrites ==
    ASSUME TypeOK, NEW r \in Requests, NEW n \in Nat, NEW what \in {"turn", "legacy"},
           StartPost(r, what, n)
    PROVE  /\ op'[r].post = what /\ op'[r].delta = n /\ op'[r].posted = op[r].posted
           /\ op'[r].actual = op[r].actual
           /\ op'[r].turns \in Nat /\ op'[r].turns >= op[r].turns
           /\ what = "turn" => op'[r].turns > 0
           /\ pc'[r] = "postFunding"
  <1>1. op[r] \in OpType /\ op[r].turns \in Nat
    BY TypeFacts
  <1> QED BY <1>1 DEF StartPost, Goto, TypeOK, OpType

\* Starting the charge of a realtime turn, or adding it to the sum only.
LEMMA RealtimeTurnAccounted ==
    ASSUME AInv, NEW r \in Requests, NEW n \in Amounts, RealtimeTurn(r, n)
    PROVE  Accounted(r)
  <1>1. /\ TypeOK /\ op[r].turns \in Nat /\ op[r].sum \in Nat /\ op[r].actual \in Nat
        /\ n \in Nat
    BY AccountFacts, TypeFacts, AmountsAssumption
  <1>2. /\ info' = info /\ BalancesSame /\ Works /\ UNCHANGED <<s, bg, req>> /\ pc[r] = "open"
    BY DEF RealtimeTurn
  <1>3. CASE StartPost(r, "turn", n)
    <2>1. /\ op'[r].post = "turn" /\ op'[r].posted = op[r].posted /\ op'[r].turns > 0
          /\ op'[r].actual = op[r].actual /\ op'[r].turns \in Nat
          /\ op'[r].turns >= op[r].turns /\ pc'[r] = "postFunding"
      BY <1>1, <1>3, StartPostWrites
    <2> QED BY <1>1, <1>2, <2>1, QuietAccounted
  <1>4. CASE op' = [op EXCEPT ![r].sum = @ + n, ![r].turns = @ + 1] /\ UNCHANGED pc
    <2>1. /\ op'[r].actual = op[r].actual /\ op'[r].turns = op[r].turns + 1
          /\ op'[r].posted = op[r].posted /\ pc'[r] = "open"
      BY <1>1, <1>2, <1>4 DEF TypeOK, OpType
    <2>2. op'[r].actual \in Nat /\ op'[r].turns \in Nat /\ op'[r].turns >= op[r].turns
      BY <1>1, <2>1
    <2> QED BY <1>2, <2>1, <2>2, QuietAccounted
  <1> QED BY <1>3, <1>4 DEF RealtimeTurn

\* Starting the charge of a request without a session.
LEMMA SettleLegacyAccounted ==
    ASSUME AInv, NEW r \in Requests, NEW n \in Amounts, SettleLegacy(r, n)
    PROVE  Accounted(r)
  <1>1. TypeOK /\ op[r].turns \in Nat /\ op[r].actual \in Nat /\ n \in Nat
    BY AccountFacts, TypeFacts, AmountsAssumption
  <1>2. info' = info /\ BalancesSame /\ Works /\ UNCHANGED <<s, bg, req>> /\ pc[r] = "free"
    BY DEF SettleLegacy
  <1>3. CASE StartPost(r, "legacy", n)
    <2>1. /\ op'[r].post = "legacy" /\ op'[r].posted = op[r].posted
          /\ op'[r].actual = op[r].actual /\ op'[r].turns \in Nat
          /\ op'[r].turns >= op[r].turns /\ pc'[r] = "postFunding"
      BY <1>1, <1>3, StartPostWrites
    <2> QED BY <1>1, <1>2, <2>1, QuietAccounted
  <1>4. CASE Goto(r, "done") /\ UNCHANGED op
    <2>1. pc'[r] = "done" /\ op' = op
      BY <1>1, <1>4 DEF Goto, TypeOK
    <2> QED BY <1>1, <1>2, <2>1, QuietAccounted
  <1> QED BY <1>3, <1>4 DEF SettleLegacy

\* What holds of a request that has no hold yet.
LEMMA BeforeHoldFacts ==
    ASSUME AInv, NEW r \in Requests, pc[r] \in BeforeHold
    PROVE  /\ s[r].held = 0 /\ s[r].pre = 0 /\ ~ s[r].fundingSettled /\ ~ s[r].settled
           /\ ~ s[r].refunded /\ bg[r] = "none" /\ op[r].posted = 0
           /\ paid[r].wallet = 0 /\ paid[r].sub = 0 /\ rec[r] # "refunded"
           /\ pc[r] \in NoSource \cup {"preToken"} => s[r].tokenConsumed = 0
           /\ pc[r] \in NoSource => s[r].source = "none"
           /\ pc[r] \notin NoSource => s[r].source # "none"
           /\ s[r].source = "none" => s[r] = NoSession
  <1>1. TypeOK /\ Books(r) /\ Ledger(r)
    BY AccountFacts
  <1> QED BY <1>1 DEF Ledger, SessionLedger, Books, Shape, BeforeHold, NoSource

\* The actions before the funding source holds anything: only the token moves, and as
\* the session books it.
LEMMA BeforeHoldAccounted ==
    ASSUME AInv, NEW r \in Requests, NEW dt \in Int, Flow(r, 0, 0, dt), rec' = rec,
           UNCHANGED <<op, bg, req>>, Works \/ \E p \in AllFaults : Fails(r, p),
           pc[r] \in BeforeHold, pc'[r] \in BeforeHold \cup {"rejected"},
           info'[r].eff \in Nat, s'[r].tokenConsumed \in Nat,
           s'[r].source = "none" => s'[r] = NoSession,
           s'[r].source = "none" <=> pc'[r] \in NoSource \cup {"rejected"},
           s'[r].held = 0, s'[r].pre = 0, ~ s'[r].fundingSettled, ~ s'[r].settled,
           ~ s'[r].refunded,
           Playground(r) => dt = 0,
           ~ hit'[r] /\ ~ Playground(r) => s'[r].tokenConsumed = s[r].tokenConsumed + dt
    PROVE  Accounted(r)
  <1>1. TypeOK /\ Books(r) /\ Ledger(r)
    BY AccountFacts
  <1>2. /\ s[r].held = 0 /\ s[r].pre = 0 /\ ~ s[r].fundingSettled /\ ~ s[r].settled
        /\ ~ s[r].refunded /\ bg[r] = "none" /\ op[r].posted = 0
        /\ paid[r].wallet = 0 /\ paid[r].sub = 0 /\ rec[r] # "refunded"
        /\ pc[r] \in NoSource => s[r].source = "none"
    BY BeforeHoldFacts
  <1>3. /\ paid'[r].wallet = 0 /\ paid'[r].sub = 0 /\ paid'[r].token = paid[r].token + dt
        /\ wallet' = wallet /\ subUsed' = subUsed
    BY <1>1, <1>2, TypeFacts DEF Flow, Moves, TypeOK
  <1>4. hit[r] => hit'[r]
    BY <1>1, Marks
  <1>5. SessionLedger(r)'
    BY <1>2, <1>3
       DEF SessionLedger, Serving, IsWallet, BeforeHold, NoSource, NoSession
  <1>6. FundingLedger(r)'
    BY <1>2, <1>3
       DEF FundingLedger, Holding, Serving, ChargeOf, Pending, IsWallet, IsSub, BeforeHold,
           NoSource
  <1>7. TokenLedger(r)'
    BY <1>1, <1>2, <1>3, <1>4, TypeFacts
       DEF Ledger, TokenLedger, TokenDue, Playground, BeforeHold, NoSource
  <1>8. SubSynced(r) /\ Covered(r)
    BY <1>1, <1>2, <1>3, TypeFacts DEF SubSynced, Covered, Excess, TypeOK
  <1>9. OwnMarks(r)
    BY <1>1, Marks DEF OwnMarks
  <1>10. AbstractStep(r)
    BY <1>2, <1>3
       DEF AbstractStep, SameAmounts, StateOf, ChargeOf, Closed, Ended, BeforeHold, NoSource
  <1> QED BY <1>5, <1>6, <1>7, <1>8, <1>9, <1>10 DEF Accounted, Ledger

\* Falling back to the other source, or rejecting the request, once the token has
\* nothing of r left.
LEMMA DropAccounted ==
    ASSUME AInv, NEW r \in Requests, NEW dt \in Int, Flow(r, 0, 0, dt), rec' = rec,
           UNCHANGED <<op, bg, req>>, Works \/ \E p \in AllFaults : Fails(r, p),
           pc[r] \in BeforeHold, FallBack(r) \/ (Reject(r) /\ UNCHANGED info),
           Playground(r) => dt = 0,
           ~ hit'[r] /\ ~ Playground(r) => s[r].tokenConsumed + dt = 0
    PROVE  Accounted(r)
  <1>1. TypeOK /\ info[r].eff \in Nat
    BY AccountFacts, TypeFacts
  <1>2. s'[r] = NoSession /\ info'[r].eff = info[r].eff
    BY <1>1 DEF FallBack, Reject, TypeOK, InfoType
  <1>3. \E l \in {"trySub", "tryWallet", "rejected"} : Goto(r, l)
    BY DEF FallBack, Reject, NextSource
  <1>4. pc'[r] \in {"trySub", "tryWallet", "rejected"}
    BY <1>1, <1>3 DEF Goto, TypeOK
  <1>5. /\ s'[r].source = "none" /\ s'[r].held = 0 /\ s'[r].pre = 0 /\ s'[r].tokenConsumed = 0
        /\ ~ s'[r].fundingSettled /\ ~ s'[r].settled /\ ~ s'[r].refunded
    BY <1>2 DEF NoSession
  <1>6. pc'[r] \in BeforeHold \cup {"rejected"} /\ pc'[r] \in NoSource \cup {"rejected"}
    BY <1>4 DEF BeforeHold, NoSource
  <1> QED BY <1>1, <1>2, <1>5, <1>6, BeforeHoldAccounted

\* Trying the wallet.
LEMMA TryWalletAccounted ==
    ASSUME AInv, NEW r \in Requests, TryWallet(r)
    PROVE  Accounted(r)
  <1>1. /\ TypeOK /\ pc[r] = "tryWallet" /\ BalancesSame /\ Works /\ UNCHANGED <<req, op, bg>>
        /\ info[r].want \in Nat
    BY AccountFacts, TypeFacts DEF TryWallet
  <1>2. Flow(r, 0, 0, 0) /\ rec' = rec /\ pc[r] \in BeforeHold
    BY <1>1, NothingFlows DEF BeforeHold, NoSource
  <1>3. /\ s[r].held = 0 /\ s[r].pre = 0 /\ ~ s[r].fundingSettled /\ ~ s[r].settled
        /\ ~ s[r].refunded /\ s[r].tokenConsumed = 0
    BY <1>1, <1>2, BeforeHoldFacts DEF NoSource
  <1>4. CASE FallBack(r)
    BY <1>1, <1>2, <1>3, <1>4, DropAccounted
  <1>5. CASE /\ s' = [s EXCEPT ![r].source = "wallet", ![r].trusted = ShouldTrust(r)]
             /\ info' = [info EXCEPT ![r].eff = IF ShouldTrust(r) THEN 0 ELSE info[r].want]
             /\ Goto(r, "preToken")
    <2>1. /\ s'[r].source = "wallet" /\ s'[r].tokenConsumed = s[r].tokenConsumed
          /\ s'[r].held = s[r].held /\ s'[r].pre = s[r].pre
          /\ s'[r].fundingSettled = s[r].fundingSettled
          /\ s'[r].settled = s[r].settled /\ s'[r].refunded = s[r].refunded
      BY <1>1, <1>5 DEF TypeOK, SessionType
    <2>2. info'[r].eff \in Nat
      BY <1>1, <1>5 DEF TypeOK, InfoType
    <2>3. pc'[r] = "preToken"
      BY <1>1, <1>5 DEF TypeOK, Goto
    <2> QED BY <1>1, <1>2, <1>3, <2>1, <2>2, <2>3, BeforeHoldAccounted DEF BeforeHold, NoSource
  <1> QED BY <1>4, <1>5 DEF TryWallet

\* Trying the subscription.
LEMMA TrySubscriptionAccounted ==
    ASSUME AInv, NEW r \in Requests, TrySubscription(r)
    PROVE  Accounted(r)
  <1>1. /\ TypeOK /\ pc[r] = "trySub" /\ BalancesSame /\ Works /\ UNCHANGED <<req, op, bg>>
        /\ info[r].want \in Nat
    BY AccountFacts, TypeFacts DEF TrySubscription
  <1>2. Flow(r, 0, 0, 0) /\ rec' = rec /\ pc[r] \in BeforeHold
    BY <1>1, NothingFlows DEF BeforeHold, NoSource
  <1>3. /\ s[r].held = 0 /\ s[r].pre = 0 /\ ~ s[r].fundingSettled /\ ~ s[r].settled
        /\ ~ s[r].refunded /\ s[r].tokenConsumed = 0
    BY <1>1, <1>2, BeforeHoldFacts DEF NoSource
  <1>4. /\ s'[r].source = "subscription" /\ s'[r].tokenConsumed = s[r].tokenConsumed
        /\ s'[r].held = s[r].held /\ s'[r].pre = s[r].pre
        /\ s'[r].fundingSettled = s[r].fundingSettled
        /\ s'[r].settled = s[r].settled /\ s'[r].refunded = s[r].refunded
    BY <1>1 DEF TrySubscription, TypeOK, SessionType
  <1>5. info'[r].eff \in Nat /\ pc'[r] = "preToken"
    BY <1>1 DEF TrySubscription, TypeOK, InfoType, Goto
  <1> QED BY <1>1, <1>2, <1>3, <1>4, <1>5, BeforeHoldAccounted DEF BeforeHold, NoSource

\* Taking the token's part of the estimate.
LEMMA PreConsumeTokenAccounted ==
    ASSUME AInv, NEW r \in Requests, PreConsumeToken(r)
    PROVE  Accounted(r)
  <1>1. /\ TypeOK /\ pc[r] = "preToken" /\ UNCHANGED <<req, info, op, bg>>
        /\ info[r].eff \in Nat /\ info[r].eff \in Int
    BY AccountFacts, TypeFacts DEF PreConsumeToken
  <1>2. pc[r] \in BeforeHold
    BY <1>1 DEF BeforeHold, NoSource
  <1>3. /\ s[r].held = 0 /\ s[r].pre = 0 /\ ~ s[r].fundingSettled /\ ~ s[r].settled
        /\ ~ s[r].refunded /\ s[r].tokenConsumed = 0 /\ s[r].source # "none"
    BY <1>1, <1>2, BeforeHoldFacts DEF NoSource
  <1>4. CASE /\ s' = [s EXCEPT ![r].tokenConsumed = info[r].eff]
             /\ Goto(r, "preFunding") /\ Works
             /\ \/ (info[r].eff = 0 \/ Playground(r)) /\ BalancesSame
                \/ ~ Playground(r) /\ TokenTake(r, info[r].eff)
    <2>1. Flow(r, 0, 0, IF Playground(r) THEN 0 ELSE info[r].eff) /\ rec' = rec
      BY <1>1, <1>4, NothingFlows, TokenFlows
    <2>2. /\ s'[r].tokenConsumed = info[r].eff /\ s'[r].source = s[r].source
          /\ s'[r].held = s[r].held /\ s'[r].pre = s[r].pre
          /\ s'[r].fundingSettled = s[r].fundingSettled
          /\ s'[r].settled = s[r].settled /\ s'[r].refunded = s[r].refunded
      BY <1>1, <1>4 DEF TypeOK, SessionType
    <2>3. pc'[r] = "preFunding" /\ pc'[r] \in BeforeHold /\ pc'[r] \notin NoSource \cup {"rejected"}
      BY <1>1, <1>4 DEF TypeOK, Goto, BeforeHold, NoSource
    <2>4. ASSUME NEW dt \in Int, dt = IF Playground(r) THEN 0 ELSE info[r].eff
          PROVE  Accounted(r)
      BY <1>1, <1>2, <1>3, <1>4, <2>1, <2>2, <2>3, <2>4, BeforeHoldAccounted
    <2> QED BY <1>1, <2>4
  <1>5. CASE Reject(r) /\ BalancesSame /\ (Works \/ Fails(r, "token"))
    <2>1. Flow(r, 0, 0, 0) /\ rec' = rec
      BY <1>1, <1>5, NothingFlows
    <2>2. Works \/ \E p \in AllFaults : Fails(r, p)
      BY <1>5 DEF AllFaults
    <2> QED BY <1>1, <1>2, <1>3, <1>5, <2>1, <2>2, DropAccounted
  <1> QED BY <1>4, <1>5 DEF PreConsumeToken

\* Giving the token back when the funding source refuses.
LEMMA UndoTokenAccounted ==
    ASSUME AInv, NEW r \in Requests, UndoToken(r)
    PROVE  Accounted(r)
  <1>1. /\ TypeOK /\ pc[r] = "undoToken" /\ UNCHANGED <<req, op, bg>>
        /\ s[r].tokenConsumed \in Nat /\ - s[r].tokenConsumed \in Int
    BY AccountFacts, TypeFacts DEF UndoToken
  <1>2. pc[r] \in BeforeHold
    BY <1>1 DEF BeforeHold
  <1>3. FallBack(r) \/ (Reject(r) /\ UNCHANGED info)
    BY DEF UndoToken
  <1>4. CASE ~ Playground(r) /\ TokenTake(r, - s[r].tokenConsumed) /\ Works
    <2>1. Flow(r, 0, 0, - s[r].tokenConsumed) /\ rec' = rec
      BY <1>1, <1>4, TokenFlows
    <2>2. s[r].tokenConsumed + (- s[r].tokenConsumed) = 0
      BY <1>1
    <2> QED BY <1>1, <1>2, <1>3, <1>4, <2>1, <2>2, DropAccounted
  <1>5. CASE BalancesSame /\ (Fails(r, "token") \/ (Works /\ (s[r].tokenConsumed = 0 \/ Playground(r))))
    <2>1. Flow(r, 0, 0, 0) /\ rec' = rec
      BY <1>1, <1>5, NothingFlows
    <2>2. Works \/ \E p \in AllFaults : Fails(r, p)
      BY <1>5 DEF AllFaults
    <2>3. CASE Works /\ (s[r].tokenConsumed = 0 \/ Playground(r))
      BY <1>1, <1>2, <1>3, <2>1, <2>2, <2>3, DropAccounted
    <2>4. CASE Fails(r, "token")
      <3>1. hit'[r]
        BY <1>1, <2>4 DEF Fails, TypeOK
      <3> QED BY <1>1, <1>2, <1>3, <2>1, <2>2, <3>1, DropAccounted
    <2> QED BY <1>5, <2>3, <2>4
  <1> QED BY <1>4, <1>5 DEF UndoToken

\* The funding source takes the estimate: the only step that opens a session.
LEMMA HoldAccounted ==
    ASSUME AInv, NEW r \in Requests, NEW dw \in Nat, NEW ds \in Nat, Flow(r, dw, ds, 0),
           dw + ds = info[r].eff, dw = 0 \/ wallet' >= 0,
           UNCHANGED <<op, bg, req, info, hit>>,
           rec'[r] # "refunded", \A q \in Requests \ {r} : rec'[q] = rec[q],
           s' = [s EXCEPT ![r].held = info[r].eff, ![r].pre = info[r].eff],
           pc[r] = "preFunding", pc'[r] = "open"
    PROVE  Accounted(r)
  <1>1. TypeOK /\ Books(r) /\ Ledger(r) /\ pc[r] \in BeforeHold
    BY AccountFacts DEF BeforeHold
  <1>2. /\ s[r].held = 0 /\ s[r].pre = 0 /\ ~ s[r].fundingSettled /\ ~ s[r].settled
        /\ ~ s[r].refunded /\ bg[r] = "none" /\ op[r].posted = 0
        /\ paid[r].wallet = 0 /\ paid[r].sub = 0 /\ s[r].source # "none"
    BY <1>1, BeforeHoldFacts DEF NoSource
  <1>3. /\ s'[r].held = info[r].eff /\ s'[r].pre = info[r].eff
        /\ s'[r].source = s[r].source /\ s'[r].extra = s[r].extra
        /\ s'[r].tokenConsumed = s[r].tokenConsumed /\ s'[r].fundingSettled = s[r].fundingSettled
        /\ s'[r].settled = s[r].settled /\ s'[r].refunded = s[r].refunded
    BY <1>1 DEF TypeOK, SessionType
  <1>4. /\ paid'[r].wallet = dw /\ paid'[r].sub = ds /\ paid'[r].token = paid[r].token
        /\ wallet' = wallet - dw /\ subUsed' = subUsed + ds
        /\ s[r].tokenConsumed = info[r].eff
    BY <1>1, <1>2, TypeFacts DEF Flow, Moves, Books, Shape
  <1>5. SessionLedger(r)'
    BY <1>1, <1>2, <1>3, <1>4, TypeFacts DEF SessionLedger, Serving, IsWallet, BeforeHold, NoSource
  <1>6. FundingLedger(r)'
    BY <1>1, <1>2, <1>3, <1>4, TypeFacts
       DEF FundingLedger, Holding, Serving, ChargeOf, Pending, IsWallet, IsSub
  <1>7. TokenLedger(r)'
    BY <1>1, <1>2, <1>3, <1>4, TypeFacts DEF Ledger, TokenLedger, TokenDue, Playground
  <1>8. SubSynced(r) /\ Covered(r) /\ OwnMarks(r)
    BY <1>1, <1>2, <1>4, TypeFacts DEF SubSynced, Covered, Excess, TypeOK, OwnMarks
  <1>9. AbstractStep(r)
    BY <1>1, <1>2, <1>3, <1>4, TypeFacts
       DEF AbstractStep, StateOf, ChargeOf, Closed, Ended
  <1> QED BY <1>5, <1>6, <1>7, <1>8, <1>9 DEF Accounted, Ledger

\* The funding source refuses or fails: the token's part is to be given back.
LEMMA HoldRefusedAccounted ==
    ASSUME AInv, NEW r \in Requests, pc[r] = "preFunding", BalancesSame,
           UNCHANGED <<s, op, bg, req>>, Works \/ \E p \in AllFaults : Fails(r, p),
           UNCHANGED info \/ info' = [info EXCEPT ![r].shortfall = TRUE],
           Goto(r, "undoToken")
    PROVE  Accounted(r)
  <1>1. TypeOK /\ info[r].eff \in Nat /\ s[r].tokenConsumed \in Nat
    BY AccountFacts, TypeFacts
  <1>2. Flow(r, 0, 0, 0) /\ rec' = rec
    BY <1>1, NothingFlows
  <1>3. pc[r] \in BeforeHold /\ pc[r] \notin NoSource
    BY DEF BeforeHold, NoSource
  <1>4. /\ s[r].held = 0 /\ s[r].pre = 0 /\ ~ s[r].fundingSettled /\ ~ s[r].settled
        /\ ~ s[r].refunded /\ s[r].source # "none"
    BY <1>3, BeforeHoldFacts
  <1>5. info'[r].eff = info[r].eff
    BY <1>1 DEF TypeOK, InfoType
  <1>6. pc'[r] \in BeforeHold /\ pc'[r] \notin NoSource \cup {"rejected"}
    BY <1>1 DEF Goto, TypeOK, BeforeHold, NoSource
  <1>7. s'[r] = s[r] /\ s[r].tokenConsumed + 0 = s[r].tokenConsumed
    BY <1>1
  <1> QED BY <1>1, <1>2, <1>3, <1>4, <1>5, <1>6, <1>7, BeforeHoldAccounted

\* Holding the wallet's part of the estimate.
LEMMA PreConsumeWalletAccounted ==
    ASSUME AInv, NEW r \in Requests, PreConsumeWallet(r)
    PROVE  Accounted(r)
  <1>1. /\ TypeOK /\ pc[r] = "preFunding" /\ UNCHANGED <<req, op, bg>>
        /\ info[r].eff \in Nat /\ info[r].eff \in Int /\ wallet \in Int
    BY AccountFacts, TypeFacts DEF PreConsumeWallet, TypeOK
  <1>2. CASE /\ info[r].eff = 0 \/ wallet >= info[r].eff
             /\ WalletTake(r, info[r].eff)
             /\ s' = [s EXCEPT ![r].held = info[r].eff, ![r].pre = info[r].eff]
             /\ Goto(r, "open") /\ Works /\ UNCHANGED info
    <2>1. Flow(r, info[r].eff, 0, 0) /\ rec' = rec
      BY <1>1, <1>2, WalletFlows
    <2>2. info[r].eff = 0 \/ wallet' >= 0
      BY <1>1, <1>2, <2>1 DEF Flow
    <2>3. pc'[r] = "open" /\ rec'[r] # "refunded" /\ hit' = hit
      BY <1>1, <1>2, <2>1, BeforeHoldFacts DEF Goto, TypeOK, Works, BeforeHold
    <2>4. info[r].eff + 0 = info[r].eff
      BY <1>1
    <2> QED BY <1>1, <1>2, <2>1, <2>2, <2>3, <2>4, HoldAccounted
  <1>3. CASE /\ Goto(r, "undoToken") /\ BalancesSame /\ UNCHANGED s
             /\ Works \/ Fails(r, "wallet")
             /\ UNCHANGED info \/ info' = [info EXCEPT ![r].shortfall = TRUE]
    <2>1. Works \/ \E p \in AllFaults : Fails(r, p)
      BY <1>3 DEF AllFaults
    <2> QED BY <1>1, <1>3, <2>1, HoldRefusedAccounted
  <1> QED BY <1>2, <1>3 DEF PreConsumeWallet

\* Holding the subscription's part of the estimate.
LEMMA PreConsumeSubscriptionAccounted ==
    ASSUME AInv, NEW r \in Requests, PreConsumeSubscription(r)
    PROVE  Accounted(r)
  <1>1. /\ TypeOK /\ pc[r] = "preFunding" /\ UNCHANGED <<req, op, bg>>
        /\ info[r].eff \in Nat /\ info[r].eff \in Int
    BY AccountFacts, TypeFacts DEF PreConsumeSubscription
  <1>2. CASE /\ SubTake(r, info[r].eff)
             /\ rec' = [rec EXCEPT ![r] = "consumed"]
             /\ s' = [s EXCEPT ![r].held = info[r].eff, ![r].pre = info[r].eff]
             /\ Goto(r, "open") /\ Works /\ UNCHANGED info
    <2>1. paid[r].sub + info[r].eff >= 0
      BY <1>1, AccountFacts, TypeFacts
    <2>2. Flow(r, 0, info[r].eff, 0)
      BY <1>1, <1>2, <2>1, SubFlows
    <2>3. pc'[r] = "open" /\ rec'[r] # "refunded" /\ hit' = hit
      BY <1>1, <1>2 DEF Goto, TypeOK, Works
    <2>4. \A q \in Requests \ {r} : rec'[q] = rec[q]
      BY <1>1, <1>2 DEF TypeOK
    <2>5. 0 + info[r].eff = info[r].eff
      BY <1>1
    <2> QED BY <1>1, <1>2, <2>2, <2>3, <2>4, <2>5, HoldAccounted
  <1>3. CASE /\ Goto(r, "undoToken") /\ BalancesSame /\ UNCHANGED s
             /\ Works \/ Fails(r, "sub")
             /\ UNCHANGED info \/ info' = [info EXCEPT ![r].shortfall = TRUE]
    <2>1. Works \/ \E p \in AllFaults : Fails(r, p)
      BY <1>3 DEF AllFaults
    <2> QED BY <1>1, <1>3, <2>1, HoldRefusedAccounted
  <1> QED BY <1>2, <1>3 DEF PreConsumeSubscription

\* What holds of a request whose session is open.
LEMMA ServingFacts ==
    ASSUME AInv, NEW r \in Requests,
           pc[r] \in {"open", "reserveToken", "undoReserve", "settle"}
    PROVE  /\ ~ s[r].fundingSettled /\ ~ s[r].settled /\ ~ s[r].refunded /\ bg[r] = "none"
           /\ s[r].source # "none" /\ s[r].tokenConsumed = s[r].pre /\ rec[r] # "refunded"
           /\ ChargeOf(r) = s[r].pre + Pending(r)
           /\ IsWallet(r) => s[r].held = s[r].pre + Pending(r) /\ s[r].pre >= info[r].eff
           /\ IsWallet(r) => paid[r].sub = 0
           /\ IsSub(r) => paid[r].wallet = 0 /\ s[r].pre = s[r].held + s[r].extra
           /\ IsWallet(r) \/ IsSub(r)
           /\ op[r].turns = 0 => op[r].posted = 0
           /\ StateOf(r) = "open"
  <1>1. TypeOK /\ Books(r) /\ Ledger(r)
    BY AccountFacts
  <1>2. /\ ~ s[r].fundingSettled /\ ~ s[r].settled /\ bg[r] = "none" /\ ~ s[r].refunded
        /\ s[r].source # "none" /\ s[r].tokenConsumed = s[r].pre /\ rec[r] # "refunded"
        /\ op[r].turns = 0 => op[r].posted = 0
        /\ IsWallet(r) => s[r].pre >= info[r].eff
    BY <1>1
       DEF Ledger, SessionLedger, Books, Shape, Serving, BeforeHold, NoSource
  <1>3. /\ ChargeOf(r) = s[r].pre + Pending(r)
        /\ IsWallet(r) => ChargeOf(r) >= s[r].held
    BY <1>1, <1>2 DEF Ledger, FundingLedger, Holding, Serving
  <1>4. /\ IsWallet(r) => paid[r].sub = 0 /\ s[r].held >= s[r].pre + Pending(r)
        /\ IsSub(r) => paid[r].wallet = 0 /\ s[r].pre = s[r].held + s[r].extra
        /\ IsWallet(r) \/ IsSub(r)
    BY <1>1, <1>2, TypeFacts DEF Books, WalletBooks, SubBooks, IsWallet, IsSub, Sources
  <1>5. Pending(r) \in Nat /\ ChargeOf(r) \in Int
    BY <1>1, TypeFacts DEF Pending, ChargeOf
  <1>6. IsWallet(r) => s[r].held = s[r].pre + Pending(r)
    BY <1>1, <1>3, <1>4, <1>5, TypeFacts
  <1>7. StateOf(r) = "open"
    BY <1>2 DEF StateOf, Closed, Ended
  <1> QED BY <1>2, <1>3, <1>4, <1>6, <1>7

\* Nothing moves and the session gives up, or goes on to undo the reservation.
LEMMA ReserveRefusedAccounted ==
    ASSUME AInv, NEW r \in Requests, BalancesSame, UNCHANGED <<s, op, bg, req, info>>,
           Works \/ \E p \in AllFaults : Fails(r, p),
           \/ pc[r] = "open" /\ Goto(r, "failing")
           \/ pc[r] = "reserveToken" /\ Goto(r, "undoReserve")
           \/ /\ pc[r] = "undoReserve" /\ Goto(r, "failing")
              /\ \E p \in AllFaults : Fails(r, p)
    PROVE  Accounted(r)
  <1>1. TypeOK /\ Books(r) /\ Ledger(r)
    BY AccountFacts
  <1>2. /\ ~ s[r].fundingSettled /\ ~ s[r].settled /\ ~ s[r].refunded /\ bg[r] = "none"
        /\ s[r].source # "none" /\ StateOf(r) = "open"
    BY ServingFacts
  <1>3. Flow(r, 0, 0, 0) /\ rec' = rec /\ (hit[r] => hit'[r])
    BY <1>1, NothingFlows, Marks
  <1>4. /\ \/ pc[r] = "open" /\ pc'[r] = "failing"
           \/ pc[r] = "reserveToken" /\ pc'[r] = "undoReserve"
           \/ pc[r] = "undoReserve" /\ pc'[r] = "failing" /\ hit'[r]
    BY <1>1 DEF Goto, TypeOK, Fails
  <1>5. SessionLedger(r)'
    BY <1>1, <1>2, <1>3, <1>4 DEF Ledger, SessionLedger, Serving, IsWallet, BeforeHold, NoSource
  <1>6. FundingLedger(r)'
    BY <1>1, <1>2, <1>3, <1>4, TypeFacts
       DEF Ledger, FundingLedger, Holding, Serving, ChargeOf, Pending, IsWallet, IsSub, Flow,
           Moves
  <1>7. TokenLedger(r)'
    BY <1>1, <1>2, <1>3, <1>4, TypeFacts
       DEF Ledger, TokenLedger, TokenDue, Playground, Flow, Moves
  <1>8. SubSynced(r) /\ Covered(r)
    BY <1>1, <1>3, TypeFacts DEF SubSynced, Covered, Excess, TypeOK, Flow, Moves
  <1>9. OwnMarks(r)
    BY <1>1, <1>3, Marks DEF OwnMarks
  <1>10. AbstractStep(r)
    BY <1>1, <1>2, <1>3, <1>4, TypeFacts
       DEF AbstractStep, SameAmounts, StateOf, ChargeOf, Closed, Ended, Flow, Moves
  <1> QED BY <1>5, <1>6, <1>7, <1>8, <1>9, <1>10 DEF Accounted, Ledger

\* The funding source moves by dw or ds while the session stays open: an extension of
\* the hold, or its rollback.
LEMMA HoldMovesAccounted ==
    ASSUME AInv, NEW r \in Requests, NEW dw \in Int, NEW ds \in Int, Flow(r, dw, ds, 0),
           rec' = rec, UNCHANGED <<bg, req, info, hit>>,
           IsWallet(r) => ds = 0, IsSub(r) => dw = 0,
           s'[r].held = s[r].held + dw, s'[r].pre = s[r].pre, s'[r].source = s[r].source,
           s'[r].tokenConsumed = s[r].tokenConsumed, s'[r].extra = s[r].extra,
           s'[r].fundingSettled = s[r].fundingSettled, s'[r].settled = s[r].settled,
           s'[r].refunded = s[r].refunded,
           op'[r].posted = op[r].posted, op'[r].actual = op[r].actual,
           op'[r].turns = op[r].turns, op'[r].delta \in Nat,
           \/ /\ pc[r] = "open" /\ pc'[r] = "reserveToken" /\ op[r].turns = 0
              /\ dw + ds = op'[r].delta
           \/ /\ pc[r] = "undoReserve" /\ pc'[r] = "failing"
              /\ dw + ds = - op[r].delta
    PROVE  Accounted(r)
  <1>1. TypeOK /\ Books(r) /\ Ledger(r)
    BY AccountFacts
  <1>2. /\ ~ s[r].fundingSettled /\ ~ s[r].settled /\ ~ s[r].refunded /\ bg[r] = "none"
        /\ s[r].source # "none" /\ s[r].tokenConsumed = s[r].pre /\ rec[r] # "refunded"
        /\ ChargeOf(r) = s[r].pre + Pending(r)
        /\ IsWallet(r) => s[r].held = s[r].pre + Pending(r) /\ s[r].pre >= info[r].eff
        /\ IsWallet(r) => paid[r].sub = 0
        /\ IsSub(r) => paid[r].wallet = 0
        /\ IsWallet(r) \/ IsSub(r)
        /\ StateOf(r) = "open"
    BY ServingFacts
  <1>3. /\ paid'[r].wallet = paid[r].wallet + dw /\ paid'[r].sub = paid[r].sub + ds
        /\ paid'[r].token = paid[r].token
        /\ wallet' = wallet - dw /\ subUsed' = subUsed + ds
    BY <1>1, TypeFacts DEF Flow, Moves
  <1>4. ChargeOf(r)' = s[r].pre + Pending(r)' /\ ChargeOf(r)' = ChargeOf(r) + dw + ds
    BY <1>1, <1>2, <1>3, TypeFacts DEF ChargeOf, Pending
  <1>5. SessionLedger(r)'
    BY <1>1, <1>2 DEF Ledger, SessionLedger, Serving, IsWallet, BeforeHold, NoSource
  <1>6. FundingLedger(r)'
    <2>1. Pending(r)' \in Nat /\ Pending(r) \in Nat
      BY <1>1, TypeFacts DEF Pending
    <2>2. IsWallet(r) => s'[r].held = ChargeOf(r)'
      BY <1>1, <1>2, <1>4, <2>1, TypeFacts
    <2> QED
      BY <1>1, <1>2, <1>4, <2>1, <2>2, TypeFacts
         DEF FundingLedger, Holding, Serving, IsWallet, IsSub
  <1>7. TokenLedger(r)'
    BY <1>1, <1>2, <1>3, TypeFacts DEF Ledger, TokenLedger, TokenDue, Playground
  <1>8. SubSynced(r) /\ OwnMarks(r)
    BY <1>1, <1>3, TypeFacts DEF SubSynced, OwnMarks, TypeOK
  <1>9. Covered(r)
    BY <1>1, <1>2, <1>3, TypeFacts
       DEF Covered, Excess, TypeOK, ChargeOf, Pending, IsWallet, IsSub
  <1>10. AbstractStep(r)
    <2>1. StateOf(r)' = "open"
      BY <1>2 DEF StateOf, Closed, Ended
    <2>2. ChargeOf(r) \in Int /\ ChargeOf(r)' \in Int
      BY <1>1, <1>3, TypeFacts DEF ChargeOf
    <2>3. CASE pc[r] = "open"
      BY <1>1, <1>2, <1>4, <2>1, <2>2, <2>3, TypeFacts DEF AbstractStep
    <2>4. CASE pc[r] = "undoReserve"
      <3>1. ChargeOf(r)' = s[r].pre /\ ChargeOf(r)' =< ChargeOf(r)
        BY <1>1, <1>2, <1>4, <2>2, <2>4, TypeFacts DEF Pending
      <3>2. ChargeOf(r)' \in 0..ChargeOf(r)
        BY <1>1, <2>2, <3>1, TypeFacts
      <3> QED BY <1>2, <2>1, <3>2 DEF AbstractStep
    <2> QED BY <2>3, <2>4
  <1> QED BY <1>5, <1>6, <1>7, <1>8, <1>9, <1>10 DEF Accounted, Ledger

\* Reserve takes the funding source's part.
LEMMA ReserveAccounted ==
    ASSUME AInv, NEW r \in Requests, NEW n \in Amounts, Reserve(r, n)
    PROVE  Accounted(r)
  <1> DEFINE d == n - s[r].pre
  <1>1. /\ TypeOK /\ pc[r] = "open" /\ op[r].turns = 0 /\ UNCHANGED <<req, info, bg>>
        /\ d \in Nat /\ d \in Int /\ s[r].held \in Nat /\ paid[r].sub \in Nat
    BY AccountFacts, TypeFacts, AmountsAssumption DEF Reserve
  <1>2. CASE /\ IsWallet(r) /\ WalletTake(r, d)
             /\ s' = [s EXCEPT ![r].held = @ + d] /\ op' = [op EXCEPT ![r].delta = d]
             /\ Goto(r, "reserveToken") /\ Works
    <2> HIDE DEF d
    <2>1. Flow(r, d, 0, 0) /\ rec' = rec
      BY <1>1, <1>2, WalletFlows
    <2>2. /\ s'[r].held = s[r].held + d /\ s'[r].pre = s[r].pre /\ s'[r].source = s[r].source
          /\ s'[r].tokenConsumed = s[r].tokenConsumed /\ s'[r].extra = s[r].extra
          /\ s'[r].fundingSettled = s[r].fundingSettled /\ s'[r].settled = s[r].settled
          /\ s'[r].refunded = s[r].refunded
      BY <1>1, <1>2 DEF TypeOK, SessionType
    <2>3. /\ op'[r].posted = op[r].posted /\ op'[r].actual = op[r].actual
          /\ op'[r].turns = op[r].turns /\ op'[r].delta = d
      BY <1>1, <1>2 DEF TypeOK, OpType
    <2>4. pc'[r] = "reserveToken" /\ hit' = hit /\ d + 0 = d /\ ~ IsSub(r)
      BY <1>1, <1>2 DEF Goto, Works, TypeOK, IsWallet, IsSub
    <2> QED BY <1>1, <2>1, <2>2, <2>3, <2>4, HoldMovesAccounted
  <1>3. CASE /\ IsSub(r) /\ SubTake(r, d) /\ UNCHANGED rec
             /\ op' = [op EXCEPT ![r].delta = d] /\ UNCHANGED s
             /\ Goto(r, "reserveToken") /\ Works
    <2> HIDE DEF d
    <2>1. paid[r].sub + d >= 0
      BY <1>1
    <2>2. Flow(r, 0, d, 0)
      BY <1>1, <1>3, <2>1, SubFlows
    <2>3. /\ op'[r].posted = op[r].posted /\ op'[r].actual = op[r].actual
          /\ op'[r].turns = op[r].turns /\ op'[r].delta = d
      BY <1>1, <1>3 DEF TypeOK, OpType
    <2>4. pc'[r] = "reserveToken" /\ hit' = hit /\ 0 + d = d /\ ~ IsWallet(r)
      BY <1>1, <1>3 DEF Goto, Works, TypeOK, IsWallet, IsSub
    <2>5. s'[r] = s[r] /\ s[r].held + 0 = s[r].held
      BY <1>1, <1>3
    <2> QED BY <1>1, <1>3, <2>2, <2>3, <2>4, <2>5, HoldMovesAccounted
  <1>4. CASE /\ Goto(r, "failing") /\ BalancesSame /\ UNCHANGED <<s, op>>
             /\ Works \/ Fails(r, IF IsWallet(r) THEN "wallet" ELSE "sub")
    <2>1. Works \/ \E p \in AllFaults : Fails(r, p)
      BY <1>4 DEF AllFaults
    <2> QED BY <1>1, <1>4, <2>1, ReserveRefusedAccounted
  <1> QED BY <1>2, <1>3, <1>4 DEF Reserve

\* The rollback of the funding source's part.
LEMMA UndoReserveAccounted ==
    ASSUME AInv, NEW r \in Requests, UndoReserve(r)
    PROVE  Accounted(r)
  <1>1. /\ TypeOK /\ pc[r] = "undoReserve" /\ UNCHANGED <<req, info, op, bg>>
        /\ Goto(r, "failing")
        /\ op[r].delta \in Nat /\ - op[r].delta \in Int /\ s[r].held \in Nat
    BY AccountFacts, TypeFacts DEF UndoReserve
  <1>2. pc'[r] = "failing" /\ op' = op
    BY <1>1 DEF Goto, TypeOK
  <1>3. CASE /\ IsWallet(r) /\ WalletTake(r, - op[r].delta)
             /\ s' = [s EXCEPT ![r].held = @ - op[r].delta] /\ Works
    <2>1. Flow(r, - op[r].delta, 0, 0) /\ rec' = rec
      BY <1>1, <1>3, WalletFlows
    <2>2. /\ s'[r].held = s[r].held - op[r].delta /\ s'[r].pre = s[r].pre
          /\ s'[r].source = s[r].source
          /\ s'[r].tokenConsumed = s[r].tokenConsumed /\ s'[r].extra = s[r].extra
          /\ s'[r].fundingSettled = s[r].fundingSettled /\ s'[r].settled = s[r].settled
          /\ s'[r].refunded = s[r].refunded
      BY <1>1, <1>3 DEF TypeOK, SessionType
    <2>3. /\ s'[r].held = s[r].held + (- op[r].delta) /\ (- op[r].delta) + 0 = - op[r].delta
          /\ hit' = hit /\ ~ IsSub(r)
      BY <1>1, <1>3, <2>2 DEF Works, IsWallet, IsSub
    <2> QED BY <1>1, <1>2, <2>1, <2>2, <2>3, HoldMovesAccounted
  <1>4. CASE IsSub(r) /\ SubTake(r, - op[r].delta) /\ Works /\ UNCHANGED <<rec, s>>
    <2>1. ChargeOf(r) = s[r].pre + Pending(r) /\ paid[r].wallet = 0
      BY <1>1, <1>4, ServingFacts
    <2>2. paid[r].sub + (- op[r].delta) >= 0
      BY <1>1, <2>1, TypeFacts DEF ChargeOf, Pending
    <2>3. Flow(r, 0, - op[r].delta, 0)
      BY <1>1, <1>4, <2>2, SubFlows
    <2>4. /\ s'[r] = s[r] /\ s[r].held + 0 = s[r].held /\ 0 + (- op[r].delta) = - op[r].delta
          /\ hit' = hit /\ ~ IsWallet(r)
      BY <1>1, <1>4 DEF Works, IsWallet, IsSub
    <2> QED BY <1>1, <1>2, <1>4, <2>3, <2>4, HoldMovesAccounted
  <1>5. CASE /\ Fails(r, IF IsWallet(r) THEN "wallet" ELSE "sub")
             /\ BalancesSame /\ UNCHANGED s
    <2>1. \E p \in AllFaults : Fails(r, p)
      BY <1>5 DEF AllFaults
    <2> QED BY <1>1, <1>5, <2>1, ReserveRefusedAccounted
  <1> QED BY <1>3, <1>4, <1>5 DEF UndoReserve

\* Reserve takes the token's part and books both.
LEMMA ReserveTokenAccounted ==
    ASSUME AInv, NEW r \in Requests, ReserveToken(r)
    PROVE  Accounted(r)
  <1>1. TypeOK /\ Books(r) /\ Ledger(r)
    BY AccountFacts
  <1>2. pc[r] = "reserveToken" /\ UNCHANGED <<req, info, op, bg>>
    BY DEF ReserveToken
  <1>3. CASE /\ Reserved(r) /\ Goto(r, "open") /\ Works
             /\ \/ Playground(r) /\ BalancesSame
                \/ ~ Playground(r) /\ TokenTake(r, op[r].delta)
    <2>1. op[r].delta \in Nat /\ op[r].delta \in Int
      BY <1>1, TypeFacts
    <2>2. Flow(r, 0, 0, IF Playground(r) THEN 0 ELSE op[r].delta) /\ rec' = rec
      BY <1>1, <1>3, <2>1, NothingFlows, TokenFlows
    <2>3. /\ s'[r].pre = s[r].pre + op[r].delta
          /\ s'[r].tokenConsumed = s[r].tokenConsumed + op[r].delta
          /\ s'[r].extra = s[r].extra + op[r].delta
          /\ s'[r].source = s[r].source /\ s'[r].held = s[r].held
          /\ s'[r].fundingSettled = s[r].fundingSettled /\ s'[r].settled = s[r].settled
          /\ s'[r].refunded = s[r].refunded
      BY <1>1, <1>3 DEF Reserved, TypeOK, SessionType
    <2>4. pc'[r] = "open" /\ hit' = hit
      BY <1>1, <1>3 DEF Goto, Works, TypeOK
    <2>5. /\ ~ s[r].fundingSettled /\ ~ s[r].settled /\ ~ s[r].refunded /\ bg[r] = "none"
          /\ s[r].source # "none" /\ s[r].tokenConsumed = s[r].pre /\ rec[r] # "refunded"
          /\ ChargeOf(r) = s[r].pre + Pending(r)
          /\ IsWallet(r) => s[r].held = s[r].pre + Pending(r) /\ s[r].pre >= info[r].eff
          /\ StateOf(r) = "open"
      BY <1>2, ServingFacts
    <2>6. /\ paid'[r].wallet = paid[r].wallet /\ paid'[r].sub = paid[r].sub
          /\ paid'[r].token = paid[r].token + (IF Playground(r) THEN 0 ELSE op[r].delta)
          /\ wallet' = wallet /\ subUsed' = subUsed
      BY <1>1, <2>2, TypeFacts DEF Flow, Moves, TypeOK
    <2>7. SessionLedger(r)'
      BY <1>1, <1>2, <2>1, <2>2, <2>3, <2>4, <2>5, TypeFacts
         DEF Ledger, SessionLedger, Serving, IsWallet, BeforeHold, NoSource
    <2>8. FundingLedger(r)'
      BY <1>1, <1>2, <2>1, <2>3, <2>4, <2>5, <2>6, TypeFacts
         DEF FundingLedger, Holding, Serving, IsWallet, IsSub, ChargeOf, Pending
    <2>9. TokenLedger(r)'
      BY <1>1, <1>2, <2>1, <2>3, <2>4, <2>5, <2>6, TypeFacts
         DEF Ledger, TokenLedger, TokenDue, Playground
    <2>10. SubSynced(r) /\ Covered(r) /\ OwnMarks(r)
      BY <1>1, <1>2, <2>2, <2>4, <2>6, TypeFacts DEF SubSynced, Covered, Excess, TypeOK, OwnMarks
    <2>11. AbstractStep(r)
      BY <1>1, <1>2, <2>3, <2>4, <2>5, <2>6, TypeFacts
         DEF AbstractStep, SameAmounts, StateOf, ChargeOf, Closed, Ended
    <2> QED BY <2>7, <2>8, <2>9, <2>10, <2>11 DEF Accounted, Ledger
  <1>4. CASE /\ Goto(r, "undoReserve") /\ BalancesSame /\ UNCHANGED s
             /\ Works \/ Fails(r, "token")
    <2>1. Works \/ \E p \in AllFaults : Fails(r, p)
      BY <1>4 DEF AllFaults
    <2> QED BY <1>2, <1>4, <2>1, ReserveRefusedAccounted
  <1> QED BY <1>3, <1>4 DEF ReserveToken

\* Settling the funding source.
LEMMA SettleFundingAccounted ==
    ASSUME AInv, NEW r \in Requests, SettleFunding(r)
    PROVE  Accounted(r)
  <1> DEFINE d == op[r].actual - s[r].pre
  <1>1. TypeOK /\ Books(r) /\ Ledger(r)
    BY AccountFacts
  <1>2. /\ pc[r] = "settle" /\ UNCHANGED <<req, info, op, bg>>
        /\ d \in Int /\ op[r].actual \in Nat /\ s[r].pre \in Nat
    BY <1>1, TypeFacts DEF SettleFunding
  <1>3. /\ ~ s[r].fundingSettled /\ ~ s[r].settled /\ ~ s[r].refunded /\ bg[r] = "none"
        /\ s[r].source # "none" /\ s[r].tokenConsumed = s[r].pre /\ rec[r] # "refunded"
        /\ ChargeOf(r) = s[r].pre
        /\ IsWallet(r) => s[r].held = s[r].pre /\ s[r].pre >= info[r].eff
        /\ IsSub(r) => paid[r].wallet = 0
        /\ IsWallet(r) => paid[r].sub = 0
        /\ StateOf(r) = "open"
    BY <1>1, <1>2, ServingFacts, TypeFacts DEF Pending
  <1>4. CASE /\ \/ IsWallet(r) /\ WalletTake(r, d)
                \/ IsSub(r) /\ SubTake(r, d) /\ UNCHANGED rec
             /\ s' = [s EXCEPT ![r].fundingSettled = TRUE]
             /\ Goto(r, "settleToken") /\ Works
    <2> HIDE DEF d
    <2>1. PICK dw \in Int, ds \in Int :
            /\ Flow(r, dw, ds, 0) /\ dw + ds = d
            /\ IsWallet(r) => ds = 0
            /\ IsSub(r) => dw = 0
      <3>1. CASE IsWallet(r) /\ WalletTake(r, d)
        <4>1. Flow(r, d, 0, 0) /\ d + 0 = d /\ ~ IsSub(r)
          BY <1>1, <1>2, <3>1, WalletFlows DEF IsWallet, IsSub
        <4> QED BY <1>2, <4>1
      <3>2. CASE IsSub(r) /\ SubTake(r, d)
        <4>1. paid[r].sub + d >= 0
          BY <1>1, <1>2, <1>3, <3>2, TypeFacts DEF ChargeOf, d
        <4>2. Flow(r, 0, d, 0) /\ 0 + d = d /\ ~ IsWallet(r)
          BY <1>2, <3>2, <4>1, SubFlows DEF IsWallet, IsSub
        <4> QED BY <1>2, <4>2
      <3> QED BY <1>4, <3>1, <3>2
    <2>2. rec' = rec /\ pc'[r] = "settleToken" /\ hit' = hit
      BY <1>1, <1>4 DEF WalletTake, Goto, Works, TypeOK, IsWallet, IsSub
    <2>3. /\ s'[r].fundingSettled /\ s'[r].pre = s[r].pre
          /\ s'[r].tokenConsumed = s[r].tokenConsumed
          /\ s'[r].source = s[r].source /\ s'[r].settled = s[r].settled
          /\ s'[r].refunded = s[r].refunded
      BY <1>1, <1>4 DEF TypeOK, SessionType
    <2>4. /\ paid'[r].wallet = paid[r].wallet + dw /\ paid'[r].sub = paid[r].sub + ds
          /\ paid'[r].token = paid[r].token
          /\ wallet' = wallet - dw /\ subUsed' = subUsed + ds
      BY <1>1, <2>1, TypeFacts DEF Flow, Moves
    <2>5. ChargeOf(r)' = op[r].actual
      BY <1>1, <1>2, <1>3, <2>1, <2>4, TypeFacts DEF ChargeOf, d
    <2>6. SessionLedger(r)'
      BY <1>1, <1>2, <1>3, <2>2, <2>3
         DEF Ledger, SessionLedger, Serving, IsWallet, BeforeHold, NoSource
    <2>7. FundingLedger(r)'
      BY <1>2, <1>3, <2>2, <2>3, <2>5 DEF FundingLedger, Holding
    <2>8. TokenLedger(r)'
      BY <1>1, <1>2, <1>3, <2>2, <2>3, <2>4, TypeFacts
         DEF Ledger, TokenLedger, TokenDue, Playground
    <2>9. SubSynced(r) /\ OwnMarks(r)
      BY <1>1, <2>2, <2>4, TypeFacts DEF SubSynced, OwnMarks, TypeOK
    <2>10. Covered(r)
      <3>1. info'[r].eff = info[r].eff /\ op'[r].posted = op[r].posted
        BY <1>2
      <3>2. IsWallet(r) => paid[r].wallet >= info[r].eff
        BY <1>1, <1>3, TypeFacts DEF ChargeOf
      <3>3. IsWallet(r) \/ dw = 0
        BY <1>4, <2>1
      <3> QED BY <1>1, <2>1, <2>4, <3>1, <3>2, <3>3, TypeFacts DEF Covered, Excess, TypeOK
    <2>11. AbstractStep(r)
      <3>1. StateOf(r)' = "settled"
        BY <1>2, <1>3, <2>2, <2>3 DEF StateOf, Closed, Ended
      <3> QED BY <1>2, <1>3, <2>5, <3>1 DEF AbstractStep
    <2> QED BY <2>6, <2>7, <2>8, <2>9, <2>10, <2>11 DEF Accounted, Ledger
  <1>5. CASE /\ Goto(r, "done") /\ BalancesSame
             /\ \/ d = 0 /\ s' = [s EXCEPT ![r].settled = TRUE] /\ Works
                \/ /\ UNCHANGED s
                   /\ Works \/ Fails(r, IF IsWallet(r) THEN "wallet" ELSE "sub")
    <2>1. Flow(r, 0, 0, 0) /\ rec' = rec
      BY <1>1, <1>5, NothingFlows
    <2>2. Works \/ \E p \in AllFaults : Fails(r, p)
      BY <1>5 DEF AllFaults
    <2>3. (hit[r] => hit'[r]) /\ pc'[r] = "done"
      BY <1>1, <1>5, <2>2, Marks DEF Goto, TypeOK
    <2>4. /\ s'[r].pre = s[r].pre /\ s'[r].fundingSettled = s[r].fundingSettled
          /\ s'[r].tokenConsumed = s[r].tokenConsumed /\ s'[r].held = s[r].held
          /\ s'[r].source = s[r].source /\ s'[r].extra = s[r].extra
          /\ s'[r].refunded = s[r].refunded
          /\ s'[r].settled => op[r].actual = s[r].pre
      <3>1. CASE d = 0 /\ s' = [s EXCEPT ![r].settled = TRUE]
        <4>1. op[r].actual = s[r].pre
          BY <1>2, <3>1
        <4> QED BY <1>1, <3>1, <4>1 DEF TypeOK, SessionType
      <3>2. CASE UNCHANGED s
        BY <1>3, <3>2
      <3> QED BY <1>5, <3>1, <3>2
    <2>5. /\ paid'[r].wallet = paid[r].wallet /\ paid'[r].sub = paid[r].sub
          /\ paid'[r].token = paid[r].token /\ wallet' = wallet /\ subUsed' = subUsed
      BY <1>1, <2>1, TypeFacts DEF Flow, Moves, TypeOK
    <2>6. SessionLedger(r)'
      BY <1>1, <1>2, <1>3, <2>1, <2>3, <2>4
         DEF Ledger, SessionLedger, Serving, IsWallet, BeforeHold, NoSource
    <2>7. FundingLedger(r)'
      BY <1>1, <1>2, <1>3, <2>3, <2>4, <2>5, TypeFacts
         DEF FundingLedger, Holding, Serving, ChargeOf, Pending, IsWallet, IsSub
    <2>8. TokenLedger(r)'
      BY <1>1, <1>2, <1>3, <2>3, <2>4, <2>5, TypeFacts
         DEF Ledger, TokenLedger, TokenDue, Playground
    <2>9. SubSynced(r) /\ Covered(r)
      BY <1>1, <1>2, <2>5, TypeFacts DEF SubSynced, Covered, Excess, TypeOK
    <2>10. OwnMarks(r)
      BY <1>1, <2>1, <2>2, Marks DEF OwnMarks
    <2>11. AbstractStep(r)
      BY <1>1, <1>2, <1>3, <2>3, <2>4, <2>5, TypeFacts
         DEF AbstractStep, SameAmounts, StateOf, ChargeOf, Closed, Ended
    <2> QED BY <2>6, <2>7, <2>8, <2>9, <2>10, <2>11 DEF Accounted, Ledger
  <1>6. \/ /\ \/ IsWallet(r) /\ WalletTake(r, d)
              \/ IsSub(r) /\ SubTake(r, d) /\ UNCHANGED rec
           /\ s' = [s EXCEPT ![r].fundingSettled = TRUE]
           /\ Goto(r, "settleToken") /\ Works
        \/ /\ Goto(r, "done") /\ BalancesSame
           /\ \/ d = 0 /\ s' = [s EXCEPT ![r].settled = TRUE] /\ Works
              \/ /\ UNCHANGED s
                 /\ Works \/ Fails(r, IF IsWallet(r) THEN "wallet" ELSE "sub")
    BY DEF SettleFunding
  <1> QED BY <1>4, <1>5, <1>6

\* Settling the token.
LEMMA SettleTokenAccounted ==
    ASSUME AInv, NEW r \in Requests, SettleToken(r)
    PROVE  Accounted(r)
  <1> DEFINE d == op[r].actual - s[r].pre
  <1>1. TypeOK /\ Books(r) /\ Ledger(r)
    BY AccountFacts
  <1>2. /\ pc[r] = "settleToken" /\ UNCHANGED <<req, info, op, bg>> /\ Goto(r, "done")
        /\ s' = [s EXCEPT ![r].settled = TRUE]
        /\ d \in Int /\ op[r].actual \in Nat /\ s[r].pre \in Nat
    BY <1>1, TypeFacts DEF SettleToken
  <1>3. /\ s[r].fundingSettled /\ ~ s[r].settled /\ ~ s[r].refunded /\ bg[r] = "none"
        /\ s[r].source # "none" /\ s[r].tokenConsumed = s[r].pre /\ rec[r] # "refunded"
        /\ ChargeOf(r) = op[r].actual
    BY <1>1, <1>2
       DEF Ledger, SessionLedger, FundingLedger, Books, Shape, BeforeHold, NoSource
  <1>4. PICK dt \in Int :
          /\ Flow(r, 0, 0, dt) /\ rec' = rec
          /\ Playground(r) => dt = 0
          /\ ~ hit'[r] /\ ~ Playground(r) => dt = d
    <2>1. CASE Playground(r) /\ BalancesSame
      BY <1>1, <2>1, NothingFlows
    <2>2. CASE ~ Playground(r) /\ TokenTake(r, d)
      BY <1>1, <1>2, <2>2, TokenFlows
    <2>3. CASE ~ Playground(r) /\ Fails(r, "token") /\ BalancesSame
      <3>1. hit'[r]
        BY <1>1, <2>3 DEF Fails, TypeOK
      <3> QED BY <1>1, <2>3, <3>1, NothingFlows
    <2> QED BY <2>1, <2>2, <2>3 DEF SettleToken
  <1>5. Works \/ \E p \in AllFaults : Fails(r, p)
    BY DEF SettleToken, AllFaults
  <1>6. (hit[r] => hit'[r]) /\ pc'[r] = "done"
    BY <1>1, <1>2, <1>5, Marks DEF Goto, TypeOK
  <1>7. /\ s'[r].settled /\ s'[r].pre = s[r].pre /\ s'[r].fundingSettled = s[r].fundingSettled
        /\ s'[r].tokenConsumed = s[r].tokenConsumed /\ s'[r].source = s[r].source
        /\ s'[r].refunded = s[r].refunded
    BY <1>1, <1>2 DEF TypeOK, SessionType
  <1>8. /\ paid'[r].wallet = paid[r].wallet /\ paid'[r].sub = paid[r].sub
        /\ paid'[r].token = paid[r].token + dt /\ wallet' = wallet /\ subUsed' = subUsed
    BY <1>1, <1>4, TypeFacts DEF Flow, Moves, TypeOK
  <1>9. SessionLedger(r)'
    BY <1>1, <1>2, <1>3, <1>4, <1>6, <1>7
       DEF Ledger, SessionLedger, Serving, IsWallet, BeforeHold, NoSource
  <1>10. FundingLedger(r)'
    BY <1>1, <1>2, <1>3, <1>6, <1>7, <1>8, TypeFacts
       DEF FundingLedger, Holding, ChargeOf
  <1>11. TokenLedger(r)'
    BY <1>1, <1>2, <1>3, <1>4, <1>6, <1>7, <1>8, TypeFacts
       DEF Ledger, TokenLedger, TokenDue, Playground
  <1>12. SubSynced(r) /\ Covered(r)
    BY <1>1, <1>2, <1>8, TypeFacts DEF SubSynced, Covered, Excess, TypeOK
  <1>13. OwnMarks(r)
    BY <1>1, <1>4, <1>5, Marks DEF OwnMarks
  <1>14. AbstractStep(r)
    BY <1>1, <1>2, <1>3, <1>6, <1>7, <1>8, TypeFacts
       DEF AbstractStep, SameAmounts, StateOf, ChargeOf, Closed, Ended
  <1> QED BY <1>9, <1>10, <1>11, <1>12, <1>13, <1>14 DEF Accounted, Ledger

\* PostConsumeQuota is over: only the token may have moved, by the amount posted.
LEMMA PostEndsAccounted ==
    ASSUME AInv, NEW r \in Requests, NEW dt \in Int, Flow(r, 0, 0, dt), rec' = rec,
           UNCHANGED <<s, op, bg, req, info>>, Works \/ \E p \in AllFaults : Fails(r, p),
           pc[r] \in {"postFunding", "postToken"}, Goto(r, AfterPost(r)),
           Playground(r) => dt = 0,
           ~ hit'[r] /\ ~ Playground(r) =>
             dt = IF pc[r] = "postToken" THEN op[r].delta ELSE 0
    PROVE  Accounted(r)
  <1>1. TypeOK /\ Books(r) /\ Ledger(r)
    BY AccountFacts
  <1>2. /\ hit[r] => hit'[r]
        /\ pc'[r] = IF op[r].post = "turn" THEN "open"
                    ELSE IF op[r].post = "legacy" THEN "done" ELSE "failed"
    BY <1>1, Marks DEF Goto, AfterPost, TypeOK
  <1>3. /\ paid'[r].wallet = paid[r].wallet /\ paid'[r].sub = paid[r].sub
        /\ paid'[r].token = paid[r].token + dt /\ wallet' = wallet /\ subUsed' = subUsed
    BY <1>1, TypeFacts DEF Flow, Moves, TypeOK
  <1>4. SessionLedger(r)'
    BY <1>1, <1>2 DEF Ledger, SessionLedger, Serving, IsWallet, BeforeHold, NoSource, Books, Shape
  <1>5. FundingLedger(r)'
    BY <1>1, <1>2, <1>3, TypeFacts
       DEF Ledger, FundingLedger, Holding, Serving, ChargeOf, Pending, IsWallet, IsSub
  <1>6. TokenLedger(r)'
    <2>1. /\ pc'[r] # "postToken" /\ op'[r] = op[r] /\ s'[r] = s[r] /\ bg'[r] = bg[r]
          /\ req'[r] = req[r]
      BY <1>2
    <2>2. TokenDue(r)' = TokenDue(r) + (IF pc[r] = "postToken" THEN op[r].delta ELSE 0)
      BY <1>1, <2>1, TypeFacts DEF TokenDue
    <2>3. /\ Playground(r) => paid[r].token = 0
          /\ ~ Playground(r) /\ ~ hit[r] => paid[r].token = TokenDue(r)
      BY <1>1 DEF Ledger, TokenLedger
    <2>4. paid[r].token \in Int /\ (Playground(r)' <=> Playground(r))
      BY <1>1, <2>1, TypeFacts DEF Playground
    <2>5. Playground(r) => paid'[r].token = 0
      BY <1>3, <2>3
    <2>6. ~ Playground(r) /\ ~ hit'[r] => paid'[r].token = TokenDue(r)'
      BY <1>2, <1>3, <2>2, <2>3
    <2> QED BY <2>4, <2>5, <2>6 DEF TokenLedger
  <1>7. SubSynced(r) /\ Covered(r)
    BY <1>1, <1>3, TypeFacts DEF SubSynced, Covered, Excess, TypeOK
  <1>8. OwnMarks(r)
    BY <1>1, Marks DEF OwnMarks
  <1>9. AbstractStep(r)
    <2>1. SameAmounts(r)
      BY <1>1, <1>3, TypeFacts DEF SameAmounts, ChargeOf
    <2>2. ~ s[r].fundingSettled /\ bg[r] \in BGs
      BY <1>1 DEF Books, Shape, TypeOK
    <2>3. pc'[r] = "open" => s[r].source # "none"
      BY <1>1, <1>2 DEF Ledger, SessionLedger, Serving
    <2>4. StateOf(r)' \in {StateOf(r), "closed"}
      BY <1>2, <2>2, <2>3 DEF StateOf, Closed, Ended, BGs
    <2> QED BY <2>1, <2>4 DEF AbstractStep
  <1> QED BY <1>4, <1>5, <1>6, <1>7, <1>8, <1>9 DEF Accounted, Ledger

\* The funding side of PostConsumeQuota.
LEMMA PostFundingAccounted ==
    ASSUME AInv, NEW r \in Requests, PostFunding(r)
    PROVE  Accounted(r)
  <1>1. TypeOK /\ Books(r) /\ Ledger(r)
    BY AccountFacts
  <1>2. /\ pc[r] = "postFunding" /\ UNCHANGED <<req, info, s, bg>>
        /\ op[r].delta \in Nat /\ op[r].delta \in Int
    BY <1>1, TypeFacts DEF PostFunding
  <1>3. CASE /\ \/ ~ IsSub(r) /\ WalletTake(r, op[r].delta)
                \/ IsSub(r) /\ SubTake(r, op[r].delta) /\ UNCHANGED rec
             /\ op' = [op EXCEPT ![r].posted = @ + op[r].delta]
             /\ Goto(r, "postToken") /\ Works
    <2>1. PICK dw \in Nat, ds \in Nat :
            Flow(r, dw, ds, 0) /\ dw + ds = op[r].delta /\ (dw = 0 \/ dw = op[r].delta)
      <3>1. CASE WalletTake(r, op[r].delta)
        <4>1. Flow(r, op[r].delta, 0, 0) /\ op[r].delta + 0 = op[r].delta
          BY <1>1, <1>2, <3>1, WalletFlows
        <4> QED BY <1>2, <4>1
      <3>2. CASE SubTake(r, op[r].delta)
        <4>1. paid[r].sub + op[r].delta >= 0
          BY <1>1, <1>2, AccountFacts, TypeFacts
        <4>2. Flow(r, 0, op[r].delta, 0) /\ 0 + op[r].delta = op[r].delta
          BY <1>2, <3>2, <4>1, SubFlows
        <4> QED BY <1>2, <4>2
      <3> QED BY <1>3, <3>1, <3>2
    <2>2. rec' = rec /\ pc'[r] = "postToken" /\ hit' = hit
      BY <1>1, <1>3 DEF WalletTake, Goto, Works, TypeOK
    <2>3. /\ op'[r].posted = op[r].posted + op[r].delta /\ op'[r].delta = op[r].delta
          /\ op'[r].actual = op[r].actual /\ op'[r].turns = op[r].turns
          /\ op'[r].post = op[r].post
      BY <1>1, <1>3 DEF TypeOK, OpType
    <2>4. /\ paid'[r].wallet = paid[r].wallet + dw /\ paid'[r].sub = paid[r].sub + ds
          /\ paid'[r].token = paid[r].token
          /\ wallet' = wallet - dw /\ subUsed' = subUsed + ds
      BY <1>1, <2>1, TypeFacts DEF Flow, Moves
    <2>5. ChargeOf(r)' = ChargeOf(r)
      BY <1>1, <1>2, <2>1, <2>3, <2>4, TypeFacts DEF ChargeOf
    <2>6. SessionLedger(r)'
      BY <1>1, <1>2, <2>2, <2>3
         DEF Ledger, SessionLedger, Serving, IsWallet, BeforeHold, NoSource
    <2>7. FundingLedger(r)'
      BY <1>1, <1>2, <2>2, <2>3, <2>5, TypeFacts
         DEF Ledger, FundingLedger, Holding, Serving, Pending, IsWallet, IsSub
    <2>8. TokenLedger(r)'
      BY <1>1, <1>2, <2>2, <2>3, <2>4, TypeFacts
         DEF Ledger, TokenLedger, TokenDue, Playground
    <2>9. SubSynced(r) /\ Covered(r) /\ OwnMarks(r)
      <3>1. SubSynced(r) /\ OwnMarks(r)
        BY <1>1, <2>1, <2>2, <2>4, TypeFacts DEF SubSynced, OwnMarks, TypeOK
      <3>2. info'[r].eff = info[r].eff /\ info[r].eff \in Int /\ paid[r].wallet \in Int
                /\ op[r].posted \in Int /\ wallet \in Int /\ dw <= op[r].delta /\ dw \in Nat
                /\ op[r].delta \in Int
        BY <1>1, <1>2, <2>1, TypeFacts DEF TypeOK
      <3>3. Covered(r)
        BY <2>3, <2>4, <3>2 DEF Covered, Excess
      <3> QED BY <3>1, <3>3
    <2>10. AbstractStep(r)
      <3>1. StateOf(r)' = StateOf(r) /\ StateOf(r) \in {"none", "open", "returning"}
        BY <1>1, <1>2, <2>2 DEF StateOf, Closed, Ended, Books, Shape
      <3>2. op'[r].posted >= op[r].posted
        BY <1>1, <1>2, <2>3, TypeFacts
      <3> QED BY <2>3, <2>5, <3>1, <3>2 DEF AbstractStep
    <2> QED BY <2>6, <2>7, <2>8, <2>9, <2>10 DEF Accounted, Ledger
  <1>4. CASE /\ Works \/ Fails(r, IF IsSub(r) THEN "sub" ELSE "wallet")
             /\ Goto(r, AfterPost(r)) /\ BalancesSame /\ UNCHANGED op
    <2>1. Works \/ \E p \in AllFaults : Fails(r, p)
      BY <1>4 DEF AllFaults
    <2>2. Flow(r, 0, 0, 0) /\ rec' = rec
      BY <1>1, <1>4, NothingFlows
    <2> QED BY <1>2, <1>4, <2>1, <2>2, PostEndsAccounted
  <1> QED BY <1>3, <1>4 DEF PostFunding

\* Its token side.
LEMMA PostTokenAccounted ==
    ASSUME AInv, NEW r \in Requests, PostToken(r)
    PROVE  Accounted(r)
  <1>1. TypeOK /\ op[r].delta \in Int
    BY AccountFacts, TypeFacts
  <1>2. pc[r] = "postToken" /\ UNCHANGED <<req, info, s, op, bg>> /\ Goto(r, AfterPost(r))
    BY DEF PostToken
  <1>3. Works \/ \E p \in AllFaults : Fails(r, p)
    BY DEF PostToken, AllFaults
  <1>4. PICK dt \in Int :
          /\ Flow(r, 0, 0, dt) /\ rec' = rec
          /\ Playground(r) => dt = 0
          /\ ~ hit'[r] /\ ~ Playground(r) => dt = op[r].delta
    <2>1. CASE Playground(r) /\ BalancesSame
      BY <1>1, <2>1, NothingFlows
    <2>2. CASE ~ Playground(r) /\ TokenTake(r, op[r].delta)
      BY <1>1, <2>2, TokenFlows
    <2>3. CASE ~ Playground(r) /\ Fails(r, "token") /\ BalancesSame
      <3>1. hit'[r]
        BY <1>1, <2>3 DEF Fails, TypeOK
      <3> QED BY <1>1, <2>3, <3>1, NothingFlows
    <2> QED BY <2>1, <2>2, <2>3 DEF PostToken
  <1> QED BY <1>2, <1>3, <1>4, PostEndsAccounted

\* The deferred Refund starts the goroutine, and the fee may be charged.
LEMMA RefundAccounted ==
    ASSUME AInv, NEW r \in Requests, Refund(r)
    PROVE  Accounted(r)
  <1>1. TypeOK /\ Books(r) /\ Ledger(r)
    BY AccountFacts
  <1>2. /\ pc[r] = "failing" /\ Works /\ BalancesSame /\ UNCHANGED <<req, info>>
        /\ bg' = [bg EXCEPT ![r] = IF NeedsRefund(r) THEN "funding" ELSE @]
        /\ s' = [s EXCEPT ![r].refunded = @ \/ NeedsRefund(r)]
    BY DEF Refund
  <1>3. /\ ~ s[r].fundingSettled /\ ~ s[r].settled /\ ~ s[r].refunded /\ bg[r] = "none"
        /\ s[r].tokenConsumed = s[r].pre /\ rec[r] # "refunded"
        /\ NeedsRefund(r) => s[r].source # "none"
        /\ ~ NeedsRefund(r) => s[r].pre = 0
    BY <1>1, <1>2, TypeFacts
       DEF Ledger, SessionLedger, Books, Shape, BeforeHold, NoSource, NoSession, NeedsRefund,
           IsSub
  <1>4. Flow(r, 0, 0, 0) /\ rec' = rec /\ hit' = hit
    BY <1>1, <1>2, NothingFlows DEF Works
  <1>5. /\ op'[r].posted = op[r].posted /\ op'[r].actual = op[r].actual
        /\ op'[r].turns = op[r].turns
        /\ pc'[r] = "failed" \/ (pc'[r] = "postFunding" /\ op'[r].post = "fee")
    <2>1. \/ op' = [op EXCEPT ![r].post = "fee", ![r].delta = Fee] /\ Goto(r, "postFunding")
          \/ op' = op /\ Goto(r, "failed")
      BY DEF Refund
    <2> QED BY <1>1, <2>1 DEF Goto, TypeOK, OpType
  <1>6. bg'[r] = IF NeedsRefund(r) THEN "funding" ELSE "none"
    BY <1>1, <1>2, <1>3 DEF TypeOK
  <1>7. PICK n \in BOOLEAN : n <=> NeedsRefund(r)
    OBVIOUS
  <1>8. /\ s'[r].pre = s[r].pre /\ s'[r].fundingSettled = s[r].fundingSettled
        /\ s'[r].tokenConsumed = s[r].tokenConsumed /\ s'[r].held = s[r].held
        /\ s'[r].source = s[r].source /\ s'[r].extra = s[r].extra
        /\ s'[r].settled = s[r].settled /\ (s'[r].refunded <=> NeedsRefund(r))
        /\ ~ NeedsRefund(r) => s'[r] = s[r]
    <2>1. (s[r].refunded \/ NeedsRefund(r)) = n
      BY <1>3, <1>7
    <2>2. s' = [s EXCEPT ![r].refunded = n]
      BY <1>2, <2>1
    <2>3. s \in [Requests -> SessionType] /\ s[r].refunded = FALSE
      BY <1>1, <1>3, TypeFacts DEF TypeOK
    <2>4. n = FALSE => s'[r] = s[r]
      BY <2>2, <2>3 DEF SessionType
    <2>5. /\ s'[r].pre = s[r].pre /\ s'[r].fundingSettled = s[r].fundingSettled
          /\ s'[r].tokenConsumed = s[r].tokenConsumed /\ s'[r].held = s[r].held
          /\ s'[r].source = s[r].source /\ s'[r].extra = s[r].extra
          /\ s'[r].settled = s[r].settled /\ s'[r].refunded = n
      BY <2>2, <2>3 DEF SessionType
    <2> QED BY <1>7, <2>4, <2>5
  <1>9. /\ paid'[r].wallet = paid[r].wallet /\ paid'[r].sub = paid[r].sub
        /\ paid'[r].token = paid[r].token /\ wallet' = wallet /\ subUsed' = subUsed
    BY <1>1, <1>4, TypeFacts DEF Flow, Moves, TypeOK
  <1> HIDE DEF NeedsRefund
  <1>10. SessionLedger(r)'
    BY <1>1, <1>2, <1>3, <1>4, <1>5, <1>6, <1>8
       DEF Ledger, SessionLedger, Serving, IsWallet, BeforeHold, NoSource
  <1>11. FundingLedger(r)'
    BY <1>1, <1>2, <1>3, <1>4, <1>5, <1>6, <1>8, <1>9, TypeFacts
       DEF Ledger, FundingLedger, Holding, Serving, ChargeOf, Pending, IsWallet, IsSub
  <1>12. TokenLedger(r)'
    BY <1>1, <1>2, <1>3, <1>4, <1>5, <1>6, <1>8, <1>9, TypeFacts
       DEF Ledger, TokenLedger, TokenDue, Playground
  <1>13. SubSynced(r) /\ Covered(r) /\ OwnMarks(r)
    BY <1>1, <1>2, <1>4, <1>5, <1>9, TypeFacts DEF SubSynced, Covered, Excess, TypeOK, OwnMarks
  <1>14. AbstractStep(r)
    BY <1>1, <1>2, <1>3, <1>5, <1>6, <1>8, <1>9, TypeFacts
       DEF AbstractStep, SameAmounts, StateOf, ChargeOf, Closed, Ended
  <1> QED BY <1>10, <1>11, <1>12, <1>13, <1>14 DEF Accounted, Ledger

\* What holds of a request while its refund goroutine runs.
LEMMA RefundFacts ==
    ASSUME AInv, NEW r \in Requests, bg[r] \in {"funding", "extra", "token"}
    PROVE  /\ ~ s[r].fundingSettled /\ ~ s[r].settled /\ s[r].source # "none"
           /\ pc[r] \in {"postFunding", "postToken", "failed", "lost"}
           /\ Pending(r) = 0 /\ StateOf(r) = "returning"
           /\ ChargeOf(r) \in Nat
           /\ IsWallet(r) => paid[r].sub = 0
           /\ IsSub(r) => paid[r].wallet = 0 /\ s[r].pre = s[r].held + s[r].extra
           /\ bg[r] = "funding" => ChargeOf(r) >= s[r].pre /\ rec[r] # "refunded"
           /\ bg[r] = "funding" /\ IsWallet(r) => ChargeOf(r) >= s[r].held
           /\ bg[r] = "funding" /\ ~ hit[r] => ChargeOf(r) = s[r].pre
           /\ bg[r] = "funding" /\ ~ hit[r] /\ IsWallet(r) => ChargeOf(r) = s[r].held
           /\ ~ Serving(r)
  <1>1. TypeOK /\ Books(r) /\ Ledger(r)
    BY AccountFacts
  <1>2. /\ ~ s[r].fundingSettled /\ s[r].source # "none"
        /\ pc[r] \in {"postFunding", "postToken", "failed", "lost"} /\ ~ s[r].settled
        /\ pc[r] \in {"postFunding", "postToken"} => op[r].post = "fee"
        /\ bg[r] = "funding" => rec[r] # "refunded"
    BY <1>1 DEF Ledger, SessionLedger, Books, Shape
  <1>3. Pending(r) = 0 /\ StateOf(r) = "returning" /\ ~ Serving(r)
    BY <1>2 DEF Pending, StateOf, Closed, Serving
  <1>4. ChargeOf(r) \in Nat
    BY <1>1, TypeFacts DEF Ledger, FundingLedger, ChargeOf
  <1>5. /\ IsWallet(r) => paid[r].sub = 0 /\ s[r].held >= s[r].pre
        /\ IsSub(r) => paid[r].wallet = 0 /\ s[r].pre = s[r].held + s[r].extra
        /\ IsWallet(r) \/ IsSub(r)
    BY <1>1, <1>2, <1>3, TypeFacts DEF Books, WalletBooks, SubBooks, IsWallet, IsSub, Sources
  <1>6. bg[r] = "funding" =>
          /\ ChargeOf(r) >= IF IsWallet(r) THEN s[r].held ELSE s[r].pre
          /\ ~ hit[r] => ChargeOf(r) = s[r].pre
    BY <1>1, <1>2, <1>3, TypeFacts DEF Ledger, FundingLedger, Holding
  <1>7. bg[r] = "funding" => ChargeOf(r) >= s[r].pre
    BY <1>1, <1>4, <1>5, <1>6, TypeFacts
  <1>8. bg[r] = "funding" /\ ~ hit[r] /\ IsWallet(r) => ChargeOf(r) = s[r].held
    BY <1>1, <1>4, <1>5, <1>6, TypeFacts
  <1> QED BY <1>2, <1>3, <1>4, <1>5, <1>6, <1>7, <1>8

\* One step of the refund goroutine: the charge and the token's part only go down.
LEMMA GiveBackAccounted ==
    ASSUME AInv, NEW r \in Requests, NEW dw \in Int, NEW ds \in Int, NEW dt \in Int,
           Flow(r, dw, ds, dt), UNCHANGED <<s, pc, req, info>>,
           op'[r].posted = op[r].posted, op'[r].actual = op[r].actual,
           op'[r].turns = op[r].turns, op'[r].post = op[r].post, op'[r].delta = op[r].delta,
           bg[r] \in {"funding", "extra", "token"}, bg'[r] \in {"funding", "extra", "token", "end"},
           rec'[r] = "refunded" => rec[r] = "refunded" \/ bg'[r] # "funding",
           bg'[r] = "funding" => bg[r] = "funding",
           \A q \in Requests \ {r} : rec'[q] = rec[q],
           Works \/ \E p \in AllFaults : Fails(r, p),
           dw =< 0, ds =< 0, ChargeOf(r) + dw + ds >= 0,
           bg'[r] \in {"funding", "end"} => dw = 0 /\ ds = 0,
           bg'[r] = "extra" /\ IsSub(r) => ChargeOf(r) + dw + ds >= s[r].extra,
           bg'[r] = "extra" /\ ~ hit'[r] =>
             ChargeOf(r) + dw + ds = IF IsSub(r) THEN s[r].extra ELSE 0,
           bg'[r] \in {"token", "end"} /\ ~ hit'[r] => ChargeOf(r) + dw + ds = 0,
           Playground(r) => dt = 0,
           ~ Playground(r) /\ ~ hit'[r] =>
             dt = IF bg'[r] = "end" THEN - s[r].tokenConsumed ELSE 0
    PROVE  Accounted(r)
  <1>1. TypeOK /\ Books(r) /\ Ledger(r)
    BY AccountFacts
  <1>2. /\ ~ s[r].fundingSettled /\ ~ s[r].settled /\ s[r].source # "none"
        /\ pc[r] \in {"postFunding", "postToken", "failed", "lost"}
        /\ StateOf(r) = "returning" /\ ChargeOf(r) \in Nat /\ Pending(r) = 0
        /\ bg[r] = "funding" => rec[r] # "refunded"
        /\ bg[r] = "funding" => ChargeOf(r) >= s[r].pre
        /\ bg[r] = "funding" /\ IsWallet(r) => ChargeOf(r) >= s[r].held
        /\ bg[r] = "funding" /\ ~ hit[r] => ChargeOf(r) = s[r].pre
        /\ ~ Serving(r)
    BY RefundFacts
  <1>3. /\ paid'[r].wallet = paid[r].wallet + dw /\ paid'[r].sub = paid[r].sub + ds
        /\ paid'[r].token = paid[r].token + dt
        /\ wallet' = wallet - dw /\ subUsed' = subUsed + ds
    BY <1>1, TypeFacts DEF Flow, Moves
  <1>4. hit[r] => hit'[r]
    BY <1>1, Marks
  <1>5. ChargeOf(r)' = ChargeOf(r) + dw + ds
    BY <1>1, <1>3, TypeFacts DEF ChargeOf
  <1>6. ~ Serving(r)' /\ Pending(r)' = 0
    BY <1>2 DEF Serving, Pending
  <1>7. SessionLedger(r)'
    BY <1>1, <1>2, <1>4, <1>6 DEF Ledger, SessionLedger, IsWallet, BeforeHold, NoSource
  <1>8. FundingLedger(r)'
    <2>1. ~ s'[r].fundingSettled /\ ~ s'[r].settled /\ s'[r].source # "none" /\ s'[r] = s[r]
      BY <1>2
    <2>2. s[r].pre \in Nat /\ s[r].held \in Nat /\ s[r].pre + 0 = s[r].pre
      BY <1>1, TypeFacts
    <2>3. bg'[r] = "funding" =>
            /\ ChargeOf(r)' >= IF IsWallet(r) THEN s[r].held ELSE s[r].pre
            /\ ~ hit'[r] => ChargeOf(r)' = s[r].pre
      BY <1>2, <1>4, <1>5
    <2>4. /\ bg'[r] = "extra" /\ IsSub(r) => ChargeOf(r)' >= s[r].extra
          /\ bg'[r] = "extra" /\ ~ hit'[r] => ChargeOf(r)' = IF IsSub(r) THEN s[r].extra ELSE 0
          /\ bg'[r] \in {"token", "end"} /\ ~ hit'[r] => ChargeOf(r)' = 0
          /\ ChargeOf(r)' >= 0
      BY <1>5
    <2>5. (IsWallet(r)' <=> IsWallet(r)) /\ (IsSub(r)' <=> IsSub(r))
      BY DEF IsWallet, IsSub
    <2> QED BY <1>6, <2>1, <2>2, <2>3, <2>4, <2>5 DEF FundingLedger, Holding
  <1>9. TokenLedger(r)'
    <2>1. TokenDue(r)' = TokenDue(r) + (IF bg'[r] = "end" THEN - s[r].tokenConsumed ELSE 0)
      BY <1>1, <1>2, TypeFacts DEF TokenDue
    <2>2. /\ Playground(r) => paid[r].token = 0
          /\ ~ Playground(r) /\ ~ hit[r] => paid[r].token = TokenDue(r)
      BY <1>1 DEF Ledger, TokenLedger
    <2>3. Playground(r)' <=> Playground(r)
      BY DEF Playground
    <2>4. Playground(r) => paid'[r].token = 0
      BY <1>3, <2>2
    <2>5. ~ Playground(r) /\ ~ hit'[r] => paid'[r].token = TokenDue(r)'
      BY <1>3, <1>4, <2>1, <2>2
    <2> QED BY <2>3, <2>4, <2>5 DEF TokenLedger
  <1>10. SubSynced(r) /\ Covered(r)
    BY <1>1, <1>3, TypeFacts DEF SubSynced, TypeOK, Covered, Excess
  <1>11. OwnMarks(r)
    BY <1>1, Marks DEF OwnMarks
  <1>12. AbstractStep(r)
    <2>1. StateOf(r)' \in {"returning", "closed"}
      BY <1>2 DEF StateOf, Closed, Ended
    <2>2. ChargeOf(r)' \in 0..ChargeOf(r)
      BY <1>2, <1>5
    <2>3. StateOf(r)' = "closed" => bg'[r] = "end"
      BY <1>2 DEF StateOf, Closed, Ended
    <2>4. CASE StateOf(r)' = "returning"
      BY <1>2, <2>2, <2>4 DEF AbstractStep
    <2>5. CASE dw + ds = 0
      BY <1>2, <1>5, <2>1, <2>5 DEF AbstractStep, SameAmounts
    <2> QED BY <2>1, <2>3, <2>4, <2>5
  <1> QED BY <1>7, <1>8, <1>9, <1>10, <1>11, <1>12 DEF Accounted, Ledger

\* Giving the wallet back what the funding source consumed.
LEMMA RefundWalletAccounted ==
    ASSUME AInv, NEW r \in Requests, RefundWallet(r)
    PROVE  Accounted(r)
  <1>1. /\ TypeOK /\ bg[r] = "funding" /\ IsWallet(r) /\ UNCHANGED <<req, info, s, op, pc>>
        /\ BgGoto(r, "extra") /\ s[r].held \in Nat /\ - s[r].held \in Int
    BY AccountFacts, TypeFacts DEF RefundWallet
  <1>2. /\ ChargeOf(r) \in Nat /\ ChargeOf(r) >= s[r].held
        /\ ~ hit[r] => ChargeOf(r) = s[r].held
    BY <1>1, RefundFacts
  <1>3. Works \/ \E p \in AllFaults : Fails(r, p)
    BY DEF RefundWallet, AllFaults
  <1>4. (hit[r] => hit'[r]) /\ bg'[r] = "extra"
    BY <1>1, <1>3, Marks DEF BgGoto, TypeOK
  <1>5. PICK dw \in Int :
          /\ Flow(r, dw, 0, 0) /\ rec' = rec /\ dw =< 0 /\ - s[r].held =< dw
          /\ ~ hit'[r] => dw = - s[r].held
    <2>1. CASE WalletTake(r, - s[r].held)
      <3>1. Flow(r, - s[r].held, 0, 0) /\ rec' = rec
        BY <1>1, <2>1, WalletFlows
      <3> QED BY <1>1, <3>1
    <2>2. CASE Fails(r, "wallet") /\ BalancesSame
      <3>1. Flow(r, 0, 0, 0) /\ rec' = rec /\ hit'[r]
        BY <1>1, <2>2, NothingFlows DEF Fails, TypeOK
      <3> QED BY <1>1, <3>1
    <2>3. CASE s[r].held = 0 /\ BalancesSame
      <3>1. Flow(r, 0, 0, 0) /\ rec' = rec
        BY <1>1, <2>3, NothingFlows
      <3> QED BY <1>1, <2>3, <3>1
    <2> QED BY <2>1, <2>2, <2>3 DEF RefundWallet
  <1>6. /\ ChargeOf(r) + dw + 0 >= 0
        /\ ~ hit'[r] => ChargeOf(r) + dw + 0 = 0
    BY <1>1, <1>2, <1>4, <1>5
  <1>7. ~ IsSub(r)
    BY <1>1 DEF IsWallet, IsSub
  <1> QED BY <1>1, <1>3, <1>4, <1>5, <1>6, <1>7, GiveBackAccounted

\* One attempt at giving the subscription back its pre-consumed amount, no record save
\* being lost.
LEMMA RefundSubscriptionAccounted ==
    ASSUME AInv, "record" \notin FaultPoints, NEW r \in Requests, RefundSubscription(r)
    PROVE  Accounted(r)
  <1>1. /\ TypeOK /\ bg[r] = "funding" /\ IsSub(r) /\ UNCHANGED <<req, info, s, pc>>
        /\ s[r].held \in Nat /\ s[r].extra \in Nat /\ - s[r].held \in Int
        /\ paid[r].sub \in Int /\ op[r].tries \in Nat /\ op[r].posted \in Nat
    BY AccountFacts, TypeFacts DEF RefundSubscription
  <1>2. /\ ChargeOf(r) \in Nat /\ ChargeOf(r) >= s[r].held + s[r].extra
        /\ ~ hit[r] => ChargeOf(r) = s[r].held + s[r].extra
        /\ rec[r] # "refunded" /\ paid[r].wallet = 0
    BY <1>1, RefundFacts
  <1>3. paid[r].sub + (- s[r].held) >= 0
    BY <1>1, <1>2 DEF ChargeOf
  <1>4. CASE /\ SubTake(r, - s[r].held) /\ rec' = [rec EXCEPT ![r] = "refunded"]
             /\ BgGoto(r, "extra") /\ Works /\ UNCHANGED op
    <2>1. Flow(r, 0, - s[r].held, 0)
      BY <1>1, <1>3, <1>4, SubFlows
    <2>2. /\ bg'[r] = "extra" /\ op' = op /\ hit' = hit
          /\ \A q \in Requests \ {r} : rec'[q] = rec[q]
      BY <1>1, <1>4 DEF BgGoto, Works, TypeOK
    <2>3. /\ ChargeOf(r) + 0 + (- s[r].held) >= s[r].extra
          /\ ChargeOf(r) + 0 + (- s[r].held) >= 0
          /\ ~ hit'[r] => ChargeOf(r) + 0 + (- s[r].held) = s[r].extra
          /\ - s[r].held =< 0
      BY <1>1, <1>2, <2>2
    <2> QED BY <1>1, <1>4, <2>1, <2>2, <2>3, GiveBackAccounted
  <1>5. CASE /\ BalancesSame /\ UNCHANGED op /\ Works /\ BgGoto(r, "extra")
             /\ s[r].held = 0 \/ rec[r] = "refunded"
    <2>1. Flow(r, 0, 0, 0) /\ rec' = rec
      BY <1>1, <1>5, NothingFlows
    <2>2. bg'[r] = "extra" /\ op' = op /\ hit' = hit /\ s[r].held = 0
      BY <1>1, <1>2, <1>5 DEF BgGoto, Works, TypeOK
    <2>3. /\ ChargeOf(r) + 0 + 0 >= s[r].extra /\ ChargeOf(r) + 0 + 0 >= 0
          /\ ~ hit'[r] => ChargeOf(r) + 0 + 0 = s[r].extra
      BY <1>1, <1>2, <2>2
    <2> QED BY <1>1, <1>5, <2>1, <2>2, <2>3, GiveBackAccounted
  <1>6. CASE /\ BalancesSame /\ Fails(r, "sub") /\ op' = [op EXCEPT ![r].tries = @ + 1]
             /\ BgGoto(r, IF op[r].tries + 1 < MaxRefundAttempts THEN "funding" ELSE "extra")
    <2>1. Flow(r, 0, 0, 0) /\ rec' = rec
      BY <1>1, <1>6, NothingFlows
    <2>2. /\ op'[r].posted = op[r].posted /\ op'[r].actual = op[r].actual
          /\ op'[r].turns = op[r].turns /\ op'[r].post = op[r].post
          /\ op'[r].delta = op[r].delta
      BY <1>1, <1>6 DEF TypeOK, OpType
    <2>3. bg'[r] \in {"funding", "extra"} /\ hit'[r]
      BY <1>1, <1>6 DEF BgGoto, Fails, TypeOK
    <2>4. ChargeOf(r) + 0 + 0 >= s[r].extra /\ ChargeOf(r) + 0 + 0 >= 0
      BY <1>1, <1>2
    <2>5. \E p \in AllFaults : Fails(r, p)
      BY <1>6 DEF AllFaults
    <2> QED BY <1>1, <1>2, <2>1, <2>2, <2>3, <2>4, <2>5, GiveBackAccounted
  <1>7. ~ Fails(r, "record")
    BY DEF Fails
  <1> QED BY <1>4, <1>5, <1>6, <1>7 DEF RefundSubscription

\* Giving the subscription back what Reserve added.
LEMMA RefundExtraAccounted ==
    ASSUME AInv, NEW r \in Requests, RefundExtra(r)
    PROVE  Accounted(r)
  <1>1. /\ TypeOK /\ bg[r] = "extra" /\ UNCHANGED <<req, info, s, op, pc>>
        /\ BgGoto(r, "token") /\ s[r].extra \in Nat /\ - s[r].extra \in Int
    BY AccountFacts, TypeFacts DEF RefundExtra
  <1>2. /\ ChargeOf(r) \in Nat
        /\ IsSub(r) => ChargeOf(r) >= s[r].extra /\ paid[r].sub >= s[r].extra
        /\ ~ hit[r] => ChargeOf(r) = IF IsSub(r) THEN s[r].extra ELSE 0
    BY <1>1, RefundFacts, AccountFacts DEF Ledger, FundingLedger, Books, SubBooks
  <1>3. Works \/ \E p \in AllFaults : Fails(r, p)
    BY DEF RefundExtra, AllFaults
  <1>4. (hit[r] => hit'[r]) /\ bg'[r] = "token"
    BY <1>1, <1>3, Marks DEF BgGoto, TypeOK
  <1>5. PICK ds \in Int :
          /\ Flow(r, 0, ds, 0) /\ rec' = rec /\ ds =< 0
          /\ ds = 0 \/ (IsSub(r) /\ ds = - s[r].extra)
          /\ ~ hit'[r] => ds = IF IsSub(r) THEN - s[r].extra ELSE 0
    <2>1. CASE IsSub(r) /\ SubTake(r, - s[r].extra) /\ UNCHANGED rec
      <3>1. paid[r].sub + (- s[r].extra) >= 0 /\ - s[r].extra =< 0
        BY <1>1, <1>2, <2>1, TypeFacts
      <3>2. Flow(r, 0, - s[r].extra, 0)
        BY <1>1, <2>1, <3>1, SubFlows
      <3> QED BY <1>1, <2>1, <3>1, <3>2
    <2>2. CASE Fails(r, "sub") /\ BalancesSame
      <3>1. Flow(r, 0, 0, 0) /\ rec' = rec /\ hit'[r]
        BY <1>1, <2>2, NothingFlows DEF Fails, TypeOK
      <3> QED BY <1>1, <3>1
    <2>3. CASE ~ (IsSub(r) /\ s[r].extra > 0) /\ BalancesSame
      <3>1. Flow(r, 0, 0, 0) /\ rec' = rec
        BY <1>1, <2>3, NothingFlows
      <3>2. 0 = IF IsSub(r) THEN - s[r].extra ELSE 0
        BY <1>1, <2>3
      <3> QED BY <1>1, <3>1, <3>2
    <2> QED BY <2>1, <2>2, <2>3 DEF RefundExtra
  <1>6. /\ ChargeOf(r) + 0 + ds >= 0
        /\ ~ hit'[r] => ChargeOf(r) + 0 + ds = 0
    BY <1>1, <1>2, <1>4, <1>5
  <1> QED BY <1>1, <1>3, <1>4, <1>5, <1>6, GiveBackAccounted

\* Giving the token back what was consumed.
LEMMA RefundTokenAccounted ==
    ASSUME AInv, NEW r \in Requests, RefundToken(r)
    PROVE  Accounted(r)
  <1>1. /\ TypeOK /\ bg[r] = "token" /\ UNCHANGED <<req, info, s, op, pc>>
        /\ BgGoto(r, "end") /\ s[r].tokenConsumed \in Nat /\ - s[r].tokenConsumed \in Int
    BY AccountFacts, TypeFacts DEF RefundToken
  <1>2. ChargeOf(r) \in Nat /\ (~ hit[r] => ChargeOf(r) = 0)
    BY <1>1, RefundFacts, AccountFacts DEF Ledger, FundingLedger
  <1>3. Works \/ \E p \in AllFaults : Fails(r, p)
    BY DEF RefundToken, AllFaults
  <1>4. (hit[r] => hit'[r]) /\ bg'[r] = "end"
    BY <1>1, <1>3, Marks DEF BgGoto, TypeOK
  <1>5. PICK dt \in Int :
          /\ Flow(r, 0, 0, dt) /\ rec' = rec
          /\ Playground(r) => dt = 0
          /\ ~ Playground(r) /\ ~ hit'[r] => dt = - s[r].tokenConsumed
    <2>1. CASE ~ Playground(r) /\ TokenTake(r, - s[r].tokenConsumed)
      BY <1>1, <2>1, TokenFlows
    <2>2. CASE Fails(r, "token") /\ BalancesSame
      <3>1. Flow(r, 0, 0, 0) /\ rec' = rec /\ hit'[r]
        BY <1>1, <2>2, NothingFlows DEF Fails, TypeOK
      <3> QED BY <1>1, <3>1
    <2>3. CASE (s[r].tokenConsumed = 0 \/ Playground(r)) /\ BalancesSame
      <3>1. Flow(r, 0, 0, 0) /\ rec' = rec
        BY <1>1, <2>3, NothingFlows
      <3> QED BY <1>1, <2>3, <3>1
    <2> QED BY <2>1, <2>2, <2>3 DEF RefundToken
  <1>6. /\ ChargeOf(r) + 0 + 0 >= 0
        /\ ~ hit'[r] => ChargeOf(r) + 0 + 0 = 0
    BY <1>2, <1>4
  <1> QED BY <1>1, <1>3, <1>4, <1>5, <1>6, GiveBackAccounted

\* Every step of a request keeps its ledger and is a step of ChargeOnce.
LEMMA StepAccounted ==
    ASSUME AInv, "record" \notin FaultPoints, NEW r \in Requests, Step(r) \/ RefundStep(r)
    PROVE  Accounted(r)
  <1>1. CASE Authenticate(r) \/ SkipFreeModel(r) \/ Fail(r) \/ HandOver(r)
    BY <1>1, AuthenticateAccounted, GotoAccounted
  <1>2. CASE \E n \in Amounts : PreConsumeBilling(r, n)
    BY <1>2, PreConsumeBillingAccounted
  <1>3. CASE TryWallet(r) \/ TrySubscription(r) \/ PreConsumeToken(r)
    BY <1>3, TryWalletAccounted, TrySubscriptionAccounted, PreConsumeTokenAccounted
  <1>4. CASE PreConsumeWallet(r) \/ PreConsumeSubscription(r) \/ UndoToken(r)
    BY <1>4, PreConsumeWalletAccounted, PreConsumeSubscriptionAccounted, UndoTokenAccounted
  <1>5. CASE \E n \in Amounts : Reserve(r, n)
    BY <1>5, ReserveAccounted
  <1>6. CASE ReserveToken(r) \/ UndoReserve(r)
    BY <1>6, ReserveTokenAccounted, UndoReserveAccounted
  <1>7. CASE \E n \in Amounts \cup {op[r].sum} : Succeed(r, n)
    BY <1>7, SucceedAccounted
  <1>8. CASE SettleFunding(r) \/ SettleToken(r)
    BY <1>8, SettleFundingAccounted, SettleTokenAccounted
  <1>9. CASE \E n \in Amounts : RealtimeTurn(r, n)
    BY <1>9, RealtimeTurnAccounted
  <1>10. CASE \E n \in Amounts : SettleLegacy(r, n)
    BY <1>10, SettleLegacyAccounted
  <1>11. CASE PostFunding(r) \/ PostToken(r)
    BY <1>11, PostFundingAccounted, PostTokenAccounted
  <1>12. CASE Refund(r)
    BY <1>12, RefundAccounted
  <1>13. CASE RefundStep(r)
    BY <1>13, RefundWalletAccounted, RefundSubscriptionAccounted, RefundExtraAccounted,
       RefundTokenAccounted DEF RefundStep
  <1> QED
    BY <1>1, <1>2, <1>3, <1>4, <1>5, <1>6, <1>7, <1>8, <1>9, <1>10, <1>11, <1>12, <1>13
       DEF Step

-----------------------------------------------------------------------------
(* The requests together.                                                  *)

\* Ledger(q) reads nothing but what q owns.
LEMMA LedgerLocal ==
    ASSUME NEW q \in Requests, Ledger(q),
           pc'[q] = pc[q], bg'[q] = bg[q], info'[q] = info[q], s'[q] = s[q],
           op'[q] = op[q], paid'[q] = paid[q], req'[q] = req[q], rec'[q] = rec[q],
           hit'[q] = hit[q]
    PROVE  Ledger(q)'
  BY DEF Ledger, SessionLedger, FundingLedger, TokenLedger, TokenDue, Holding, Serving,
         ChargeOf, Pending, IsWallet, IsSub, Playground

\* What one request moves in amount_used, it moves in its own account.
LEMMA SubLedgerKept ==
    ASSUME AInv, IInv', NEW r \in Requests, SubSynced(r), Others(r)
    PROVE  SubLedger'
  <1> DEFINE g == [q \in Requests |-> paid'[q].sub]
  <1>1. TypeOK /\ TypeOK' /\ subUsed = SumFunctionOnSet(SubPaid, Requests)
    BY DEF AInv, IInv, SubLedger
  <1>2. \A q \in Requests : SubPaid[q] \in Int
    BY <1>1, TypeFacts DEF SubPaid
  <1>3. g[r] \in Int /\ SubPaid[r] = paid[r].sub /\ g[r] = paid'[r].sub
    BY <1>1 DEF TypeOK, PaidType, SubPaid
  <1>4. \A q \in Requests \ {r} : g[q] = SubPaid[q]
    BY DEF Others, SubPaid
  <1> DEFINE f == SubPaid
  <1>5. SumFunctionOnSet(g, Requests) = SumFunctionOnSet(SubPaid, Requests) + g[r] - SubPaid[r]
    <2>1. /\ IsFiniteSet(Requests) /\ \A q \in Requests : f[q] \in Int
          /\ \A q \in Requests \ {r} : g[q] = f[q]
          /\ g[r] \in Int
      BY <1>2, <1>3, <1>4, RequestsAssumption
    <2> HIDE DEF f, g
    <2>2. SumFunctionOnSet(g, Requests) = SumFunctionOnSet(f, Requests) + g[r] - f[r]
      BY <2>1, SumChange
    <2> QED BY <2>2 DEF f
  <1> HIDE DEF f, g
  <1>6. subUsed' = SumFunctionOnSet(g, Requests)
    <2>1. subUsed \in Int /\ subUsed' \in Int /\ SubPaid[r] \in Int
      BY <1>1, <1>2 DEF TypeOK
    <2> QED BY <1>1, <1>3, <1>5, <2>1 DEF SubSynced
  <1> QED BY <1>6 DEF SubLedger, SubPaid, g

\* The death of the process.
LEMMA CrashAccounted ==
    ASSUME AInv, Crash, NEW r \in Requests
    PROVE  Ledger(r)' /\ paid'[r] = paid[r] /\ op'[r] = op[r]
             /\ info'[r] = info[r] /\ StateOf(r)' \in {StateOf(r), "closed"}
  <1>1. TypeOK /\ Books(r) /\ Ledger(r)
    BY AccountFacts
  <1>2. /\ pc'[r] = IF pc[r] \in Ended \cup {"new"} THEN pc[r] ELSE "lost"
        /\ bg'[r] = IF bg[r] = "none" THEN "none" ELSE "end"
        /\ paid'[r] = paid[r] /\ op'[r] = op[r] /\ info'[r] = info[r] /\ s'[r] = s[r]
        /\ req'[r] = req[r] /\ rec'[r] = rec[r]
    BY DEF Crash, BalancesSame
  <1>3. /\ hit'[r] <=> \/ hit[r] \/ pc[r] \notin Ended \cup {"new"}
                       \/ bg[r] \notin {"none", "end"}
    BY Zenon DEF Crash
  <1>4. \/ pc'[r] = pc[r] /\ bg'[r] = bg[r] /\ (hit'[r] <=> hit[r])
        \/ pc'[r] = pc[r] /\ bg'[r] = "end" /\ bg[r] # "none" /\ hit'[r]
        \/ pc'[r] = "lost" /\ pc[r] \notin Ended \cup {"new"} /\ bg'[r] = bg[r]
             /\ bg[r] = "none" /\ hit'[r]
        \/ pc'[r] = "lost" /\ pc[r] \notin Ended \cup {"new"} /\ bg'[r] = "end"
             /\ bg[r] # "none" /\ hit'[r]
    BY <1>2, <1>3 DEF Ended
  <1>5. SessionLedger(r)'
    BY <1>1, <1>2, <1>3, <1>4
       DEF Ledger, SessionLedger, Serving, IsWallet, BeforeHold, NoSource, Ended
  <1>6. FundingLedger(r)'
    <2>1. Pending(r)' =< Pending(r) /\ Pending(r)' \in Nat /\ Pending(r) \in Nat
      BY <1>1, <1>2, <1>4, TypeFacts DEF Pending, Ended
    <2>2. ChargeOf(r)' = ChargeOf(r) /\ ChargeOf(r) \in Int
      BY <1>1, <1>2, TypeFacts DEF ChargeOf
    <2>3. (IsWallet(r)' <=> IsWallet(r)) /\ (IsSub(r)' <=> IsSub(r))
      BY <1>2 DEF IsWallet, IsSub
    <2>4. Holding(r)' /\ (Serving(r)' \/ ~ hit'[r]) =>
            Holding(r) /\ (Serving(r) \/ ~ hit[r]) /\ Pending(r)' = Pending(r)
      BY <1>2, <1>4 DEF Holding, Serving, Pending
    <2>5. Holding(r)' => Holding(r)
      BY <1>2, <1>4 DEF Holding
    <2>6. /\ bg'[r] = "extra" => bg[r] = "extra"
          /\ bg'[r] \in {"token", "end"} /\ ~ hit'[r] => bg[r] \in {"token", "end"} /\ ~ hit[r]
          /\ hit[r] => hit'[r]
      BY <1>3, <1>4
    <2>7. s[r].pre \in Nat
      BY <1>1, TypeFacts
    <2>8. /\ ChargeOf(r)' >= 0
          /\ s'[r].source = "none" => ChargeOf(r)' = 0
          /\ s'[r].fundingSettled \/ s'[r].settled => ChargeOf(r)' = op'[r].actual
      BY <1>1, <1>2, <2>2 DEF Ledger, FundingLedger
    <2>9. /\ Holding(r)' => ChargeOf(r)' >= IF IsWallet(r)' THEN s'[r].held
                                            ELSE s'[r].pre + Pending(r)'
          /\ Holding(r)' /\ (Serving(r)' \/ ~ hit'[r]) =>
               ChargeOf(r)' = s'[r].pre + Pending(r)'
      BY <1>1, <1>2, <2>1, <2>2, <2>3, <2>4, <2>5, <2>7 DEF Ledger, FundingLedger
    <2>10. /\ bg'[r] = "extra" /\ IsSub(r)' => ChargeOf(r)' >= s'[r].extra
           /\ bg'[r] = "extra" /\ ~ hit'[r] =>
                ChargeOf(r)' = IF IsSub(r)' THEN s'[r].extra ELSE 0
           /\ bg'[r] \in {"token", "end"} /\ ~ hit'[r] => ChargeOf(r)' = 0
      BY <1>1, <1>2, <2>2, <2>3, <2>6 DEF Ledger, FundingLedger
    <2> QED BY <2>8, <2>9, <2>10 DEF FundingLedger
  <1>7. TokenLedger(r)'
    BY <1>1, <1>2, <1>4 DEF Ledger, TokenLedger, TokenDue, Playground
  <1>8. StateOf(r)' \in {StateOf(r), "closed"}
    BY <1>1, <1>2, <1>4
       DEF StateOf, Closed, Ended, Books, Shape, NoSource
  <1> QED BY <1>2, <1>5, <1>6, <1>7, <1>8 DEF Ledger

\* Initially the accounts are empty.
LEMMA InitAInv == Init => AInv
  <1> SUFFICES ASSUME Init PROVE AInv
    OBVIOUS
  <1>1. IInv
    BY InitIInv
  <1>2. ASSUME NEW r \in Requests PROVE Ledger(r)
    BY DEF Init, Ledger, SessionLedger, FundingLedger, TokenLedger, TokenDue, Holding, Serving,
           ChargeOf, Pending, IsWallet, IsSub, Playground, NoSession, BeforeHold, NoSource
  <1>3. \A r \in Requests : SubPaid[r] = 0
    BY DEF Init, SubPaid
  <1>4. SubLedger
    BY <1>3, SumZero, RequestsAssumption DEF Init, SubLedger
  <1> QED BY <1>1, <1>2, <1>4 DEF AInv

\* The inductive step.
LEMMA NextKeepsAccounts ==
    ASSUME AInv, "record" \notin FaultPoints, [Next]_vars
    PROVE  AInv'
  <1>1. IInv'
    BY NextKeeps DEF AInv
  <1>2. CASE \E r \in Requests : Step(r) \/ RefundStep(r)
    <2>1. PICK r \in Requests : Step(r) \/ RefundStep(r)
      BY <1>2
    <2>2. Accounted(r) /\ Others(r)
      BY <2>1, StepAccounted, StepLocal DEF AInv
    <2>3. ASSUME NEW q \in Requests PROVE Ledger(q)'
      <3>1. CASE q = r
        BY <2>2, <3>1 DEF Accounted
      <3>2. CASE q # r
        BY <2>2, <3>2, LedgerLocal DEF AInv, Accounted, Others, OwnMarks
      <3> QED BY <3>1, <3>2
    <2>4. SubLedger'
      BY <1>1, <2>2, SubLedgerKept DEF Accounted
    <2> QED BY <1>1, <2>3, <2>4 DEF AInv
  <1>3. CASE Crash
    <2>1. \A q \in Requests : Ledger(q)'
      BY <1>3, CrashAccounted
    <2>2. SubLedger'
      BY <1>3 DEF AInv, SubLedger, SubPaid, Crash, BalancesSame
    <2> QED BY <1>1, <2>1, <2>2 DEF AInv
  <1>4. CASE UNCHANGED vars
    <2>1. ASSUME NEW q \in Requests PROVE Ledger(q)'
      BY <1>4, LedgerLocal DEF AInv, vars
    <2>2. SubLedger'
      BY <1>4 DEF AInv, SubLedger, SubPaid, vars
    <2> QED BY <1>1, <2>1, <2>2 DEF AInv
  <1> QED BY <1>2, <1>3, <1>4 DEF Next, Finished

\* The inductive invariant: the books of BillingSessionProofs, the ledger of every
\* request, and the used amount of the subscription as the sum of what its requests took.
THEOREM AccountsHold == "record" \notin FaultPoints => (Spec => []AInv)
  <1> SUFFICES ASSUME "record" \notin FaultPoints PROVE Spec => []AInv
    OBVIOUS
  <1>1. Init => AInv
    BY InitAInv
  <1>2. AInv /\ [Next]_vars => AInv'
    BY NextKeepsAccounts
  <1> QED BY <1>1, <1>2, PTL DEF Spec

\* The ledger of a closed request that met no error says what it owes.
LEMMA LedgerIsExact ==
    ASSUME AInv, NEW r \in Requests, Closed(r), ~ hit[r], op[r].turns = 0
    PROVE  /\ paid[r].wallet + paid[r].sub = Due(r)
           /\ paid[r].token = IF Playground(r) THEN 0 ELSE Due(r)
  <1>1. TypeOK /\ Books(r) /\ Ledger(r)
    BY AccountFacts
  <1>2. pc[r] \in {"done", "failed", "handed", "rejected"} /\ bg[r] \in {"none", "end"}
    BY <1>1 DEF Closed, Ended, Ledger, SessionLedger
  <1>3. paid[r].wallet + paid[r].sub = ChargeOf(r) + op[r].posted
    BY <1>1, TypeFacts DEF ChargeOf
  <1>4. /\ s[r].source = "none" => ChargeOf(r) = 0 /\ s[r] = NoSession
        /\ s[r].source = "none" => bg[r] = "none"
        /\ s[r].settled => ChargeOf(r) = op[r].actual
        /\ bg[r] = "end" => ChargeOf(r) = 0 /\ pc[r] = "failed" /\ ~ s[r].settled
        /\ s[r].fundingSettled => s[r].settled
        /\ s[r].settled => pc[r] = "done"
        /\ pc[r] = "rejected" => s[r].source = "none" /\ op[r].posted = 0
        /\ s[r].source # "none" /\ pc[r] # "failed" => op[r].posted = 0
        /\ s[r].tokenConsumed = s[r].pre
        /\ pc[r] = "handed" => s[r].source # "none"
        /\ pc[r] = "failed" /\ bg[r] = "none" => s[r].pre = 0
    BY <1>1, <1>2
       DEF Ledger, SessionLedger, FundingLedger, Books, Shape, BeforeHold, NoSource
  <1>5. ~ s[r].settled /\ bg[r] = "none" => ChargeOf(r) = s[r].pre
    BY <1>1, <1>2, <1>4, TypeFacts DEF Ledger, FundingLedger, Holding, Pending
  <1>6. pc[r] = "failed" => ChargeOf(r) = 0 /\ (bg[r] = "none" => s[r].tokenConsumed = 0)
    BY <1>2, <1>4, <1>5
  <1>7. Due(r) = ChargeOf(r) + op[r].posted
    BY <1>1, <1>2, <1>4, <1>5, <1>6, TypeFacts DEF Due, NoSession
  <1>8. ~ Playground(r) => paid[r].token = Due(r)
    <2>1. TokenDue(r) = Due(r)
      BY <1>1, <1>2, <1>4, <1>5, <1>6, <1>7, TypeFacts DEF TokenDue, NoSession
    <2> QED BY <1>1, <2>1 DEF Ledger, TokenLedger
  <1>9. Playground(r) => paid[r].token = 0
    BY <1>1 DEF Ledger, TokenLedger
  <1> QED BY <1>3, <1>7, <1>8, <1>9

\* A closed request that met no database error has paid exactly what it owes, and its
\* token the same, for any number of requests that compete.
THEOREM ChargesAreExact == "record" \notin FaultPoints => (Spec => []ExactCharge)
  <1>1. AInv => ExactCharge
    BY LedgerIsExact DEF ExactCharge
  <1> QED BY <1>1, AccountsHold, PTL
-----------------------------------------------------------------------------
(* The wallet.                                                             *)

Excesses == [r \in Requests |-> Excess(r)]

\* The balance is short of zero by no more than the requests have spent beyond their holds.
WalletLedger == wallet + SumFunctionOnSet(Excesses, Requests) >= 0

\* An excess is a natural number.
LEMMA ExcessType ==
    ASSUME TypeOK
    PROVE  \A r \in Requests : Excesses[r] \in Nat
  <1>1. ASSUME NEW r \in Requests PROVE Excesses[r] \in Nat
    BY TypeFacts DEF Excesses, Excess
  <1> QED BY <1>1

\* What a request takes beyond its hold, it adds to its excess; the hold itself is taken
\* from a balance that covers it.
LEMMA WalletLedgerKept ==
    ASSUME AInv, IInv', WalletLedger, NEW r \in Requests, Covered(r), Others(r)
    PROVE  WalletLedger'
  <1> DEFINE f == Excesses
             g == [q \in Requests |-> Excess(q)']
  <1>1. TypeOK /\ TypeOK' /\ wallet \in Int /\ wallet' \in Int
    BY DEF AInv, IInv, TypeOK
  <1>2. /\ IsFiniteSet(Requests)
        /\ \A q \in Requests : f[q] \in Nat
        /\ \A q \in Requests : f[q] \in Int
    BY <1>1, ExcessType, RequestsAssumption
  <1>3. \A q \in Requests \ {r} : g[q] = f[q]
    BY DEF Excesses, Excess, Others
  <1>4. f[r] = Excess(r) /\ g[r] = Excess(r)' /\ g[r] \in Nat /\ g[r] \in Int
    <2>1. op'[r] \in OpType /\ info'[r] \in InfoType /\ paid'[r] \in PaidType
      BY <1>1 DEF TypeOK
    <2> QED BY <2>1 DEF Excesses, Excess, OpType, InfoType, PaidType
  <1>5. \A q \in Requests : g[q] \in Nat
    BY <1>2, <1>3, <1>4
  <1>6. WalletLedger' <=> wallet' + SumFunctionOnSet(g, Requests) >= 0
    BY DEF WalletLedger, Excesses
  <1>7. wallet + SumFunctionOnSet(f, Requests) >= 0
    BY DEF WalletLedger
  <1> HIDE DEF f, g
  <1>8. SumFunctionOnSet(g, Requests) = SumFunctionOnSet(f, Requests) + g[r] - f[r]
    BY <1>2, <1>3, <1>4, SumChange
  <1>9. SumFunctionOnSet(g, Requests) \in Nat /\ SumFunctionOnSet(f, Requests) \in Nat
    BY <1>2, <1>5, SumNonNegative
  <1>10. CASE wallet' >= 0
    BY <1>1, <1>6, <1>9, <1>10
  <1>11. CASE wallet' + g[r] >= wallet + f[r]
    BY <1>1, <1>2, <1>4, <1>6, <1>7, <1>8, <1>9, <1>11
  <1> QED BY <1>4, <1>10, <1>11 DEF Covered

\* The wallet is never short by more than the excesses, if it starts at zero or above.
THEOREM WalletIsCovered ==
    "record" \notin FaultPoints /\ InitWallets \subseteq Nat => (Spec => []WalletLedger)
  <1> SUFFICES ASSUME "record" \notin FaultPoints, InitWallets \subseteq Nat
               PROVE  Spec => []WalletLedger
    OBVIOUS
  <1>1. Init => WalletLedger
    <2> SUFFICES ASSUME Init PROVE WalletLedger
      OBVIOUS
    <2>1. wallet \in Nat /\ TypeOK
      BY InitIInv DEF Init, IInv
    <2> DEFINE f == Excesses
    <2>2. \A r \in Requests : f[r] \in Nat
      BY <2>1, ExcessType
    <2> HIDE DEF f
    <2>3. SumFunctionOnSet(f, Requests) \in Nat
      BY <2>2, SumNonNegative, RequestsAssumption
    <2> QED BY <2>1, <2>3 DEF WalletLedger, f
  <1>2. AInv /\ WalletLedger /\ [Next]_vars => WalletLedger'
    <2> SUFFICES ASSUME AInv, WalletLedger, [Next]_vars PROVE WalletLedger'
      OBVIOUS
    <2>1. CASE \E r \in Requests : Step(r) \/ RefundStep(r)
      <3>1. PICK r \in Requests : Step(r) \/ RefundStep(r)
        BY <2>1
      <3>2. Covered(r) /\ Others(r)
        BY <3>1, StepAccounted, StepLocal DEF AInv, Accounted
      <3>3. IInv'
        BY NextKeeps DEF AInv
      <3> QED BY <3>2, <3>3, WalletLedgerKept
    <2>2. CASE Crash
      BY <2>2 DEF WalletLedger, Excesses, Excess, Crash, BalancesSame
    <2>3. CASE UNCHANGED vars
      BY <2>3 DEF WalletLedger, Excesses, Excess, vars
    <2> QED BY <2>1, <2>2, <2>3 DEF Next, Finished
  <1> QED BY <1>1, <1>2, AccountsHold, PTL DEF Spec

\* However many requests pass the check on the same stale balance, the wallet is
\* negative only when one of them has spent beyond the hold it was admitted with.
THEOREM OverdraftIsBeyondHold ==
    "record" \notin FaultPoints /\ InitWallets \subseteq Nat =>
        (Spec => []OverdraftOnlyBeyondHold)
  <1>1. AInv /\ WalletLedger => OverdraftOnlyBeyondHold
    <2> SUFFICES ASSUME AInv, WalletLedger, wallet < 0,
                        ~ \E r \in Requests : paid[r].wallet > info[r].eff \/ op[r].posted > 0
                 PROVE  FALSE
      BY DEF OverdraftOnlyBeyondHold
    <2> DEFINE f == Excesses
    <2>1. TypeOK /\ wallet \in Int
      BY DEF AInv, IInv, TypeOK
    <2>2. ASSUME NEW r \in Requests PROVE f[r] = 0
      BY <2>1, TypeFacts DEF Excesses, Excess
    <2> HIDE DEF f
    <2>3. SumFunctionOnSet(f, Requests) = 0
      BY <2>2, SumZero, RequestsAssumption
    <2> QED BY <2>1, <2>3 DEF WalletLedger, f
  <1> QED BY <1>1, AccountsHold, WalletIsCovered, PTL
-----------------------------------------------------------------------------
(* The refinement.                                                         *)

\* A step of one request is a step of ChargeOnce.
LEMMA StepImplements ==
    ASSUME NEW r \in Requests, AbstractStep(r), Others(r)
    PROVE  [Abstract!Next]_Abstract!vars
  <1> DEFINE state == [q \in Requests |-> StateOf(q)]
             state2 == [q \in Requests |-> StateOf(q)']
             charge == [q \in Requests |-> ChargeOf(q)]
             charge2 == [q \in Requests |-> ChargeOf(q)']
             cost == [q \in Requests |-> op[q].actual]
             cost2 == [q \in Requests |-> op'[q].actual]
             posted == [q \in Requests |-> op[q].posted]
             posted2 == [q \in Requests |-> op'[q].posted]
  <1>1. \A q \in Requests \ {r} :
          /\ state2[q] = state[q] /\ charge2[q] = charge[q]
          /\ cost2[q] = cost[q] /\ posted2[q] = posted[q]
    BY DEF Others, StateOf, ChargeOf, Closed
  <1>2. /\ state2 = [state EXCEPT ![r] = StateOf(r)']
        /\ charge2 = [charge EXCEPT ![r] = charge2[r]]
        /\ cost2 = [cost EXCEPT ![r] = cost2[r]]
        /\ posted2 = [posted EXCEPT ![r] = posted2[r]]
    BY <1>1
  <1>3. /\ ChargeOf(r)' = ChargeOf(r) => charge2 = charge
        /\ op'[r].actual = op[r].actual => cost2 = cost
        /\ op'[r].posted = op[r].posted => posted2 = posted
        /\ StateOf(r)' = StateOf(r) => state2 = state
    BY <1>1
  <1>4. state2[r] = StateOf(r)' /\ charge2[r] = ChargeOf(r)' /\ charge[r] = ChargeOf(r)
        /\ cost2[r] = op'[r].actual /\ cost[r] = op[r].actual
        /\ posted2[r] = op'[r].posted /\ posted[r] = op[r].posted /\ state[r] = StateOf(r)
    OBVIOUS
  <1>5. CASE /\ StateOf(r) = "none" /\ StateOf(r)' = "open" /\ ChargeOf(r)' >= 0
             /\ op'[r].actual = op[r].actual /\ op'[r].posted = op[r].posted
    <2>1. Abstract!Hold(r)
      BY <1>2, <1>3, <1>4, <1>5 DEF Abstract!Hold, Abstract!Moves, Abstract!OnlyAt
    <2> QED BY <2>1 DEF Abstract!Next
  <1>6. CASE /\ StateOf(r) = "open" /\ StateOf(r)' = "open" /\ ChargeOf(r)' >= ChargeOf(r)
             /\ op'[r].actual = op[r].actual /\ op'[r].posted = op[r].posted
    <2>1. Abstract!Extend(r)
      BY <1>2, <1>3, <1>4, <1>6 DEF Abstract!Extend, Abstract!OnlyAt
    <2> QED BY <2>1 DEF Abstract!Next
  <1>7. CASE /\ StateOf(r) \in {"open", "returning"} /\ StateOf(r)' = StateOf(r)
             /\ ChargeOf(r)' \in 0..ChargeOf(r)
             /\ op'[r].actual = op[r].actual /\ op'[r].posted = op[r].posted
    <2>1. Abstract!GiveBack(r)
      BY <1>2, <1>3, <1>4, <1>7 DEF Abstract!GiveBack, Abstract!OnlyAt
    <2> QED BY <2>1 DEF Abstract!Next
  <1>8. CASE /\ StateOf(r) = "open" /\ StateOf(r)' = "open" /\ op'[r].actual >= 0
             /\ ChargeOf(r)' = ChargeOf(r) /\ op'[r].posted = op[r].posted
    <2>1. Abstract!Answer(r)
      BY <1>2, <1>3, <1>4, <1>8 DEF Abstract!Answer, Abstract!OnlyAt
    <2> QED BY <2>1 DEF Abstract!Next
  <1>9. CASE /\ StateOf(r) = "open" /\ StateOf(r)' = "settled" /\ ChargeOf(r)' = op[r].actual
             /\ op'[r].actual = op[r].actual /\ op'[r].posted = op[r].posted
    <2>1. Abstract!Settle(r)
      BY <1>2, <1>3, <1>4, <1>9 DEF Abstract!Settle, Abstract!Moves
    <2> QED BY <2>1 DEF Abstract!Next
  <1>10. CASE StateOf(r) = "open" /\ StateOf(r)' = "returning" /\ SameAmounts(r)
    <2>1. Abstract!Abandon(r)
      BY <1>2, <1>3, <1>4, <1>10 DEF Abstract!Abandon, Abstract!Moves, SameAmounts
    <2> QED BY <2>1 DEF Abstract!Next
  <1>11. CASE /\ StateOf(r) \in {"none", "open", "returning"} /\ StateOf(r)' = StateOf(r)
             /\ ChargeOf(r)' = ChargeOf(r) /\ op'[r].actual = op[r].actual
             /\ op'[r].posted >= op[r].posted
    <2>1. Abstract!Post(r)
      BY <1>2, <1>3, <1>4, <1>11 DEF Abstract!Post, Abstract!OnlyAt
    <2> QED BY <2>1 DEF Abstract!Next
  <1>12. CASE StateOf(r)' \in {StateOf(r), "closed"} /\ SameAmounts(r)
    <2>1. \A q \in Requests : StateOf(q)' \in {StateOf(q), "closed"}
      BY <1>1, <1>12
    <2>2. state2 \in [Requests -> {"none", "open", "settled", "returning", "closed"}]
      BY <2>1 DEF StateOf
    <2>3. Abstract!Close
      BY <1>3, <1>12, <2>1, <2>2 DEF Abstract!Close, SameAmounts
    <2> QED BY <2>3 DEF Abstract!Next
  <1> QED BY <1>5, <1>6, <1>7, <1>8, <1>9, <1>10, <1>11, <1>12 DEF AbstractStep

\* The death of the process closes every request that has started.
LEMMA CrashImplements ==
    ASSUME AInv, Crash
    PROVE  Abstract!Close
  <1>1. \A q \in Requests :
          /\ StateOf(q)' \in {StateOf(q), "closed"} /\ paid'[q] = paid[q] /\ op'[q] = op[q]
          /\ StateOf(q) \in {"none", "open", "settled", "returning", "closed"}
    BY CrashAccounted DEF StateOf
  <1>2. \A q \in Requests : ChargeOf(q)' = ChargeOf(q)
    BY <1>1 DEF ChargeOf
  <1> QED BY <1>1, <1>2 DEF Abstract!Close

\* BillingSession implements ChargeOnce: whatever calls fail and wherever the process
\* dies, the funding source sees one hold, then one settlement at the cost answered or
\* the return of at most what was taken, and nothing after that.
THEOREM ImplementsChargeOnceHolds ==
    "record" \notin FaultPoints => (Spec => ImplementsChargeOnce)
  <1> SUFFICES ASSUME "record" \notin FaultPoints PROVE Spec => ImplementsChargeOnce
    OBVIOUS
  <1>1. Init => Abstract!Init
    BY DEF Init, Abstract!Init, StateOf, ChargeOf, Closed, Ended, NoSession
  <1>2. AInv /\ [Next]_vars => [Abstract!Next]_Abstract!vars
    <2> SUFFICES ASSUME AInv, [Next]_vars PROVE [Abstract!Next]_Abstract!vars
      OBVIOUS
    <2>1. CASE \E r \in Requests : Step(r) \/ RefundStep(r)
      <3>1. PICK r \in Requests : Step(r) \/ RefundStep(r)
        BY <2>1
      <3>2. AbstractStep(r) /\ Others(r)
        BY <3>1, StepAccounted, StepLocal DEF AInv, Accounted
      <3> QED BY <3>2, StepImplements
    <2>2. CASE Crash
      BY <2>2, CrashImplements DEF Abstract!Next
    <2>3. CASE UNCHANGED vars
      BY <2>3 DEF vars, Abstract!vars, StateOf, ChargeOf, Closed
    <2> QED BY <2>1, <2>2, <2>3 DEF Next, Finished
  <1> QED BY <1>1, <1>2, AccountsHold, PTL DEF Spec, ImplementsChargeOnce, Abstract!Spec
=============================================================================
