------------------------ MODULE BillingSessionProofs ------------------------
(***************************************************************************)
(* Proofs about BillingSession for any set of requests, any amounts and    *)
(* any faults except the lost save of a refund record (the one fault under *)
(* which RefundIdempotent is violated).                                    *)
(***************************************************************************)
EXTENDS BillingSession, TLAPS

\* What Reserve has taken from the funding source and not yet booked.
Pending(r) == IF pc[r] \in {"reserveToken", "undoReserve"} THEN op[r].delta ELSE 0

NoSource == {"new", "auth", "free", "tryWallet", "trySub"}
BeforeHold == NoSource \cup {"preToken", "preFunding", "undoToken"}

\* Which threads and flags go together.
Shape(r) ==
    /\ pc[r] \in NoSource => s[r].source = "none"
    /\ pc[r] \in NoSource \cup {"preToken"} => s[r].tokenConsumed = 0
    /\ pc[r] \in BeforeHold =>
         s[r].held = 0 /\ s[r].pre = 0 /\ s[r].extra = 0
           /\ paid[r].wallet = 0 /\ paid[r].sub = 0
    /\ pc[r] = "preFunding" => s[r].tokenConsumed = info[r].eff
    /\ pc[r] \notin {"settleToken", "done", "lost"} => ~ s[r].fundingSettled
    /\ bg[r] # "none" =>
         pc[r] \in {"postFunding", "postToken", "failed", "lost"} /\ ~ s[r].fundingSettled
    /\ bg[r] # "none" /\ pc[r] \in {"postFunding", "postToken"} => op[r].post = "fee"
    /\ pc[r] = "reserveToken" \/ pc[r] = "undoReserve" => s[r].source # "none"

\* The wallet never holds less for r than r's funding source would give back.
WalletBooks(r) ==
    /\ paid[r].wallet >= 0
    /\ IsSub(r) => paid[r].wallet = 0
    /\ IsWallet(r) /\ ~ s[r].fundingSettled /\ bg[r] \in {"none", "funding"} =>
         paid[r].wallet >= s[r].held
    /\ IsWallet(r) => s[r].held >= s[r].pre + Pending(r)

\* The same for the subscription, where Reserve's part is given back apart.
SubBooks(r) ==
    /\ paid[r].sub >= 0
    /\ ~ IsSub(r) => paid[r].sub = 0
    /\ IsSub(r) /\ ~ s[r].fundingSettled /\ bg[r] \in {"none", "funding"} =>
         paid[r].sub >= s[r].held + s[r].extra + Pending(r)
    /\ IsSub(r) /\ bg[r] = "extra" => paid[r].sub >= s[r].extra
    /\ IsSub(r) => s[r].pre = s[r].held + s[r].extra

\* The same for the token.
TokenBooks(r) ==
    /\ paid[r].token >= 0
    /\ s[r].tokenConsumed >= s[r].pre
    /\ ~ Playground(r) /\ pc[r] # "done" /\ bg[r] # "end" =>
         paid[r].token >= s[r].tokenConsumed

Books(r) == Shape(r) /\ WalletBooks(r) /\ SubBooks(r) /\ TokenBooks(r)

IInv == TypeOK /\ \A r \in Requests : Books(r)
-----------------------------------------------------------------------------
\* A step of r leaves everything another request owns alone.
Others(r) ==
    \A q \in Requests \ {r} :
        /\ pc'[q] = pc[q] /\ bg'[q] = bg[q] /\ info'[q] = info[q] /\ s'[q] = s[q]
        /\ op'[q] = op[q] /\ paid'[q] = paid[q] /\ req'[q] = req[q]

\* A step of r takes dw, ds and dt from the three balances, and they stay typed.
Moves(r, dw, ds, dt) ==
    /\ wallet' \in Int /\ token' \in Int /\ subUsed' \in Nat
    /\ paid' \in [Requests -> PaidType]
    /\ paid'[r].wallet = paid[r].wallet + dw
    /\ paid'[r].sub = paid[r].sub + ds
    /\ paid'[r].token = paid[r].token + dt
    /\ \A q \in Requests \ {r} : paid'[q] = paid[q]

\* A step of r rewrites at most r's session.
OwnSession(r) ==
    s' \in [Requests -> SessionType] /\ \A q \in Requests \ {r} : s'[q] = s[q]

\* The fields of r's session that Books reads are as before.
SameSession(r) ==
    /\ s'[r].source = s[r].source /\ s'[r].pre = s[r].pre /\ s'[r].extra = s[r].extra
    /\ s'[r].tokenConsumed = s[r].tokenConsumed /\ s'[r].held = s[r].held
    /\ s'[r].fundingSettled = s[r].fundingSettled

\* The components of r's state are typed.
LEMMA TypeFacts ==
    ASSUME TypeOK, NEW r \in Requests
    PROVE  /\ s[r] \in SessionType /\ info[r] \in InfoType
           /\ op[r] \in OpType /\ paid[r] \in PaidType
           /\ s[r].source \in Sources
           /\ s[r].pre \in Nat /\ s[r].tokenConsumed \in Nat
           /\ s[r].extra \in Nat /\ s[r].held \in Nat
           /\ s[r].fundingSettled \in BOOLEAN /\ s[r].settled \in BOOLEAN
           /\ s[r].refunded \in BOOLEAN
           /\ info[r].eff \in Nat /\ info[r].want \in Nat
           /\ op[r].delta \in Nat /\ op[r].actual \in Nat /\ op[r].sum \in Nat
           /\ op[r].turns \in Nat /\ op[r].posted \in Nat /\ op[r].tries \in Nat
           /\ paid[r].wallet \in Int /\ paid[r].sub \in Int /\ paid[r].token \in Int
  BY DEF TypeOK, SessionType, InfoType, OpType, PaidType

\* Books(q) reads nothing but what q owns.
LEMMA BooksLocal ==
    ASSUME NEW q \in Requests, Books(q),
           pc'[q] = pc[q], bg'[q] = bg[q], info'[q] = info[q], s'[q] = s[q],
           op'[q] = op[q], paid'[q] = paid[q], req'[q] = req[q]
    PROVE  Books(q)'
  BY DEF Books, Shape, WalletBooks, SubBooks, TokenBooks, Pending, IsWallet, IsSub,
         Playground

\* IncreaseUserQuota, DecreaseUserQuota and the reservation of the wallet.
LEMMA WalletMoves ==
    ASSUME TypeOK, NEW r \in Requests, NEW n \in Int, WalletTake(r, n)
    PROVE  Moves(r, n, 0, 0) /\ rec' = rec
  BY TypeFacts DEF TypeOK, Moves, WalletTake, PaidType

\* The same for the token.
LEMMA TokenMoves ==
    ASSUME TypeOK, NEW r \in Requests, NEW n \in Int, TokenTake(r, n)
    PROVE  Moves(r, 0, 0, n) /\ rec' = rec
  BY TypeFacts DEF TypeOK, Moves, TokenTake, PaidType

\* PostConsumeUserSubscriptionDelta: clipped at zero, so that what is given back is
\* at most what was asked for.
LEMMA SubMoves ==
    ASSUME TypeOK, NEW r \in Requests, NEW n \in Int, SubTake(r, n)
    PROVE  /\ NewUsed(n) - subUsed \in Int /\ NewUsed(n) - subUsed >= n
           /\ n >= 0 => NewUsed(n) - subUsed = n
           /\ Moves(r, 0, NewUsed(n) - subUsed, 0)
  <1>1. /\ NewUsed(n) \in Nat /\ subUsed \in Nat /\ NewUsed(n) - subUsed \in Int
        /\ NewUsed(n) - subUsed >= n
        /\ n >= 0 => NewUsed(n) - subUsed = n
    BY DEF TypeOK, NewUsed
  <1>2. Moves(r, 0, NewUsed(n) - subUsed, 0)
    BY <1>1, TypeFacts DEF TypeOK, Moves, SubTake, PaidType
  <1> QED BY <1>1, <1>2

\* A step that leaves the balances alone.
LEMMA NothingMoves ==
    ASSUME TypeOK, NEW r \in Requests, BalancesSame
    PROVE  Moves(r, 0, 0, 0) /\ rec' = rec
  BY TypeFacts DEF TypeOK, Moves, BalancesSame, PaidType

\* A step that leaves the sessions alone.
LEMMA SessionKept ==
    ASSUME TypeOK, NEW r \in Requests, UNCHANGED s
    PROVE  OwnSession(r) /\ SameSession(r)
  BY DEF TypeOK, OwnSession, SameSession

\* Initially nothing is held and nothing has been paid.
LEMMA InitIInv == Init => IInv
  <1> SUFFICES ASSUME Init PROVE IInv
    OBVIOUS
  <1>1. NoSession \in SessionType
    BY DEF NoSession, SessionType, Sources
  <1>2. TypeOK
    BY <1>1, ProfilesAssumption, BalancesAssumption
       DEF Init, TypeOK, PCs, BGs, PaidType, InfoType, OpType
  <1>3. ASSUME NEW r \in Requests PROVE Books(r)
    BY DEF Init, NoSession, Books, Shape, WalletBooks, SubBooks, TokenBooks, Pending, IsWallet,
           IsSub, Playground, NoSource, BeforeHold
  <1> QED BY <1>2, <1>3 DEF IInv

\* A step of r rewrites at most what r owns of the request's own variables.
OwnRest(r) ==
    /\ req' = req
    /\ rec' \in [Requests -> {"none", "consumed", "refunded"}]
    /\ hit' \in [Requests -> BOOLEAN]
    /\ info' \in [Requests -> InfoType] /\ op' \in [Requests -> OpType]
    /\ pc' \in [Requests -> PCs] /\ bg' \in [Requests -> BGs]
    /\ \A q \in Requests \ {r} :
         info'[q] = info[q] /\ op'[q] = op[q] /\ pc'[q] = pc[q] /\ bg'[q] = bg[q]

\* Typed parts make a typed state.
LEMMA Assemble ==
    ASSUME TypeOK, NEW r \in Requests, OwnSession(r), OwnRest(r),
           NEW dw, NEW ds, NEW dt, Moves(r, dw, ds, dt)
    PROVE  TypeOK' /\ Others(r)
  BY DEF TypeOK, Others, OwnSession, OwnRest, Moves

\* A model-layer call that works and one that fails leave hit typed.
LEMMA HitTyped ==
    ASSUME TypeOK, NEW r \in Requests,
           Works \/ \E p \in AllFaults : Fails(r, p)
    PROVE  hit' \in [Requests -> BOOLEAN]
  BY DEF TypeOK, Works, Fails

-----------------------------------------------------------------------------
(* One lemma per action: it keeps the types and the books of its request, and  *)
(* leaves the other requests alone.                                            *)

\* The actions that only look at the balances and move the request's goroutine on.
LEMMA QuietKeeps ==
    ASSUME IInv, NEW r \in Requests, BalancesSame, UNCHANGED <<s, bg>>, OwnRest(r),
           pc[r] \in {"new", "auth", "free", "open"},
           pc'[r] \in IF pc[r] = "open" THEN {"open", "settle", "postFunding", "failing", "handed"}
                      ELSE {"auth", "free", "tryWallet", "trySub", "rejected", "done",
                            "failing", "postFunding"}
    PROVE  TypeOK' /\ Books(r)' /\ Others(r)
  <1>1. TypeOK /\ Books(r)
    BY DEF IInv
  <1>2. Moves(r, 0, 0, 0) /\ OwnSession(r) /\ SameSession(r)
    BY <1>1, NothingMoves, SessionKept
  <1>3. Books(r)'
    BY <1>1, <1>2, TypeFacts
       DEF Books, Shape, WalletBooks, SubBooks, TokenBooks, Pending, IsWallet, IsSub,
           Playground, NoSource, BeforeHold, Moves, SameSession, OwnRest
  <1> QED BY <1>1, <1>2, <1>3, Assemble

\* Reading the balances into the request context.
LEMMA AuthenticateKeeps ==
    ASSUME IInv, NEW r \in Requests, Authenticate(r)
    PROVE  TypeOK' /\ Books(r)' /\ Others(r)
  <1>1. info' \in [Requests -> InfoType] /\ \A q \in Requests \ {r} : info'[q] = info[q]
    BY ZenonT(60) DEF IInv, Authenticate, TypeOK, InfoType
  <1>2. OwnRest(r) /\ pc'[r] = "auth"
    BY <1>1 DEF IInv, Authenticate, Goto, Works, BalancesSame, TypeOK, OwnRest, PCs
  <1> QED BY <1>2, QuietKeeps DEF Authenticate

\* Starting without a session.
LEMMA SkipFreeModelKeeps ==
    ASSUME IInv, NEW r \in Requests, SkipFreeModel(r)
    PROVE  TypeOK' /\ Books(r)' /\ Others(r)
  <1>1. OwnRest(r) /\ pc'[r] = "free"
    BY DEF IInv, SkipFreeModel, Goto, Works, BalancesSame, TypeOK, OwnRest, PCs
  <1> QED BY <1>1, QuietKeeps DEF SkipFreeModel

\* Choosing the funding source to try first.
LEMMA PreConsumeBillingKeeps ==
    ASSUME IInv, NEW r \in Requests, NEW n \in Amounts, PreConsumeBilling(r, n)
    PROVE  TypeOK' /\ Books(r)' /\ Others(r)
  <1>1. n \in Nat
    BY AmountsAssumption
  <1>2. \E l \in {"tryWallet", "trySub", "rejected"} : Goto(r, l)
    BY DEF PreConsumeBilling
  <1>3. hit' \in [Requests -> BOOLEAN]
    BY DEF IInv, PreConsumeBilling, TypeOK, Works, Fails
  <1>4. info' \in [Requests -> InfoType] /\ \A q \in Requests \ {r} : info'[q] = info[q]
    BY <1>1 DEF IInv, PreConsumeBilling, TypeOK, InfoType
  <1>5. OwnRest(r) /\ pc'[r] \in {"tryWallet", "trySub", "rejected"}
    BY <1>2, <1>3, <1>4
       DEF IInv, PreConsumeBilling, BalancesSame, Goto, TypeOK, OwnRest, PCs
  <1> QED BY <1>5, QuietKeeps DEF PreConsumeBilling

\* Computing the actual quota.
LEMMA SucceedKeeps ==
    ASSUME IInv, NEW r \in Requests, NEW n \in Amounts \cup {op[r].sum}, Succeed(r, n)
    PROVE  TypeOK' /\ Books(r)' /\ Others(r)
  <1>1. n \in Nat
    BY AmountsAssumption, TypeFacts DEF IInv
  <1>2. op' \in [Requests -> OpType] /\ \A q \in Requests \ {r} : op'[q] = op[q]
    BY SMTT(30), <1>1 DEF IInv, Succeed, TypeOK, OpType
  <1>3. OwnRest(r) /\ pc'[r] = "settle"
    BY <1>2 DEF IInv, Succeed, Goto, Works, BalancesSame, TypeOK, OwnRest, PCs
  <1> QED BY <1>3, QuietKeeps DEF Succeed

\* What StartPost leaves behind.
LEMMA StartPostKeeps ==
    ASSUME TypeOK, NEW r \in Requests, NEW n \in Nat, NEW what \in {"turn", "legacy"},
           StartPost(r, what, n)
    PROVE  /\ op' \in [Requests -> OpType] /\ \A q \in Requests \ {r} : op'[q] = op[q]
           /\ Goto(r, "postFunding")
  <1> DEFINE sum == IF what = "turn" THEN op[r].sum + n ELSE op[r].sum
             turns == IF what = "turn" THEN op[r].turns + 1 ELSE op[r].turns
  <1>1. sum \in Nat /\ turns \in Nat /\ what \in {"none", "turn", "legacy", "fee"}
    BY TypeFacts
  <1>2. op' = [op EXCEPT ![r].post = what, ![r].delta = n, ![r].sum = sum, ![r].turns = turns]
    BY DEF StartPost
  <1>3. op \in [Requests -> OpType]
    BY DEF TypeOK
  <1> HIDE DEF sum, turns
  <1>4. [op[r] EXCEPT !.post = what, !.delta = n, !.sum = sum, !.turns = turns] \in OpType
    BY <1>1, <1>3 DEF OpType
  <1>5. op' \in [Requests -> OpType] /\ \A q \in Requests \ {r} : op'[q] = op[q]
    BY <1>2, <1>3, <1>4
  <1> QED BY <1>5 DEF StartPost

\* Starting the charge of a realtime turn.
LEMMA RealtimeTurnKeeps ==
    ASSUME IInv, NEW r \in Requests, NEW n \in Amounts, RealtimeTurn(r, n)
    PROVE  TypeOK' /\ Books(r)' /\ Others(r)
  <1>1. n \in Nat /\ TypeOK
    BY AmountsAssumption DEF IInv
  <1>2. /\ op' \in [Requests -> OpType] /\ \A q \in Requests \ {r} : op'[q] = op[q]
        /\ Goto(r, "postFunding") \/ UNCHANGED pc
    <2>1. CASE StartPost(r, "turn", n)
      BY <1>1, <2>1, StartPostKeeps
    <2>2. CASE op' = [op EXCEPT ![r].sum = @ + n, ![r].turns = @ + 1] /\ UNCHANGED pc
      <3>1. op[r].sum + n \in Nat /\ op[r].turns + 1 \in Nat
        BY <1>1, TypeFacts
      <3> QED BY <1>1, <2>2, <3>1 DEF TypeOK, OpType
    <2> QED BY <2>1, <2>2 DEF RealtimeTurn
  <1>3. OwnRest(r) /\ pc'[r] \in {"postFunding", "open"}
    BY <1>1, <1>2 DEF RealtimeTurn, Goto, Works, BalancesSame, TypeOK, OwnRest, PCs
  <1> QED BY <1>3, QuietKeeps DEF RealtimeTurn

\* Starting the charge of a request without a session.
LEMMA SettleLegacyKeeps ==
    ASSUME IInv, NEW r \in Requests, NEW n \in Amounts, SettleLegacy(r, n)
    PROVE  TypeOK' /\ Books(r)' /\ Others(r)
  <1>1. n \in Nat /\ TypeOK
    BY AmountsAssumption DEF IInv
  <1>2. /\ op' \in [Requests -> OpType] /\ \A q \in Requests \ {r} : op'[q] = op[q]
        /\ Goto(r, "postFunding") \/ Goto(r, "done")
    <2>1. CASE StartPost(r, "legacy", n)
      BY <1>1, <2>1, StartPostKeeps
    <2>2. CASE Goto(r, "done") /\ UNCHANGED op
      BY <1>1, <2>2 DEF TypeOK
    <2> QED BY <2>1, <2>2 DEF SettleLegacy
  <1>3. OwnRest(r) /\ pc'[r] \in {"postFunding", "done"}
    BY <1>1, <1>2 DEF SettleLegacy, Goto, Works, BalancesSame, TypeOK, OwnRest, PCs
  <1> QED BY <1>3, QuietKeeps DEF SettleLegacy

\* Giving up, or leaving the hold to the task row.
LEMMA FailKeeps ==
    ASSUME IInv, NEW r \in Requests, Fail(r) \/ HandOver(r)
    PROVE  TypeOK' /\ Books(r)' /\ Others(r)
  <1>1. OwnRest(r) /\ pc'[r] \in IF pc[r] = "open" THEN {"failing", "handed"} ELSE {"failing"}
    BY DEF IInv, Fail, HandOver, Goto, Works, BalancesSame, TypeOK, OwnRest, PCs
  <1> QED BY <1>1, QuietKeeps DEF Fail, HandOver

\* FallBack forgets the session.
LEMMA FallBackKeeps ==
    ASSUME TypeOK, NEW r \in Requests, FallBack(r)
    PROVE  /\ OwnSession(r) /\ s'[r] = NoSession
           /\ info' \in [Requests -> InfoType] /\ \A q \in Requests \ {r} : info'[q] = info[q]
           /\ \E l \in {"trySub", "tryWallet", "rejected"} : Goto(r, l)
  <1>1. NoSession \in SessionType
    BY DEF NoSession, SessionType, Sources
  <1>2. s' = [s EXCEPT ![r] = NoSession]
    BY DEF FallBack
  <1>3. OwnSession(r) /\ s'[r] = NoSession
    BY <1>1, <1>2 DEF TypeOK, OwnSession
  <1>4. info' = [info EXCEPT ![r].shortfall = FALSE, ![r].fellBack = TRUE]
    BY DEF FallBack
  <1>5. info' \in [Requests -> InfoType] /\ \A q \in Requests \ {r} : info'[q] = info[q]
    BY ZenonT(60), <1>4 DEF TypeOK, InfoType
  <1>6. \E l \in {"trySub", "tryWallet", "rejected"} : Goto(r, l)
    BY DEF FallBack, NextSource
  <1> QED BY <1>3, <1>5, <1>6

\* Reject forgets it too.
LEMMA RejectKeeps ==
    ASSUME TypeOK, NEW r \in Requests, Reject(r)
    PROVE  OwnSession(r) /\ s'[r] = NoSession /\ pc' = [pc EXCEPT ![r] = "rejected"]
  <1>1. NoSession \in SessionType
    BY DEF NoSession, SessionType, Sources
  <1> QED BY <1>1 DEF Reject, Goto, TypeOK, OwnSession

\* A request without a session, from the moment NewBillingSession gives a source up.
LEMMA NoSessionBooks ==
    ASSUME NEW r \in Requests, s'[r] = NoSession,
           pc'[r] \in {"trySub", "tryWallet", "rejected"}, bg'[r] = "none",
           paid'[r].wallet = 0, paid'[r].sub = 0, paid'[r].token \in Nat
    PROVE  Books(r)'
  BY DEF NoSession, Books, Shape, WalletBooks, SubBooks, TokenBooks, Pending, IsWallet, IsSub,
         Playground, NoSource, BeforeHold

\* Opening a wallet session, or falling back from it.
LEMMA TryWalletKeeps ==
    ASSUME IInv, NEW r \in Requests, TryWallet(r)
    PROVE  TypeOK' /\ Books(r)' /\ Others(r)
  <1>1. /\ TypeOK /\ Books(r) /\ pc[r] = "tryWallet" /\ BalancesSame /\ Works
        /\ UNCHANGED <<req, op, bg>>
    BY DEF IInv, TryWallet
  <1>2. Moves(r, 0, 0, 0) /\ rec' = rec
    BY <1>1, NothingMoves
  <1>3. CASE FallBack(r)
    <2>1. /\ OwnSession(r) /\ s'[r] = NoSession
          /\ info' \in [Requests -> InfoType] /\ \A q \in Requests \ {r} : info'[q] = info[q]
          /\ \E l \in {"trySub", "tryWallet", "rejected"} : Goto(r, l)
      BY <1>1, <1>3, FallBackKeeps
    <2>2. /\ OwnRest(r) /\ pc'[r] \in {"trySub", "tryWallet", "rejected"}
      BY <1>1, <1>2, <2>1 DEF Goto, Works, TypeOK, OwnRest, PCs
    <2>3. /\ paid'[r].wallet = 0 /\ paid'[r].sub = 0 /\ paid'[r].token \in Nat
          /\ bg'[r] = "none"
      BY <1>1, <1>2, TypeFacts
         DEF Moves, Books, Shape, TokenBooks, NoSource, BeforeHold
    <2>4. Books(r)'
      BY <2>1, <2>2, <2>3, NoSessionBooks
    <2> QED BY <1>1, <1>2, <2>1, <2>2, <2>4, Assemble
  <1>4. CASE /\ s' = [s EXCEPT ![r].source = "wallet", ![r].trusted = ShouldTrust(r)]
             /\ info' = [info EXCEPT ![r].eff = IF ShouldTrust(r) THEN 0 ELSE info[r].want]
             /\ Goto(r, "preToken")
    <2>1. PICK trust \in BOOLEAN :
            s' = [s EXCEPT ![r].source = "wallet", ![r].trusted = trust]
      BY <1>4, Zenon DEF ShouldTrust
    <2>2. /\ OwnSession(r) /\ s'[r].source = "wallet"
          /\ s'[r].tokenConsumed = s[r].tokenConsumed
          /\ s'[r].pre = s[r].pre /\ s'[r].extra = s[r].extra
          /\ s'[r].held = s[r].held /\ s'[r].fundingSettled = s[r].fundingSettled
      <3>1. s \in [Requests -> SessionType]
        BY <1>1 DEF TypeOK
      <3> QED BY ZenonT(60), <2>1, <3>1 DEF OwnSession, SessionType, Sources
    <2>3. info' \in [Requests -> InfoType] /\ \A q \in Requests \ {r} : info'[q] = info[q]
      BY ZenonT(60), <1>1, <1>4, TypeFacts DEF TypeOK, InfoType
    <2>4. OwnRest(r) /\ pc'[r] = "preToken"
      BY <1>1, <1>2, <1>4, <2>3 DEF Goto, Works, TypeOK, OwnRest, PCs
    <2>5. Books(r)'
      BY <1>1, <1>2, <2>2, <2>4, TypeFacts
         DEF Books, Shape, WalletBooks, SubBooks, TokenBooks, Pending, IsWallet, IsSub,
             Playground, NoSource, BeforeHold, Moves
    <2> QED BY <1>1, <1>2, <2>2, <2>4, <2>5, Assemble
  <1> QED BY <1>3, <1>4 DEF TryWallet

\* Opening a subscription session.
LEMMA TrySubscriptionKeeps ==
    ASSUME IInv, NEW r \in Requests, TrySubscription(r)
    PROVE  TypeOK' /\ Books(r)' /\ Others(r)
  <1>1. /\ TypeOK /\ Books(r) /\ pc[r] = "trySub" /\ BalancesSame /\ Works
        /\ UNCHANGED <<req, op, bg>> /\ Goto(r, "preToken")
    BY DEF IInv, TrySubscription
  <1>2. Moves(r, 0, 0, 0) /\ rec' = rec
    BY <1>1, NothingMoves
  <1>3. /\ OwnSession(r) /\ s'[r].source = "subscription"
        /\ s'[r].tokenConsumed = s[r].tokenConsumed
        /\ s'[r].pre = s[r].pre /\ s'[r].extra = s[r].extra
        /\ s'[r].held = s[r].held /\ s'[r].fundingSettled = s[r].fundingSettled
    BY ZenonT(60), <1>1 DEF TrySubscription, TypeOK, OwnSession, SessionType, Sources
  <1>4. info' \in [Requests -> InfoType] /\ \A q \in Requests \ {r} : info'[q] = info[q]
    BY ZenonT(60), <1>1, TypeFacts DEF TrySubscription, TypeOK, InfoType
  <1>5. OwnRest(r) /\ pc'[r] = "preToken"
    BY <1>1, <1>2, <1>4 DEF Goto, Works, TypeOK, OwnRest, PCs
  <1>6. Books(r)'
    BY <1>1, <1>2, <1>3, <1>5, TypeFacts
       DEF Books, Shape, WalletBooks, SubBooks, TokenBooks, Pending, IsWallet, IsSub,
           Playground, NoSource, BeforeHold, Moves
  <1> QED BY <1>1, <1>2, <1>3, <1>5, <1>6, Assemble

\* Giving the token its part back when the funding source refuses.
LEMMA UndoTokenKeeps ==
    ASSUME IInv, NEW r \in Requests, UndoToken(r)
    PROVE  TypeOK' /\ Books(r)' /\ Others(r)
  <1>1. TypeOK /\ Books(r) /\ pc[r] = "undoToken" /\ UNCHANGED <<req, op, bg>>
    BY DEF IInv, UndoToken
  <1>2. - s[r].tokenConsumed \in Int /\ 0 \in Int
    BY <1>1, TypeFacts
  <1>3. /\ \E dt \in Int : Moves(r, 0, 0, dt) /\ dt \in {0, - s[r].tokenConsumed}
                             /\ (Playground(r) => dt = 0)
        /\ rec' = rec /\ (Works \/ Fails(r, "token"))
    BY <1>1, <1>2, TokenMoves, NothingMoves DEF UndoToken
  <1>8. hit' \in [Requests -> BOOLEAN] /\ rec' = rec
    BY <1>1, <1>3 DEF TypeOK, Works, Fails
  <1>4. PICK dt \in Int : Moves(r, 0, 0, dt) /\ dt \in {0, - s[r].tokenConsumed}
                             /\ (Playground(r) => dt = 0)
    BY <1>3
  <1>5. /\ paid'[r].wallet = 0 /\ paid'[r].sub = 0 /\ paid'[r].token \in Nat
        /\ bg'[r] = "none" /\ bg[r] = "none"
    BY <1>1, <1>4, TypeFacts
       DEF Moves, Books, Shape, TokenBooks, NoSource, BeforeHold
  <1>6. CASE FallBack(r)
    <2>1. /\ OwnSession(r) /\ s'[r] = NoSession
          /\ info' \in [Requests -> InfoType] /\ \A q \in Requests \ {r} : info'[q] = info[q]
          /\ \E l \in {"trySub", "tryWallet", "rejected"} : Goto(r, l)
      BY <1>1, <1>6, FallBackKeeps
    <2>2. /\ OwnRest(r) /\ pc'[r] \in {"trySub", "tryWallet", "rejected"}
      BY <1>1, <1>8, <2>1 DEF Goto, TypeOK, OwnRest, PCs
    <2>3. Books(r)'
      BY <1>5, <2>1, <2>2, NoSessionBooks
    <2> QED BY <1>1, <1>4, <2>1, <2>2, <2>3, Assemble
  <1>7. CASE Reject(r) /\ UNCHANGED info
    <2>1. OwnSession(r) /\ s'[r] = NoSession /\ pc' = [pc EXCEPT ![r] = "rejected"]
      BY <1>1, <1>7, RejectKeeps
    <2>2. OwnRest(r) /\ pc'[r] = "rejected"
      BY <1>1, <1>8, <1>7, <2>1 DEF TypeOK, OwnRest, PCs
    <2>3. Books(r)'
      BY <1>5, <2>1, <2>2, NoSessionBooks
    <2> QED BY <1>1, <1>4, <2>1, <2>2, <2>3, Assemble
  <1> QED BY <1>6, <1>7 DEF UndoToken

\* Holding the token's part of the estimate.
LEMMA PreConsumeTokenKeeps ==
    ASSUME IInv, NEW r \in Requests, PreConsumeToken(r)
    PROVE  TypeOK' /\ Books(r)' /\ Others(r)
  <1>1. TypeOK /\ Books(r) /\ pc[r] = "preToken" /\ UNCHANGED <<req, info, op, bg>>
    BY DEF IInv, PreConsumeToken
  <1>2. info[r].eff \in Nat
    BY <1>1, TypeFacts
  <1>3. CASE /\ s' = [s EXCEPT ![r].tokenConsumed = info[r].eff]
             /\ Goto(r, "preFunding") /\ Works
             /\ \/ (info[r].eff = 0 \/ Playground(r)) /\ BalancesSame
                \/ ~ Playground(r) /\ TokenTake(r, info[r].eff)
    <2>1. /\ Moves(r, 0, 0, IF Playground(r) THEN 0 ELSE info[r].eff)
          /\ rec' = rec
      BY <1>1, <1>2, <1>3, NothingMoves, TokenMoves
    <2>2. /\ OwnSession(r) /\ s'[r].tokenConsumed = info[r].eff
          /\ s'[r].source = s[r].source /\ s'[r].pre = s[r].pre /\ s'[r].extra = s[r].extra
          /\ s'[r].held = s[r].held /\ s'[r].fundingSettled = s[r].fundingSettled
      BY SMTT(30), <1>1, <1>2, <1>3 DEF TypeOK, OwnSession, SessionType
    <2>3. /\ OwnRest(r) /\ pc'[r] = "preFunding" 
          /\ info'[r] = info[r] /\ bg'[r] = bg[r] /\ op'[r] = op[r]
      BY <1>1, <1>3, <2>1 DEF Goto, Works, TypeOK, OwnRest, PCs
    <2>4. Books(r)'
      BY <1>1, <2>1, <2>2, <2>3, TypeFacts
         DEF Books, Shape, WalletBooks, SubBooks, TokenBooks, Pending, IsWallet, IsSub,
             Playground, NoSource, BeforeHold, Moves, OwnRest
    <2> QED BY <1>1, <2>1, <2>2, <2>3, <2>4, Assemble
  <1>4. CASE Reject(r) /\ BalancesSame /\ (Works \/ Fails(r, "token"))
    <2>1. Moves(r, 0, 0, 0) /\ rec' = rec
      BY <1>1, <1>4, NothingMoves
    <2>2. OwnSession(r) /\ s'[r] = NoSession /\ pc' = [pc EXCEPT ![r] = "rejected"]
      BY <1>1, <1>4, RejectKeeps
    <2>3. OwnRest(r) /\ pc'[r] = "rejected"
      BY <1>1, <1>4, <2>1, <2>2 DEF Works, Fails, TypeOK, OwnRest, PCs
    <2>4. /\ paid'[r].wallet = 0 /\ paid'[r].sub = 0 /\ paid'[r].token \in Nat
          /\ bg'[r] = "none"
      BY <1>1, <2>1, TypeFacts
         DEF Moves, Books, Shape, TokenBooks, NoSource, BeforeHold
    <2>5. Books(r)'
      BY <2>2, <2>3, <2>4, NoSessionBooks
    <2> QED BY <1>1, <2>1, <2>2, <2>3, <2>5, Assemble
  <1> QED BY <1>3, <1>4 DEF PreConsumeToken

\* Holding the wallet's part of the estimate.
LEMMA PreConsumeWalletKeeps ==
    ASSUME IInv, NEW r \in Requests, PreConsumeWallet(r)
    PROVE  TypeOK' /\ Books(r)' /\ Others(r)
  <1>1. TypeOK /\ Books(r) /\ pc[r] = "preFunding" /\ IsWallet(r) /\ UNCHANGED <<req, op, bg>>
    BY DEF IInv, PreConsumeWallet
  <1>2. info[r].eff \in Int /\ info[r].eff \in Nat
    BY <1>1, TypeFacts
  <1>3. CASE /\ WalletTake(r, info[r].eff)
             /\ s' = [s EXCEPT ![r].held = info[r].eff, ![r].pre = info[r].eff]
             /\ Goto(r, "open") /\ Works /\ UNCHANGED info
    <2>1. Moves(r, info[r].eff, 0, 0) /\ rec' = rec
      BY <1>1, <1>2, <1>3, WalletMoves
    <2>2. /\ OwnSession(r) /\ s'[r].held = info[r].eff /\ s'[r].pre = info[r].eff
          /\ s'[r].source = s[r].source /\ s'[r].extra = s[r].extra
          /\ s'[r].tokenConsumed = s[r].tokenConsumed
          /\ s'[r].fundingSettled = s[r].fundingSettled
      <3>1. /\ s \in [Requests -> SessionType]
            /\ s' = [s EXCEPT ![r].held = info[r].eff, ![r].pre = info[r].eff]
        BY <1>1, <1>3 DEF TypeOK
      <3> QED BY <1>2, <3>1 DEF OwnSession, SessionType
    <2>3. OwnRest(r) /\ pc'[r] = "open"
      BY <1>1, <1>3, <2>1 DEF Goto, Works, TypeOK, OwnRest, PCs
    <2>4. Books(r)'
      BY <1>1, <1>2, <2>1, <2>2, <2>3, TypeFacts
         DEF Books, Shape, WalletBooks, SubBooks, TokenBooks, Pending, IsWallet, IsSub,
             Playground, NoSource, BeforeHold, Moves
    <2> QED BY <1>1, <2>1, <2>2, <2>3, <2>4, Assemble
  <1>4. CASE /\ Goto(r, "undoToken") /\ BalancesSame /\ UNCHANGED s
             /\ Works \/ Fails(r, "wallet")
             /\ UNCHANGED info \/ info' = [info EXCEPT ![r].shortfall = TRUE]
    <2>1. Moves(r, 0, 0, 0) /\ rec' = rec /\ OwnSession(r) /\ SameSession(r)
      BY <1>1, <1>4, NothingMoves, SessionKept
    <2>2. info' \in [Requests -> InfoType] /\ \A q \in Requests \ {r} : info'[q] = info[q]
      <3>1. info \in [Requests -> InfoType]
        BY <1>1 DEF TypeOK
      <3>2. CASE UNCHANGED info
        BY <3>1, <3>2
      <3>3. CASE info' = [info EXCEPT ![r].shortfall = TRUE]
        BY <3>1, <3>3 DEF InfoType
      <3> QED BY <1>4, <3>2, <3>3
    <2>3. OwnRest(r) /\ pc'[r] = "undoToken"
      BY <1>1, <1>4, <2>1, <2>2 DEF Goto, Works, Fails, TypeOK, OwnRest, PCs
    <2>4. Books(r)'
      BY <1>1, <2>1, <2>3, TypeFacts
         DEF Books, Shape, WalletBooks, SubBooks, TokenBooks, Pending, IsWallet, IsSub,
             Playground, NoSource, BeforeHold, Moves, SameSession
    <2> QED BY <1>1, <2>1, <2>3, <2>4, Assemble
  <1> QED BY <1>3, <1>4 DEF PreConsumeWallet

\* Holding the subscription's part of the estimate.
LEMMA PreConsumeSubscriptionKeeps ==
    ASSUME IInv, NEW r \in Requests, PreConsumeSubscription(r)
    PROVE  TypeOK' /\ Books(r)' /\ Others(r)
  <1>1. TypeOK /\ Books(r) /\ pc[r] = "preFunding" /\ IsSub(r) /\ UNCHANGED <<req, op, bg>>
    BY DEF IInv, PreConsumeSubscription
  <1>2. info[r].eff \in Int /\ info[r].eff \in Nat
    BY <1>1, TypeFacts
  <1>3. CASE /\ SubTake(r, info[r].eff)
             /\ rec' = [rec EXCEPT ![r] = "consumed"]
             /\ s' = [s EXCEPT ![r].held = info[r].eff, ![r].pre = info[r].eff]
             /\ Goto(r, "open") /\ Works /\ UNCHANGED info
    <2>0. NewUsed(info[r].eff) - subUsed = info[r].eff
      BY <1>1, <1>2, <1>3, SubMoves
    <2>1. Moves(r, 0, info[r].eff, 0)
      BY <1>1, <1>2, <1>3, <2>0, SubMoves
    <2>2. /\ OwnSession(r) /\ s'[r].held = info[r].eff /\ s'[r].pre = info[r].eff
          /\ s'[r].source = s[r].source /\ s'[r].extra = s[r].extra
          /\ s'[r].tokenConsumed = s[r].tokenConsumed
          /\ s'[r].fundingSettled = s[r].fundingSettled
      <3>1. /\ s \in [Requests -> SessionType]
            /\ s' = [s EXCEPT ![r].held = info[r].eff, ![r].pre = info[r].eff]
        BY <1>1, <1>3 DEF TypeOK
      <3> QED BY <1>2, <3>1 DEF OwnSession, SessionType
    <2>3. OwnRest(r) /\ pc'[r] = "open"
      BY <1>1, <1>3 DEF Goto, Works, TypeOK, OwnRest, PCs
    <2>4. Books(r)'
      BY <1>1, <1>2, <2>1, <2>2, <2>3, TypeFacts
         DEF Books, Shape, WalletBooks, SubBooks, TokenBooks, Pending, IsWallet, IsSub,
             Playground, NoSource, BeforeHold, Moves
    <2> QED BY <1>1, <2>1, <2>2, <2>3, <2>4, Assemble
  <1>4. CASE /\ Goto(r, "undoToken") /\ BalancesSame /\ UNCHANGED s
             /\ Works \/ Fails(r, "sub")
             /\ UNCHANGED info \/ info' = [info EXCEPT ![r].shortfall = TRUE]
    <2>1. Moves(r, 0, 0, 0) /\ rec' = rec /\ OwnSession(r) /\ SameSession(r)
      BY <1>1, <1>4, NothingMoves, SessionKept
    <2>2. info' \in [Requests -> InfoType] /\ \A q \in Requests \ {r} : info'[q] = info[q]
      <3>1. info \in [Requests -> InfoType]
        BY <1>1 DEF TypeOK
      <3>2. CASE UNCHANGED info
        BY <3>1, <3>2
      <3>3. CASE info' = [info EXCEPT ![r].shortfall = TRUE]
        BY <3>1, <3>3 DEF InfoType
      <3> QED BY <1>4, <3>2, <3>3
    <2>3. OwnRest(r) /\ pc'[r] = "undoToken"
      BY <1>1, <1>4, <2>1, <2>2 DEF Goto, Works, Fails, TypeOK, OwnRest, PCs
    <2>4. Books(r)'
      BY <1>1, <2>1, <2>3, TypeFacts
         DEF Books, Shape, WalletBooks, SubBooks, TokenBooks, Pending, IsWallet, IsSub,
             Playground, NoSource, BeforeHold, Moves, SameSession
    <2> QED BY <1>1, <2>1, <2>3, <2>4, Assemble
  <1> QED BY <1>3, <1>4 DEF PreConsumeSubscription

\* Raising the hold on the funding source.
LEMMA ReserveKeeps ==
    ASSUME IInv, NEW r \in Requests, NEW target \in Amounts, Reserve(r, target)
    PROVE  TypeOK' /\ Books(r)' /\ Others(r)
  <1> DEFINE d == target - s[r].pre
  <1>1. TypeOK /\ Books(r) /\ pc[r] = "open" /\ UNCHANGED <<req, info, bg>>
    BY DEF IInv, Reserve
  <1>2. d \in Nat /\ d \in Int
    BY <1>1, AmountsAssumption, TypeFacts DEF Reserve
  <1>3. \/ /\ IsWallet(r) /\ WalletTake(r, d)
           /\ s' = [s EXCEPT ![r].held = @ + d] /\ op' = [op EXCEPT ![r].delta = d]
           /\ Goto(r, "reserveToken") /\ Works
        \/ /\ IsSub(r) /\ SubTake(r, d) /\ UNCHANGED rec
           /\ op' = [op EXCEPT ![r].delta = d] /\ UNCHANGED s
           /\ Goto(r, "reserveToken") /\ Works
        \/ /\ Goto(r, "failing") /\ BalancesSame /\ UNCHANGED <<s, op>>
           /\ Works \/ \E p \in AllFaults : Fails(r, p)
    BY DEF Reserve, AllFaults
  <1> HIDE DEF d
  <1>4. ASSUME op' = [op EXCEPT ![r].delta = d], Goto(r, "reserveToken"), Works, rec' = rec
        PROVE  OwnRest(r) /\ pc'[r] = "reserveToken" /\ op'[r].delta = d /\ op'[r].post = op[r].post
    <2>1. op \in [Requests -> OpType]
      BY <1>1 DEF TypeOK
    <2>2. /\ op' \in [Requests -> OpType] /\ op'[r].delta = d /\ op'[r].post = op[r].post
          /\ \A q \in Requests \ {r} : op'[q] = op[q]
      BY <1>2, <1>4, <2>1 DEF OpType
    <2> QED BY <1>1, <1>4, <2>2 DEF Goto, Works, TypeOK, OwnRest, PCs
  <1>5. CASE /\ IsWallet(r) /\ WalletTake(r, d)
             /\ s' = [s EXCEPT ![r].held = @ + d] /\ op' = [op EXCEPT ![r].delta = d]
             /\ Goto(r, "reserveToken") /\ Works
    <2>1. Moves(r, d, 0, 0) /\ rec' = rec
      BY <1>1, <1>2, <1>5, WalletMoves
    <2>2. /\ OwnSession(r) /\ s'[r].held = s[r].held + d
          /\ s'[r].source = s[r].source /\ s'[r].pre = s[r].pre /\ s'[r].extra = s[r].extra
          /\ s'[r].tokenConsumed = s[r].tokenConsumed
          /\ s'[r].fundingSettled = s[r].fundingSettled
      <3>1. s \in [Requests -> SessionType] /\ s[r].held + d \in Nat
        BY <1>1, <1>2, TypeFacts DEF TypeOK
      <3> QED BY <1>5, <3>1 DEF OwnSession, SessionType
    <2>3. OwnRest(r) /\ pc'[r] = "reserveToken" /\ op'[r].delta = d
      BY <1>4, <1>5, <2>1
    <2>4. Books(r)'
      BY <1>1, <1>2, <1>5, <2>1, <2>2, <2>3, TypeFacts
         DEF Books, Shape, WalletBooks, SubBooks, TokenBooks, Pending, IsWallet, IsSub,
             Playground, NoSource, BeforeHold, Moves
    <2> QED BY <1>1, <2>1, <2>2, <2>3, <2>4, Assemble
  <1>6. CASE /\ IsSub(r) /\ SubTake(r, d) /\ UNCHANGED rec
             /\ op' = [op EXCEPT ![r].delta = d] /\ UNCHANGED s
             /\ Goto(r, "reserveToken") /\ Works
    <2>1. NewUsed(d) - subUsed = d
      BY <1>1, <1>2, <1>6, SubMoves
    <2>2. Moves(r, 0, d, 0) /\ OwnSession(r) /\ SameSession(r)
      BY <1>1, <1>2, <1>6, <2>1, SubMoves, SessionKept
    <2>3. OwnRest(r) /\ pc'[r] = "reserveToken" /\ op'[r].delta = d
      BY <1>4, <1>6
    <2>4. Shape(r)' /\ WalletBooks(r)' /\ TokenBooks(r)'
      BY <1>1, <1>2, <1>6, <2>2, <2>3, TypeFacts
         DEF Books, Shape, WalletBooks, TokenBooks, Pending, IsWallet, IsSub, Playground,
             NoSource, BeforeHold, Moves, SameSession
    <2>5. SubBooks(r)'
      BY <1>1, <1>2, <1>6, <2>2, <2>3, TypeFacts
         DEF Books, Shape, SubBooks, Pending, IsSub, Moves, SameSession
    <2> QED BY <1>1, <2>2, <2>3, <2>4, <2>5, Assemble DEF Books
  <1>7. CASE /\ Goto(r, "failing") /\ BalancesSame /\ UNCHANGED <<s, op>>
             /\ Works \/ \E p \in AllFaults : Fails(r, p)
    <2>1. Moves(r, 0, 0, 0) /\ rec' = rec /\ hit' \in [Requests -> BOOLEAN]
      BY <1>1, <1>7, NothingMoves, HitTyped
    <2>2. OwnRest(r) /\ pc'[r] = "failing"
      BY <1>1, <1>7, <2>1 DEF Goto, TypeOK, OwnRest, PCs
    <2> QED BY <1>1, <1>7, <2>2, QuietKeeps
  <1> QED BY <1>3, <1>5, <1>6, <1>7

\* Raising the hold on the token.
LEMMA ReserveTokenKeeps ==
    ASSUME IInv, NEW r \in Requests, ReserveToken(r)
    PROVE  TypeOK' /\ Books(r)' /\ Others(r)
  <1>1. TypeOK /\ Books(r) /\ pc[r] = "reserveToken" /\ UNCHANGED <<req, info, op, bg>>
    BY DEF IInv, ReserveToken
  <1>2. op[r].delta \in Nat /\ op[r].delta \in Int
    BY <1>1, TypeFacts
  <1>3. CASE /\ Reserved(r) /\ Goto(r, "open") /\ Works
             /\ \/ Playground(r) /\ BalancesSame
                \/ ~ Playground(r) /\ TokenTake(r, op[r].delta)
    <2>1. /\ Moves(r, 0, 0, IF Playground(r) THEN 0 ELSE op[r].delta)
          /\ rec' = rec
      BY <1>1, <1>2, <1>3, NothingMoves, TokenMoves
    <2>2. /\ OwnSession(r) /\ s'[r].pre = s[r].pre + op[r].delta
          /\ s'[r].tokenConsumed = s[r].tokenConsumed + op[r].delta
          /\ s'[r].extra = s[r].extra + op[r].delta
          /\ s'[r].held = s[r].held /\ s'[r].source = s[r].source
          /\ s'[r].fundingSettled = s[r].fundingSettled
      <3>1. /\ s \in [Requests -> SessionType] /\ s[r].pre + op[r].delta \in Nat
            /\ s[r].extra + op[r].delta \in Nat /\ s[r].tokenConsumed + op[r].delta \in Nat
        BY <1>1, <1>2, TypeFacts DEF TypeOK
      <3>2. Reserved(r)
        BY <1>3
      <3> QED BY ZenonT(60), <3>1, <3>2 DEF OwnSession, SessionType, Reserved
    <2>3. OwnRest(r) /\ pc'[r] = "open"
      BY <1>1, <1>3, <2>1 DEF Goto, Works, TypeOK, OwnRest, PCs
    <2>4. Books(r)'
      BY <1>1, <1>2, <2>1, <2>2, <2>3, TypeFacts
         DEF Books, Shape, WalletBooks, SubBooks, TokenBooks, Pending, IsWallet, IsSub,
             Playground, NoSource, BeforeHold, Moves
    <2> QED BY <1>1, <2>1, <2>2, <2>3, <2>4, Assemble
  <1>4. CASE /\ Goto(r, "undoReserve") /\ BalancesSame /\ UNCHANGED s
             /\ Works \/ Fails(r, "token")
    <2>1. Moves(r, 0, 0, 0) /\ rec' = rec /\ OwnSession(r) /\ SameSession(r)
      BY <1>1, <1>4, NothingMoves, SessionKept
    <2>2. OwnRest(r) /\ pc'[r] = "undoReserve"
      BY <1>1, <1>4, <2>1 DEF Goto, Works, Fails, TypeOK, OwnRest, PCs
    <2>3. Books(r)'
      BY <1>1, <2>1, <2>2, TypeFacts
         DEF Books, Shape, WalletBooks, SubBooks, TokenBooks, Pending, IsWallet, IsSub,
             Playground, NoSource, BeforeHold, Moves, SameSession
    <2> QED BY <1>1, <2>1, <2>2, <2>3, Assemble
  <1> QED BY <1>3, <1>4 DEF ReserveToken

\* Taking a raised hold back when the token refuses.
LEMMA UndoReserveKeeps ==
    ASSUME IInv, NEW r \in Requests, UndoReserve(r)
    PROVE  TypeOK' /\ Books(r)' /\ Others(r)
  <1>1. /\ TypeOK /\ Books(r) /\ pc[r] = "undoReserve" /\ UNCHANGED <<req, info, op, bg>>
        /\ Goto(r, "failing")
    BY DEF IInv, UndoReserve
  <1>2. - op[r].delta \in Int /\ op[r].delta \in Nat
    BY <1>1, TypeFacts
  <1>3. CASE /\ IsWallet(r) /\ WalletTake(r, - op[r].delta)
             /\ s' = [s EXCEPT ![r].held = @ - op[r].delta] /\ Works
    <2>1. Moves(r, - op[r].delta, 0, 0) /\ rec' = rec
      BY <1>1, <1>2, <1>3, WalletMoves
    <2>2. /\ OwnSession(r) /\ s'[r].held = s[r].held - op[r].delta
          /\ s'[r].source = s[r].source /\ s'[r].pre = s[r].pre /\ s'[r].extra = s[r].extra
          /\ s'[r].tokenConsumed = s[r].tokenConsumed
          /\ s'[r].fundingSettled = s[r].fundingSettled
      <3>1. s \in [Requests -> SessionType] /\ s[r].held - op[r].delta \in Nat
        BY <1>1, <1>2, <1>3, TypeFacts DEF TypeOK, Books, WalletBooks, Pending
      <3> QED BY <1>3, <3>1 DEF OwnSession, SessionType
    <2>3. OwnRest(r) /\ pc'[r] = "failing"
      BY <1>1, <1>3, <2>1 DEF Goto, Works, TypeOK, OwnRest, PCs
    <2>4. Books(r)'
      BY <1>1, <1>2, <1>3, <2>1, <2>2, <2>3, TypeFacts
         DEF Books, Shape, WalletBooks, SubBooks, TokenBooks, Pending, IsWallet, IsSub,
             Playground, NoSource, BeforeHold, Moves
    <2> QED BY <1>1, <2>1, <2>2, <2>3, <2>4, Assemble
  <1>4. CASE IsSub(r) /\ SubTake(r, - op[r].delta) /\ Works /\ UNCHANGED <<rec, s>>
    <2>1. PICK ds \in Int : ds >= - op[r].delta /\ Moves(r, 0, ds, 0)
      BY <1>1, <1>2, <1>4, SubMoves
    <2>2. OwnSession(r) /\ SameSession(r)
      BY <1>1, <1>4, SessionKept
    <2>3. OwnRest(r) /\ pc'[r] = "failing"
      BY <1>1, <1>4 DEF Goto, Works, TypeOK, OwnRest, PCs
    <2>4. Books(r)'
      BY <1>1, <1>2, <1>4, <2>1, <2>2, <2>3, TypeFacts
         DEF Books, Shape, WalletBooks, SubBooks, TokenBooks, Pending, IsWallet, IsSub,
             Playground, NoSource, BeforeHold, Moves, SameSession
    <2> QED BY <1>1, <2>1, <2>2, <2>3, <2>4, Assemble
  <1>5. CASE (\E p \in AllFaults : Fails(r, p)) /\ BalancesSame /\ UNCHANGED s
    <2>1. /\ Moves(r, 0, 0, 0) /\ rec' = rec /\ OwnSession(r) /\ SameSession(r)
          /\ hit' \in [Requests -> BOOLEAN]
      BY <1>1, <1>5, NothingMoves, SessionKept, HitTyped
    <2>2. OwnRest(r) /\ pc'[r] = "failing"
      BY <1>1, <1>5, <2>1 DEF Goto, TypeOK, OwnRest, PCs
    <2>3. Books(r)'
      BY SMTT(30), <1>1, <1>2, <2>1, <2>2, TypeFacts
         DEF Books, Shape, WalletBooks, SubBooks, TokenBooks, Pending, IsWallet, IsSub,
             Playground, NoSource, BeforeHold, Moves, SameSession
    <2> QED BY <1>1, <2>1, <2>2, <2>3, Assemble
  <1> QED BY <1>3, <1>4, <1>5 DEF UndoReserve, AllFaults

\* Settling the funding source: at most the pre-consumed amount goes back.
LEMMA SettleFundingKeeps ==
    ASSUME IInv, NEW r \in Requests, SettleFunding(r)
    PROVE  TypeOK' /\ Books(r)' /\ Others(r)
  <1> DEFINE d == op[r].actual - s[r].pre
  <1>1. TypeOK /\ Books(r) /\ pc[r] = "settle" /\ UNCHANGED <<req, info, op, bg>>
    BY DEF IInv, SettleFunding
  <1>2. d \in Int /\ d >= - s[r].pre
    BY <1>1, TypeFacts
  <1>3. \/ /\ s' = [s EXCEPT ![r].settled = TRUE]
           /\ Goto(r, "done") /\ Works /\ BalancesSame
        \/ /\ (IsWallet(r) /\ WalletTake(r, d)) \/ (IsSub(r) /\ SubTake(r, d) /\ UNCHANGED rec)
           /\ s' = [s EXCEPT ![r].fundingSettled = TRUE]
           /\ Goto(r, "settleToken") /\ Works
        \/ /\ Goto(r, "done") /\ BalancesSame /\ UNCHANGED s
           /\ Works \/ \E p \in AllFaults : Fails(r, p)
    BY DEF SettleFunding, AllFaults
  <1> HIDE DEF d
  <1>4. CASE /\ s' = [s EXCEPT ![r].settled = TRUE]
             /\ Goto(r, "done") /\ Works /\ BalancesSame
    <2>1. Moves(r, 0, 0, 0) /\ rec' = rec
      BY <1>1, <1>4, NothingMoves
    <2>2. OwnSession(r) /\ SameSession(r)
      BY ZenonT(60), <1>1, <1>4 DEF TypeOK, OwnSession, SameSession, SessionType
    <2>3. OwnRest(r) /\ pc'[r] = "done"
      BY <1>1, <1>4, <2>1 DEF Goto, Works, TypeOK, OwnRest, PCs
    <2>4. Books(r)'
      BY <1>1, <2>1, <2>2, <2>3, TypeFacts
         DEF Books, Shape, WalletBooks, SubBooks, TokenBooks, Pending, IsWallet, IsSub,
             Playground, NoSource, BeforeHold, Moves, SameSession
    <2> QED BY <1>1, <2>1, <2>2, <2>3, <2>4, Assemble
  <1>5. CASE /\ (IsWallet(r) /\ WalletTake(r, d)) \/ (IsSub(r) /\ SubTake(r, d) /\ UNCHANGED rec)
             /\ s' = [s EXCEPT ![r].fundingSettled = TRUE]
             /\ Goto(r, "settleToken") /\ Works
    <2>1. PICK dw \in Int, ds \in Int :
             /\ Moves(r, dw, ds, 0) /\ rec' = rec
             /\ IsWallet(r) => dw = d /\ ds = 0
             /\ IsSub(r) => dw = 0 /\ ds >= d
             /\ IsWallet(r) \/ IsSub(r)
      <3>1. CASE IsWallet(r) /\ WalletTake(r, d)
        BY <1>1, <1>2, <3>1, WalletMoves DEF IsWallet, IsSub
      <3>2. CASE IsSub(r) /\ SubTake(r, d) /\ UNCHANGED rec
        <4>1. PICK ds \in Int : ds >= d /\ Moves(r, 0, ds, 0)
          BY <1>1, <1>2, <3>2, SubMoves
        <4> QED BY <3>2, <4>1 DEF IsWallet, IsSub
      <3> QED BY <1>5, <3>1, <3>2
    <2>2. /\ OwnSession(r) /\ s'[r].source = s[r].source /\ s'[r].pre = s[r].pre
          /\ s'[r].extra = s[r].extra /\ s'[r].held = s[r].held
          /\ s'[r].tokenConsumed = s[r].tokenConsumed /\ s'[r].fundingSettled = TRUE
      <3>1. s \in [Requests -> SessionType] /\ s' = [s EXCEPT ![r].fundingSettled = TRUE]
        BY <1>1, <1>5 DEF TypeOK
      <3> QED BY <3>1 DEF OwnSession, SessionType
    <2>3. OwnRest(r) /\ pc'[r] = "settleToken"
      BY <1>1, <1>5, <2>1 DEF Goto, Works, TypeOK, OwnRest, PCs
    <2>4. Books(r)'
      BY SMTT(30), <1>1, <1>2, <2>1, <2>2, <2>3, TypeFacts
         DEF Books, Shape, WalletBooks, SubBooks, TokenBooks, Pending, IsWallet, IsSub,
             Playground, NoSource, BeforeHold, Moves
    <2> QED BY <1>1, <2>1, <2>2, <2>3, <2>4, Assemble
  <1>6. CASE /\ Goto(r, "done") /\ BalancesSame /\ UNCHANGED s
             /\ Works \/ \E p \in AllFaults : Fails(r, p)
    <2>1. /\ Moves(r, 0, 0, 0) /\ rec' = rec /\ OwnSession(r) /\ SameSession(r)
          /\ hit' \in [Requests -> BOOLEAN]
      BY <1>1, <1>6, NothingMoves, SessionKept, HitTyped
    <2>2. OwnRest(r) /\ pc'[r] = "done"
      BY <1>1, <1>6, <2>1 DEF Goto, TypeOK, OwnRest, PCs
    <2>3. Books(r)'
      BY <1>1, <2>1, <2>2, TypeFacts
         DEF Books, Shape, WalletBooks, SubBooks, TokenBooks, Pending, IsWallet, IsSub,
             Playground, NoSource, BeforeHold, Moves, SameSession
    <2> QED BY <1>1, <2>1, <2>2, <2>3, Assemble
  <1> QED BY <1>3, <1>4, <1>5, <1>6

\* Settling the token: at most the pre-consumed amount goes back.
LEMMA SettleTokenKeeps ==
    ASSUME IInv, NEW r \in Requests, SettleToken(r)
    PROVE  TypeOK' /\ Books(r)' /\ Others(r)
  <1> DEFINE d == op[r].actual - s[r].pre
  <1>1. /\ TypeOK /\ Books(r) /\ pc[r] = "settleToken" /\ UNCHANGED <<req, info, op, bg>>
        /\ s' = [s EXCEPT ![r].settled = TRUE] /\ Goto(r, "done")
    BY DEF IInv, SettleToken
  <1>2. d \in Int /\ d >= - s[r].pre
    BY <1>1, TypeFacts
  <1>3. \/ BalancesSame /\ (Works \/ \E p \in AllFaults : Fails(r, p))
        \/ ~ Playground(r) /\ TokenTake(r, d) /\ Works
    BY DEF SettleToken, AllFaults
  <1> HIDE DEF d
  <1>4. PICK dt \in Int : Moves(r, 0, 0, dt) /\ (dt = 0 \/ (~ Playground(r) /\ dt = d))
    BY <1>1, <1>2, <1>3, NothingMoves, TokenMoves
  <1>5. rec' = rec /\ hit' \in [Requests -> BOOLEAN]
    BY <1>1, <1>2, <1>3, NothingMoves, TokenMoves, HitTyped
  <1>6. OwnSession(r) /\ SameSession(r)
    BY ZenonT(60), <1>1 DEF TypeOK, OwnSession, SameSession, SessionType
  <1>7. OwnRest(r) /\ pc'[r] = "done"
    BY <1>1, <1>5 DEF Goto, TypeOK, OwnRest, PCs
  <1>8. Books(r)'
    BY <1>1, <1>2, <1>4, <1>6, <1>7, TypeFacts
       DEF Books, Shape, WalletBooks, SubBooks, TokenBooks, Pending, IsWallet, IsSub,
           Playground, NoSource, BeforeHold, Moves, SameSession
  <1> QED BY <1>1, <1>4, <1>6, <1>7, <1>8, Assemble

\* Where a PostConsumeQuota charge returns to.
LEMMA AfterPostType ==
    ASSUME NEW r \in Requests
    PROVE  /\ AfterPost(r) \in {"open", "done", "failed"}
           /\ op[r].post = "fee" => AfterPost(r) = "failed"
  BY DEF AfterPost

\* PostConsumeQuota on the funding source.
LEMMA PostFundingKeeps ==
    ASSUME IInv, NEW r \in Requests, PostFunding(r)
    PROVE  TypeOK' /\ Books(r)' /\ Others(r)
  <1>1. TypeOK /\ Books(r) /\ pc[r] = "postFunding" /\ UNCHANGED <<req, info, s, bg>>
    BY DEF IInv, PostFunding
  <1>2. op[r].delta \in Nat /\ op[r].delta \in Int
    BY <1>1, TypeFacts
  <1>3. OwnSession(r) /\ SameSession(r)
    BY <1>1, SessionKept
  <1>4. CASE /\ \/ ~ IsSub(r) /\ WalletTake(r, op[r].delta)
                \/ IsSub(r) /\ SubTake(r, op[r].delta) /\ UNCHANGED rec
             /\ op' = [op EXCEPT ![r].posted = @ + op[r].delta]
             /\ Goto(r, "postToken") /\ Works
    <2>1. PICK dw \in Int, ds \in Int :
             /\ Moves(r, dw, ds, 0) /\ rec' = rec
             /\ ~ IsSub(r) => dw = op[r].delta /\ ds = 0
             /\ IsSub(r) => dw = 0 /\ ds >= op[r].delta
      <3>1. CASE ~ IsSub(r) /\ WalletTake(r, op[r].delta)
        BY <1>1, <1>2, <3>1, WalletMoves
      <3>2. CASE IsSub(r) /\ SubTake(r, op[r].delta) /\ UNCHANGED rec
        <4>1. PICK ds \in Int : ds >= op[r].delta /\ Moves(r, 0, ds, 0)
          BY <1>1, <1>2, <3>2, SubMoves
        <4> QED BY <3>2, <4>1
      <3> QED BY <1>4, <3>1, <3>2
    <2>2. /\ op' \in [Requests -> OpType] /\ op'[r].post = op[r].post
          /\ \A q \in Requests \ {r} : op'[q] = op[q]
      <3>1. /\ op \in [Requests -> OpType] /\ op[r].posted + op[r].delta \in Nat
            /\ op' = [op EXCEPT ![r].posted = @ + op[r].delta]
        BY <1>1, <1>2, <1>4, TypeFacts DEF TypeOK
      <3> QED BY <3>1 DEF OpType
    <2>3. OwnRest(r) /\ pc'[r] = "postToken"
      BY <1>1, <1>4, <2>1, <2>2 DEF Goto, Works, TypeOK, OwnRest, PCs
    <2>4. Books(r)'
      <3>1. Shape(r)' /\ WalletBooks(r)'
        BY <1>1, <1>2, <1>3, <2>1, <2>2, <2>3, TypeFacts
           DEF Books, Shape, WalletBooks, Pending, IsWallet, IsSub, NoSource, BeforeHold,
               Moves, SameSession
      <3>2. SubBooks(r)' /\ TokenBooks(r)'
        BY <1>1, <1>2, <1>3, <2>1, <2>2, <2>3, TypeFacts
           DEF Books, Shape, SubBooks, TokenBooks, Pending, IsSub, Playground, Moves,
               SameSession
      <3> QED BY <3>1, <3>2 DEF Books
    <2> QED BY <1>1, <1>3, <2>1, <2>3, <2>4, Assemble
  <1>5. CASE /\ Goto(r, AfterPost(r)) /\ BalancesSame /\ UNCHANGED op
             /\ Works \/ \E p \in AllFaults : Fails(r, p)
    <2>1. Moves(r, 0, 0, 0) /\ rec' = rec /\ hit' \in [Requests -> BOOLEAN]
      BY <1>1, <1>5, NothingMoves, HitTyped
    <2>2. OwnRest(r) /\ pc'[r] = AfterPost(r) /\ op'[r] = op[r] /\ bg'[r] = bg[r]
      BY <1>1, <1>5, <2>1, AfterPostType DEF Goto, TypeOK, OwnRest, PCs
    <2>3. Books(r)'
      BY <1>1, <1>3, <2>1, <2>2, AfterPostType, TypeFacts
         DEF Books, Shape, WalletBooks, SubBooks, TokenBooks, Pending, IsWallet, IsSub,
             Playground, NoSource, BeforeHold, Moves, SameSession
    <2> QED BY <1>1, <1>3, <2>1, <2>2, <2>3, Assemble
  <1> QED BY <1>4, <1>5 DEF PostFunding, AllFaults

\* PostConsumeQuota on the token.
LEMMA PostTokenKeeps ==
    ASSUME IInv, NEW r \in Requests, PostToken(r)
    PROVE  TypeOK' /\ Books(r)' /\ Others(r)
  <1>1. /\ TypeOK /\ Books(r) /\ pc[r] = "postToken" /\ UNCHANGED <<req, info, s, op, bg>>
        /\ Goto(r, AfterPost(r))
    BY DEF IInv, PostToken
  <1>2. op[r].delta \in Nat /\ op[r].delta \in Int
    BY <1>1, TypeFacts
  <1>3. OwnSession(r) /\ SameSession(r)
    BY <1>1, SessionKept
  <1>4. \/ BalancesSame /\ (Works \/ \E p \in AllFaults : Fails(r, p))
        \/ TokenTake(r, op[r].delta) /\ Works
    BY DEF PostToken, AllFaults
  <1>5. PICK dt \in Int : Moves(r, 0, 0, dt) /\ dt >= 0
    BY <1>1, <1>2, <1>4, NothingMoves, TokenMoves
  <1>6. rec' = rec /\ hit' \in [Requests -> BOOLEAN]
    BY <1>1, <1>2, <1>4, NothingMoves, TokenMoves, HitTyped
  <1>7. OwnRest(r) /\ pc'[r] = AfterPost(r)
    BY <1>1, <1>6, AfterPostType DEF Goto, TypeOK, OwnRest, PCs
  <1>8. Books(r)'
    BY <1>1, <1>3, <1>5, <1>7, AfterPostType, TypeFacts
       DEF Books, Shape, WalletBooks, SubBooks, TokenBooks, Pending, IsWallet, IsSub,
           Playground, NoSource, BeforeHold, Moves, SameSession
  <1> QED BY <1>1, <1>3, <1>5, <1>7, <1>8, Assemble

\* Starting the refund goroutine, and the fee.
LEMMA RefundKeeps ==
    ASSUME IInv, NEW r \in Requests, Refund(r)
    PROVE  TypeOK' /\ Books(r)' /\ Others(r)
  <1>1. TypeOK /\ Books(r) /\ pc[r] = "failing" /\ BalancesSame /\ Works /\ UNCHANGED <<req, info>>
    BY DEF IInv, Refund
  <1>2. Moves(r, 0, 0, 0) /\ rec' = rec
    BY <1>1, NothingMoves
  <1>3. PICK refunded \in BOOLEAN : s' = [s EXCEPT ![r].refunded = refunded]
    BY Zenon DEF Refund, NeedsRefund
  <1>4. OwnSession(r) /\ SameSession(r)
    <2>1. s \in [Requests -> SessionType]
      BY <1>1 DEF TypeOK
    <2> QED BY <1>3, <2>1 DEF OwnSession, SameSession, SessionType
  <1>5. /\ bg' \in [Requests -> BGs] /\ bg'[r] \in {"funding", bg[r]}
        /\ \A q \in Requests \ {r} : bg'[q] = bg[q]
    BY <1>1 DEF Refund, TypeOK, BGs
  <1>6. \/ op' = [op EXCEPT ![r].post = "fee", ![r].delta = Fee] /\ Goto(r, "postFunding")
        \/ op' = op /\ Goto(r, "failed")
    BY DEF Refund
  <1>7. /\ op' \in [Requests -> OpType] /\ \A q \in Requests \ {r} : op'[q] = op[q]
        /\ (op'[r].post = "fee" /\ Goto(r, "postFunding")) \/ Goto(r, "failed")
    <2>1. op \in [Requests -> OpType] /\ Fee \in Nat
      BY <1>1, BalancesAssumption DEF TypeOK
    <2>2. CASE op' = [op EXCEPT ![r].post = "fee", ![r].delta = Fee] /\ Goto(r, "postFunding")
      BY <2>1, <2>2 DEF OpType
    <2>3. CASE op' = op /\ Goto(r, "failed")
      BY <2>1, <2>3
    <2> QED BY <1>6, <2>2, <2>3
  <1>8. OwnRest(r) /\ (pc'[r] = "failed" \/ (pc'[r] = "postFunding" /\ op'[r].post = "fee"))
    BY <1>1, <1>2, <1>5, <1>7 DEF Goto, Works, TypeOK, OwnRest, PCs
  <1>9. Books(r)'
    BY <1>1, <1>2, <1>4, <1>5, <1>8, TypeFacts
       DEF Books, Shape, WalletBooks, SubBooks, TokenBooks, Pending, IsWallet, IsSub,
           Playground, NoSource, BeforeHold, Moves, SameSession
  <1> QED BY <1>1, <1>2, <1>4, <1>8, <1>9, Assemble

\* Giving the wallet back what the funding source consumed.
LEMMA RefundWalletKeeps ==
    ASSUME IInv, NEW r \in Requests, RefundWallet(r)
    PROVE  TypeOK' /\ Books(r)' /\ Others(r)
  <1>1. /\ TypeOK /\ Books(r) /\ bg[r] = "funding" /\ IsWallet(r)
        /\ UNCHANGED <<req, info, s, op, pc>> /\ BgGoto(r, "extra")
    BY DEF IInv, RefundWallet
  <1>2. - s[r].held \in Int /\ - s[r].held =< 0
    BY <1>1, TypeFacts
  <1>3. \/ BalancesSame /\ (Works \/ \E p \in AllFaults : Fails(r, p))
        \/ WalletTake(r, - s[r].held) /\ Works
    BY DEF RefundWallet, AllFaults
  <1>4. PICK dw \in Int : Moves(r, dw, 0, 0) /\ dw >= - s[r].held
    BY <1>1, <1>2, <1>3, NothingMoves, WalletMoves
  <1>5. rec' = rec /\ hit' \in [Requests -> BOOLEAN]
    BY <1>1, <1>2, <1>3, NothingMoves, WalletMoves, HitTyped
  <1>6. OwnSession(r) /\ SameSession(r)
    BY <1>1, SessionKept
  <1>7. OwnRest(r) /\ bg'[r] = "extra" /\ pc'[r] = pc[r] /\ op'[r] = op[r]
    BY <1>1, <1>5 DEF BgGoto, TypeOK, OwnRest, BGs
  <1>8. Books(r)'
    BY SMTT(30), <1>1, <1>4, <1>6, <1>7, TypeFacts
       DEF Books, Shape, WalletBooks, SubBooks, TokenBooks, Pending, IsWallet, IsSub,
           Playground, NoSource, BeforeHold, Moves, SameSession
  <1> QED BY <1>1, <1>4, <1>6, <1>7, <1>8, Assemble

\* Giving the subscription back what Reserve added.
LEMMA RefundExtraKeeps ==
    ASSUME IInv, NEW r \in Requests, RefundExtra(r)
    PROVE  TypeOK' /\ Books(r)' /\ Others(r)
  <1>1. /\ TypeOK /\ Books(r) /\ bg[r] = "extra"
        /\ UNCHANGED <<req, info, s, op, pc>> /\ BgGoto(r, "token")
    BY DEF IInv, RefundExtra
  <1>2. - s[r].extra \in Int /\ - s[r].extra =< 0
    BY <1>1, TypeFacts
  <1>3. \/ BalancesSame /\ (Works \/ \E p \in AllFaults : Fails(r, p))
        \/ IsSub(r) /\ SubTake(r, - s[r].extra) /\ UNCHANGED rec /\ Works
    BY DEF RefundExtra, AllFaults
  <1>4. PICK ds \in Int :
           Moves(r, 0, ds, 0) /\ (ds = 0 \/ (IsSub(r) /\ ds >= - s[r].extra))
    <2>1. CASE BalancesSame
      BY <1>1, <2>1, NothingMoves
    <2>2. CASE IsSub(r) /\ SubTake(r, - s[r].extra)
      <3>1. PICK ds \in Int : ds >= - s[r].extra /\ Moves(r, 0, ds, 0)
        BY <1>1, <1>2, <2>2, SubMoves
      <3> QED BY <2>2, <3>1
    <2> QED BY <1>3, <2>1, <2>2
  <1>5. rec' = rec /\ hit' \in [Requests -> BOOLEAN]
    BY <1>1, <1>3, NothingMoves, HitTyped
  <1>6. OwnSession(r) /\ SameSession(r)
    BY <1>1, SessionKept
  <1>7. OwnRest(r) /\ bg'[r] = "token" /\ pc'[r] = pc[r] /\ op'[r] = op[r]
    BY <1>1, <1>5 DEF BgGoto, TypeOK, OwnRest, BGs
  <1>8. Books(r)'
    BY <1>1, <1>4, <1>6, <1>7, TypeFacts
       DEF Books, Shape, WalletBooks, SubBooks, TokenBooks, Pending, IsWallet, IsSub,
           Playground, NoSource, BeforeHold, Moves, SameSession
  <1> QED BY <1>1, <1>4, <1>6, <1>7, <1>8, Assemble

\* Giving the token back what was consumed.
LEMMA RefundTokenKeeps ==
    ASSUME IInv, NEW r \in Requests, RefundToken(r)
    PROVE  TypeOK' /\ Books(r)' /\ Others(r)
  <1>1. /\ TypeOK /\ Books(r) /\ bg[r] = "token"
        /\ UNCHANGED <<req, info, s, op, pc>> /\ BgGoto(r, "end")
    BY DEF IInv, RefundToken
  <1>2. - s[r].tokenConsumed \in Int /\ - s[r].tokenConsumed =< 0
    BY <1>1, TypeFacts
  <1>3. \/ BalancesSame /\ (Works \/ \E p \in AllFaults : Fails(r, p))
        \/ ~ Playground(r) /\ TokenTake(r, - s[r].tokenConsumed) /\ Works
    BY DEF RefundToken, AllFaults
  <1>4. PICK dt \in Int :
           Moves(r, 0, 0, dt) /\ (dt = 0 \/ (~ Playground(r) /\ dt >= - s[r].tokenConsumed))
    BY <1>1, <1>2, <1>3, NothingMoves, TokenMoves
  <1>5. rec' = rec /\ hit' \in [Requests -> BOOLEAN]
    BY <1>1, <1>2, <1>3, NothingMoves, TokenMoves, HitTyped
  <1>6. OwnSession(r) /\ SameSession(r)
    BY <1>1, SessionKept
  <1>7. OwnRest(r) /\ bg'[r] = "end" /\ pc'[r] = pc[r] /\ op'[r] = op[r]
    BY <1>1, <1>5 DEF BgGoto, TypeOK, OwnRest, BGs
  <1>8. Books(r)'
    BY <1>1, <1>4, <1>6, <1>7, TypeFacts
       DEF Books, Shape, WalletBooks, SubBooks, TokenBooks, Pending, IsWallet, IsSub,
           Playground, NoSource, BeforeHold, Moves, SameSession
  <1> QED BY <1>1, <1>4, <1>6, <1>7, <1>8, Assemble

\* The one place that needs every record save to be kept: without it a retry gives the
\* pre-consumed amount back again.
LEMMA RefundSubscriptionKeeps ==
    ASSUME IInv, "record" \notin FaultPoints, NEW r \in Requests, RefundSubscription(r)
    PROVE  TypeOK' /\ Books(r)' /\ Others(r)
  <1>1. /\ TypeOK /\ Books(r) /\ bg[r] = "funding" /\ IsSub(r)
        /\ UNCHANGED <<req, info, s, pc>>
    BY DEF IInv, RefundSubscription
  <1>2. - s[r].held \in Int /\ - s[r].held =< 0
    BY <1>1, TypeFacts
  <1>3. OwnSession(r) /\ SameSession(r)
    BY <1>1, SessionKept
  <1>4. CASE /\ SubTake(r, - s[r].held) /\ rec' = [rec EXCEPT ![r] = "refunded"]
             /\ BgGoto(r, "extra") /\ Works /\ UNCHANGED op
    <2>1. PICK ds \in Int : ds >= - s[r].held /\ Moves(r, 0, ds, 0)
      BY <1>1, <1>2, <1>4, SubMoves
    <2>2. OwnRest(r) /\ bg'[r] = "extra" /\ pc'[r] = pc[r] /\ op'[r] = op[r]
      BY <1>1, <1>4 DEF BgGoto, Works, TypeOK, OwnRest, BGs
    <2>3. Books(r)'
      <3>1. Shape(r)' /\ WalletBooks(r)'
        BY <1>1, <1>2, <1>3, <2>1, <2>2, TypeFacts
           DEF Books, Shape, WalletBooks, Pending, IsWallet, IsSub, NoSource, BeforeHold,
               Moves, SameSession
      <3>2. SubBooks(r)' /\ TokenBooks(r)'
        BY <1>1, <1>2, <1>3, <2>1, <2>2, TypeFacts
           DEF Books, Shape, SubBooks, TokenBooks, Pending, IsSub, Playground, Moves,
               SameSession
      <3> QED BY <3>1, <3>2 DEF Books
    <2> QED BY <1>1, <1>3, <2>1, <2>2, <2>3, Assemble
  <1>5. CASE /\ BalancesSame /\ (Works \/ Fails(r, "sub"))
             /\ UNCHANGED op \/ op' = [op EXCEPT ![r].tries = @ + 1]
             /\ BgGoto(r, "funding") \/ BgGoto(r, "extra")
    <2>1. Moves(r, 0, 0, 0) /\ rec' = rec
      BY <1>1, <1>5, NothingMoves
    <2>2. /\ op' \in [Requests -> OpType] /\ op'[r].post = op[r].post
          /\ \A q \in Requests \ {r} : op'[q] = op[q]
      <3>1. op \in [Requests -> OpType] /\ op[r].tries + 1 \in Nat
        BY <1>1, TypeFacts DEF TypeOK
      <3>2. CASE UNCHANGED op
        BY <3>1, <3>2
      <3>3. CASE op' = [op EXCEPT ![r].tries = @ + 1]
        BY <3>1, <3>3 DEF OpType
      <3> QED BY <1>5, <3>2, <3>3
    <2>3. hit' \in [Requests -> BOOLEAN]
      BY <1>1, <1>5, HitTyped DEF AllFaults
    <2>4. OwnRest(r) /\ bg'[r] \in {"funding", "extra"} /\ pc'[r] = pc[r]
      BY <1>1, <1>5, <2>1, <2>2, <2>3 DEF BgGoto, TypeOK, OwnRest, BGs
    <2>5. Books(r)'
      BY SMTT(30), <1>1, <1>3, <2>1, <2>2, <2>4, TypeFacts
         DEF Books, Shape, WalletBooks, SubBooks, TokenBooks, Pending, IsWallet, IsSub,
             Playground, NoSource, BeforeHold, Moves, SameSession
    <2> QED BY <1>1, <1>3, <2>1, <2>4, <2>5, Assemble
  <1>6. ~ Fails(r, "record")
    BY DEF Fails
  <1> QED BY <1>4, <1>5, <1>6 DEF RefundSubscription

\* The death of the process.
LEMMA CrashKeeps ==
    ASSUME IInv, Crash
    PROVE  IInv'
  <1>1. /\ TypeOK /\ BalancesSame /\ UNCHANGED <<req, info, s, op>>
        /\ pc' = [r \in Requests |-> IF pc[r] \in Ended \cup {"new"} THEN pc[r] ELSE "lost"]
        /\ bg' = [r \in Requests |-> IF bg[r] = "none" THEN "none" ELSE "end"]
    BY DEF IInv, Crash
  <1>2. hit' \in [Requests -> BOOLEAN]
    BY Zenon DEF Crash
  <1>3. TypeOK'
    BY <1>1, <1>2 DEF TypeOK, BalancesSame, PCs, BGs, Ended
  <1>4. ASSUME NEW r \in Requests PROVE Books(r)'
    <2>1. Moves(r, 0, 0, 0) /\ OwnSession(r) /\ SameSession(r) /\ Books(r)
      BY <1>1, NothingMoves, SessionKept DEF IInv
    <2>2. /\ pc'[r] = IF pc[r] \in Ended \cup {"new"} THEN pc[r] ELSE "lost"
          /\ bg'[r] = IF bg[r] = "none" THEN "none" ELSE "end"
          /\ info'[r] = info[r] /\ op'[r] = op[r] /\ req'[r] = req[r]
      BY <1>1
    <2>3. Shape(r)' /\ WalletBooks(r)'
      BY <1>1, <2>1, <2>2, TypeFacts
         DEF Books, Shape, WalletBooks, Pending, IsWallet, IsSub, NoSource, BeforeHold,
             Moves, SameSession, Ended
    <2>4. SubBooks(r)' /\ TokenBooks(r)'
      BY <1>1, <2>1, <2>2, TypeFacts
         DEF Books, Shape, SubBooks, TokenBooks, Pending, IsSub, Playground, Moves,
             SameSession, Ended
    <2> QED BY <2>3, <2>4 DEF Books
  <1> QED BY <1>3, <1>4 DEF IInv

\* Every action of a request keeps the types and its books, and leaves what other
\* requests own alone.
LEMMA StepLocal ==
    ASSUME IInv, "record" \notin FaultPoints, NEW r \in Requests, Step(r) \/ RefundStep(r)
    PROVE  TypeOK' /\ Books(r)' /\ Others(r)
  <1>1. CASE Authenticate(r) \/ SkipFreeModel(r)
    BY <1>1, AuthenticateKeeps, SkipFreeModelKeeps
  <1>2. CASE \E n \in Amounts : PreConsumeBilling(r, n)
    BY <1>2, PreConsumeBillingKeeps
  <1>3. CASE TryWallet(r) \/ TrySubscription(r) \/ PreConsumeToken(r)
    BY <1>3, TryWalletKeeps, TrySubscriptionKeeps, PreConsumeTokenKeeps
  <1>4. CASE PreConsumeWallet(r) \/ PreConsumeSubscription(r) \/ UndoToken(r)
    BY <1>4, PreConsumeWalletKeeps, PreConsumeSubscriptionKeeps, UndoTokenKeeps
  <1>5. CASE \E n \in Amounts : Reserve(r, n)
    BY <1>5, ReserveKeeps
  <1>6. CASE ReserveToken(r) \/ UndoReserve(r)
    BY <1>6, ReserveTokenKeeps, UndoReserveKeeps
  <1>7. CASE \E n \in Amounts \cup {op[r].sum} : Succeed(r, n)
    BY <1>7, SucceedKeeps
  <1>8. CASE SettleFunding(r) \/ SettleToken(r)
    BY <1>8, SettleFundingKeeps, SettleTokenKeeps
  <1>9. CASE \E n \in Amounts : RealtimeTurn(r, n)
    BY <1>9, RealtimeTurnKeeps
  <1>10. CASE \E n \in Amounts : SettleLegacy(r, n)
    BY <1>10, SettleLegacyKeeps
  <1>11. CASE PostFunding(r) \/ PostToken(r)
    BY <1>11, PostFundingKeeps, PostTokenKeeps
  <1>12. CASE Fail(r) \/ HandOver(r) \/ Refund(r)
    BY <1>12, FailKeeps, RefundKeeps
  <1>13. CASE RefundStep(r)
    BY <1>13, RefundWalletKeeps, RefundSubscriptionKeeps, RefundExtraKeeps, RefundTokenKeeps
       DEF RefundStep
  <1> QED
    BY <1>1, <1>2, <1>3, <1>4, <1>5, <1>6, <1>7, <1>8, <1>9, <1>10, <1>11, <1>12, <1>13
       DEF Step

\* A step of one request keeps the books of all.
LEMMA StepKeeps ==
    ASSUME IInv, "record" \notin FaultPoints, NEW r \in Requests, Step(r) \/ RefundStep(r)
    PROVE  IInv'
  <1>1. TypeOK' /\ Books(r)' /\ Others(r)
    BY StepLocal
  <1>2. ASSUME NEW q \in Requests \ {r} PROVE Books(q)'
    BY <1>1, BooksLocal DEF IInv, Others
  <1> QED BY <1>1, <1>2 DEF IInv

\* The inductive step.
LEMMA NextKeeps ==
    ASSUME IInv, "record" \notin FaultPoints, [Next]_vars
    PROVE  IInv'
  <1>1. CASE \E r \in Requests : Step(r) \/ RefundStep(r)
    BY <1>1, StepKeeps
  <1>2. CASE Crash
    BY <1>2, CrashKeeps
  <1>3. CASE UNCHANGED vars
    <2>1. TypeOK'
      BY <1>3 DEF IInv, TypeOK, vars
    <2>2. ASSUME NEW q \in Requests PROVE Books(q)'
      BY <1>3, BooksLocal DEF IInv, vars
    <2> QED BY <2>1, <2>2 DEF IInv
  <1> QED BY <1>1, <1>2, <1>3 DEF Next, Finished

-----------------------------------------------------------------------------
\* The inductive invariant: types, and for every request the books of the three
\* balances.
THEOREM InvariantHolds == "record" \notin FaultPoints => (Spec => []IInv)
  <1> SUFFICES ASSUME "record" \notin FaultPoints PROVE Spec => []IInv
    OBVIOUS
  <1>1. Init => IInv
    BY InitIInv
  <1>2. IInv /\ [Next]_vars => IInv'
    BY NextKeeps
  <1> QED BY <1>1, <1>2, PTL DEF Spec

\* The session state stays typed, whatever the amounts and the faults.
THEOREM TypeCorrect == "record" \notin FaultPoints => (Spec => []TypeOK)
  <1>1. IInv => TypeOK
    BY DEF IInv
  <1> QED BY <1>1, InvariantHolds, PTL

\* No refund, rollback or settlement gives a request back more than it took: not of
\* the wallet, the subscription or the token, for any number of requests.
THEOREM QuotaIsNeverCreated == "record" \notin FaultPoints => (Spec => []NoQuotaCreated)
  <1>1. IInv => NoQuotaCreated
    BY DEF IInv, NoQuotaCreated, Books, WalletBooks, SubBooks, TokenBooks
  <1> QED BY <1>1, InvariantHolds, PTL

\* The fallback of NewBillingSession never leaves a request charged on both sources.
THEOREM OneSourceIsCharged == "record" \notin FaultPoints => (Spec => []OneFundingSource)
  <1>1. IInv => OneFundingSource
    BY DEF IInv, OneFundingSource, Books, WalletBooks, SubBooks, IsSub, IsWallet
  <1> QED BY <1>1, InvariantHolds, PTL

\* A closed request has no action left.
LEMMA ClosedIsOver ==
    ASSUME NEW r \in Requests, Closed(r)
    PROVE  ~ Step(r) /\ ~ RefundStep(r)
  <1>1. ~ RefundStep(r)
    BY DEF Closed, RefundStep, RefundWallet, RefundSubscription, RefundExtra, RefundToken
  <1>2. ~ Step(r)
    BY DEF Closed, Ended, Step, Authenticate, SkipFreeModel, PreConsumeBilling, TryWallet,
           TrySubscription, PreConsumeToken, PreConsumeWallet, PreConsumeSubscription,
           UndoToken, Reserve, ReserveToken, UndoReserve, Succeed, SettleFunding,
           SettleToken, RealtimeTurn, SettleLegacy, PostFunding, PostToken, Fail, HandOver,
           Refund
  <1> QED BY <1>1, <1>2

\* Once both threads of a request have ended nothing moves its account again: no
\* late refund, no second settlement, not even when the process dies.
THEOREM ClosedIsFinal == "record" \notin FaultPoints => (Spec => ClosedStaysClosed)
  <1> SUFFICES ASSUME "record" \notin FaultPoints PROVE Spec => ClosedStaysClosed
    OBVIOUS
  <1> DEFINE Final == \A r \in Requests : Closed(r) => Closed(r)' /\ paid'[r] = paid[r]
  <1>1. ASSUME IInv, [Next]_vars PROVE Final
    <2> SUFFICES ASSUME NEW r \in Requests, Closed(r)
                 PROVE  Closed(r)' /\ paid'[r] = paid[r]
      OBVIOUS
    <2>1. CASE \E q \in Requests : Step(q) \/ RefundStep(q)
      <3>1. PICK q \in Requests : Step(q) \/ RefundStep(q)
        BY <2>1
      <3>2. q # r
        BY <3>1, ClosedIsOver
      <3>3. Others(q)
        BY <1>1, <3>1, StepLocal
      <3> QED BY <3>2, <3>3 DEF Others, Closed
    <2>2. CASE Crash
      BY <2>2 DEF Crash, Closed, Ended, BalancesSame
    <2>3. CASE UNCHANGED vars
      BY <2>3 DEF vars, Closed
    <2> QED BY <1>1, <2>1, <2>2, <2>3 DEF Next, Finished
  <1>2. IInv /\ [Next]_vars => [Final]_vars
    BY <1>1
  <1> HIDE DEF Final
  <1>3. Spec => [][Final]_vars
    BY <1>2, InvariantHolds, PTL DEF Spec
  <1> QED BY <1>3 DEF ClosedStaysClosed, Final
=============================================================================
