------------------------- MODULE QuotaReserveProofs -------------------------
(***************************************************************************)
(* Proofs about QuotaReserve, for any set of calls, any amounts and        *)
(* balances, every configuration, and every fault and crash.               *)
(***************************************************************************)
EXTENDS QuotaReserve, FiniteSums, TLAPS

\* Where Redis is off no call reaches a step that uses it, and the goroutine of a call
\* is not there before the call.
Role(c) ==
    /\ call[c].pc \in {"try", "retry", "fill", "persist", "compensate"} => mode.redis
    /\ call[c].pc = "hydrate" /\ call[c].kind # "read" => mode.redis
    /\ bg[c] # 0 => mode.redis
    /\ call[c].pc = "idle" => bg[c] = 0

\* The settlements that the copy does not show yet.
Debit(c) == IF bg[c] < 0 THEN bg[c] ELSE 0
AllDebits == SumFunctionOnSet([c \in Calls |-> Debit(c)], Calls)
AllDeltas == SumFunctionOnSet(bg, Calls)

\* What a pending delta may take from the table.
Below(n) == IF n < 0 THEN n ELSE 0

\* The reservations in flight are covered as well: a reservation is decided on the
\* copy, which shows what is left of the table once they are written, or on the table.
\* What the one who decides does not see is on the account of the settlements.
Covered ==
    /\ torn => ever
    /\ spent >= 0 /\ AllDebits + spent >= 0
    /\ ~mode.redis => Below(pend) + Below(flush) + spent - AllTaken >= 0
    /\ ~ever => Table + spent - AllTaken >= 0

QInv == TypeOK /\ (\A c \in Calls : Role(c)) /\ CacheFollowsTable /\ Covered

-----------------------------------------------------------------------------
CallType == [pc : Pcs, kind : Kinds \cup {"read"}, amt : Amounts \cup {0}, snap : Int]

LEMMA Facts ==
    ASSUME TypeOK
    PROVE  /\ mode.redis \in BOOLEAN /\ mode.batch \in BOOLEAN
           /\ db \in Int /\ pend \in Int /\ flush \in Int /\ net \in Int /\ spent \in Int
           /\ cache.on \in BOOLEAN /\ cache.q \in Int
           /\ call \in [Calls -> CallType] /\ bg \in [Calls -> Int]
           /\ torn \in BOOLEAN /\ ever \in BOOLEAN /\ lost \in BOOLEAN
           /\ ~mode.batch => pend = 0 /\ flush = 0
           /\ ~mode.redis => ~cache.on
  BY ConstantsAssumption DEF TypeOK, CallType

LEMMA AmountsNat == \A a \in Amounts \cup {0} : a \in Nat
  <1>1. Amounts \subseteq Nat \ {0}
    BY ConstantsAssumption
  <1> QED BY <1>1

LEMMA CallFacts ==
    ASSUME TypeOK, NEW c \in Calls
    PROVE  /\ call[c] \in CallType /\ call[c].pc \in Pcs /\ call[c].amt \in Nat
           /\ call[c].kind \in Kinds \cup {"read"} /\ call[c].amt \in Amounts \cup {0}
           /\ call[c].snap \in Int /\ bg[c] \in Int
           /\ Taken(c) \in Nat /\ Debit(c) \in Int /\ Debit(c) <= bg[c] /\ Debit(c) <= 0
  <1>1. /\ call[c] \in CallType /\ call[c].pc \in Pcs /\ call[c].amt \in Amounts \cup {0}
        /\ call[c].kind \in Kinds \cup {"read"}
        /\ call[c].snap \in Int /\ bg[c] \in Int
    BY DEF TypeOK, CallType
  <1>2. call[c].amt \in Nat
    BY <1>1, AmountsNat
  <1> QED BY <1>1, <1>2 DEF Taken, Debit

\* The sums are integers; the debits are not above the deltas.
LEMMA Sums ==
    ASSUME TypeOK
    PROVE  /\ AllTaken \in Nat /\ AllDebits \in Int /\ AllDeltas \in Int
           /\ AllDebits <= AllDeltas
  <1> DEFINE f == [c \in Calls |-> Taken(c)]
             g == [c \in Calls |-> Debit(c)]
             h == bg
  <1>1. \A c \in Calls : f[c] \in Nat
    BY CallFacts
  <1>2. \A c \in Calls : g[c] \in Int /\ h[c] \in Int /\ g[c] <= h[c]
    BY CallFacts
  <1>3. AllTaken = SumFunctionOnSet(f, Calls) /\ AllDebits = SumFunctionOnSet(g, Calls)
        /\ AllDeltas = SumFunctionOnSet(h, Calls)
    BY DEF AllTaken, AllDebits, AllDeltas
  <1>4. IsFiniteSet(Calls)
    BY ConstantsAssumption
  <1> HIDE DEF f, g, h
  <1>5. SumFunctionOnSet(f, Calls) \in Nat
    BY <1>1, <1>4, SumNonNegative
  <1>6. SumFunctionOnSet(g, Calls) \in Int /\ SumFunctionOnSet(h, Calls) \in Int
    BY <1>2, <1>4, SumType
  <1>7. SumFunctionOnSet(g, Calls) <= SumFunctionOnSet(h, Calls)
    BY <1>2, <1>4, SumMonotone
  <1> QED BY <1>3, <1>5, <1>6, <1>7

\* A step of one call changes the sums by what it changes of the call.
LEMMA SumsChange ==
    ASSUME TypeOK, TypeOK', NEW c \in Calls,
           \A d \in Calls \ {c} : call'[d] = call[d] /\ bg'[d] = bg[d]
    PROVE  /\ AllTaken' = AllTaken + Taken(c)' - Taken(c)
           /\ AllDebits' = AllDebits + Debit(c)' - Debit(c)
           /\ AllDeltas' = AllDeltas + bg'[c] - bg[c]
  <1>1. \A d \in Calls \ {c} : Taken(d)' = Taken(d) /\ Debit(d)' = Debit(d)
    BY DEF Taken, Debit
  <1>2. \A d \in Calls : /\ Taken(d) \in Int /\ Taken(d)' \in Int /\ Debit(d) \in Int
                         /\ Debit(d)' \in Int /\ bg[d] \in Int /\ bg'[d] \in Int
    <2> SUFFICES ASSUME NEW d \in Calls
                 PROVE  /\ Taken(d) \in Int /\ Taken(d)' \in Int /\ Debit(d) \in Int
                        /\ Debit(d)' \in Int /\ bg[d] \in Int /\ bg'[d] \in Int
      OBVIOUS
    <2>1. call'[d].amt \in Amounts \cup {0} /\ bg'[d] \in Int
      BY DEF TypeOK
    <2>2. call'[d].amt \in Nat
      BY <2>1, AmountsNat
    <2> QED BY <2>1, <2>2, CallFacts DEF Taken, Debit
  <1>3. IsFiniteSet(Calls)
    BY ConstantsAssumption
  <1>4. AllTaken' = AllTaken + Taken(c)' - Taken(c)
    <2> DEFINE f == [d \in Calls |-> Taken(d)]
               g == [d \in Calls |-> Taken(d)']
    <2>1. /\ \A d \in Calls : f[d] \in Int
          /\ \A d \in Calls \ {c} : g[d] = f[d]
          /\ g[c] \in Int /\ g[c] = Taken(c)' /\ f[c] = Taken(c)
      BY <1>1, <1>2
    <2>2. AllTaken = SumFunctionOnSet(f, Calls) /\ AllTaken' = SumFunctionOnSet(g, Calls)
      BY DEF AllTaken
    <2> HIDE DEF f, g
    <2> QED BY <1>3, <2>1, <2>2, SumChange
  <1>5. AllDebits' = AllDebits + Debit(c)' - Debit(c)
    <2> DEFINE f == [d \in Calls |-> Debit(d)]
               g == [d \in Calls |-> Debit(d)']
    <2>1. /\ \A d \in Calls : f[d] \in Int
          /\ \A d \in Calls \ {c} : g[d] = f[d]
          /\ g[c] \in Int /\ g[c] = Debit(c)' /\ f[c] = Debit(c)
      BY <1>1, <1>2
    <2>2. AllDebits = SumFunctionOnSet(f, Calls) /\ AllDebits' = SumFunctionOnSet(g, Calls)
      BY DEF AllDebits
    <2> HIDE DEF f, g
    <2> QED BY <1>3, <2>1, <2>2, SumChange
  <1>6. AllDeltas' = AllDeltas + bg'[c] - bg[c]
    <2> DEFINE f == bg
               g == bg'
    <2>1. /\ \A d \in Calls : f[d] \in Int
          /\ \A d \in Calls \ {c} : g[d] = f[d]
          /\ g[c] \in Int /\ g[c] = bg'[c] /\ f[c] = bg[c]
      BY <1>2
    <2>2. AllDeltas = SumFunctionOnSet(f, Calls) /\ AllDeltas' = SumFunctionOnSet(g, Calls)
      BY DEF AllDeltas
    <2> HIDE DEF f, g
    <2> QED BY <1>3, <2>1, <2>2, SumChange
  <1> QED BY <1>4, <1>5, <1>6

\* Without a call in flight there is nothing to add.
LEMMA SettledSums ==
    ASSUME TypeOK, Settled
    PROVE  AllTaken = 0 /\ AllDeltas = 0 /\ pend = 0 /\ flush = 0
  <1>1. \A c \in Calls : Taken(c) = 0 /\ bg[c] = 0
    BY DEF Settled, InFlight, Taken
  <1>2. IsFiniteSet(Calls)
    BY ConstantsAssumption
  <1>3. AllTaken = 0
    <2> DEFINE f == [d \in Calls |-> Taken(d)]
    <2>1. \A d \in Calls : f[d] = 0
      BY <1>1
    <2>2. AllTaken = SumFunctionOnSet(f, Calls)
      BY DEF AllTaken
    <2> HIDE DEF f
    <2> QED BY <1>2, <2>1, <2>2, SumZero
  <1>4. AllDeltas = 0
    BY <1>1, <1>2, SumZero DEF AllDeltas
  <1> QED BY <1>3, <1>4 DEF Settled

-----------------------------------------------------------------------------
OneCall(c) == \A d \in Calls \ {c} : call'[d] = call[d] /\ bg'[d] = bg[d]

\* What call c and its goroutine add to the two sides of the balance.
InCopy(c) == cache.q + bg[c]
InTable(c) == Table - Taken(c)

\* A step of call c keeps the books if what it does to the two sides agrees, and if it
\* takes no more than it puts on the account of the settlements.
LEMMA BooksKept ==
    ASSUME QInv, TypeOK', mode' = mode, NEW c \in Calls, OneCall(c),
           ever => ever', torn' => ever', spent' >= spent,
           Debit(c)' + spent' >= Debit(c) + spent,
           ~mode.redis => Below(pend') + Below(flush') + spent' - Taken(c)'
                            >= Below(pend) + Below(flush) + spent - Taken(c),
           \/ ever'
           \/ InTable(c)' + spent' >= InTable(c) + spent
           \/ Table' + spent' - AllTaken' >= 0,
           \/ ~cache'.on \/ torn'
           \/ cache.on /\ ~torn /\ InCopy(c)' - InTable(c)' = InCopy(c) - InTable(c)
           \/ cache'.q + AllDeltas' = Table' - AllTaken',
           Role(c)'
    PROVE  QInv'
  <1>1. TypeOK /\ CacheFollowsTable /\ Covered
    BY DEF QInv
  <1>2. /\ AllTaken' = AllTaken + Taken(c)' - Taken(c)
        /\ AllDebits' = AllDebits + Debit(c)' - Debit(c)
        /\ AllDeltas' = AllDeltas + bg'[c] - bg[c]
    BY <1>1, SumsChange DEF OneCall
  <1>3. /\ AllTaken \in Int /\ AllDebits \in Int /\ AllDeltas \in Int
        /\ Taken(c) \in Int /\ Debit(c) \in Int /\ bg[c] \in Int
        /\ Table \in Int /\ spent \in Int /\ cache.q \in Int
        /\ Below(pend) \in Int /\ Below(flush) \in Int
        /\ torn \in BOOLEAN /\ ever \in BOOLEAN /\ cache.on \in BOOLEAN
    BY <1>1, Sums, CallFacts, Facts DEF Table, Below
  <1>4. /\ Table' \in Int /\ spent' \in Int /\ cache'.q \in Int /\ bg'[c] \in Int
        /\ Below(pend') \in Int /\ Below(flush') \in Int
        /\ torn' \in BOOLEAN /\ ever' \in BOOLEAN /\ cache'.on \in BOOLEAN
    BY DEF TypeOK, Table, Below
  <1>5. Debit(c)' \in Int
    BY <1>4 DEF Debit
  <1>6. Taken(c)' \in Int
    <2>1. call'[c].amt \in Amounts \cup {0}
      BY DEF TypeOK
    <2> QED BY <2>1, AmountsNat DEF Taken
  <1>7. CacheFollowsTable'
    <2> SUFFICES ASSUME cache'.on, ~ torn' PROVE cache'.q + AllDeltas' = Table' - AllTaken'
      BY DEF CacheFollowsTable, AllDeltas
    <2>1. CASE cache.on /\ ~torn /\ InCopy(c)' - InTable(c)' = InCopy(c) - InTable(c)
      <3>1. cache.q + AllDeltas = Table - AllTaken
        BY <1>1, <2>1 DEF CacheFollowsTable, AllDeltas
      <3>2. (cache'.q + bg'[c]) - (Table' - Taken(c)') = (cache.q + bg[c]) - (Table - Taken(c))
        BY <2>1 DEF InCopy, InTable
      <3> QED BY <1>2, <1>3, <1>4, <1>6, <3>1, <3>2
    <2> QED BY <2>1
  <1>8. Covered'
    <2>1. (torn' => ever') /\ spent' >= 0 /\ AllDebits' + spent' >= 0
      BY <1>1, <1>2, <1>3, <1>4, <1>5 DEF Covered
    <2>2. ~mode.redis => Below(pend') + Below(flush') + spent' - AllTaken' >= 0
      BY <1>1, <1>2, <1>3, <1>4, <1>6 DEF Covered
    <2>3. ~ever' => Table' + spent' - AllTaken' >= 0
      <3>1. CASE ~ ever' /\ InTable(c)' + spent' >= InTable(c) + spent
        <4>1. Table + spent - AllTaken >= 0
          BY <1>1, <3>1 DEF Covered
        <4>2. (Table' - Taken(c)') + spent' >= (Table - Taken(c)) + spent
          BY <3>1 DEF InTable
        <4> QED BY <1>2, <1>3, <1>4, <1>6, <4>1, <4>2
      <3> QED BY <3>1
    <2> QED BY <2>1, <2>2, <2>3 DEF Covered, Below
  <1>9. \A d \in Calls : Role(d)'
    BY DEF QInv, OneCall, Role
  <1> QED BY <1>7, <1>8, <1>9 DEF QInv

-----------------------------------------------------------------------------
(* The steps of a call.                                                    *)

LEMMA GotoCall ==
    ASSUME TypeOK, NEW c \in Calls, NEW l \in Pcs, Goto(c, l)
    PROVE  /\ call' \in [Calls -> CallType] /\ call'[c].pc = l
           /\ call'[c].amt = call[c].amt /\ call'[c].kind = call[c].kind
           /\ \A d \in Calls \ {c} : call'[d] = call[d]
  <1>1. call \in [Calls -> CallType]
    BY Facts
  <1> QED BY <1>1 DEF Goto, CallType

\* A step that only moves the call on, from and to places where it has taken nothing.
LEMMA MoveKeeps ==
    ASSUME QInv, NEW c \in Calls, call' \in [Calls -> CallType],
           \A d \in Calls \ {c} : call'[d] = call[d],
           UNCHANGED <<mode, db, cache, pend, flush, bg, net, spent, torn, ever, lost>>,
           Taken(c)' = Taken(c), Role(c)'
    PROVE  QInv'
  <1>1. TypeOK /\ TypeOK' /\ OneCall(c)
    BY DEF QInv, TypeOK, CallType, OneCall
  <1>2. /\ Taken(c) \in Int /\ Debit(c) \in Int /\ Table \in Int /\ bg[c] \in Int
        /\ cache.q \in Int /\ spent \in Int /\ torn \in BOOLEAN /\ ever \in BOOLEAN
        /\ cache.on \in BOOLEAN /\ Below(pend) \in Int /\ Below(flush) \in Int
    BY <1>1, CallFacts, Facts DEF Table, Below
  <1>3. Debit(c)' = Debit(c) /\ InTable(c)' = InTable(c) /\ InCopy(c)' = InCopy(c)
    BY DEF Debit, InTable, InCopy, Table
  <1>4. InTable(c) \in Int /\ InCopy(c) \in Int
    BY <1>2 DEF InTable, InCopy
  <1>5. torn => ever
    BY DEF QInv, Covered
  <1>6. \/ ~cache'.on \/ torn'
        \/ cache.on /\ ~torn /\ InCopy(c)' - InTable(c)' = InCopy(c) - InTable(c)
    BY <1>2, <1>3
  <1>7. /\ Debit(c)' + spent' >= Debit(c) + spent /\ spent' >= spent
        /\ Below(pend') + Below(flush') + spent' - Taken(c)'
             >= Below(pend) + Below(flush) + spent - Taken(c)
        /\ InTable(c)' + spent' >= InTable(c) + spent
    BY <1>2, <1>3, <1>4
  <1> QED BY <1>1, <1>5, <1>6, <1>7, BooksKept

LEMMA StartKeeps ==
    ASSUME QInv, NEW c \in Calls, NEW kind \in Kinds \cap {"reserve", "read"}, NEW amt \in Amounts,
           Start(c, kind, amt)
    PROVE  QInv'
  <1>1. TypeOK /\ Role(c) /\ call \in [Calls -> CallType] /\ call[c].pc = "idle"
    BY Facts DEF QInv, Start
  <1> DEFINE r == [pc |-> IF kind = "read" THEN "hydrate" ELSE IF mode.redis THEN "try" ELSE "fallback",
                   kind |-> kind, amt |-> amt, snap |-> 0]
  <1>2. r \in CallType /\ r.pc \in {"hydrate", "try", "fallback"} /\ r.kind = kind
        /\ (r.pc = "try" => mode.redis) /\ (r.pc = "hydrate" => kind = "read")
    BY DEF CallType, Pcs
  <1>3. call' = [call EXCEPT ![c] = r]
    BY DEF Start
  <1> HIDE DEF r
  <1>4. /\ call' \in [Calls -> CallType] /\ call'[c] = r
        /\ \A d \in Calls \ {c} : call'[d] = call[d]
    BY <1>1, <1>2, <1>3
  <1>5. Taken(c)' = Taken(c)
    BY <1>1, <1>2, <1>4 DEF Taken
  <1>6. Role(c)'
    BY <1>1, <1>2, <1>4 DEF Role, Start
  <1> QED BY <1>4, <1>5, <1>6, MoveKeeps DEF Start

LEMMA HydrateReadKeeps ==
    ASSUME QInv, NEW c \in Calls, HydrateRead(c)
    PROVE  QInv'
  <1>1. TypeOK /\ Role(c) /\ call \in [Calls -> CallType] /\ call[c].pc = "hydrate" /\ db \in Int
    BY Facts DEF QInv, HydrateRead
  <1>2. /\ call' \in [Calls -> CallType] /\ call'[c].kind = call[c].kind
        /\ \A d \in Calls \ {c} : call'[d] = call[d]
        /\ \/ call'[c].pc \in {Hydrated(c), Refused(c), "done"}
           \/ call'[c].pc = "fill" /\ mode.redis
    <2>1. CASE Goto(c, Hydrated(c)) \/ Goto(c, Refused(c))
      <3>1. Hydrated(c) \in Pcs /\ Refused(c) \in Pcs
        BY DEF Hydrated, Refused, Pcs
      <3> QED BY <1>1, <2>1, <3>1, GotoCall
    <2>2. CASE call' = [call EXCEPT ![c].pc = IF mode.redis THEN "fill" ELSE "done", ![c].snap = db]
      <3> DEFINE l == IF mode.redis THEN "fill" ELSE "done"
      <3>1. l \in Pcs /\ l \in {"fill", "done"} /\ (l = "fill" => mode.redis)
        BY DEF Pcs
      <3>2. call' = [call EXCEPT ![c] = [call[c] EXCEPT !.pc = l, !.snap = db]]
        BY <1>1, <2>2
      <3> HIDE DEF l
      <3> DEFINE r == [call[c] EXCEPT !.pc = l, !.snap = db]
      <3>3. r \in CallType /\ r.pc = l /\ r.kind = call[c].kind
        BY <1>1, <3>1 DEF CallType
      <3> HIDE DEF r
      <3> QED BY <1>1, <3>1, <3>2, <3>3 DEF r
    <2> QED BY <2>1, <2>2 DEF HydrateRead
  <1>3. call'[c].pc \in {"done", "retry", "fallback", "fill"}
        /\ (call'[c].pc = "retry" => call[c].kind # "read")
    BY <1>2 DEF Hydrated, Refused
  <1>4. Taken(c)' = Taken(c)
    BY <1>1, <1>3 DEF Taken
  <1>5. Role(c)'
    BY <1>1, <1>2, <1>3 DEF Role, HydrateRead, Hydrated, Refused
  <1> QED BY <1>2, <1>4, <1>5, MoveKeeps DEF HydrateRead

\* A reservation in the copy: what the copy shows is left of the table when everything
\* in flight is done, but for the settlements it does not show yet.
LEMMA CacheTryReserveKeeps ==
    ASSUME QInv, NEW c \in Calls, CacheTryReserve(c)
    PROVE  QInv'
  <1>1. TypeOK /\ Role(c) /\ Covered /\ CacheFollowsTable /\ call[c].pc \in {"try", "retry"}
    BY DEF QInv, CacheTryReserve
  <1>2. mode.redis
    BY <1>1 DEF Role
  <1>3. CASE UNCHANGED cache /\ \E l \in {"done", "hydrate", "fallback"} :
               Goto(c, l) /\ (l = "hydrate" => mode.redis)
    <2>1. PICK l \in {"done", "hydrate", "fallback"} : Goto(c, l)
      BY <1>3
    <2>2. /\ call' \in [Calls -> CallType] /\ call'[c].pc = l
          /\ \A d \in Calls \ {c} : call'[d] = call[d]
      BY <1>1, <2>1, GotoCall DEF Pcs
    <2>3. Taken(c)' = Taken(c)
      BY <1>1, <2>2 DEF Taken
    <2>4. Role(c)'
      BY <1>1, <1>2, <2>2 DEF Role, CacheTryReserve
    <2> QED BY <1>3, <2>2, <2>3, <2>4, MoveKeeps DEF CacheTryReserve
  <1>4. CASE /\ cache.on /\ cache.q >= call[c].amt
             /\ cache' = [cache EXCEPT !.q = @ - call[c].amt] /\ Goto(c, "persist")
    <2>1. /\ call' \in [Calls -> CallType] /\ call'[c].pc = "persist"
          /\ call'[c].amt = call[c].amt /\ \A d \in Calls \ {c} : call'[d] = call[d]
      BY <1>1, <1>4, GotoCall DEF Pcs
    <2>2. call[c].amt \in Int /\ bg[c] \in Int /\ Debit(c) \in Int
      BY <1>1, CallFacts
    <2>3. UNCHANGED <<mode, db, pend, flush, bg, net, spent, torn, ever, lost>>
      BY DEF CacheTryReserve
    <2>4. cache' \in [on : BOOLEAN, q : Int] /\ cache'.q = cache.q - call[c].amt /\ cache'.on = cache.on
      <3>1. cache'.q = cache.q - call[c].amt /\ cache'.on = cache.on
        BY <1>1, <1>4 DEF TypeOK
      <3>2. cache' = [on |-> cache'.on, q |-> cache'.q]
        BY <1>1, <1>4 DEF TypeOK
      <3>3. cache'.on \in BOOLEAN /\ cache'.q \in Int
        BY <1>1, <2>2, <3>1, Facts
      <3> QED BY <3>1, <3>2, <3>3
    <2>5. TypeOK' /\ OneCall(c)
      BY <1>1, <1>2, <2>1, <2>3, <2>4 DEF TypeOK, CallType, OneCall
    <2>6. Taken(c) = 0 /\ Taken(c)' = call[c].amt /\ Debit(c)' = Debit(c)
      BY <1>1, <2>1, <2>3 DEF Taken, Debit
    <2>7. /\ AllTaken' = AllTaken + Taken(c)' - Taken(c)
          /\ AllTaken \in Int /\ AllDebits \in Int /\ AllDeltas \in Int /\ AllDebits <= AllDeltas
          /\ Table \in Int /\ spent \in Int /\ cache.q \in Int
          /\ torn \in BOOLEAN /\ ever \in BOOLEAN /\ cache.on \in BOOLEAN
      BY <1>1, <2>5, Sums, SumsChange, Facts DEF Table, OneCall
    <2>8. Table' = Table
      BY <2>3 DEF Table
    <2>9. \/ ever'
          \/ Table' + spent' - AllTaken' >= 0
      <3> SUFFICES ASSUME ~ ever PROVE Table + spent - AllTaken' >= 0
        BY <2>3, <2>8
      <3>1. cache.q + AllDeltas = Table - AllTaken /\ AllDebits + spent >= 0
        BY <1>1, <1>4, <2>7 DEF Covered, CacheFollowsTable, AllDeltas
      <3> QED BY <1>4, <2>2, <2>6, <2>7, <3>1
    <2>10. InCopy(c)' - InTable(c)' = InCopy(c) - InTable(c)
      BY <2>2, <2>3, <2>4, <2>6, <2>7, <2>8 DEF InCopy, InTable
    <2>11. Role(c)'
      BY <1>1, <1>2, <2>1, <2>3 DEF Role
    <2>12. /\ (torn' => ever') /\ (ever => ever') /\ spent' >= spent
           /\ Debit(c)' + spent' >= Debit(c) + spent
           /\ ~cache'.on \/ torn' \/ (cache.on /\ ~torn)
      BY <1>1, <2>2, <2>3, <2>4, <2>6, <2>7 DEF Covered
    <2> QED BY <1>2, <2>3, <2>5, <2>9, <2>10, <2>11, <2>12, BooksKept
  <1> QED BY <1>2, <1>3, <1>4 DEF CacheTryReserve

\* cacheApplyUserQuotaDelta.
LEMMA DeltaShifts ==
    ASSUME TypeOK, NEW n \in Int, cache' = Delta(n)
    PROVE  /\ cache' \in [on : BOOLEAN, q : Int] /\ cache'.on = cache.on
           /\ cache.on => cache'.q = cache.q + n
  <1>1. cache \in [on : BOOLEAN, q : Int] /\ cache.on \in BOOLEAN /\ cache.q \in Int
    BY Facts DEF TypeOK
  <1>2. CASE cache.on
    <2>1. cache'.q = cache.q + n /\ cache'.on = cache.on
      BY <1>1, <1>2 DEF Delta
    <2>2. cache' = [on |-> cache'.on, q |-> cache'.q]
      BY <1>1, <1>2 DEF Delta
    <2>3. cache'.on \in BOOLEAN /\ cache'.q \in Int
      BY <1>1, <2>1
    <2> QED BY <2>1, <2>2, <2>3
  <1>3. CASE ~ cache.on
    BY <1>1, <1>3 DEF Delta
  <1> QED BY <1>2, <1>3

\* The conditional update of the table.  Beside a copy it tears the books; without one,
\* and with nothing in flight, the table is the balance; without Redis the pending
\* deltas are on the account of the settlements.
LEMMA ReserveDBKeeps ==
    ASSUME QInv, NEW c \in Calls, ReserveDB(c)
    PROVE  QInv'
  <1>1. TypeOK /\ Role(c) /\ Covered /\ call[c].pc = "fallback" /\ Goto(c, "done")
    BY DEF QInv, ReserveDB
  <1>2. /\ call' \in [Calls -> CallType] /\ call'[c].pc = "done" /\ call'[c].amt = call[c].amt
        /\ \A d \in Calls \ {c} : call'[d] = call[d]
    BY <1>1, GotoCall DEF Pcs
  <1>3. UNCHANGED <<mode, cache, pend, flush, bg, spent, lost>>
    BY DEF ReserveDB
  <1>4. Taken(c) = 0 /\ Taken(c)' = 0 /\ Debit(c)' = Debit(c) /\ Role(c)'
    BY <1>1, <1>2, <1>3 DEF Taken, Debit, Role
  <1>5. CASE UNCHANGED <<db, net, torn, ever>>
    BY <1>2, <1>3, <1>4, <1>5, MoveKeeps
  <1>6. CASE /\ db >= call[c].amt /\ db' = db - call[c].amt /\ net' = net - call[c].amt
             /\ IF mode.redis /\ (cache.on \/ ~Settled) THEN Tear ELSE UNCHANGED <<torn, ever>>
    <2>1. /\ call[c].amt \in Int /\ db \in Int /\ net \in Int /\ torn \in BOOLEAN /\ ever \in BOOLEAN
          /\ spent \in Int /\ pend \in Int /\ flush \in Int /\ Debit(c) \in Int
          /\ Below(pend) \in Int /\ Below(flush) \in Int /\ cache.on \in BOOLEAN
          /\ mode.redis \in BOOLEAN /\ AllTaken \in Int
      BY <1>1, CallFacts, Facts, Sums DEF Below
    <2>2. torn' \in BOOLEAN /\ ever' \in BOOLEAN
      BY <1>6, <2>1 DEF Tear
    <2>3. TypeOK' /\ OneCall(c)
      <3>1. db' \in Int /\ net' \in Int
        BY <1>6, <2>1
      <3> QED BY <1>1, <1>2, <1>3, <2>2, <3>1 DEF TypeOK, CallType, OneCall
    <2>4. AllTaken' = AllTaken
      BY <1>1, <1>4, <2>1, <2>3, SumsChange DEF OneCall
    <2>5. (torn' => ever') /\ (ever => ever')
      BY <1>1, <1>6, <2>1 DEF Tear, Covered
    <2>6. ~ cache'.on \/ torn'
      BY <1>1, <1>3, <1>6, <2>1, Facts DEF Tear
    <2>7. ever' \/ Table' + spent' - AllTaken' >= 0
      <3>1. CASE mode.redis /\ (cache.on \/ ~Settled)
        BY <1>6, <3>1 DEF Tear
      <3>2. CASE mode.redis /\ Settled
        <4>1. AllTaken = 0 /\ pend = 0 /\ flush = 0 /\ spent >= 0
          BY <1>1, <3>2, SettledSums DEF Covered
        <4> QED BY <1>3, <1>6, <2>1, <2>4, <4>1 DEF Table
      <3>3. CASE ~ mode.redis
        <4>1. Below(pend) + Below(flush) + spent - AllTaken >= 0
          BY <1>1, <3>3 DEF Covered
        <4>2. Below(pend) <= pend /\ Below(flush) <= flush
          BY <2>1 DEF Below
        <4>3. Table' = (db - call[c].amt) + pend + flush
          BY <1>3, <1>6 DEF Table
        <4> QED BY <1>3, <1>6, <2>1, <2>4, <4>1, <4>2, <4>3
      <3> QED BY <2>1, <3>1, <3>2, <3>3
    <2>8. /\ spent' >= spent /\ Debit(c)' + spent' >= Debit(c) + spent
          /\ Below(pend') + Below(flush') + spent' - Taken(c)'
               >= Below(pend) + Below(flush) + spent - Taken(c)
      BY <1>3, <1>4, <2>1
    <2> QED BY <1>3, <1>4, <2>3, <2>5, <2>6, <2>7, <2>8, BooksKept
  <1> QED BY <1>5, <1>6 DEF ReserveDB

LEMMA PersistKeeps ==
    ASSUME QInv, NEW c \in Calls, Persist(c)
    PROVE  QInv'
  <1>1. TypeOK /\ Role(c) /\ Covered /\ call[c].pc = "persist"
    BY DEF QInv, Persist
  <1>2. UNCHANGED <<mode, cache, flush, bg, spent, torn, ever, lost>> /\ mode.redis
    BY <1>1 DEF Persist, Role
  <1>3. CASE Goto(c, "compensate") /\ UNCHANGED <<db, pend, net>>
    <2>1. /\ call' \in [Calls -> CallType] /\ call'[c].pc = "compensate"
          /\ call'[c].amt = call[c].amt /\ \A d \in Calls \ {c} : call'[d] = call[d]
      BY <1>1, <1>3, GotoCall DEF Pcs
    <2>2. Taken(c)' = Taken(c) /\ Role(c)'
      BY <1>1, <1>2, <2>1 DEF Taken, Role
    <2> QED BY <1>2, <1>3, <2>1, <2>2, MoveKeeps
  <1>4. CASE /\ Goto(c, "done") /\ net' = net - call[c].amt
             /\ \/ mode.batch /\ pend' = pend - call[c].amt /\ UNCHANGED db
                \/ ~mode.batch /\ db' = db - call[c].amt /\ UNCHANGED pend
    <2>1. /\ call' \in [Calls -> CallType] /\ call'[c].pc = "done"
          /\ \A d \in Calls \ {c} : call'[d] = call[d]
      BY <1>1, <1>4, GotoCall DEF Pcs
    <2>2. /\ call[c].amt \in Int /\ db \in Int /\ net \in Int /\ torn \in BOOLEAN /\ ever \in BOOLEAN
          /\ spent \in Int /\ pend \in Int /\ flush \in Int /\ Debit(c) \in Int /\ bg[c] \in Int
          /\ cache.on \in BOOLEAN /\ cache.q \in Int
      BY <1>1, CallFacts, Facts
    <2>3. TypeOK' /\ OneCall(c)
      <3>1. db' \in Int /\ net' \in Int /\ pend' \in Int
        BY <1>4, <2>2
      <3>2. ~mode.batch => pend' = pend
        BY <1>4
      <3> QED BY <1>1, <1>2, <2>1, <3>1, <3>2 DEF TypeOK, CallType, OneCall
    <2>4. Taken(c) = call[c].amt /\ Taken(c)' = 0 /\ Debit(c)' = Debit(c) /\ Role(c)'
      BY <1>1, <1>2, <2>1 DEF Taken, Debit, Role
    <2>5. Table' = Table - call[c].amt /\ Table \in Int
      BY <1>2, <1>4, <2>2 DEF Table
    <2>6. InTable(c)' = InTable(c) /\ InCopy(c)' = InCopy(c) /\ InTable(c) \in Int /\ InCopy(c) \in Int
      BY <1>2, <2>2, <2>4, <2>5 DEF InTable, InCopy
    <2>7. /\ (torn' => ever') /\ (ever => ever') /\ spent' >= spent
          /\ Debit(c)' + spent' >= Debit(c) + spent
      BY <1>1, <1>2, <2>2, <2>4 DEF Covered
    <2>8. \/ ~cache'.on \/ torn'
          \/ cache.on /\ ~torn /\ InCopy(c)' - InTable(c)' = InCopy(c) - InTable(c)
      BY <1>2, <2>2, <2>6
    <2>9. InTable(c)' + spent' >= InTable(c) + spent
      BY <1>2, <2>2, <2>6
    <2> QED BY <1>2, <2>3, <2>4, <2>7, <2>8, <2>9, BooksKept
  <1> QED BY <1>3, <1>4 DEF Persist

LEMMA CompensateKeeps ==
    ASSUME QInv, NEW c \in Calls, Compensate(c)
    PROVE  QInv'
  <1>1. TypeOK /\ Role(c) /\ Covered /\ call[c].pc = "compensate" /\ Goto(c, "done")
    BY DEF QInv, Compensate
  <1>2. UNCHANGED <<mode, db, pend, flush, bg, net, spent, lost>> /\ mode.redis
    BY <1>1 DEF Compensate, Role
  <1>3. /\ call' \in [Calls -> CallType] /\ call'[c].pc = "done"
        /\ \A d \in Calls \ {c} : call'[d] = call[d]
    BY <1>1, GotoCall DEF Pcs
  <1>4. /\ call[c].amt \in Nat /\ torn \in BOOLEAN /\ ever \in BOOLEAN /\ db \in Int
        /\ spent \in Int /\ pend \in Int /\ flush \in Int /\ Debit(c) \in Int /\ bg[c] \in Int
        /\ cache.on \in BOOLEAN /\ cache.q \in Int
    BY <1>1, CallFacts, Facts
  <1>5. /\ cache' \in [on : BOOLEAN, q : Int] /\ cache'.on = cache.on
        /\ torn' \in BOOLEAN /\ ever' \in BOOLEAN /\ (torn' => ever') /\ (ever => ever')
        /\ torn' \/ (torn' = torn /\ (cache.on => cache'.q = cache.q + call[c].amt))
    <2>1. CASE cache' = Delta(call[c].amt) /\ UNCHANGED <<torn, ever>>
      <3>1. call[c].amt \in Int
        BY <1>4
      <3>2. /\ cache' \in [on : BOOLEAN, q : Int] /\ cache'.on = cache.on
            /\ cache.on => cache'.q = cache.q + call[c].amt
        BY <1>1, <2>1, <3>1, DeltaShifts
      <3> QED BY <1>1, <1>4, <2>1, <3>2 DEF Covered
    <2>2. CASE UNCHANGED cache /\ Tear
      BY <1>1, <1>4, <2>2 DEF Tear, TypeOK
    <2> QED BY <2>1, <2>2 DEF Compensate
  <1>6. TypeOK' /\ OneCall(c)
    BY <1>1, <1>2, <1>3, <1>5 DEF TypeOK, CallType, OneCall
  <1>7. Taken(c) = call[c].amt /\ Taken(c)' = 0 /\ Debit(c)' = Debit(c) /\ Role(c)'
    BY <1>1, <1>2, <1>3 DEF Taken, Debit, Role
  <1>8. Table' = Table /\ Table \in Int
    BY <1>2, <1>4 DEF Table
  <1>9. spent' >= spent /\ Debit(c)' + spent' >= Debit(c) + spent
    BY <1>2, <1>4, <1>7
  <1>10. InTable(c)' + spent' >= InTable(c) + spent
    BY <1>2, <1>4, <1>7, <1>8 DEF InTable
  <1>11. \/ ~cache'.on \/ torn'
         \/ cache.on /\ ~torn /\ InCopy(c)' - InTable(c)' = InCopy(c) - InTable(c)
    BY <1>2, <1>4, <1>5, <1>7, <1>8 DEF InTable, InCopy
  <1> QED BY <1>2, <1>5, <1>6, <1>7, <1>9, <1>10, <1>11, BooksKept

\* A copy that is made of the balance, with nothing in flight, is whole.
LEMMA FillKeeps ==
    ASSUME QInv, NEW c \in Calls, Fill(c)
    PROVE  QInv'
  <1>1. TypeOK /\ Role(c) /\ Covered /\ call[c].pc = "fill"
    BY DEF QInv, Fill
  <1>2. UNCHANGED <<mode, db, pend, flush, bg, net, spent, lost>> /\ mode.redis
    BY <1>1 DEF Fill, Role
  <1>3. PICK l \in {"done", "retry", "fallback"} : Goto(c, l)
    BY DEF Fill, Hydrated, Refused
  <1>4. /\ call' \in [Calls -> CallType] /\ call'[c].pc = l
        /\ \A d \in Calls \ {c} : call'[d] = call[d]
    BY <1>1, <1>3, GotoCall DEF Pcs
  <1>5. Taken(c) = 0 /\ Taken(c)' = 0 /\ Debit(c)' = Debit(c) /\ Role(c)'
    BY <1>1, <1>2, <1>4 DEF Taken, Debit, Role
  <1>6. CASE UNCHANGED <<cache, torn, ever>>
    BY <1>2, <1>4, <1>5, <1>6, MoveKeeps
  <1>7. CASE /\ cache' = [on |-> TRUE, q |-> call[c].snap]
             /\ torn' = ~Quiet(c) /\ ever' = (ever \/ ~Quiet(c))
    <2>1. /\ call[c].snap \in Int /\ torn \in BOOLEAN /\ ever \in BOOLEAN /\ db \in Int
          /\ spent \in Int /\ pend \in Int /\ flush \in Int /\ Debit(c) \in Int /\ bg[c] \in Int
      BY <1>1, CallFacts, Facts
    <2>2. Table' = Table /\ Table \in Int
      BY <1>2, <2>1 DEF Table
    <2>3. TypeOK' /\ OneCall(c)
      <3>1. cache' \in [on : BOOLEAN, q : Int] /\ torn' \in BOOLEAN /\ ever' \in BOOLEAN
        BY <1>7, <2>1
      <3> QED BY <1>1, <1>2, <1>4, <3>1 DEF TypeOK, CallType, OneCall
    <2>4. /\ AllTaken' = AllTaken /\ AllDeltas' = AllDeltas /\ AllTaken \in Int
      <3>1. /\ AllTaken' = AllTaken + Taken(c)' - Taken(c)
            /\ AllDeltas' = AllDeltas + bg'[c] - bg[c]
            /\ AllTaken \in Int /\ AllDeltas \in Int
        BY <1>1, <2>3, SumsChange, Sums DEF OneCall
      <3> QED BY <1>2, <1>5, <2>1, <3>1
    <2>5. torn' \/ cache'.q + AllDeltas' = Table' - AllTaken'
      <3> SUFFICES ASSUME Quiet(c) PROVE cache'.q + AllDeltas = Table - AllTaken
        BY <1>7, <2>2, <2>4
      <3>1. call[c].snap = db /\ AllTaken = 0 /\ AllDeltas = 0 /\ pend = 0 /\ flush = 0
        BY <1>1, SettledSums DEF Quiet
      <3> QED BY <1>7, <2>1, <3>1 DEF Table
    <2>6. (torn' => ever') /\ (ever => ever')
      BY <1>7, <2>1
    <2>7. spent' >= spent /\ Debit(c)' + spent' >= Debit(c) + spent
      BY <1>2, <1>5, <2>1
    <2>8. InTable(c)' + spent' >= InTable(c) + spent
      BY <1>2, <1>5, <2>1, <2>2 DEF InTable
    <2> QED BY <1>2, <1>5, <2>3, <2>5, <2>6, <2>7, <2>8, BooksKept
  <1> QED BY <1>6, <1>7 DEF Fill

-----------------------------------------------------------------------------
(* Refunds and settlements.                                                *)

LEMMA IncreaseKeeps ==
    ASSUME QInv, NEW c \in Calls, "increase" \in Kinds, NEW amt \in Amounts, Increase(c, amt)
    PROVE  QInv'
  <1>1. TypeOK /\ Role(c) /\ Covered /\ call[c].pc = "idle" /\ call \in [Calls -> CallType]
    BY Facts DEF QInv, Increase
  <1>2. UNCHANGED <<mode, cache, flush, spent, torn, ever, lost>>
    BY DEF Increase
  <1> DEFINE r == [pc |-> "done", kind |-> "increase", amt |-> amt, snap |-> 0]
  <1>3. r \in CallType /\ r.pc = "done" /\ call' = [call EXCEPT ![c] = r]
    BY DEF CallType, Pcs, Increase
  <1> HIDE DEF r
  <1>4. /\ call' \in [Calls -> CallType] /\ call'[c].pc = "done"
        /\ \A d \in Calls \ {c} : call'[d] = call[d]
    BY <1>1, <1>3
  <1>5. /\ amt \in Nat /\ torn \in BOOLEAN /\ ever \in BOOLEAN /\ db \in Int /\ net \in Int
        /\ spent \in Int /\ pend \in Int /\ flush \in Int /\ bg \in [Calls -> Int] /\ bg[c] = 0
        /\ cache.on \in BOOLEAN /\ cache.q \in Int /\ mode.redis \in BOOLEAN
        /\ Taken(c) = 0 /\ Taken(c)' = 0 /\ (cache.on => mode.redis)
    BY <1>1, <1>4, Facts, AmountsNat DEF Role, Taken
  <1>6. CASE UNCHANGED <<db, pend, bg, net>>
    <2>1. Role(c)'
      BY <1>1, <1>2, <1>4, <1>6 DEF Role
    <2> QED BY <1>2, <1>4, <1>5, <1>6, <2>1, MoveKeeps
  <1>7. CASE /\ \/ mode.batch /\ pend' = pend + amt /\ UNCHANGED db
                \/ db' = db + amt /\ UNCHANGED pend
             /\ bg' = [bg EXCEPT ![c] = IF mode.redis THEN amt ELSE 0] /\ net' = net + amt
    <2>1. /\ bg' \in [Calls -> Int] /\ bg'[c] = (IF mode.redis THEN amt ELSE 0)
          /\ \A d \in Calls \ {c} : bg'[d] = bg[d]
      BY <1>5, <1>7
    <2>2. db' \in Int /\ pend' \in Int /\ net' \in Int /\ pend' >= pend /\ (~mode.batch => pend' = pend)
      BY <1>5, <1>7
    <2>3. TypeOK' /\ OneCall(c)
      BY <1>1, <1>2, <1>4, <2>1, <2>2 DEF TypeOK, CallType, OneCall
    <2>4. Role(c)'
      BY <1>2, <1>4, <2>1 DEF Role
    <2>5. Table' = Table + amt /\ Table \in Int
      BY <1>2, <1>5, <1>7 DEF Table
    <2>6. Debit(c) = 0 /\ Debit(c)' = 0
      BY <1>5, <2>1 DEF Debit
    <2>7. Below(pend') >= Below(pend) /\ Below(pend) \in Int /\ Below(pend') \in Int /\ Below(flush) \in Int
      BY <1>5, <2>2 DEF Below
    <2>8. /\ (torn' => ever') /\ (ever => ever') /\ spent' >= spent
          /\ Debit(c)' + spent' >= Debit(c) + spent
          /\ Below(pend') + Below(flush') + spent' - Taken(c)'
               >= Below(pend) + Below(flush) + spent - Taken(c)
      BY <1>1, <1>2, <1>5, <2>6, <2>7 DEF Covered
    <2>9. InTable(c)' + spent' >= InTable(c) + spent
      BY <1>2, <1>5, <2>5 DEF InTable
    <2>10. \/ ~cache'.on \/ torn'
           \/ cache.on /\ ~torn /\ InCopy(c)' - InTable(c)' = InCopy(c) - InTable(c)
      BY <1>2, <1>5, <2>1, <2>5 DEF InTable, InCopy
    <2> QED BY <1>2, <2>3, <2>4, <2>8, <2>9, <2>10, BooksKept
  <1> QED BY <1>6, <1>7 DEF Increase

LEMMA StartDecreaseKeeps ==
    ASSUME QInv, NEW c \in Calls, "decrease" \in Kinds, NEW amt \in Amounts, StartDecrease(c, amt)
    PROVE  QInv'
  <1>1. TypeOK /\ Role(c) /\ Covered /\ call[c].pc = "idle" /\ call \in [Calls -> CallType]
    BY Facts DEF QInv, StartDecrease
  <1>2. UNCHANGED <<mode, db, cache, pend, flush, net, torn, ever, lost>> /\ spent' = spent + amt
    BY DEF StartDecrease
  <1> DEFINE r == [pc |-> "dec", kind |-> "decrease", amt |-> amt, snap |-> 0]
  <1>3. r \in CallType /\ r.pc = "dec" /\ r.amt = amt /\ call' = [call EXCEPT ![c] = r]
    BY DEF CallType, Pcs, StartDecrease
  <1> HIDE DEF r
  <1>4. /\ call' \in [Calls -> CallType] /\ call'[c].pc = "dec" /\ call'[c].amt = amt
        /\ \A d \in Calls \ {c} : call'[d] = call[d]
    BY <1>1, <1>3
  <1>5. /\ amt \in Nat /\ torn \in BOOLEAN /\ ever \in BOOLEAN /\ db \in Int
        /\ spent \in Int /\ pend \in Int /\ flush \in Int /\ bg \in [Calls -> Int] /\ bg[c] = 0
        /\ cache.on \in BOOLEAN /\ cache.q \in Int /\ mode.redis \in BOOLEAN
        /\ Taken(c) = 0 /\ Taken(c)' = amt /\ (cache.on => mode.redis)
        /\ Below(pend) \in Int /\ Below(flush) \in Int
    BY <1>1, <1>4, Facts, AmountsNat DEF Role, Taken, Below
  <1>6. /\ bg' \in [Calls -> Int] /\ bg'[c] = (IF mode.redis THEN -amt ELSE 0)
        /\ \A d \in Calls \ {c} : bg'[d] = bg[d]
    BY <1>5 DEF StartDecrease
  <1>7. TypeOK' /\ OneCall(c)
    <2>1. spent' \in Int
      BY <1>2, <1>5
    <2> QED BY <1>1, <1>2, <1>4, <1>6, <2>1 DEF TypeOK, CallType, OneCall
  <1>8. Role(c)'
    BY <1>2, <1>4, <1>6 DEF Role
  <1>9. Table' = Table /\ Table \in Int
    BY <1>2, <1>5 DEF Table
  <1>10. Debit(c) = 0 /\ Debit(c)' \in {0, -amt}
    BY <1>5, <1>6 DEF Debit
  <1>11. /\ (torn' => ever') /\ (ever => ever') /\ spent' >= spent
         /\ Debit(c)' + spent' >= Debit(c) + spent
         /\ Below(pend') + Below(flush') + spent' - Taken(c)'
              >= Below(pend) + Below(flush) + spent - Taken(c)
    BY <1>1, <1>2, <1>5, <1>10 DEF Covered
  <1>12. InTable(c)' + spent' >= InTable(c) + spent
    BY <1>2, <1>5, <1>9 DEF InTable
  <1>13. \/ ~cache'.on \/ torn'
         \/ cache.on /\ ~torn /\ InCopy(c)' - InTable(c)' = InCopy(c) - InTable(c)
    BY <1>2, <1>5, <1>6, <1>9 DEF InTable, InCopy
  <1> QED BY <1>2, <1>7, <1>8, <1>11, <1>12, <1>13, BooksKept

LEMMA DecreaseKeeps ==
    ASSUME QInv, NEW c \in Calls, Decrease(c)
    PROVE  QInv'
  <1>1. TypeOK /\ Role(c) /\ Covered /\ call[c].pc = "dec" /\ Goto(c, "done")
    BY DEF QInv, Decrease
  <1>2. UNCHANGED <<mode, cache, flush, bg, spent, lost>>
    BY DEF Decrease
  <1>3. /\ call' \in [Calls -> CallType] /\ call'[c].pc = "done"
        /\ \A d \in Calls \ {c} : call'[d] = call[d]
    BY <1>1, GotoCall DEF Pcs
  <1>4. /\ call[c].amt \in Nat /\ torn \in BOOLEAN /\ ever \in BOOLEAN /\ db \in Int /\ net \in Int
        /\ spent \in Int /\ pend \in Int /\ flush \in Int /\ Debit(c) \in Int /\ bg[c] \in Int
        /\ cache.on \in BOOLEAN /\ cache.q \in Int
        /\ Below(pend) \in Int /\ Below(flush) \in Int
    BY <1>1, CallFacts, Facts DEF Below
  <1>5. Taken(c) = call[c].amt /\ Taken(c)' = 0 /\ Debit(c)' = Debit(c) /\ Role(c)'
    BY <1>1, <1>2, <1>3 DEF Taken, Debit, Role
  <1>6. /\ \/ pend' = pend - call[c].amt /\ db' = db /\ net' = net - call[c].amt /\ mode.batch
           \/ pend' = pend /\ db' = db - call[c].amt /\ net' = net - call[c].amt
           \/ pend' = pend /\ db' = db /\ net' = net /\ Tear
        /\ Tear \/ UNCHANGED <<torn, ever>>
    BY DEF Decrease
  <1>7. /\ db' \in Int /\ pend' \in Int /\ net' \in Int /\ (~mode.batch => pend' = pend)
        /\ torn' \in BOOLEAN /\ ever' \in BOOLEAN /\ (torn' => ever') /\ (ever => ever')
    <2>1. db' \in Int /\ pend' \in Int /\ net' \in Int
      BY <1>4, <1>6
    <2>2. ~mode.batch => pend' = pend
      BY <1>6
    <2>3. torn => ever
      BY <1>1 DEF Covered
    <2>4. CASE Tear
      BY <2>1, <2>2, <2>4 DEF Tear
    <2>5. CASE UNCHANGED <<torn, ever>>
      BY <1>4, <2>1, <2>2, <2>3, <2>5
    <2> QED BY <1>6, <2>4, <2>5
  <1>8. TypeOK' /\ OneCall(c)
    BY <1>1, <1>2, <1>3, <1>7 DEF TypeOK, CallType, OneCall
  <1>9. /\ Table \in Int /\ Table' \in {Table, Table - call[c].amt}
        /\ Table' = Table - call[c].amt \/ torn'
    BY <1>2, <1>4, <1>6 DEF Table, Tear
  <1>10. Below(pend') + call[c].amt >= Below(pend) /\ Below(pend') \in Int
    BY <1>4, <1>6 DEF Below
  <1>11. /\ spent' >= spent /\ Debit(c)' + spent' >= Debit(c) + spent
         /\ Below(pend') + Below(flush') + spent' - Taken(c)'
              >= Below(pend) + Below(flush) + spent - Taken(c)
    BY <1>2, <1>4, <1>5, <1>10
  <1>12. InTable(c)' + spent' >= InTable(c) + spent
    BY <1>2, <1>4, <1>5, <1>9 DEF InTable
  <1>13. \/ ~cache'.on \/ torn'
         \/ cache.on /\ ~torn /\ InCopy(c)' - InTable(c)' = InCopy(c) - InTable(c)
    <2> SUFFICES ASSUME cache'.on, ~ torn'
                 PROVE  cache.on /\ ~torn /\ InCopy(c)' - InTable(c)' = InCopy(c) - InTable(c)
      OBVIOUS
    <2>1. cache.on /\ ~ torn
      BY <1>2, <1>6 DEF Tear
    <2>2. InCopy(c)' = InCopy(c) /\ InTable(c)' = InTable(c)
      BY <1>2, <1>4, <1>5, <1>9 DEF InTable, InCopy
    <2> QED BY <2>1, <2>2
  <1> QED BY <1>2, <1>5, <1>7, <1>8, <1>11, <1>12, <1>13, BooksKept

\* The goroutine that brings the copy up to date.
LEMMA CacheDeltaKeeps ==
    ASSUME QInv, NEW c \in Calls, CacheDelta(c)
    PROVE  QInv'
  <1>1. TypeOK /\ Role(c) /\ Covered /\ bg' = [bg EXCEPT ![c] = 0]
    BY DEF QInv, CacheDelta
  <1>2. UNCHANGED <<mode, db, pend, flush, call, net, spent, lost>>
    BY DEF CacheDelta
  <1>3. /\ torn \in BOOLEAN /\ ever \in BOOLEAN /\ db \in Int /\ Taken(c) \in Int
        /\ spent \in Int /\ pend \in Int /\ flush \in Int /\ Debit(c) \in Int /\ bg[c] \in Int
        /\ cache.on \in BOOLEAN /\ cache.q \in Int /\ bg \in [Calls -> Int] /\ Debit(c) <= 0
        /\ Below(pend) \in Int /\ Below(flush) \in Int
    BY <1>1, CallFacts, Facts DEF Below
  <1>4. /\ cache' \in [on : BOOLEAN, q : Int] /\ cache'.on = cache.on
        /\ torn' \in BOOLEAN /\ ever' \in BOOLEAN /\ (torn' => ever') /\ (ever => ever')
        /\ torn' \/ (torn' = torn /\ (cache.on => cache'.q = cache.q + bg[c]))
    <2>1. CASE cache' = Delta(bg[c]) /\ UNCHANGED <<torn, ever>>
      <3>1. /\ cache' \in [on : BOOLEAN, q : Int] /\ cache'.on = cache.on
            /\ cache.on => cache'.q = cache.q + bg[c]
        BY <1>1, <1>3, <2>1, DeltaShifts
      <3> QED BY <1>1, <1>3, <2>1, <3>1 DEF Covered
    <2>2. CASE UNCHANGED cache /\ Tear
      BY <1>1, <1>3, <2>2 DEF Tear, TypeOK
    <2> QED BY <2>1, <2>2 DEF CacheDelta
  <1>5. bg' \in [Calls -> Int] /\ bg'[c] = 0 /\ \A d \in Calls \ {c} : bg'[d] = bg[d]
    BY <1>1, <1>3
  <1>6. TypeOK' /\ OneCall(c)
    BY <1>1, <1>2, <1>4, <1>5 DEF TypeOK, OneCall
  <1>7. Taken(c)' = Taken(c) /\ Debit(c)' = 0 /\ Role(c)'
    BY <1>1, <1>2, <1>5 DEF Taken, Debit, Role
  <1>8. Table' = Table /\ Table \in Int
    BY <1>2, <1>3 DEF Table
  <1>9. /\ spent' >= spent /\ Debit(c)' + spent' >= Debit(c) + spent
        /\ Below(pend') + Below(flush') + spent' - Taken(c)'
             >= Below(pend) + Below(flush) + spent - Taken(c)
    BY <1>2, <1>3, <1>7
  <1>10. InTable(c)' + spent' >= InTable(c) + spent
    BY <1>2, <1>3, <1>7, <1>8 DEF InTable
  <1>11. \/ ~cache'.on \/ torn'
         \/ cache.on /\ ~torn /\ InCopy(c)' - InTable(c)' = InCopy(c) - InTable(c)
    BY <1>2, <1>3, <1>4, <1>5, <1>7, <1>8 DEF InTable, InCopy
  <1> QED BY <1>2, <1>4, <1>6, <1>7, <1>9, <1>10, <1>11, BooksKept

-----------------------------------------------------------------------------
(* The batch updater, the expiry of the copy, and the death of the process. *)

\* A step that leaves the calls alone.
LEMMA CallsApart ==
    ASSUME call' = call, bg' = bg
    PROVE  /\ AllTaken' = AllTaken /\ AllDebits' = AllDebits /\ AllDeltas' = AllDeltas
           /\ mode' = mode => \A c \in Calls : Role(c) => Role(c)'
  BY DEF AllTaken, AllDebits, AllDeltas, Taken, Debit, Role

LEMMA ExpireKeeps ==
    ASSUME QInv, Expire
    PROVE  QInv'
  <1>1. TypeOK /\ Covered /\ torn' = FALSE /\ cache' = NoCache
        /\ UNCHANGED <<mode, db, pend, flush, call, bg, net, spent, ever, lost>>
    BY DEF QInv, Expire
  <1>2. TypeOK'
    <2>1. NoCache \in [on : BOOLEAN, q : Int] /\ ~ NoCache.on
      BY DEF NoCache
    <2>2. torn' \in BOOLEAN
      BY <1>1
    <2> QED BY <1>1, <2>1, <2>2 DEF TypeOK
  <1>3. CacheFollowsTable'
    BY <1>1 DEF CacheFollowsTable, NoCache
  <1>4. Covered'
    BY <1>1, CallsApart DEF Covered, Table, Below
  <1> QED BY <1>1, <1>2, <1>3, <1>4, CallsApart DEF QInv

LEMMA FlushKeeps ==
    ASSUME QInv, SwapOut \/ WriteDeltas
    PROVE  QInv'
  <1>1. TypeOK /\ Covered /\ CacheFollowsTable /\ UNCHANGED <<mode, cache, call, bg, net, spent>>
    BY DEF QInv, SwapOut, WriteDeltas
  <1>2. /\ db \in Int /\ pend \in Int /\ flush \in Int /\ spent \in Int /\ AllTaken \in Int
        /\ torn \in BOOLEAN /\ ever \in BOOLEAN /\ lost \in BOOLEAN
        /\ (~mode.batch => pend = 0 /\ flush = 0)
    BY <1>1, Facts, Sums
  <1>3. \/ flush = 0 /\ flush' = pend /\ pend' = 0 /\ db' = db /\ UNCHANGED <<torn, ever, lost>>
        \/ flush' = 0 /\ pend' = pend /\ db' = db + flush /\ UNCHANGED <<torn, ever, lost>>
        \/ flush' = 0 /\ pend' = pend /\ db' = db /\ lost' = TRUE /\ Tear
    BY DEF SwapOut, WriteDeltas
  <1>4. db' \in Int /\ pend' \in Int /\ flush' \in Int /\ (~mode.batch => pend' = 0 /\ flush' = 0)
    BY <1>2, <1>3
  <1>5. /\ torn' \in BOOLEAN /\ ever' \in BOOLEAN /\ lost' \in BOOLEAN
        /\ (torn' => ever') /\ (ever => ever') /\ (torn => torn')
    <2>1. torn => ever
      BY <1>1 DEF Covered
    <2>2. CASE UNCHANGED <<torn, ever, lost>>
      BY <1>2, <2>1, <2>2
    <2>3. CASE lost' = TRUE /\ Tear
      BY <2>3 DEF Tear
    <2> QED BY <1>3, <2>2, <2>3
  <1>6. TypeOK'
    BY <1>1, <1>4, <1>5 DEF TypeOK
  <1>7. Table \in Int /\ (torn' \/ Table' = Table)
    BY <1>2, <1>3 DEF Table, Tear
  <1>8. CacheFollowsTable'
    <2> SUFFICES ASSUME cache'.on, ~ torn' PROVE cache'.q + AllDeltas' = Table' - AllTaken'
      BY DEF CacheFollowsTable, AllDeltas
    <2>1. cache.q + AllDeltas = Table - AllTaken
      BY <1>1, <1>5 DEF CacheFollowsTable, AllDeltas
    <2> QED BY <1>1, <1>7, <2>1, CallsApart
  <1>9. Covered'
    <2>1. AllTaken' = AllTaken /\ AllDebits' = AllDebits /\ spent' = spent
      BY <1>1, CallsApart
    <2>2. Below(pend') + Below(flush') >= Below(pend) + Below(flush)
      BY <1>2, <1>3 DEF Below
    <2>3. Below(pend) \in Int /\ Below(flush) \in Int /\ Below(pend') \in Int /\ Below(flush') \in Int
      BY <1>2, <1>4 DEF Below
    <2>4. ~mode.redis => Below(pend') + Below(flush') + spent' - AllTaken' >= 0
      BY <1>1, <1>2, <2>1, <2>2, <2>3 DEF Covered
    <2>5. ~ever' => Table' + spent' - AllTaken' >= 0
      BY <1>1, <1>5, <1>7, <2>1 DEF Covered
    <2>6. (torn' => ever') /\ spent' >= 0 /\ AllDebits' + spent' >= 0
      BY <1>1, <1>5, <2>1 DEF Covered
    <2> QED BY <1>1, <2>4, <2>5, <2>6 DEF Covered, Below
  <1> QED BY <1>1, <1>6, <1>8, <1>9, CallsApart DEF QInv

\* With something in flight a crash tears the copy; without, it changes nothing.
LEMMA CrashKeeps ==
    ASSUME QInv, Crash
    PROVE  QInv'
  <1>1. /\ TypeOK /\ Covered /\ CacheFollowsTable /\ UNCHANGED <<mode, db, cache, net, spent>>
        /\ pend' = 0 /\ flush' = 0 /\ bg' = [c \in Calls |-> 0]
    BY DEF QInv, Crash
  <1>2. /\ db \in Int /\ pend \in Int /\ flush \in Int /\ spent \in Int /\ AllTaken \in Int
        /\ torn \in BOOLEAN /\ ever \in BOOLEAN /\ lost \in BOOLEAN /\ cache.q \in Int
        /\ call \in [Calls -> CallType]
    BY <1>1, Facts, Sums
  <1>3. torn' = (torn \/ ~Settled) /\ ever' = (ever \/ torn') /\ lost' = (lost \/ pend # 0 \/ flush # 0)
    BY DEF Crash
  <1>4. torn' \in BOOLEAN /\ ever' \in BOOLEAN /\ lost' \in BOOLEAN /\ (torn' => ever')
    BY <1>2, <1>3
  <1>5. call' \in [Calls -> CallType] /\ \A c \in Calls : call'[c].pc \in {"idle", "done"}
    <2>1. NoCall \in CallType /\ NoCall.pc = "idle"
      BY DEF NoCall, CallType, Pcs
    <2>2. ASSUME NEW c \in Calls
          PROVE  [call[c] EXCEPT !.pc = "done"] \in CallType /\ [call[c] EXCEPT !.pc = "done"].pc = "done"
      BY <1>2 DEF CallType, Pcs
    <2> DEFINE s(c) == IF call[c].pc = "idle" THEN NoCall ELSE [call[c] EXCEPT !.pc = "done"]
    <2>3. \A c \in Calls : s(c) \in CallType /\ s(c).pc \in {"idle", "done"}
      BY <2>1, <2>2
    <2>4. call' = [c \in Calls |-> s(c)]
      BY DEF Crash
    <2> HIDE DEF s
    <2> QED BY <2>3, <2>4
  <1>6. TypeOK'
    BY <1>1, <1>4, <1>5 DEF TypeOK, CallType
  <1>7. AllTaken' = 0 /\ AllDeltas' = 0 /\ AllDebits' = 0
    <2>1. \A c \in Calls : Taken(c)' = 0 /\ Debit(c)' = 0 /\ bg'[c] = 0
      BY <1>1, <1>5 DEF Taken, Debit
    <2>2. IsFiniteSet(Calls)
      BY ConstantsAssumption
    <2> DEFINE f == [c \in Calls |-> Taken(c)']
               g == [c \in Calls |-> Debit(c)']
               h == bg'
    <2>3. \A c \in Calls : f[c] = 0 /\ g[c] = 0 /\ h[c] = 0
      BY <2>1
    <2>4. /\ AllTaken' = SumFunctionOnSet(f, Calls) /\ AllDebits' = SumFunctionOnSet(g, Calls)
          /\ AllDeltas' = SumFunctionOnSet(h, Calls)
      BY DEF AllTaken, AllDebits, AllDeltas
    <2> HIDE DEF f, g, h
    <2> QED BY <2>2, <2>3, <2>4, SumZero
  <1>8. Settled => AllTaken = 0 /\ AllDeltas = 0 /\ Table = db
    BY <1>1, <1>2, SettledSums DEF Table
  <1>9. Table' = db
    BY <1>1, <1>2 DEF Table
  <1>10. CacheFollowsTable'
    <2> SUFFICES ASSUME cache'.on, ~ torn' PROVE cache'.q + AllDeltas' = Table' - AllTaken'
      BY DEF CacheFollowsTable, AllDeltas
    <2>1. Settled /\ cache.q + AllDeltas = Table - AllTaken
      BY <1>1, <1>3 DEF CacheFollowsTable, AllDeltas
    <2> QED BY <1>1, <1>2, <1>7, <1>8, <1>9, <2>1
  <1>11. Covered'
    <2>1. spent' = spent /\ spent >= 0
      BY <1>1 DEF Covered
    <2>2. ~ever' => Table' + spent' - AllTaken' >= 0
      <3> SUFFICES ASSUME ~ ever' PROVE Table' + spent' - AllTaken' >= 0
        OBVIOUS
      <3>1. Settled /\ Table + spent - AllTaken >= 0
        BY <1>1, <1>3 DEF Covered
      <3> QED BY <1>2, <1>7, <1>8, <1>9, <2>1, <3>1
    <2>3. Below(pend') = 0 /\ Below(flush') = 0
      BY <1>1 DEF Below
    <2> QED BY <1>2, <1>4, <1>7, <2>1, <2>2, <2>3 DEF Covered, Below
  <1>12. \A c \in Calls : Role(c)'
    BY <1>1, <1>5 DEF Role
  <1> QED BY <1>6, <1>10, <1>11, <1>12 DEF QInv

-----------------------------------------------------------------------------
LEMMA QuotaInit == Init => QInv
  <1> SUFFICES ASSUME Init PROVE QInv
    OBVIOUS
  <1>1. NoCall \in CallType /\ NoCall.pc = "idle"
    BY DEF NoCall, CallType, Pcs
  <1>2. call = [c \in Calls |-> NoCall] /\ bg = [c \in Calls |-> 0]
    BY DEF Init
  <1>3. call \in [Calls -> CallType] /\ \A c \in Calls : call[c].pc = "idle"
    BY <1>1, <1>2
  <1>4. InitQuota \in Nat /\ IsFiniteSet(Calls)
    BY ConstantsAssumption
  <1>5. TypeOK
    <2>1. cache \in [on : BOOLEAN, q : Int] /\ ~ cache.on
      BY DEF Init, NoCache
    <2>2. bg \in [Calls -> Int] /\ {db, pend, flush, net, spent} \subseteq Int
      BY <1>2, <1>4 DEF Init
    <2>3. mode \in Modes /\ pend = 0 /\ flush = 0 /\ {torn, ever, lost} \subseteq BOOLEAN
      BY DEF Init
    <2> QED BY <1>3, <2>1, <2>2, <2>3 DEF TypeOK, CallType
  <1>6. \A c \in Calls : Role(c) /\ Taken(c) = 0 /\ Debit(c) = 0 /\ bg[c] = 0
    BY <1>2, <1>3 DEF Role, Taken, Debit
  <1>7. AllTaken = 0 /\ AllDebits = 0
    <2> DEFINE f == [c \in Calls |-> Taken(c)]
               g == [c \in Calls |-> Debit(c)]
    <2>1. \A c \in Calls : f[c] = 0 /\ g[c] = 0
      BY <1>6
    <2>2. AllTaken = SumFunctionOnSet(f, Calls) /\ AllDebits = SumFunctionOnSet(g, Calls)
      BY DEF AllTaken, AllDebits
    <2> HIDE DEF f, g
    <2> QED BY <1>4, <2>1, <2>2, SumZero
  <1>8. CacheFollowsTable
    BY DEF Init, NoCache, CacheFollowsTable
  <1>9. Covered
    BY <1>4, <1>7 DEF Init, Covered, Below, Table
  <1> QED BY <1>5, <1>6, <1>8, <1>9 DEF QInv

LEMMA QuotaNext == QInv /\ [Next]_vars => QInv'
  <1> SUFFICES ASSUME QInv, [Next]_vars PROVE QInv'
    OBVIOUS
  <1>1. CASE UNCHANGED vars
    BY <1>1 DEF vars, QInv, TypeOK, Role, CacheFollowsTable, Covered, Table, AllTaken, Taken,
                AllDebits, Debit, Below
  <1>2. ASSUME NEW c \in Calls, Step(c) PROVE QInv'
    BY <1>2, CacheTryReserveKeeps, ReserveDBKeeps, PersistKeeps, CompensateKeeps,
       HydrateReadKeeps, FillKeeps, DecreaseKeeps DEF Step
  <1> QED
    BY <1>1, <1>2, CacheDeltaKeeps, StartKeeps, IncreaseKeeps, StartDecreaseKeeps, FlushKeeps,
       ExpireKeeps, CrashKeeps DEF Next

\* The books of a balance: what the copy, the table, the pending deltas and the calls in
\* flight add up to, in every configuration and under every fault.
THEOREM QuotaBooks == Spec => []QInv
  BY QuotaInit, QuotaNext, PTL DEF Spec

\* The balance, its copy and the calls keep their types; without Redis there is no copy,
\* without batch updates no pending delta.
THEOREM QuotaTypeCorrect == Spec => []TypeOK
  <1>1. QInv => TypeOK
    BY DEF QInv
  <1> QED BY <1>1, QuotaBooks, PTL

\* A copy that was made of the balance follows it: with any number of calls of any kind,
\* the batch updater and any fault, it differs from the table only by what is in flight.
THEOREM CacheFollowsTableHolds == Spec => []CacheFollowsTable
  <1>1. QInv => CacheFollowsTable
    BY DEF QInv
  <1> QED BY <1>1, QuotaBooks, PTL

\* Reservations alone never overdraw a wallet whose copies were whole.
THEOREM ReservationsCoveredHolds == Spec => []ReservationsCovered
  <1>1. QInv => ReservationsCovered
    <2> SUFFICES ASSUME QInv, ~ ever PROVE Table + spent >= 0
      BY DEF ReservationsCovered
    <2>1. Table + spent - AllTaken >= 0 /\ AllTaken \in Nat /\ Table \in Int /\ spent \in Int
      BY Sums, Facts DEF QInv, Covered, Table
    <2> QED BY <2>1
  <1> QED BY <1>1, QuotaBooks, PTL
=============================================================================
