---------------------------- MODULE QuotaReserve ----------------------------
(***************************************************************************)
(* The wallet balance of one user: the column users.quota, its copy in     *)
(* Redis, which decides about reservations, and the deltas that the batch  *)
(* updater has still to write (model/quota_reserve.go, user.go,            *)
(* user_cache.go, user_auth_cache.go, utils.go).                           *)
(*                                                                         *)
(* Every Redis script and every statement is one step; calls of several    *)
(* goroutines and nodes interleave between them.  The nodes' batch         *)
(* updaters are one.  A balance may go below zero, as in the code.         *)
(***************************************************************************)
EXTENDS Integers, FiniteSets, Functions

CONSTANTS
  Calls,           \* the calls made
  Kinds,           \* what they may be
  Amounts,         \* the amounts they may name
  InitQuota,       \* the balance at the start
  MaxWalletQuota,  \* common.MaxWalletQuota
  Modes,           \* the configurations: [redis, batch]
  FaultPoints,     \* what may fail: "redis", "db", or a version fence ("fence")
  Crashes          \* whether the process may die

ASSUME ConstantsAssumption ==
  /\ IsFiniteSet(Calls)
  /\ Kinds \subseteq {"reserve", "increase", "decrease", "read"}
  /\ Amounts \subseteq Nat \ {0}
  /\ InitQuota \in Nat /\ MaxWalletQuota \in Nat
  /\ Modes \subseteq [redis : BOOLEAN, batch : BOOLEAN]
  /\ FaultPoints \subseteq {"redis", "db", "fence"} /\ Crashes \in BOOLEAN

VARIABLES
  mode,   \* RedisEnabled and BatchUpdateEnabled
  db,     \* users.quota
  cache,  \* the hash in Redis: whether it exists, and its field Quota
  pend,   \* batchUpdateStores
  flush,  \* the deltas swapped out and not yet written
  call,   \* the calls
  bg,     \* the cache delta of each call's goroutine, 0 when it is done
  net,    \* history: the changes acknowledged to callers
  spent,  \* history: the sum of the unconditional decreases
  torn,   \* history: the copy was made or changed beside the table (see Fill)
  ever,   \* history: that has happened before
  lost    \* history: a delta was dropped by a crash or a failed write

vars == <<mode, db, cache, pend, flush, call, bg, net, spent, torn, ever, lost>>

NoCache == [on |-> FALSE, q |-> 0]
NoCall  == [pc |-> "idle", kind |-> "read", amt |-> 0, snap |-> 0]
Pcs == {"idle", "try", "hydrate", "fill", "retry", "fallback", "persist", "compensate",
        "dec", "done"}

\* The state components hold values of the shapes the code gives them.
TypeOK ==
  /\ mode \in Modes
  /\ {db, pend, flush, net, spent} \subseteq Int
  /\ cache \in [on : BOOLEAN, q : Int]
  /\ call \in [Calls -> [pc : Pcs, kind : Kinds \cup {"read"}, amt : Amounts \cup {0}, snap : Int]]
  /\ bg \in [Calls -> Int]
  /\ (~mode.batch => pend = 0 /\ flush = 0) /\ (~mode.redis => ~cache.on)
  /\ {torn, ever, lost} \subseteq BOOLEAN

Init ==
  /\ mode \in Modes
  /\ db = InitQuota /\ cache = NoCache /\ pend = 0 /\ flush = 0
  /\ call = [c \in Calls |-> NoCall]
  /\ bg = [c \in Calls |-> 0]
  /\ net = 0 /\ spent = 0 /\ torn = FALSE /\ ever = FALSE /\ lost = FALSE

Fails(p) == p \in FaultPoints
Goto(c, pc) == call' = [call EXCEPT ![c].pc = pc]

\* History: the copy no longer has to agree with the table.
Tear == torn' = TRUE /\ ever' = TRUE
\* No change has reached one of the copy and the table only.
InFlight(c) == call[c].pc \in {"persist", "compensate", "dec"} \/ bg[c] # 0
Settled == pend = 0 /\ flush = 0 /\ \A c \in Calls : ~InFlight(c)

-----------------------------------------------------------------------------
(* TryReserveUserQuota.                                                    *)

Start(c, kind, amt) ==
  /\ call[c].pc = "idle" /\ kind \in {"reserve", "read"}
  /\ call' = [call EXCEPT ![c] =
       [pc |-> IF kind = "read" THEN "hydrate" ELSE IF mode.redis THEN "try" ELSE "fallback",
        kind |-> kind, amt |-> amt, snap |-> 0]]
  /\ UNCHANGED <<mode, db, cache, pend, flush, bg, net, spent, torn, ever, lost>>

\* Mutant: the script decrements a balance that is not used up.
CacheTryReservePositive(c) ==
  LET amt == call[c].amt IN
  /\ call[c].pc \in {"try", "retry"}
  /\ IF cache.on /\ cache.q > 0
     THEN cache' = [cache EXCEPT !.q = @ - amt] /\ Goto(c, "persist")
     ELSE UNCHANGED cache /\ Goto(c, IF cache.on THEN "done" ELSE "hydrate")
  /\ UNCHANGED <<mode, db, pend, flush, bg, net, spent, torn, ever, lost>>

\* userQuotaReserveScript: check and decrement in one step.  A miss leads to a
\* hydration the first time and to the table the second time.
CacheTryReserve(c) ==
  LET amt == call[c].amt IN
  /\ call[c].pc \in {"try", "retry"}
  /\ \/ /\ cache.on /\ cache.q >= amt
        /\ cache' = [cache EXCEPT !.q = @ - amt]
        /\ Goto(c, "persist")
     \/ cache.on /\ cache.q < amt /\ Goto(c, "done") /\ UNCHANGED cache
     \/ /\ ~cache.on
        /\ Goto(c, IF call[c].pc = "try" THEN "hydrate" ELSE "fallback")
        /\ UNCHANGED cache
     \/ Fails("redis") /\ Goto(c, "fallback") /\ UNCHANGED cache
  /\ UNCHANGED <<mode, db, pend, flush, bg, net, spent, torn, ever, lost>>

\* reserveUserQuotaDB: the conditional update, which leaves the copy alone.
ReserveDB(c) ==
  LET amt == call[c].amt IN
  /\ call[c].pc = "fallback" /\ Goto(c, "done")
  /\ \/ /\ db >= amt
        /\ db' = db - amt /\ net' = net - amt
        /\ IF mode.redis /\ (cache.on \/ ~Settled) THEN Tear ELSE UNCHANGED <<torn, ever>>
     \/ (db < amt \/ Fails("db")) /\ UNCHANGED <<db, net, torn, ever>>
  /\ UNCHANGED <<mode, cache, pend, flush, bg, spent, lost>>

\* persistUserQuotaDelta after a reservation in the copy.
Persist(c) ==
  LET amt == call[c].amt IN
  /\ call[c].pc = "persist"
  /\ \/ /\ mode.batch /\ pend' = pend - amt
        /\ net' = net - amt /\ Goto(c, "done") /\ UNCHANGED db
     \/ /\ ~mode.batch /\ db' = db - amt
        /\ net' = net - amt /\ Goto(c, "done") /\ UNCHANGED pend
     \/ /\ ~mode.batch /\ Fails("db")
        /\ Goto(c, "compensate") /\ UNCHANGED <<db, pend, net>>
  /\ UNCHANGED <<mode, cache, flush, bg, spent, torn, ever, lost>>

\* Mutant: a bare HINCRBY, which creates the hash.
DeltaUnguarded(d) == [on |-> TRUE, q |-> cache.q + d]
\* cacheApplyUserQuotaDelta: skipped where there is no copy, or if Redis fails.
Delta(d) == IF cache.on THEN [cache EXCEPT !.q = @ + d] ELSE cache

Compensate(c) ==
  /\ call[c].pc = "compensate" /\ Goto(c, "done")
  /\ \/ cache' = Delta(call[c].amt) /\ UNCHANGED <<torn, ever>>
     \/ Fails("redis") /\ UNCHANGED cache /\ Tear
  /\ UNCHANGED <<mode, db, pend, flush, bg, net, spent, lost>>

-----------------------------------------------------------------------------
(* GetUserCache: the copy is made from the table on a miss.                *)

\* Where a call goes on after its hydration, and after one that failed or that
\* a version fence newer than the table refused.
Hydrated(c) == IF call[c].kind = "read" THEN "done" ELSE "retry"
Refused(c)  == IF call[c].kind = "read" THEN "done" ELSE "fallback"

\* Mutant: the copy is written although Redis is not in use.
HydrateReadAlways(c) ==
  /\ call[c].pc = "hydrate"
  /\ IF cache.on THEN Goto(c, Hydrated(c))
     ELSE call' = [call EXCEPT ![c].pc = "fill", ![c].snap = db]
  /\ UNCHANGED <<mode, db, cache, pend, flush, bg, net, spent, torn, ever, lost>>

HydrateRead(c) ==
  /\ call[c].pc = "hydrate"
  /\ \/ cache.on /\ Goto(c, Hydrated(c))
     \/ /\ ~cache.on \/ Fails("redis") \/ Fails("fence")
        /\ call' = [call EXCEPT ![c].pc = IF mode.redis THEN "fill" ELSE "done", ![c].snap = db]
     \/ /\ ~cache.on \/ Fails("redis") \/ Fails("fence")
        /\ Fails("db") \/ Fails("fence")
        /\ Goto(c, Refused(c))
  /\ UNCHANGED <<mode, db, cache, pend, flush, bg, net, spent, torn, ever, lost>>

\* A copy made by call c now is one of the balance.
Quiet(c) == call[c].snap = db /\ Settled

\* writeUserCache: the balance is set only where there is none.
Fill(c) ==
  /\ call[c].pc = "fill"
  /\ \/ /\ ~cache.on /\ Goto(c, Hydrated(c))
        /\ cache' = [on |-> TRUE, q |-> call[c].snap]
        /\ torn' = ~Quiet(c) /\ ever' = (ever \/ ~Quiet(c))
     \/ /\ cache.on \/ Fails("redis")
        /\ Goto(c, Hydrated(c)) /\ UNCHANGED <<cache, torn, ever>>
     \/ Fails("fence") /\ Goto(c, Refused(c)) /\ UNCHANGED <<cache, torn, ever>>
  /\ UNCHANGED <<mode, db, pend, flush, bg, net, spent, lost>>

\* The hash expires, or is invalidated.
Expire ==
  /\ cache.on
  /\ cache' = NoCache /\ torn' = FALSE
  /\ UNCHANGED <<mode, db, pend, flush, call, bg, net, spent, ever, lost>>

-----------------------------------------------------------------------------
(* IncreaseUserQuota and DecreaseUserQuota: refunds and settlements.       *)

\* A refund changes the table, or the pending deltas, and then the copy; some
\* credits (check-in, invitation) go to the table in every mode.
Increase(c, amt) ==
  /\ call[c].pc = "idle"
  /\ call' = [call EXCEPT ![c] = [pc |-> "done", kind |-> "increase", amt |-> amt, snap |-> 0]]
  /\ \/ /\ \/ mode.batch /\ pend' = pend + amt /\ UNCHANGED db
           \/ db <= MaxWalletQuota - amt /\ db' = db + amt /\ UNCHANGED pend
        /\ bg' = [bg EXCEPT ![c] = IF mode.redis THEN amt ELSE 0]
        /\ net' = net + amt
     \/ /\ db > MaxWalletQuota - amt \/ Fails("db")
        /\ UNCHANGED <<db, pend, bg, net>>
  /\ UNCHANGED <<mode, cache, flush, spent, torn, ever, lost>>

\* A settlement beyond the hold starts the change of the copy first.
StartDecrease(c, amt) ==
  /\ call[c].pc = "idle"
  /\ call' = [call EXCEPT ![c] = [pc |-> "dec", kind |-> "decrease", amt |-> amt, snap |-> 0]]
  /\ bg' = [bg EXCEPT ![c] = IF mode.redis THEN -amt ELSE 0]
  /\ spent' = spent + amt
  /\ UNCHANGED <<mode, db, cache, pend, flush, net, torn, ever, lost>>

Decrease(c) ==
  LET amt == call[c].amt IN
  /\ call[c].pc = "dec" /\ Goto(c, "done")
  /\ \/ mode.batch /\ pend' = pend - amt /\ net' = net - amt /\ UNCHANGED <<db, torn, ever>>
     \/ ~mode.batch /\ db' = db - amt /\ net' = net - amt /\ UNCHANGED <<pend, torn, ever>>
     \/ ~mode.batch /\ Fails("db") /\ UNCHANGED <<db, pend, net>> /\ Tear
  /\ UNCHANGED <<mode, cache, flush, bg, spent, lost>>

\* The goroutine that changes the copy.
CacheDelta(c) ==
  /\ bg[c] # 0
  /\ bg' = [bg EXCEPT ![c] = 0]
  /\ \/ cache' = Delta(bg[c]) /\ UNCHANGED <<torn, ever>>
     \/ Fails("redis") /\ UNCHANGED cache /\ Tear
  /\ UNCHANGED <<mode, db, pend, flush, call, net, spent, lost>>

-----------------------------------------------------------------------------
(* The batch updater.                                                      *)

\* flushBatchUpdateStores swaps the deltas out...
SwapOut ==
  /\ pend # 0 /\ flush = 0
  /\ flush' = pend /\ pend' = 0
  /\ UNCHANGED <<mode, db, cache, call, bg, net, spent, torn, ever, lost>>

\* Mutant: the deltas are removed from the map after they are written.
WriteDeltasClear ==
  /\ flush # 0 /\ flush' = 0
  /\ db' = db + flush /\ pend' = 0
  /\ UNCHANGED <<mode, cache, call, bg, net, spent, torn, ever, lost>>

\* ... and writes them; an error is logged.
WriteDeltas ==
  /\ flush # 0 /\ flush' = 0
  /\ \/ db' = db + flush /\ UNCHANGED <<torn, ever, lost>>
     \/ Fails("db") /\ UNCHANGED db /\ lost' = TRUE /\ Tear
  /\ UNCHANGED <<mode, cache, pend, call, bg, net, spent>>

\* The process dies: what was in memory is gone.
Crash ==
  /\ Crashes
  /\ call' = [c \in Calls |-> IF call[c].pc = "idle" THEN NoCall ELSE [call[c] EXCEPT !.pc = "done"]]
  /\ bg' = [c \in Calls |-> 0]
  /\ pend' = 0 /\ flush' = 0
  /\ lost' = (lost \/ pend # 0 \/ flush # 0)
  /\ torn' = (torn \/ ~Settled)
  /\ ever' = (ever \/ torn')
  /\ UNCHANGED <<mode, db, cache, net, spent>>

-----------------------------------------------------------------------------

Step(c) == CacheTryReserve(c) \/ ReserveDB(c) \/ Persist(c) \/ Compensate(c)
           \/ HydrateRead(c) \/ Fill(c) \/ Decrease(c)

Next ==
  \/ \E c \in Calls :
       \/ Step(c) \/ CacheDelta(c)
       \/ \E kind \in Kinds \cap {"reserve", "read"}, amt \in Amounts : Start(c, kind, amt)
       \/ "increase" \in Kinds /\ \E amt \in Amounts : Increase(c, amt)
       \/ "decrease" \in Kinds /\ \E amt \in Amounts : StartDecrease(c, amt)
  \/ SwapOut \/ WriteDeltas \/ Expire \/ Crash

Spec == Init /\ [][Next]_vars

\* Goroutines run, and the batch updater's ticker goes on.
FairSpec ==
  /\ Spec
  /\ \A c \in Calls : WF_vars(Step(c)) /\ WF_vars(CacheDelta(c))
  /\ WF_vars(SwapOut) /\ WF_vars(WriteDeltas)

-----------------------------------------------------------------------------

Table == db + pend + flush
Taken(c) == IF call[c].pc \in {"persist", "compensate", "dec"} THEN call[c].amt ELSE 0
AllTaken == SumFunctionOnSet([c \in Calls |-> Taken(c)], Calls)

\* The balance in Redis is the table's with the pending deltas and without what
\* calls in flight have done to one of the two only, unless the copy was made
\* while such a change was on its way or a change of one of them failed: no
\* order of reservations, compensations, refunds, settlements and flushes makes
\* them drift apart (TryReserveUserQuota, cacheApplyUserQuotaDelta).
CacheFollowsTable ==
  cache.on /\ ~torn =>
    cache.q + SumFunctionOnSet(bg, Calls) = Table - AllTaken

\* Reservations never overdraw the wallet: it goes below zero only by the
\* settlements, which are not checked, or after the copy was torn
\* ("TryReserveUserQuota atomically checks and deducts a user's wallet quota").
ReservationsCovered == ~ever => Table + spent >= 0

\* Every acknowledged change reaches the table, exactly once, unless a crash or
\* a failed write drops it (flushBatchUpdateStores, addNewRecord).
EveryDeltaWritten == <>[](lost \/ db = InitQuota + net)
=============================================================================
