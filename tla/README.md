# Verification of new-api: quota accounting, login session, playground

The gateway (`src/`) sells access to upstream model providers: a request is
authenticated by an API token, an estimate of its cost is held, the request is
relayed to a channel, and the hold is settled or given back. Video and music
tasks go on after the request has ended and are settled by a poller. The
balances are moved by many small database calls, from several goroutines and
several nodes, without a transaction around them. A React dashboard (`src/web`)
manages the account; most of it is forms, but its login session is kept by several
tabs and the server together, and its chat playground runs streams, timers and a
local store beside each other. This project models that code in TLA+, checks it
with TLC and proves part of it with TLAPS.

## 1. Inventory

| component | state | operations | hard behaviour |
|---|---|---|---|
| Billing session (`service/billing_session.go`, `funding_source.go`, `billing.go`) | hold, token share, extra reserve, `settled` / `fundingSettled` / `refunded` flags, all in memory | `NewBillingSession`, `preConsume`, `Reserve`, `Settle`, `Refund` | partial failure of two-sided updates, fall-back between sources, a refund goroutine, retries |
| Direct consumption (`service/quota.go`, `violation_fee.go`, `tiered_settle.go`) | none of its own | `PostConsumeQuota`, `PreWssConsumeQuota`, `PostWssConsumeQuota`, the violation fee | charges beside a session |
| Subscription ledger (`model/subscription.go`) | `amount_used`, pre-consume records, periods | pre-consume, delta, refund, reset, expiry, orders | nested transactions, resets between hold and settlement |
| Quota cache (`model/quota_reserve.go`, `user.go`, `user_cache.go`, `utils.go`) | table, Redis copy, pending batch deltas | conditional decrement, delta, hydration, flush | a stale copy read back, lost or doubled deltas |
| Asynchronous tasks (`service/task_*.go`, `model/task.go`, `relay/relay_task.go`) | table `tasks` | submit, poll, batch poll, sweep, bulk failure, unconfirmed resolution, user query | several processes with copies of one row, conditional and unconditional writes, crashes between a write and its billing |
| System tasks (`model/system_task.go`, `service/system_task.go`) | rows, one lock per type | schedule, claim, renew, finish, fail expired | lease expiry while the runner is at work |
| Dashboard session (`web/src/lib/auth-session.ts`, `auth-session-sync.ts`, `http-client.ts`, the root route) | store of each tab, shared cookie, refresh in flight, epoch | sign in, sign out, refresh, call with retry, events between tabs | tabs that race on one cookie, answers that come after a sign-out, one-time proofs, reloads |
| User sessions, auth cache (`model/user_session.go`, `service/auth_session.go`, `user_auth_cache.go`) | sessions, refresh secrets, version fence | login, rotate, revoke, advance, invalidate | replay within and after the grace window, a security change in two transactions |
| Chat playground (`web/src/features/playground`) | messages, generation, stream, conversations, save timer, localStorage | send, stream, stop, regenerate, edit, delete, switch, create, reload | late events of a superseded request, debounced writes, queued React updates, a full store |
| Channels (`service/channel_select.go`, `channel_circuit_breaker.go`, `channel_cooldown.go`) | breaker state, cooldowns, cache | select, report, probe, disable | concurrent reports, half-open probes |
| Limits (`middleware/*limit*.go`, `common/limiter`) | windows and counters | admit, release | boundaries, release on every path |
| Lockout, redemption, top-up, check-in, event bus, logs, midjourney, administration, adaptors, other pages | see `PROJECT.json` | | |

How they interact. The auth middleware copies the balances into the request
context; `Relay` (`controller/relay.go`) asks for a session, tries channels, and
its deferred handler refunds; the provider handler settles. A task submission
goes through a session as well, then inserts a row, which takes the charge over:
from there `RunTaskPollingOnce` owns it, started by the system-task scheduler
under a lease. A submission whose outcome is unknown is handed to an UNCONFIRMED
row with its hold. A user's status query for some providers writes the same row.
Both sides end in the same calls of package `model`; the wallet among them is a
table, a copy in Redis that decides, and deltas that a batch updater writes later.
The playground asks `getFreshAuthHeaders` of the session for every stream.

What makes it correct: a request or a task pays exactly once, from one source,
whatever fails; nothing ever gives back more than was taken; a balance goes
below zero only for spending nobody could foresee; an end is final and billed by
one process; and everything that holds quota ends. In the dashboard: a tab that
has signed out stays out, tabs do not revoke each other's session, nothing that is
spent once is sent twice, an answer holds its own text and all of it, and no
conversation overwrites another.

`PROJECT.json` lists the hazards of this code with their lines, and the
properties that cover them.

## 2. Modules

| module | models |
|---|---|
| `BillingSession` | requests of one user: sessions, funding sources, direct charges |
| `ChargeOnce` | abstract: what a session promises for its funding source |
| `BillingRefinement` | the mapping under which `BillingSession` implements `ChargeOnce` |
| `FiniteSums` | lemmas about sums over finite sets, for the proofs about shared balances |
| `BillingSessionProofs` | the books of one request of `BillingSession`: invariant and theorems |
| `BillingAccountsProofs` | the balances its requests share, exact charges, and the refinement |
| `QuotaReserveProofs` | the books of a wallet with its copy and its pending deltas |
| `AuthSessionProofs` | which sessions the browser can name, turns under the browser lock |
| `TaskLifecycleProofs` | who bills a task, what it has paid, the token, unknown outcomes |
| `PlaygroundProofs` | requests behind the page's flags, answers and their text, conversations, what is on the disk |
| `SequenceFolds` | what the library's `FoldLeft` computes, one element at a time |
| `QuotaReserve` | one wallet: table, Redis copy, pending deltas, batch updater |
| `TaskLifecycle` | rows of `tasks`, pollers, sweep, resolver, user queries |
| `AuthSession` | tabs, cookie, refresh and API calls of a browser, and the server's sessions |
| `Playground` | chat handler, stream controller, React state, conversations |
| `MCBillingSession`, `MCQuotaReserve`, `MCTaskLifecycle`, `MCAuthSession`, `MCPlayground` | profiles, modes, price tables and kinds of calls for TLC |

### BillingSession

`wallet`, `token`, `subUsed` are the three balances and `rec` the pre-consume
record. `s[r]` is the `BillingSession` with its `FundingSource` (`held` is
`consumed` or `preConsumed`), `info[r]` what it was built from (the balances read
at authentication among it), `op[r]` the call in flight. A request is two threads: `pc[r]` and
the goroutine of `Refund`, `bg[r]`. `paid` and `hit` are history: the net amount
taken from each balance, and whether a call failed or was cut off.

Each call into package `model` is one step: it commits or fails. Requests and
refund goroutines interleave between those steps. `FaultPoints` says which calls
may fail; the point `record` is the one failure inside
`RefundSubscriptionPreConsume` after its decrement has committed, and is a
constant because the code is wrong there (section 4). `Crash` loses every
session. Amounts are arbitrary: how a price is computed is not modelled. The
retry loop over channels does not touch the session and is not a step. A realtime
turn is added to the sum and either charged at once or, if a balance is short or
cannot be read or the price is fixed, not charged; the second try of a refused turn,
which adds its usage again before the session ends, is one more turn. That other
turns may come between the two, or after a charge that failed, is more than the code
does.

### ChargeOnce and the refinement

A request of `ChargeOnce` is `none`, `open`, `settled`, `returning` or `closed`. The
hold opens it; an open charge may be extended and given back in part; it is
settled at the cost that was answered, or abandoned and given back, never below
zero; a closed request does not move. Charges beside the session (realtime turns,
a request without a session, the violation fee) are `posted` and only grow.
`BillingRefinement` maps a request by its flags and threads (`StateOf`), its charge
by what wallet and subscription have lost to it minus what was posted (`ChargeOf`).
Attempts on one funding source that fall back to the other are stutters, and a
crash closes every request at once. The token is not part of the promise: the code
lets its side fail after the funding side is settled.

### QuotaReserve

`db` is `users.quota`, `cache` the hash in Redis, `pend` the batch updater's map and
`flush` the deltas it has swapped out. A call of `TryReserveUserQuota` is a thread
with the steps of the code: the script on the copy, the hydration from the table
(read and write are two steps), the script again, the fall-back to the conditional
update, the persisting write and its compensation. `IncreaseUserQuota` and
`DecreaseUserQuota` change the table or the map in one step and the copy in a
goroutine, `bg`. `mode` is fixed at the start: with and without Redis, with and
without batch updates. Redis, the database and the version fence may fail at each
step (`FaultPoints`), the copy may expire and the process may die at any time.
The updaters of several nodes are one. `net`, `spent`, `torn`, `ever` and `lost`
are history: `torn` says that the present copy was made or changed beside the
table, so that the two need not agree.

### TaskLifecycle

`row[t]` is the row (status, whether progress is `"100%"`, quota, poll failures),
`up[t]` the task at the provider (external), `job[p]` the copy a process works
on. `UpdateWithStatus` is `WriteRow`, `Update` is part of `Finalize` and `Stamp`,
`TaskBulkUpdateByID` is `BulkFail`. `Claim` keeps the order of the code: the
conditional write comes before the status is set. `RecalculateTaskQuota` and
`RefundTaskQuota` are the three steps `AdjustFunding`, `AdjustToken`,
`SaveQuota`, each of which may fail. `hit[t]` is history: the set of billing steps of
the task that failed or were cut off by a crash (`hold` for the settlement of the
submission, `funding`, `token`, `save`, `finalize`), so that a property is excused by
the failure of the very call it depends on and by no other. A crash cuts off the step
it comes before and all later ones. An answer of the upstream stores its progress in the row, for
polled and for unconfirmed rows (`Stamp` and `WriteRow`); all the queries tell apart is
whether it is `"100%"`. `Paths` switches optional ways of writing a
row on, so that each question can be asked on the part of the system it is about:
`unconfirmed`, `bulk`, `immediate` (the provider answers a submission with an
end), `legacy` (rows from before the refund cut-off), `progress` (a running task
reports 100 %, and the row keeps it). Nothing excludes two passes from each other: a runner whose lease
ran out stops only between two tasks.

### AuthSession

The tabs share `cookie` and nothing else. `tab[t]` is the store of a tab, `rf[t]` its
`refreshPromise` (queued for the browser lock, sent, answered), `req` its API calls,
`events[t]` what other tabs have told it. `sess` is the table `user_sessions`. A
refresh secret is its age, the number of rotations since it was the current one:
the code derives a secret from the one before, so that two rotations of one secret
give the same successor, and a rotation makes every copy of the session's secrets,
in the cookie and under way, one older. `authEpoch` is a bit of the refresh in
flight, no bump since it started. One user, whose security changes are the two
transactions of the code (`ChangeSecurity`, `AdvanceCurrentSession`). A request of
the server is otherwise one step; the conditional updates inside check again what
was read. A call is `plain` (refreshed and retried after a 401), `once` (spends a
proof), `security`, `logout` or `login`. A page that is replaced forgets its store
and its callers, while its requests go on (`orphans`). Left out: the session hint,
which only skips a refresh on public pages, the login challenge, and the retries
after `AUTH_REFRESH_RACE`, an answer the server can no longer give because a
successor secret is always derivable, and a rejection of `navigator.locks.request`
itself, which would pass by the `catch` around it (`auth-session.ts:324`).
`AdvanceCurrentSession` is one step for the two transactions of `auth_session.go:203`:
in between, the sessions to be revoked no longer validate. A tab that is on the
sign-in page is not told apart: a redirect always loads a page.

### Playground

A generation is a request or a stop, `chat.gen` the current one. A text is the
sequence of its deltas, each with the generation that asked for it; reasoning and
content are one text, of answers that use one of the two: the parsing of think tags
and the trimming at the end of an answer (`message-streaming-utils.ts`) are left out. `net` is the stream controller with
the requests in flight, `page` what React has rendered, `queue` the updates it has
not, `mem` the refs of the state hook, `disk` localStorage. The updates of a user's
event are rendered before the next event; those of timers and of the network wait
for a render, in which updater functions read the refs of that moment, as the
code's do. A stop may find its updater run at once, if nothing else is queued.
The load that the page starts with a zero timeout is part of opening the page, a
dialog part of its click. Images that are being converted when the page is left are
lost with it, as in a reload; after a navigation inside the application the code would
still send the request, which no page shows (`playground-input.tsx:128`). `Room` is the number of messages localStorage takes
before a write is refused, `Hasty` whether the user works on a list that is about
to be replaced.

## 3. Runs

| run | result | shows |
|---|---|---|
| `billing_faults` | pass, 94 127 states | one request of every profile, every call failing at will, crashes: `NoQuotaCreated`, `ExactCharge`, `OneFundingSource`, `ClosedStaysClosed`, `EveryRequestCloses`, and the refinement `ImplementsChargeOnce` |
| `billing_race` | pass, 461 392 states | two requests on one stale balance: `ExactCharge`, `OverdraftOnlyBeyondHold` |
| `quota_reserve` | pass, 299 589 states | three calls in every mode with every fault: `CacheFollowsTable`, `ReservationsCovered`, `EveryDeltaWritten` |
| `tasks_poll` | pass, 145 692 states | two pollers, sweep, bulk failures, immediate ends, reported progress, failing writes and billing calls, crashes: `SettledOnce`, `PaidMatchesRow`, `PolledFailureRefunded`, `TerminalIsFinal`, and `UnfinishedTasksEnd`: the sweep is the outer deadline of the rows it selects |
| `tasks_unconfirmed` | pass, 236 936 states | one resolver beside a user's queries: `UnconfirmedHoldKept`, `TokenFollowsFunding`, and `UnfinishedHoldsResolve`: an unknown outcome is decided, unless its row is stored at 100 % |
| `web_session` | pass, 57 922 states | two tabs, two sessions: `SignedOutStaysOut`, `ReplayNeedsLoss`, `EveryRefreshSettles`, `TabsConverge` |
| `web_calls` | pass, 175 756 states | two calls of a tab, a lost message, a security change: `ProofSpentOnce`, `EveryCallEnds` |
| `playground` | pass, 680 843 states | `OnlyOwnText`, `CompleteAnswer`, `HistoriesSeparate`, `NoOrphanPending`, `OnlyUnsavedIsLost`, `BusyHasCause` |
| `billing_record` | violation | the subscription refund is not idempotent |
| `billing_realtime` | violation | realtime turns are paid twice |
| `tasks_resolve` | violation | two resolvers both bill |
| `tasks_fetch` | violation | a status query ends a task and nobody bills it |

Bounds. One request suffices for the fault run because its properties are about
one session, and the amounts 0, 1, 2 give an estimate below, at and above every
balance, a reserve above the estimate, a settlement on both sides of the hold,
and a subscription total that is hit. Two requests with a wallet of exactly one
estimate make both pass the stale check and one of them lose the conditional
decrement. `MaxTurns` bounds the realtime turns, `MaxRefundAttempts` is the
code's 3 (1 in the race run, where nothing fails). Rows of different tasks never
meet, so one task is enough; two pollers make every race on a row, with
`MaxPollFailures` 2 for a counter that is below, at and reset before its limit.
`MaxUserFetches` bounds a user's queries. The amounts 1 and 2 let a submission hold more
than its task costs, so that the row can be polled, ended and refunded before the
submission has settled the difference.

In `quota_reserve` a balance of 3 and amounts of 2 let one reservation pass and the
next fail, three calls let a third meet a hydration beside a half-done change, and
`MaxWalletQuota` 4 is passed by a refund. In `AuthSession` the call slots have fixed
kinds: one tab works and signs out while the other signs in (`web_session`, two
sessions `Sids`), or one tab works in two slots and spends proofs (`web_calls`).
Ages of secrets stop at 2, where the server no longer knows them; `MaxFaults` bounds
lost messages and `MaxChanges` security changes, one each, as a second one meets
the same states. `Playground` has three names for two stored conversations
(`MaxConversations`, 50 in the code), so that one is pushed out; `MaxGen` 3 gives two
requests and a stop, or two stops after one request; two different deltas; and `Room`
3, which a second exchange exceeds. Names of conversations are symmetric.

Fairness. `BillingSession`: weak fairness of each goroutine; Go runs a runnable
goroutine, and every model call returns. Nothing forces a crash. `TaskLifecycle`:
weak fairness of each process inside a pass; strong fairness of the overdue
queries per row (every pass of the 15-second schedule starts with the sweep and
the resolution, and a row only gets older), and of their write (each pass tries
again, and a database or a process that fails there for ever is not a system one
can promise anything about). Polls, the provider and users have no fairness
towards an end: `UnfinishedTasksEnd` comes from the sweep, `UnfinishedHoldsResolve` from
the window. Both deadlines assume `TASK_TIMEOUT_MINUTES` > 0, and both state the
exception that the code has: a running task whose row is stored at 100 % (section 4). `QuotaReserve`: weak
fairness of each goroutine and of the updater's ticker. `AuthSession` (`FairSpec`):
the server answers, the browser delivers answers and events, and `navigator.locks`
grants its lock in order, which is strong fairness here because the other tab may
take it in between; a lost message counts as an answer, since a request that fails
or times out is reported to the page. `TabsConverge` further assumes tabs in use
(`UsedSpec`): the token of a tab expires and its page goes on calling; a tab nobody
uses may show an old session for ever. `Playground` claims no progress: a stream
may stay silent, and the user has the stop button.

Each property of a passing run is tied to a mutant: a variant of an action next
to it in the module, marked `Mutant`, under which the property fails.

## 4. Where the code differs from what it says

- `RefundSubscriptionPreConsume` "is idempotent" (`model/subscription.go:1729`):
  its decrement commits in a transaction of its own before the record is marked;
  `refundWithRetry` then repeats it (`billing_record`).
- A realtime turn's billing "is done" (`relay_realtime.go:141`) when
  `PreWssConsumeQuota` has charged it; `PostWssConsumeQuota` settles the sum of
  all turns again (`billing_realtime`).
- `resolveWithUpstreamID` says it moves the row by CAS first
  (`task_unconfirmed_resolution.go:133`); the CAS writes the old status, and two
  resolvers both win (`tasks_resolve`).
- `RefundTaskQuota` is the one refund of a failed task
  (`service/task_billing.go:213`); `tryRealtimeFetch` writes FAILURE without it
  (`tasks_fetch`).

Variations that fail. The passing runs are stated for what holds; these changes of
a configuration make TLC find a counterexample, and say where the boundary is:

- `Paths = {"bulk"}`, `FailedIsRefunded`: 4 steps. `TaskBulkUpdateByID` must not be used
  in billing flows (`model/task.go:587`), the poller fails the tasks of a missing
  channel with it (`task_polling.go:447`), unrefunded.
- `Paths = {"immediate"}`, `FailedIsRefunded`: 2 states. A submission that is answered
  with FAILURE keeps its charge (`controller/relay.go:1310`).
- `UnfinishedTasksEnd` and `UnfinishedHoldsResolve` without their exception. The sweep
  "remains the outer deadline" (`docs/plugin-api/v1.md:224`, without a condition), but it
  and the polls skip rows whose progress is `"100%"` (`model/task.go:357`), and the
  poller stores that of a running task (`task_polling.go:630`): such a task never ends.
  So with an unknown outcome: the answer of a task in flight stores its progress
  (`task_unconfirmed_resolution.go:127`), and a row at `"100%"` is no longer selected for
  resolution (`model/task.go:375`), and its hold stays. Both runs have the path
  `progress` on.
- Queries beside one poller (`Fetchers`), without any fault: `TerminalIsFinal` 7 states,
  `PaidMatchesRow` 10. A status query writes its old copy over a row that the sweep has
  failed and refunded (`relay_task.go:583`), which puts the refunded quota back into it.
- `ReservationsCovered` without `~ever`: 11 states, with batch updates (the copy
  expires while deltas are pending, and hydration or the fall-back reads the table
  without them; compare `TestRedisBatchReserveNeverFallsBackToStaleDatabaseBalance`,
  `model/quota_reserve_test.go:106`) and without (the copy expires between its
  decrement and the table's).
- `Locks = FALSE`, `ReplayNeedsLoss`: without `navigator.locks` a slow second tab
  presents a secret rotated away by the first and has the session revoked (6 states).
- `Letters = <<"a", "a">>`, `CompleteAnswer`: 7 states. A delta that begins with the
  whole text so far is taken for a snapshot, so equal deltas at the start are lost.
  With `<<"a", "a", "b">>` the loss is a gap, and `OnlyOwnText` fails too. The other
  safety properties hold with repeated deltas and are proved so.
- `Hasty = TRUE`, `HistoriesSeparate`, `NoOrphanPending`, `OnlyOwnText`, `CompleteAnswer`
  (7 states each of the last two) and `OnlyUnsavedIsLost` (5): a prompt with images is sent
  by the handler of an older render (`playground-input.tsx:128`) and replaces what was
  done since, in whatever conversation is open.
- `OnlyUnsavedIsLost` without `Fits`: 6 states. A full localStorage takes nothing of a
  conversation that is too long for it, and otherwise drops the conversation created
  first (`conversations.ts:139`), which may be the open one, although the comment there
  wants the current one kept.

Three more observations, modelled and not claimed otherwise: a refresh between the
two transactions of a security change revokes the session that
`AdvanceUserSessionAuthVersion` "preserves" (`model/user_session.go:661`); a logout with
an expired token and a secret older than the grace window answers success without
revoking anything (`controller/auth_session.go:89`); and leaving the page writes the
conversations without the messages of the last half second
(`use-playground-state.ts:159`), so that a streaming answer comes back pending.
`OnlyUnsavedIsLost` says what is kept all the same: everything that was saved before.

## 5. Proofs

Every theorem holds for any sets of requests, tasks, processes or calls, any amounts,
balances, limits and bounds the named assumptions of the modules allow. Sets that are
summed over are finite (`RequestsAssumption`, `ProcessesAssumption`,
`ConstantsAssumption`): the requests, processes and calls that exist.

**Billing sessions, one request** (`BillingSessionProofs`), for any `FaultPoints` without
`record`:

- `TypeCorrect`: `Spec => []TypeOK`; no hold, reserve or count goes negative;
- `QuotaIsNeverCreated`: `Spec => []NoQuotaCreated`;
- `OneSourceIsCharged`: `Spec => []OneFundingSource`;
- `ClosedIsFinal`: `Spec => ClosedStaysClosed`.

None of these is inductive: that a refund gives back no more than was taken
depends on what the session believes it holds. `IInv` says so. It is `TypeOK`
with, for every request, `Books(r)`: `Shape(r)` relates the position of the two
threads to the session's flags (a refund goroutine exists only after a failing
request marked `refunded`, a closed one is at its end); `WalletBooks`, `SubBooks`
and `TokenBooks` bound the net charge of each balance from below by what the
session, the call in flight and the refund goroutine may still give back. They
are lower bounds, because a failed rollback leaves the request paying more than
the session knows, never less. `NoQuotaCreated` is what the bounds say, as the
outstanding part is never negative. A step touches the books of one request and
leaves the others' variables alone, so the proof has a lemma per action. The
subscription's used amount is clipped at zero: what a refund gives back is then at
most what it asked for, which is the direction the bounds need.

**Billing sessions, the balances they share** (`BillingAccountsProofs`), under the same
condition on `FaultPoints`:

- `ChargesAreExact`: `Spec => []ExactCharge`;
- `OverdraftIsBeyondHold`: `Spec => []OverdraftOnlyBeyondHold`, for initial wallets that
  are not negative;
- `ImplementsChargeOnceHolds`: `Spec => ImplementsChargeOnce`, the refinement.

`AInv` adds to `IInv` the ledgers: what the requests together have taken is what a balance
has lost (a sum over all requests), so that clipping the subscription's used amount
never takes effect, and, for a request no fault has hit, equations in place of the
bounds. `ExactCharge` is the equation at the end of a request. The wallet's invariant
(`WalletIsCovered`) counts for every request what it took beyond its hold, and says
that the balance together with these excesses is not negative; a reservation, the only
checked step, keeps it by its own condition. For the refinement each action is shown to
be one step of `ChargeOnce` for its request or a stutter, a crash to close all requests
at once; `AInv` gives the facts about the charge that the abstract steps ask for.

With `record` in `FaultPoints` these theorems are false (`billing_record`).

**Tasks** (`TaskLifecycleProofs`):

- `TaskTypeCorrect`: `Spec => []TypeOK`, without a condition;
- `TokenFollowsFundingHolds`: `Spec => []TokenFollowsFunding`, without a condition;
- `SettledOnceHolds`, `PaidMatchesRowHolds`, `PolledFailureRefundedHolds` and
  `TerminalIsFinalHolds`, under `PollingOnly`: no status queries, no submissions of
  unknown outcome;
- `UnconfirmedHoldKeptHolds`, under `OnePoller`: one polling process, any number of
  status queries, all paths.

`PollInv` is about who may bill: at most one process is inside the billing of a task, and
it got there by the conditional write (`SoleBiller`); a copy that can still win the
write equals the row in what is billed (`FreshCopy`); `BillerBooks` and `TaskBooks` say
what has been paid at each point between the write and the save of the quota, also after
a step of the billing failed: which ones did is in `hit`, and each equation is lost only
with the step that would have kept it. The
condition is needed: a status query ends a row without a billing, and a resolution
writes unconditionally (`tasks_fetch`, `tasks_resolve` in section 4). `TokenInv` needs no
sole biller: for each task, what separates the token from the funding source is the
sum over all processes of what each has still to move, as long as no call to the token
failed. `UnknownInv` says that a copy
that is UNCONFIRMED is one of an account nobody has touched, and that a process that bills
by another path than the resolution works on a row that has left UNCONFIRMED; a second
poller could write its old copy over the end the first has settled (`tasks_resolve`).

**One wallet** (`QuotaReserveProofs`), without a condition: every configuration, every
fault, crashes and expiry at any time:

- `QuotaTypeCorrect`: `Spec => []TypeOK`;
- `CacheFollowsTableHolds`: `Spec => []CacheFollowsTable`;
- `ReservationsCoveredHolds`: `Spec => []ReservationsCovered`.

`CacheFollowsTable` is inductive once it is known which calls can be at a step that uses
Redis (`Role`). `ReservationsCovered` is not: a reservation is decided on the copy, and
reaches the table later. `Covered` therefore counts the reservations in flight as
taken, and bounds what the decider does not see: in the copy the settlements whose
goroutine has not run (`AllDebits`), without Redis the pending deltas of settlements,
never more than `spent`. One lemma (`BooksKept`) reduces a step of a call to what it does
to that call's summands.

**Browser sessions** (`AuthSessionProofs`), for any number of tabs, sessions and calls:

- `AuthTypeCorrect`: `Spec => []TypeOK`;
- `ProofSpentOnceHolds`: `Spec => []ProofSpentOnce`;
- `SignedOutStaysOutHolds`: `Spec => []SignedOutStaysOut`;
- `ReplayNeedsLossHolds`: under `Locks`, `Spec => []ReplayNeedsLoss`.

`Inv` follows the names of sessions. `Known` are the sessions that exist and are not
still the secret of a login's answer; everything else in the browser names only known
ones (`Fits(Known)`), and two login answers never hold the same one (`Secret`). So the
session a login brings cannot be one the tab has left. `OutOK` says of a session in
`out[t]` that it has been revoked, and that neither the tab nor a refresh it would still
listen to holds it: the bump of `authEpoch` is what keeps a late answer from restoring it. `CallOK` relates how often
a call was sent to its position; that alone gives `ProofSpentOnce`. `Room`, that a
security change on its way finds a free version, is needed for the type: it counts
the calls in flight, a finite set. `Turns` is the state while nothing was lost: no
orphan, at most one refresh on its way, which carries the current secret, and a cookie
that is older only while the answer with its successor is coming. It holds only with
`navigator.locks`; without the lock the property fails (section 4).

**Playground** (`PlaygroundProofs`), for any list of deltas, any number of conversations
and generations and any size of localStorage:

- `PlaygroundTypeCorrect`: `Spec => []TypeOK`, and `BusyHasCauseHolds`:
  `Spec => []BusyHasCause`, both without a condition;
- `NoOrphanPendingHolds`, `HistoriesSeparateHolds` and `OnlyUnsavedIsLostHolds`, under
  `~Hasty` (the user does not act on a list that is about to be replaced);
- `OnlyOwnTextHolds` and `CompleteAnswerHolds`, under `~Hasty` and `NoRepeat` (no delta
  equals the one before it or the first one).

Each condition is one the property needs: section 4 says what refutes it otherwise
(`Hasty = TRUE`, `Letters = <<"a", "a">>`). The run `playground` satisfies both.

`NetInv` names the request behind each flag of the page, and says that the stream the controller holds is one of the
current generation. `PInv` adds `NetMore`, the converse (a current request keeps its
flag up), and `ListInv`. The hard part of that is `Shows`, since updates wait in React's queue and an update
decides when it is rendered whether it is still current: it speaks of `After`, the list
once the waiting updates are rendered. While an answer is asked for, it is the last message
of that list, and its text followed by the pending text is exactly what was received;
otherwise nothing is pending and a finished answer is whole. The generation at which an
update will find itself is not known in advance, so part of `Shows` quantifies over all
of them. `Stores` and `Secrets` are about the conversations: all but the open one are
at rest, and none of them has a message of the list, of any list rendering can make of it,
or of the list a prompt with images was submitted on. The text is only
spoken of where `NoRepeat` holds, which two lemmas use:
no chunk begins with the whole text it is added to or merged into, so neither
`getAppendableChunk` nor `mergePendingStreamChunk` drops a part of it.

`TInv`, behind the type, has besides the requests `Sides` (what waits in timers and in the
queue) and `Lists`: the list of conversations and its recent order have the same length and
name each conversation once. That the cap drops as many as it should comes from counting
those names. `QInv` adds `Current` and `Written` to it: the messages to save are the ones
shown, the disk has every conversation of a list there is room for, and unless a save
is due the open one is in the list as shown.

`SequenceFolds` says what `FoldLeft` is for the empty sequence and for one element more, and
that it stays in a set its operator does not leave. The library folds over the subsets of
the indices; the lemmas are proved by a minimal counterexample, once for an arbitrary operator, and instantiated for the queue and
for the filter `Among`.

`FiniteSums` has the facts about `SumFunctionOnSet` these ledgers rest on: a sum is
independent of the order of choice, changes by what one summand changes, is
monotone. They are proved by a minimal counterexample among the subsets of a finite
set, since an induction rule cannot be instantiated by the installed provers.

Left to TLC: the liveness properties (fairness is out of the prover's reach), and the
properties of `TaskLifecycle` outside the conditions above that its violation runs
do not refute. Every invariant of a passing run is stated by a theorem.

## 6. The plan

1. `SubscriptionLedger`: periods, reset and expiry against holds in flight, several
   subscriptions.
2. `SystemTask`: the lease; at most one runner that may write, and progress after a
   crash. Composed with `TaskLifecycle`, which assumes no exclusion now.
3. `ChannelBreaker`: breaker and cooldown under concurrent reports.
4. `VideoGeneration` and `SecureVerification`: the dashboard's polling of a generated
   video and its one-time verification proof.

## 7. Not modelled

- Prices (floating point over configuration), provider adaptors and plugins
  (third-party formats), statistics and logs.
- The token side of the quota cache: the same scripts on another hash.
- Session limits, listing and clean-up, and the Redis copies of sessions with their
  deny fences.
- The administration API: requests over single rows.
- Most of the dashboard. Its 1 300 TypeScript files are mainly forms, tables, dialogs,
  charts, translations and generated routes. Their state is what their inputs show;
  a submit is one request, made through the session that `AuthSession` models, and
  the answer replaces a query cache: what one would state of such a form is what a
  component test states. The login session and the chat playground, where several
  actors meet in an order of events, are modelled; they are a small part of the lines.
- The smaller stateful hooks of the dashboard: the secure verification dialog
  (`features/auth/secure-verification/hooks/use-secure-verification.ts`), the OAuth
  windows (`features/auth/lib/oauth-popup.ts`, `oauth-bind-window.ts`), the disclosure
  of a key (`features/keys/hooks/use-token-key-disclosure.ts`) and the polling of a
  generated video (`features/playground/hooks/use-video-generation.ts`). Each is one
  actor guarded by a ref, an abort controller or a timer. They can be modelled and are
  last in the plan.
- Two windows of one browser that overwrite each other's playground store; the code
  does not coordinate them.

`PROJECT.json` gives the reason for each component.
