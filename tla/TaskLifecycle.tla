--------------------------- MODULE TaskLifecycle ----------------------------
(***************************************************************************)
(* Asynchronous tasks after their submission: the rows of table tasks, the *)
(* polling passes that move a row to its end and settle or refund its      *)
(* quota, the sweep of timed-out rows, the resolution of submissions whose *)
(* outcome is unknown, and the status query a user makes.                  *)
(*                                                                         *)
(* A pass works on copies: it loads rows, asks the upstream, and writes a  *)
(* whole row back, guarded by the status it had loaded (UpdateWithStatus)  *)
(* or not guarded at all (Update).  A pass is scheduled under a lease, but *)
(* a runner that has lost its lease notices between two tasks only: any    *)
(* number of Pollers are at work here.  Each of them handles one task at a *)
(* time; rows of different tasks never meet.                               *)
(***************************************************************************)
EXTENDS Integers, FiniteSets

CONSTANTS
    Tasks,           \* the tasks users submit
    Pollers,         \* the processes that may be inside RunTaskPollingOnce
    Fetchers,        \* the user requests inside tryRealtimeFetch
    Amounts,         \* the quotas a submission may cost
    Prices,          \* what the settlement of a task may come to
    MaxPollFailures, \* constant.TaskPollMaxFailures
    MaxUserFetches,  \* bound on the status queries of a user
    Paths,           \* the optional ways a row is written
    FaultPoints,     \* which database calls may fail
    Crashes          \* whether a polling process may die

\* A settlement that leaves the pre-consumed quota alone.
Keep == -1

AllPaths == {"unconfirmed", "bulk", "immediate", "legacy", "progress"}

AllTaskFaults == {"cas", "save", "funding", "token", "quota"}

\* success, failure: what settleTaskBillingOnComplete computes from the answer.
PriceType == [success : Nat \cup {Keep}, failure : Nat \cup {Keep}]

ASSUME TaskDataAssumption == Amounts \subseteq Nat /\ Prices \subseteq PriceType
ASSUME TaskBoundsAssumption == MaxPollFailures \in Nat /\ MaxUserFetches \in Nat
ASSUME TaskFeaturesAssumption ==
    /\ Paths \subseteq AllPaths
    /\ FaultPoints \subseteq AllTaskFaults
    /\ Crashes \in BOOLEAN
ASSUME ProcessesAssumption == Pollers \cap Fetchers = {} /\ IsFiniteSet(Pollers \cup Fetchers)

VARIABLES
    row,       \* row[t]: the task's row
    price,     \* price[t]: what the upstream's usage report amounts to
    legacy,    \* legacy[t]: submitted before TaskRefundLegacyCutoff
    up,        \* up[t]: the task at the upstream
    hold,      \* hold[t]: what the submission has still to settle
    pc,        \* pc[p]: where process p stands
    job,       \* job[p]: the task p works on and its copy of the row
    fetches,   \* the status queries made so far
    paid,      \* history: net charge to the funding source
    tokenPaid, \* history: net charge to the token
    moves,     \* history: adjustments of the charge after the submission
    closedBy,  \* history: the path that wrote the row's terminal status
    hit        \* history: the billing steps of the task that failed or were cut off

vars == <<row, price, legacy, up, hold, pc, job, fetches, paid, tokenPaid, moves, closedBy, hit>>

-----------------------------------------------------------------------------
Procs == Pollers \cup Fetchers

\* The statuses of a task that is being worked on (NOT_START and SUBMITTED are
\* treated like QUEUED).
Active == {"QUEUED", "IN_PROGRESS"}
Terminal == {"SUCCESS", "FAILURE"}
Statuses == {"NONE", "UNCONFIRMED"} \cup Active \cup Terminal

\* done: progress is "100%"; fails: PrivateData.PollFailures.
NoRow == [status |-> "NONE", done |-> FALSE, quota |-> 0, fails |-> 0]

RowType == [status : Statuses, done : BOOLEAN, quota : Nat, fails : Nat]

NoTask == "none"

\* path: what p is doing; from: the status the write is conditional on; priced:
\* the upstream's answer is at hand for the settlement; target: the quota the
\* settlement arrives at.
JobType ==
    [task : Tasks \cup {NoTask}, mem : RowType, path : {"poll", "sweep", "resolve", "expire", "fetch"},
     from : Statuses, priced : BOOLEAN, target : Nat]

\* A process between two tasks.
NoJob ==
    [task |-> NoTask, mem |-> NoRow, path |-> "poll", from |-> "NONE", priced |-> FALSE, target |-> 0]

PCs == {"idle", "query", "write", "claim", "finalize", "stamp", "funding", "token", "save"}

\* Inside the billing of a task whose end p has decided.
Billing == {"finalize", "stamp", "funding", "token", "save"}

\* The steps that can fail, or be cut off: the settlement of the submission, then
\* the funding source, the token, the quota of the row, the last save of a
\* resolution.
Cuts == {"hold", "funding", "token", "save", "finalize"}

Init ==
    /\ row = [t \in Tasks |-> NoRow]
    /\ price \in [Tasks -> Prices]
    /\ legacy \in [Tasks -> IF "legacy" \in Paths THEN BOOLEAN ELSE {FALSE}]
    /\ up = [t \in Tasks |-> "QUEUED"]
    /\ hold = [t \in Tasks |-> 0]
    /\ pc = [p \in Procs |-> "idle"]
    /\ job = [p \in Procs |-> NoJob]
    /\ fetches = 0
    /\ paid = [t \in Tasks |-> 0] /\ tokenPaid = [t \in Tasks |-> 0]
    /\ moves = [t \in Tasks |-> 0]
    /\ closedBy = [t \in Tasks |-> "none"]
    /\ hit = [t \in Tasks |-> {}]

T(p) == job[p].task
\* p goes on with the copy j of its job, or drops it and is idle.
Go(p, l, j) ==
    /\ pc' = [pc EXCEPT ![p] = l]
    /\ job' = [job EXCEPT ![p] = IF l = "idle" THEN NoJob ELSE j]
Works == UNCHANGED hit
Fails(t, point, step) == point \in FaultPoints /\ hit' = [hit EXCEPT ![t] = @ \cup {step}]
AccountsSame == UNCHANGED <<paid, tokenPaid, moves>>
RowsSame == UNCHANGED <<row, closedBy>>
WorldSame == UNCHANGED <<price, legacy, up, hold, fetches>>

\* The whole row is written.
Write(t, r, path) ==
    /\ row' = [row EXCEPT ![t] = r]
    /\ closedBy' = IF r.status \in Terminal /\ row[t].status # r.status
                   THEN [closedBy EXCEPT ![t] = path] ELSE closedBy

-----------------------------------------------------------------------------
(* Submission.                                                             *)

\* executeTaskSubmissionWith after Reserve: the session holds pre >= q, the row
\* is inserted with quota q.  The upstream may have answered with an end already.
Submit(t, pre, q) ==
    /\ row[t].status = "NONE" /\ q <= pre
    /\ \E status \in {"QUEUED"} \cup (IF "immediate" \in Paths THEN Terminal ELSE {}) :
         /\ Write(t, [NoRow EXCEPT !.status = status, !.done = status \in Terminal, !.quota = q],
                  "submit")
         /\ up' = [up EXCEPT ![t] = status]
    /\ hold' = [hold EXCEPT ![t] = pre - q]
    /\ paid' = [paid EXCEPT ![t] = pre] /\ tokenPaid' = [tokenPaid EXCEPT ![t] = pre]
    /\ Works /\ UNCHANGED <<price, legacy, pc, job, fetches, moves>>

\* persistUnconfirmedTask: the row takes over the whole hold.
SubmitUnconfirmed(t, pre) ==
    /\ "unconfirmed" \in Paths
    /\ row[t].status = "NONE"
    /\ Write(t, [NoRow EXCEPT !.status = "UNCONFIRMED", !.quota = pre], "submit")
    /\ paid' = [paid EXCEPT ![t] = pre] /\ tokenPaid' = [tokenPaid EXCEPT ![t] = pre]
    /\ Works /\ UNCHANGED <<price, legacy, up, hold, pc, job, fetches, moves>>

\* SettleBilling(result.Quota), after the row can already be polled.
SettleSubmit(t) ==
    /\ hold[t] > 0
    /\ hold' = [hold EXCEPT ![t] = 0]
    /\ \/ /\ paid' = [paid EXCEPT ![t] = @ - hold[t]]
          /\ tokenPaid' = [tokenPaid EXCEPT ![t] = @ - hold[t]]
          /\ Works
       \/ Fails(t, "funding", "hold") /\ UNCHANGED <<paid, tokenPaid>>
    /\ RowsSame /\ UNCHANGED <<price, legacy, up, pc, job, fetches, moves>>

\* The upstream works on the task.
UpstreamMoves(t) ==
    /\ row[t].status # "NONE"
    /\ \/ up[t] = "QUEUED" /\ up' = [up EXCEPT ![t] = "IN_PROGRESS"]
       \/ /\ up[t] \in Active
          /\ \E end \in Terminal : up' = [up EXCEPT ![t] = end]
    /\ RowsSame /\ AccountsSame /\ Works
    /\ UNCHANGED <<price, legacy, hold, pc, job, fetches>>

-----------------------------------------------------------------------------
(* Loading rows.                                                           *)

Load(p, t, path, l) ==
    /\ pc[p] = "idle"
    /\ Go(p, l, [task |-> t, mem |-> row[t], path |-> path, from |-> row[t].status,
                 priced |-> FALSE, target |-> 0])
    /\ RowsSame /\ AccountsSame /\ Works

\* GetAllUnFinishSyncTasks.
PollLoad(p, t) ==
    /\ row[t].status \in Active /\ ~ row[t].done
    /\ Load(p, t, "poll", "query") /\ WorldSame

\* A copy of a row that is about to fail.
Failed(mem) == [mem EXCEPT !.status = "FAILURE", !.done = TRUE]

\* Mutant: the sweep looks at tasks the upstream has not started only.
SweepLoadQueued(p, t) ==
    /\ row[t].status = "QUEUED" /\ ~ row[t].done
    /\ pc[p] = "idle"
    /\ Go(p, "write",
          [task |-> t, path |-> "sweep", from |-> row[t].status, priced |-> FALSE, target |-> 0,
           mem |-> IF legacy[t] THEN [Failed(row[t]) EXCEPT !.quota = 0] ELSE Failed(row[t])])
    /\ RowsSame /\ AccountsSame /\ Works /\ WorldSame

\* sweepTimedOutTasks: any unfinished row is too old at some time.  A legacy row
\* loses its quota with the same write.
SweepLoad(p, t) ==
    /\ row[t].status \in Active /\ ~ row[t].done
    /\ pc[p] = "idle"
    /\ Go(p, "write",
          [task |-> t, path |-> "sweep", from |-> row[t].status, priced |-> FALSE, target |-> 0,
           mem |-> IF legacy[t] THEN [Failed(row[t]) EXCEPT !.quota = 0] ELSE Failed(row[t])])
    /\ RowsSame /\ AccountsSame /\ Works /\ WorldSame

\* GetUnconfirmedUnfinishedTasks.
ResolveLoad(p, t) ==
    /\ row[t].status = "UNCONFIRMED" /\ ~ row[t].done
    /\ Load(p, t, "resolve", "query") /\ WorldSame

\* GetByTaskId for a user: rows of any status.
FetchLoad(p, t) ==
    /\ row[t].status # "NONE" /\ fetches < MaxUserFetches
    /\ Load(p, t, "fetch", "query")
    /\ fetches' = fetches + 1 /\ UNCHANGED <<price, legacy, up, hold>>

-----------------------------------------------------------------------------
(* What a process does with the upstream's answer.                         *)

\* p changes its copy and goes on to write it.
Prepare(p, mem, priced, l) ==
    /\ Go(p, l, [job[p] EXCEPT !.mem = mem, !.priced = priced])
    /\ RowsSame /\ AccountsSame /\ Works /\ WorldSame

Stop(p) ==
    Go(p, "idle", NoJob) /\ RowsSame /\ AccountsSame /\ Works /\ WorldSame

\* Whether the copy ends up with a progress of "100%": an end has it, unless the
\* upstream reports another progress with it, which a failure ignores; and a task
\* that is still running may be reported with it.
ReportedDone(status) ==
    IF "progress" \in Paths /\ status # "FAILURE" THEN BOOLEAN ELSE {status \in Terminal}

\* The answer of a poll: the task's status and progress.
PollAnswer(p) ==
    /\ pc[p] = "query" /\ job[p].path = "poll"
    /\ \E done \in ReportedDone(up[T(p)]) :
         Prepare(p, [job[p].mem EXCEPT !.status = up[T(p)], !.done = done,
                                       !.fails = IF up[T(p)] \in Terminal THEN @ ELSE 0],
                 TRUE, "write")

\* HTTP 404 or 410.  The adaptor may put a price on the failure.
PollNotFound(p) ==
    /\ pc[p] = "query" /\ job[p].path = "poll"
    /\ \E priced \in BOOLEAN : Prepare(p, Failed(job[p].mem), priced, "write")

\* recordPollFailure: no answer, a refusal, an answer that cannot be read.
PollError(p) ==
    /\ pc[p] = "query" /\ job[p].path = "poll"
    /\ LET mem == [job[p].mem EXCEPT !.fails = @ + 1]
           cutoff == MaxPollFailures > 0 /\ mem.fails >= MaxPollFailures
       IN \E priced \in {FALSE, cutoff} :
            Prepare(p, IF cutoff THEN Failed(mem) ELSE mem, priced, "write")

\* TaskBulkUpdateByID when the channel is gone: every row that has not ended
\* becomes FAILURE, and that is all.
BulkFail(p) ==
    /\ "bulk" \in Paths
    /\ pc[p] = "query" /\ job[p].path = "poll"
    /\ IF row[T(p)].status \in Active
       THEN Write(T(p), Failed(row[T(p)]), "bulk") ELSE RowsSame
    /\ Go(p, "idle", job[p])
    /\ AccountsSame /\ Works /\ WorldSame

\* The answer of a resolution: an end is claimed, anything else is written back
\* under the same status with the progress it reports, a failed query changes
\* nothing.
ResolveAnswer(p) ==
    /\ pc[p] = "query" /\ job[p].path = "resolve"
    /\ \/ up[T(p)] \in Terminal /\ Prepare(p, job[p].mem, TRUE, "claim")
       \/ /\ up[T(p)] \in Active
          /\ \E done \in ReportedDone(up[T(p)]) :
               Prepare(p, [job[p].mem EXCEPT !.done = done], FALSE, "write")
       \/ Stop(p)

\* Mutant: the status is set after the conditional write, not before it.
ExpireLate(p) == Go(p, "write", [job[p] EXCEPT !.path = "expire"])

\* refundUnconfirmedTask: the copy fails, and is written if the row is still
\* UNCONFIRMED.
Expire(p) == Go(p, "write", [job[p] EXCEPT !.mem = Failed(@), !.path = "expire"])

\* The resolution window has passed.  (Without a remote id hint that is looked at
\* before the query; with one after it, in the same pass.)
ResolveExpired(p) ==
    /\ pc[p] = "query" /\ job[p].path = "resolve"
    /\ Expire(p)
    /\ RowsSame /\ AccountsSame /\ Works /\ WorldSame

\* The answer of a user's query.  The copy takes the status, and the progress if
\* the adaptor reports one.
FetchAnswer(p) ==
    /\ pc[p] = "query" /\ job[p].path = "fetch"
    /\ \/ \E done \in {job[p].mem.done} \cup ReportedDone(up[T(p)]) :
            Prepare(p, [job[p].mem EXCEPT !.status = up[T(p)], !.done = done], FALSE, "write")
       \/ Stop(p)

-----------------------------------------------------------------------------
(* Writing the row.                                                        *)

\* What settleTaskBillingOnComplete makes of the answer at hand.
Computed(p, mem) ==
    IF ~ job[p].priced THEN Keep
    ELSE IF mem.status = "SUCCESS" THEN price[T(p)].success ELSE price[T(p)].failure

\* Mutant: the refund is left to settleTaskBillingOnComplete.
TargetNoRefund(p, mem) == IF Computed(p, mem) # Keep THEN Computed(p, mem) ELSE mem.quota

\* What settleTaskBillingOnComplete, or else RefundTaskQuota, leaves the task at.
Target(p, mem) ==
    IF Computed(p, mem) # Keep THEN Computed(p, mem)
    ELSE IF mem.status = "FAILURE" THEN 0 ELSE mem.quota

\* After the end was won: on to the billing, if the quota has to change.
StartBilling(p, mem, otherwise) ==
    Go(p, IF Target(p, mem) # mem.quota THEN "funding" ELSE otherwise,
       [job[p] EXCEPT !.mem = mem, !.target = Target(p, mem)])

\* After the write.  The winner of an end goes on to its billing; a user's query has
\* none, and the billing of an expired submission comes after a second,
\* unconditional save.  A resolution that found the task running looks at the
\* window next, whether its write was won or not.
AfterWrite(p, won) ==
    LET path == job[p].path
        ended == won /\ path \in {"poll", "sweep"} /\ job[p].mem.status \in Terminal
        expired == won /\ path = "expire"
    IN \/ expired /\ Go(p, "stamp", job[p])
       \/ ended /\ StartBilling(p, job[p].mem, "idle")
       \/ path = "resolve" /\ Expire(p)
       \/ ~ expired /\ ~ ended /\ Go(p, "idle", job[p])

\* Mutant: the row is saved without the status in the WHERE clause.
WriteRowUnguarded(p) ==
    /\ pc[p] = "write"
    /\ Write(T(p), job[p].mem, job[p].path) /\ AfterWrite(p, TRUE)
    /\ AccountsSame /\ WorldSame /\ Works

\* Mutant: the loser of the write settles too.
WriteRowLoserBills(p) ==
    /\ pc[p] = "write"
    /\ IF row[T(p)].status = job[p].from
       THEN Write(T(p), job[p].mem, job[p].path) ELSE RowsSame
    /\ AfterWrite(p, TRUE)
    /\ AccountsSame /\ WorldSame /\ Works

\* UpdateWithStatus(from): the write takes place, and is won, if the row still has
\* the status the copy was loaded with.
WriteRow(p) ==
    /\ pc[p] = "write"
    /\ \/ /\ row[T(p)].status = job[p].from
          /\ Write(T(p), job[p].mem, job[p].path) /\ AfterWrite(p, TRUE)
       \/ /\ row[T(p)].status # job[p].from \/ "cas" \in FaultPoints
          /\ RowsSame /\ AfterWrite(p, FALSE)
    /\ AccountsSame /\ WorldSame /\ Works

\* resolveWithUpstreamID, the answer being an end: UpdateWithStatus runs before the
\* copy gets its new status, so that the row stays UNCONFIRMED.  The winner sets
\* the status of its copy and settles or refunds; the loser goes to the final save
\* with the copy as it was loaded.
Claim(p) ==
    /\ pc[p] = "claim"
    /\ LET t == T(p) IN LET mem == job[p].mem IN
         \/ /\ row[t].status = "UNCONFIRMED"
            /\ Write(t, mem, "resolve")
            /\ StartBilling(p, [mem EXCEPT !.status = up[t], !.done = TRUE], "finalize")
         \/ /\ row[t].status # "UNCONFIRMED" \/ "cas" \in FaultPoints
            /\ RowsSame /\ Go(p, "finalize", job[p])
    /\ AccountsSame /\ WorldSame /\ Works

\* Mutant: the end is claimed, and never written to the row.
FinalizeDropped(p) ==
    /\ pc[p] = "finalize"
    /\ Go(p, "idle", job[p]) /\ Works /\ RowsSame
    /\ AccountsSame /\ WorldSame

\* finalizeUnconfirmed: Update saves the copy whatever the row has become.
Finalize(p) ==
    /\ pc[p] = "finalize"
    /\ \/ Write(T(p), job[p].mem, "resolve") /\ Works
       \/ Fails(T(p), "save", "finalize") /\ RowsSame
    /\ Go(p, "idle", job[p])
    /\ AccountsSame /\ WorldSame

\* The second save of refundUnconfirmedTask, then the refund.
Stamp(p) ==
    /\ pc[p] = "stamp"
    /\ Write(T(p), job[p].mem, "expire") \/ ("save" \in FaultPoints /\ RowsSame)
    /\ StartBilling(p, job[p].mem, "idle")
    /\ AccountsSame /\ WorldSame /\ Works

-----------------------------------------------------------------------------
(* RecalculateTaskQuota and RefundTaskQuota.                               *)

Delta(p) == job[p].target - job[p].mem.quota

AfterBilling(p) == IF job[p].path = "resolve" THEN "finalize" ELSE "idle"

\* Mutant: an error of the funding source is ignored.
AdjustFundingIgnoresError(p) ==
    /\ pc[p] = "funding"
    /\ \/ /\ paid' = [paid EXCEPT ![T(p)] = @ + Delta(p)]
          /\ moves' = [moves EXCEPT ![T(p)] = @ + 1]
          /\ Works
       \/ Fails(T(p), "funding", "funding") /\ UNCHANGED <<paid, moves>>
    /\ Go(p, "token", job[p])
    /\ RowsSame /\ WorldSame /\ UNCHANGED tokenPaid

\* taskAdjustFunding: an error ends the billing, the row keeps its quota.
AdjustFunding(p) ==
    /\ pc[p] = "funding"
    /\ \/ /\ paid' = [paid EXCEPT ![T(p)] = @ + Delta(p)]
          /\ moves' = [moves EXCEPT ![T(p)] = @ + 1]
          /\ Go(p, "token", job[p]) /\ Works
       \/ /\ Fails(T(p), "funding", "funding") /\ UNCHANGED <<paid, moves>>
          /\ Go(p, AfterBilling(p), job[p])
    /\ RowsSame /\ WorldSame /\ UNCHANGED tokenPaid

\* Mutant: the token is credited with the whole quota of the task.
AdjustTokenWhole(p) ==
    /\ pc[p] = "token"
    /\ tokenPaid' = [tokenPaid EXCEPT ![T(p)] = @ - job[p].mem.quota] /\ Works
    /\ Go(p, "save", job[p])
    /\ RowsSame /\ WorldSame /\ UNCHANGED <<paid, moves>>

\* taskAdjustTokenQuota: an error, or a token that is gone, is only logged.
AdjustToken(p) ==
    /\ pc[p] = "token"
    /\ \/ tokenPaid' = [tokenPaid EXCEPT ![T(p)] = @ + Delta(p)] /\ Works
       \/ Fails(T(p), "token", "token") /\ UNCHANGED tokenPaid
    /\ Go(p, "save", job[p])
    /\ RowsSame /\ WorldSame /\ UNCHANGED <<paid, moves>>

\* Mutant: the column gets the difference.
SaveQuotaDelta(p) ==
    /\ pc[p] = "save"
    /\ row' = [row EXCEPT ![T(p)].quota = Delta(p)] /\ Works
    /\ Go(p, AfterBilling(p), [job[p] EXCEPT !.mem.quota = job[p].target])
    /\ AccountsSame /\ WorldSame /\ UNCHANGED closedBy

\* UpdateQuota: the column alone, by primary key.
SaveQuota(p) ==
    /\ pc[p] = "save"
    /\ \/ row' = [row EXCEPT ![T(p)].quota = job[p].target] /\ Works
       \/ Fails(T(p), "quota", "save") /\ UNCHANGED row
    /\ Go(p, AfterBilling(p), [job[p] EXCEPT !.mem.quota = job[p].target])
    /\ AccountsSame /\ WorldSame /\ UNCHANGED closedBy

-----------------------------------------------------------------------------
\* The steps a process that dies at l leaves undone of a billing it has begun.
CutOff(l) ==
    CASE l \in {"stamp", "funding"} -> {"funding"}
      [] l = "token" -> {"token", "save"}
      [] l \in {"save", "finalize"} -> {l}
      [] OTHER -> {}

\* A process dies, or is stopped, wherever it is.
Crash(p) ==
    /\ Crashes /\ pc[p] # "idle"
    /\ hit' = [hit EXCEPT ![T(p)] = @ \cup CutOff(pc[p])]
    /\ Go(p, "idle", job[p])
    /\ RowsSame /\ AccountsSame /\ WorldSame

PollStep(p) ==
    \/ PollAnswer(p) \/ PollNotFound(p) \/ PollError(p) \/ BulkFail(p)
    \/ ResolveAnswer(p) \/ ResolveExpired(p) \/ FetchAnswer(p)
    \/ WriteRow(p) \/ Claim(p) \/ Finalize(p) \/ Stamp(p)
    \/ AdjustFunding(p) \/ AdjustToken(p) \/ SaveQuota(p)

SubmitStep(t) ==
    \/ \E pre \in Amounts : SubmitUnconfirmed(t, pre) \/ (\E q \in Amounts : Submit(t, pre, q))
    \/ SettleSubmit(t)

\* Nothing is left to poll: the scheduler stops creating passes.
Idle ==
    /\ \A p \in Procs : pc[p] = "idle"
    /\ \A t \in Tasks : row[t].status \in Terminal \/ row[t].done
    /\ UNCHANGED vars

Next ==
    \/ \E t \in Tasks : SubmitStep(t) \/ UpstreamMoves(t)
    \/ \E p \in Pollers, t \in Tasks : PollLoad(p, t) \/ SweepLoad(p, t) \/ ResolveLoad(p, t)
    \/ \E p \in Fetchers, t \in Tasks : FetchLoad(p, t)
    \/ \E p \in Procs : PollStep(p) \/ Crash(p)
    \/ Idle

Spec == Init /\ [][Next]_vars

\* A process that is inside a pass goes on; every pass starts with the sweep and the
\* resolution of the overdue rows; and their write, which every pass tries again,
\* is not cut off or refused by the database for ever.
OverdueWrite(p) ==
    /\ job[p].path \in {"sweep", "expire"}
    /\ WriteRow(p) /\ row'[T(p)] = job[p].mem

FairSpec ==
    /\ Spec
    /\ \A p \in Procs : WF_vars(PollStep(p))
    /\ \A t \in Tasks :
         /\ SF_vars(\E p \in Pollers : SweepLoad(p, t))
         /\ SF_vars(\E p \in Pollers : ResolveLoad(p, t))
    /\ \A p \in Pollers : SF_vars(ResolveExpired(p)) /\ SF_vars(OverdueWrite(p))

-----------------------------------------------------------------------------
(* What the task lifecycle promises.                                       *)

\* Type invariant of the rows, the processes and the accounts.
TypeOK ==
    /\ row \in [Tasks -> RowType] /\ price \in [Tasks -> PriceType]
    /\ legacy \in [Tasks -> BOOLEAN]
    /\ up \in [Tasks -> Active \cup Terminal] /\ hold \in [Tasks -> Nat]
    /\ pc \in [Procs -> PCs] /\ job \in [Procs -> JobType]
    /\ fetches \in Nat
    /\ paid \in [Tasks -> Int] /\ tokenPaid \in [Tasks -> Int] /\ moves \in [Tasks -> Nat]
    /\ closedBy \in [Tasks -> {"none", "submit", "poll", "sweep", "bulk", "resolve", "expire", "fetch"}]
    /\ hit \in [Tasks -> SUBSET Cuts]

\* Nobody is about to change the account of t.
Quiet(t) == hold[t] = 0 /\ \A p \in Procs : pc[p] \in Billing => T(p) # t

\* None of these steps of a billing of t has failed or was cut off.
Uncut(t, steps) == hit[t] \cap steps = {}

\* However many passes and sweeps hold a copy of the row, its end is billed by one
\* of them only: the charge moves at most once after the submission.
SettledOnce == \A t \in Tasks : moves[t] <= 1

\* The quota in the row is the charge that a later refund would give back: between
\* billings it is what the user has paid, also when the funding source refused the
\* refund, the token failed, or the process died before the refund.  It may differ
\* only if UpdateQuota, or the settlement of the submission, failed or was cut off.
\* (A legacy row gives its quota up without a refund.)
PaidMatchesRow ==
    \A t \in Tasks :
        Quiet(t) /\ Uncut(t, {"hold", "save"}) =>
            \/ paid[t] = row[t].quota
            \/ legacy[t] /\ closedBy[t] = "sweep" /\ row[t].quota = 0

\* t has failed, and the refund it is due, if it is due one, was not refused by the
\* funding source or cut off by a crash.
RefundDue(t) ==
    /\ row[t].status = "FAILURE" /\ ~ legacy[t] /\ price[t].failure = Keep
    /\ Quiet(t) /\ Uncut(t, {"hold", "funding"})

\* A task that a poll or the sweep has failed costs nothing, unless the upstream
\* reported what the failed task used.
PolledFailureRefunded ==
    \A t \in Tasks : RefundDue(t) /\ closedBy[t] \in {"poll", "sweep"} => paid[t] = 0

\* A failed task costs nothing: "当异步任务失败时，退还资金与令牌额度".
FailedIsRefunded == \A t \in Tasks : RefundDue(t) => paid[t] = 0

\* The token moves with the funding source, whichever path bills the task and
\* wherever it fails, unless the call to the token itself failed.
TokenFollowsFunding ==
    \A t \in Tasks : Quiet(t) /\ Uncut(t, {"token"}) => tokenPaid[t] = paid[t]

\* A row that has ended keeps its end.
TerminalIsFinal ==
    [][\A t \in Tasks : row[t].status \in Terminal => row'[t].status = row[t].status]_vars

\* While the outcome of a submission is unknown the pre-consumed quota stays with
\* the row, neither settled nor refunded "up front", unless a billing that had come
\* to an outcome could not save it.
UnconfirmedHoldKept ==
    \A t \in Tasks :
        row[t].status = "UNCONFIRMED" /\ Quiet(t) /\ Uncut(t, {"save", "finalize"}) =>
            moves[t] = 0 /\ paid[t] = row[t].quota

\* The sweep is "the outer deadline" of the tasks it selects, whatever the polls,
\* their losers and crashes do: a task that was submitted ends, unless its row
\* stays, running, at the "100%" an upstream reported of it, which takes it out of
\* the selection for ever.
UnfinishedTasksEnd ==
    \A t \in Tasks : <>[](row[t].status \in Active => row[t].done)

\* An unknown outcome does not stay unknown, with the same exception: an answer with
\* "100%" of a task that is still running.
UnfinishedHoldsResolve ==
    \A t \in Tasks : <>[](row[t].status = "UNCONFIRMED" => row[t].done)
=============================================================================
