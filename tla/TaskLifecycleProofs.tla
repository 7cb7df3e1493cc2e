------------------------- MODULE TaskLifecycleProofs ------------------------
(***************************************************************************)
(* Proofs about TaskLifecycle for any number of tasks and of polling       *)
(* processes, any amounts, prices and faults.                              *)
(***************************************************************************)
EXTENDS TaskLifecycle, FiniteSums, TLAPS

Ways == {"poll", "sweep", "resolve", "expire", "fetch"}

\* A process that is not between two tasks has one.
Placed == \A p \in Procs : pc[p] # "idle" => T(p) \in Tasks

TInv == TypeOK /\ Placed

-----------------------------------------------------------------------------
(* Type correctness.                                                       *)

\* The components of a row, of a job and of a price.
LEMMA RowFacts ==
    ASSUME NEW r \in RowType
    PROVE  r.status \in Statuses /\ r.done \in BOOLEAN /\ r.quota \in Nat /\ r.fails \in Nat
  BY DEF RowType

LEMMA JobFacts ==
    ASSUME TypeOK, NEW p \in Procs
    PROVE  /\ job[p] \in JobType /\ pc[p] \in PCs
           /\ job[p].mem \in RowType /\ job[p].path \in Ways /\ job[p].from \in Statuses
           /\ job[p].priced \in BOOLEAN /\ job[p].target \in Nat
           /\ job[p].task \in Tasks \cup {NoTask}
           /\ job[p].mem.status \in Statuses /\ job[p].mem.quota \in Nat
           /\ job[p].mem.done \in BOOLEAN /\ job[p].mem.fails \in Nat
  BY DEF TypeOK, JobType, RowType, Ways

LEMMA TaskFacts ==
    ASSUME TypeOK, NEW t \in Tasks
    PROVE  /\ row[t] \in RowType /\ row[t].status \in Statuses /\ row[t].quota \in Nat
           /\ row[t].done \in BOOLEAN /\ row[t].fails \in Nat
           /\ price[t].success \in Nat \cup {Keep} /\ price[t].failure \in Nat \cup {Keep}
           /\ legacy[t] \in BOOLEAN /\ hit[t] \in SUBSET Cuts
           /\ up[t] \in Active \cup Terminal /\ hold[t] \in Nat
           /\ paid[t] \in Int /\ tokenPaid[t] \in Int /\ moves[t] \in Nat
  BY DEF TypeOK, RowType, PriceType

LEMMA EmptyTyped == NoRow \in RowType /\ NoJob \in JobType
  BY DEF NoRow, NoJob, RowType, JobType, Statuses

\* A failed copy of a row is a row.
LEMMA FailedTyped ==
    ASSUME NEW r \in RowType
    PROVE  /\ Failed(r) \in RowType /\ Failed(r).status = "FAILURE"
           /\ Failed(r).quota = r.quota
  BY DEF Failed, RowType, Statuses, Terminal

\* What p's move leaves in pc and job.
Moved(p, l, j) ==
    /\ pc' \in [Procs -> PCs] /\ job' \in [Procs -> JobType] /\ Placed'
    /\ pc'[p] = l /\ job'[p] = (IF l = "idle" THEN NoJob ELSE j)
    /\ \A q \in Procs \ {p} : pc'[q] = pc[q] /\ job'[q] = job[q]

LEMMA GoMoves ==
    ASSUME TInv, NEW p \in Procs, NEW l \in PCs, NEW j,
           l # "idle" => j \in JobType /\ j.task \in Tasks, Go(p, l, j)
    PROVE  Moved(p, l, j)
  <1>1. TypeOK /\ Placed
    BY DEF TInv
  <1>2. pc' \in [Procs -> PCs] /\ pc'[p] = l /\ \A q \in Procs \ {p} : pc'[q] = pc[q]
    BY <1>1 DEF Go, TypeOK
  <1>3. (IF l = "idle" THEN NoJob ELSE j) \in JobType
    BY EmptyTyped
  <1>4. /\ job' \in [Procs -> JobType] /\ job'[p] = (IF l = "idle" THEN NoJob ELSE j)
        /\ \A q \in Procs \ {p} : job'[q] = job[q]
    BY <1>1, <1>3 DEF Go, TypeOK
  <1>5. Placed'
    BY <1>1, <1>2, <1>4 DEF Placed, T
  <1> QED BY <1>2, <1>4, <1>5 DEF Moved

\* What writing row t leaves in row and closedBy.
Closers == {"none", "submit", "poll", "sweep", "bulk", "resolve", "expire", "fetch"}

Written(t, r, path) ==
    /\ row' \in [Tasks -> RowType] /\ closedBy' \in [Tasks -> Closers]
    /\ row'[t] = r
    /\ closedBy'[t] = (IF r.status \in Terminal /\ row[t].status # r.status
                       THEN path ELSE closedBy[t])
    /\ \A u \in Tasks \ {t} : row'[u] = row[u] /\ closedBy'[u] = closedBy[u]

LEMMA WriteWrites ==
    ASSUME TypeOK, NEW t \in Tasks, NEW r \in RowType, NEW path \in Closers, Write(t, r, path)
    PROVE  Written(t, r, path)
  BY DEF Write, Written, TypeOK, Closers

LEMMA HitTyped ==
    ASSUME TypeOK, NEW t \in Tasks,
           Works \/ \E point \in AllTaskFaults, step \in Cuts : Fails(t, point, step)
    PROVE  /\ hit' \in [Tasks -> SUBSET Cuts] /\ hit[t] \subseteq hit'[t]
           /\ \A u \in Tasks \ {t} : hit'[u] = hit[u]
  BY DEF Works, Fails, TypeOK

\* The variables that no process writes but the counter of the user's queries.
LEMMA WorldTyped ==
    ASSUME TypeOK, WorldSame
    PROVE  /\ price' \in [Tasks -> PriceType] /\ legacy' \in [Tasks -> BOOLEAN]
           /\ up' \in [Tasks -> Active \cup Terminal] /\ hold' \in [Tasks -> Nat]
           /\ fetches' \in Nat
  BY DEF TypeOK, WorldSame

\* Target is an amount of quota.
LEMMA TargetTyped ==
    ASSUME TypeOK, NEW p \in Procs, T(p) \in Tasks, NEW mem \in RowType
    PROVE  Target(p, mem) \in Nat
  BY RowFacts, TaskFacts DEF Target, Computed, T

\* A process that is at work has a task of the table.
LEMMA AtWork ==
    ASSUME TInv, NEW p \in Procs, pc[p] # "idle"
    PROVE  TypeOK /\ T(p) \in Tasks /\ job[p].task \in Tasks
  BY DEF TInv, Placed, T

\* A step that leaves the rows and the accounts alone and goes on with a typed job.
LEMMA QuietStepTyped ==
    ASSUME TInv, NEW p \in Procs, NEW l \in PCs, NEW j,
           l # "idle" => j \in JobType /\ j.task \in Tasks,
           Go(p, l, j), RowsSame, AccountsSame, Works, WorldSame
    PROVE  TInv'
  <1>1. TypeOK
    BY DEF TInv
  <1>2. Moved(p, l, j)
    BY GoMoves
  <1> QED BY <1>1, <1>2, WorldTyped
          DEF TInv, TypeOK, RowsSame, AccountsSame, Works, Moved

LEMMA LoadTyped ==
    ASSUME TInv, NEW p \in Procs, NEW t \in Tasks, NEW path \in Ways, Load(p, t, path, "query")
    PROVE  /\ Moved(p, "query", [task |-> t, mem |-> row[t], path |-> path,
                                 from |-> row[t].status, priced |-> FALSE, target |-> 0])
           /\ row' = row /\ closedBy' = closedBy /\ paid' = paid /\ tokenPaid' = tokenPaid
           /\ moves' = moves /\ hit' = hit
  <1> DEFINE j == [task |-> t, mem |-> row[t], path |-> path, from |-> row[t].status,
                   priced |-> FALSE, target |-> 0]
  <1>1. j \in JobType /\ j.task \in Tasks
    BY TaskFacts DEF JobType, Ways, TInv
  <1>2. "query" \in PCs /\ Go(p, "query", j)
    BY DEF Load, PCs
  <1>3. Moved(p, "query", j)
    BY <1>1, <1>2, GoMoves
  <1> QED BY <1>3 DEF Load, RowsSame, AccountsSame, Works

LEMMA LoadsTyped ==
    ASSUME TInv, NEW p \in Procs, NEW t \in Tasks,
           PollLoad(p, t) \/ ResolveLoad(p, t) \/ FetchLoad(p, t)
    PROVE  TInv'
  <1>1. PICK path \in Ways : Load(p, t, path, "query")
    BY DEF PollLoad, ResolveLoad, FetchLoad, Ways
  <1>2. /\ price' = price /\ legacy' = legacy /\ up' = up /\ hold' = hold
        /\ fetches' \in Nat
    BY DEF PollLoad, ResolveLoad, FetchLoad, WorldSame, TInv, TypeOK
  <1> QED BY <1>1, <1>2, LoadTyped DEF TInv, TypeOK, Moved

\* The job of a sweep.
SweepJob(t) ==
    [task |-> t, path |-> "sweep", from |-> row[t].status, priced |-> FALSE, target |-> 0,
     mem |-> IF legacy[t] THEN [Failed(row[t]) EXCEPT !.quota = 0] ELSE Failed(row[t])]

LEMMA SweepJobTyped ==
    ASSUME TypeOK, NEW t \in Tasks
    PROVE  /\ SweepJob(t) \in JobType /\ SweepJob(t).task = t
           /\ SweepJob(t).mem.status = "FAILURE"
           /\ SweepJob(t).mem.quota = (IF legacy[t] THEN 0 ELSE row[t].quota)
  <1> DEFINE m == IF legacy[t] THEN [Failed(row[t]) EXCEPT !.quota = 0] ELSE Failed(row[t])
  <1>1. Failed(row[t]) \in RowType /\ Failed(row[t]).status = "FAILURE"
            /\ Failed(row[t]).quota = row[t].quota
    BY TaskFacts, FailedTyped
  <1>2. m \in RowType /\ m.status = "FAILURE" /\ m.quota = (IF legacy[t] THEN 0 ELSE row[t].quota)
    BY <1>1 DEF RowType
  <1> HIDE DEF m
  <1>3. SweepJob(t) = [task |-> t, path |-> "sweep", from |-> row[t].status,
                       priced |-> FALSE, target |-> 0, mem |-> m]
    BY DEF SweepJob, m
  <1> QED BY <1>2, <1>3, TaskFacts DEF JobType

LEMMA SweepLoadTyped ==
    ASSUME TInv, NEW p \in Procs, NEW t \in Tasks, SweepLoad(p, t)
    PROVE  TInv' /\ Moved(p, "write", SweepJob(t))
  <1>1. SweepJob(t) \in JobType /\ SweepJob(t).task \in Tasks
    BY SweepJobTyped DEF TInv
  <1>2. Go(p, "write", SweepJob(t)) /\ RowsSame /\ AccountsSame /\ Works /\ WorldSame
    BY DEF SweepLoad, SweepJob
  <1> HIDE DEF SweepJob
  <1> QED BY <1>1, <1>2, QuietStepTyped, GoMoves DEF PCs

LEMMA PrepareTyped ==
    ASSUME TInv, NEW p \in Procs, pc[p] # "idle", NEW mem \in RowType, NEW b \in BOOLEAN,
           NEW l \in {"write", "claim"}, Prepare(p, mem, b, l)
    PROVE  TInv' /\ Moved(p, l, [job[p] EXCEPT !.mem = mem, !.priced = b])
  <1> DEFINE j == [job[p] EXCEPT !.mem = mem, !.priced = b]
  <1>1. j = [job[p] EXCEPT !.mem = mem, !.priced = b]
    OBVIOUS
  <1>2. Go(p, l, j) /\ RowsSame /\ AccountsSame /\ Works /\ WorldSame /\ l \in PCs
    BY DEF Prepare, PCs
  <1> HIDE DEF j
  <1>4. j \in JobType /\ j.task \in Tasks
    BY <1>1, AtWork, JobFacts DEF JobType
  <1>3. TInv' /\ Moved(p, l, j)
    BY <1>2, <1>4, QuietStepTyped, GoMoves
  <1> QED BY <1>3 DEF j

LEMMA StopTyped ==
    ASSUME TInv, NEW p \in Procs, Stop(p)
    PROVE  TInv'
  BY QuietStepTyped DEF Stop, PCs

\* Going on to the billing, with the target computed from the copy mem.
LEMMA StartBillingMoves ==
    ASSUME TInv, NEW p \in Procs, pc[p] # "idle", NEW mem \in RowType,
           NEW l \in {"idle", "finalize"}, StartBilling(p, mem, l)
    PROVE  \E j \in JobType, m \in {"funding", l} :
              /\ j.mem = mem /\ j.target = Target(p, mem) /\ j.task = job[p].task
              /\ j.path = job[p].path /\ j.from = job[p].from
              /\ m = "funding" <=> Target(p, mem) # mem.quota
              /\ Moved(p, m, j)
  <1>1. TypeOK /\ T(p) \in Tasks /\ job[p].task \in Tasks
    BY AtWork
  <1> DEFINE n == Target(p, mem)
             m == IF n # mem.quota THEN "funding" ELSE l
             j == [job[p] EXCEPT !.mem = mem, !.target = n]
  <1>2. n \in Nat
    BY <1>1, TargetTyped
  <1>3. Go(p, m, j) /\ j = [job[p] EXCEPT !.mem = mem, !.target = n]
    BY DEF StartBilling
  <1>4. m \in PCs /\ m \in {"funding", l} /\ (m = "funding" <=> n # mem.quota)
    BY DEF PCs
  <1> HIDE DEF n, m, j
  <1>5. /\ j \in JobType /\ j.mem = mem /\ j.target = n /\ j.task = job[p].task
        /\ j.path = job[p].path /\ j.from = job[p].from
    BY <1>1, <1>2, <1>3, JobFacts DEF JobType
  <1>6. Moved(p, m, j)
    BY <1>1, <1>3, <1>4, <1>5, GoMoves
  <1> QED BY <1>4, <1>5, <1>6 DEF n

\* Going on to give up a submission whose outcome is unknown.
LEMMA ExpireMoves ==
    ASSUME TInv, NEW p \in Procs, pc[p] # "idle", Expire(p)
    PROVE  \E j \in JobType :
              /\ j.mem = Failed(job[p].mem) /\ j.path = "expire" /\ j.task = job[p].task
              /\ j.from = job[p].from /\ j.priced = job[p].priced
              /\ Moved(p, "write", j)
  <1>1. TypeOK /\ T(p) \in Tasks /\ job[p].task \in Tasks
    BY AtWork
  <1> DEFINE j == [job[p] EXCEPT !.mem = Failed(job[p].mem), !.path = "expire"]
  <1>2. Go(p, "write", j) /\ j = [job[p] EXCEPT !.mem = Failed(job[p].mem), !.path = "expire"]
    BY DEF Expire
  <1> HIDE DEF j
  <1>3. /\ j \in JobType /\ j.mem = Failed(job[p].mem) /\ j.path = "expire"
        /\ j.task = job[p].task /\ j.from = job[p].from /\ j.priced = job[p].priced
    BY <1>1, <1>2, FailedTyped, JobFacts DEF JobType
  <1>4. Moved(p, "write", j)
    BY <1>1, <1>2, <1>3, GoMoves DEF PCs
  <1> QED BY <1>3, <1>4

\* The answers of the upstream.
LEMMA AnswersTyped ==
    ASSUME TInv, NEW p \in Procs,
           \/ PollAnswer(p) \/ PollNotFound(p) \/ PollError(p)
           \/ ResolveAnswer(p) \/ ResolveExpired(p) \/ FetchAnswer(p)
    PROVE  TInv'
  <1>1. pc[p] # "idle"
    BY DEF PollAnswer, PollNotFound, PollError, ResolveAnswer, ResolveExpired, FetchAnswer
  <1>2. TypeOK /\ T(p) \in Tasks /\ job[p].task \in Tasks
    BY <1>1, AtWork
  <1>3. /\ job[p].mem \in RowType /\ job[p].mem.done \in BOOLEAN /\ up[T(p)] \in Statuses
        /\ ReportedDone(up[T(p)]) \subseteq BOOLEAN
    BY <1>2, JobFacts, TaskFacts DEF Statuses, ReportedDone, Terminal
  <1>4. CASE PollAnswer(p)
    <2>1. PICK done \in BOOLEAN :
            Prepare(p, [job[p].mem EXCEPT !.status = up[T(p)], !.done = done,
                                          !.fails = IF up[T(p)] \in Terminal THEN @ ELSE 0],
                    TRUE, "write")
      BY <1>3, <1>4 DEF PollAnswer
    <2>2. [job[p].mem EXCEPT !.status = up[T(p)], !.done = done,
                             !.fails = IF up[T(p)] \in Terminal THEN @ ELSE 0] \in RowType
      BY <1>3 DEF RowType
    <2> QED BY <1>1, <2>1, <2>2, PrepareTyped
  <1>5. CASE PollNotFound(p)
    BY <1>1, <1>3, <1>5, FailedTyped, PrepareTyped DEF PollNotFound
  <1>6. CASE PollError(p)
    <2> DEFINE mem == [job[p].mem EXCEPT !.fails = @ + 1]
               cutoff == MaxPollFailures > 0 /\ mem.fails >= MaxPollFailures
               new == IF cutoff THEN Failed(mem) ELSE mem
    <2>1. mem \in RowType
      BY <1>3, RowFacts DEF RowType
    <2>2. PICK priced \in BOOLEAN : Prepare(p, new, priced, "write")
      BY <1>6 DEF PollError
    <2>3. new \in RowType
      BY <2>1, FailedTyped
    <2> HIDE DEF new
    <2> QED BY <1>1, <2>2, <2>3, PrepareTyped
  <1>7. CASE ResolveAnswer(p)
    <2>1. CASE up[T(p)] \in Terminal /\ Prepare(p, job[p].mem, TRUE, "claim")
      BY <1>1, <1>3, <2>1, PrepareTyped
    <2>2. CASE Stop(p)
      BY <2>2, StopTyped
    <2>3. CASE \E done \in BOOLEAN :
                 Prepare(p, [job[p].mem EXCEPT !.done = done], FALSE, "write")
      <3>1. PICK done \in BOOLEAN :
                 Prepare(p, [job[p].mem EXCEPT !.done = done], FALSE, "write")
        BY <2>3
      <3>2. [job[p].mem EXCEPT !.done = done] \in RowType
        BY <1>3 DEF RowType
      <3> QED BY <1>1, <3>1, <3>2, PrepareTyped
    <2> QED BY <1>3, <1>7, <2>1, <2>2, <2>3 DEF ResolveAnswer
  <1>8. CASE ResolveExpired(p)
    <2>1. Expire(p) /\ RowsSame /\ AccountsSame /\ Works /\ WorldSame
      BY <1>8 DEF ResolveExpired
    <2>2. PICK j \in JobType : Moved(p, "write", j)
      BY <1>1, <2>1, ExpireMoves
    <2> QED BY <1>2, <2>1, <2>2, WorldTyped
            DEF TInv, TypeOK, RowsSame, AccountsSame, Works, Moved
  <1>9. CASE FetchAnswer(p)
    <2>1. CASE Stop(p)
      BY <2>1, StopTyped
    <2>2. CASE \E done \in BOOLEAN :
                 Prepare(p, [job[p].mem EXCEPT !.status = up[T(p)], !.done = done],
                         FALSE, "write")
      <3>1. PICK done \in BOOLEAN :
                 Prepare(p, [job[p].mem EXCEPT !.status = up[T(p)], !.done = done],
                         FALSE, "write")
        BY <2>2
      <3>2. [job[p].mem EXCEPT !.status = up[T(p)], !.done = done] \in RowType
        BY <1>3 DEF RowType
      <3> QED BY <1>1, <3>1, <3>2, PrepareTyped
    <2> QED BY <1>3, <1>9, <2>1, <2>2 DEF FetchAnswer
  <1> QED BY <1>4, <1>5, <1>6, <1>7, <1>8, <1>9

\* A step of p on its task that writes the row, or leaves it, and ends or goes on to
\* the billing.
LEMMA WritesTyped ==
    ASSUME TInv, NEW p \in Procs,
           WriteRow(p) \/ Claim(p) \/ Finalize(p) \/ Stamp(p) \/ BulkFail(p)
    PROVE  TInv'
  <1>1. pc[p] # "idle"
    BY DEF WriteRow, Claim, Finalize, Stamp, BulkFail
  <1>2. TypeOK /\ T(p) \in Tasks /\ job[p].task \in Tasks
    BY <1>1, AtWork
  <1>3. /\ job[p] \in JobType /\ job[p].mem \in RowType /\ job[p].path \in Closers
        /\ row[T(p)] \in RowType
    BY <1>2, JobFacts, TaskFacts DEF Ways, Closers
  <1>4. AccountsSame /\ WorldSame
    BY DEF WriteRow, Claim, Finalize, Stamp, BulkFail
  <1>5. hit' \in [Tasks -> SUBSET Cuts]
    BY <1>2, HitTyped DEF WriteRow, Claim, Finalize, Stamp, BulkFail, AllTaskFaults, Cuts
  <1>6. row' \in [Tasks -> RowType] /\ closedBy' \in [Tasks -> Closers]
    <2>1. CASE RowsSame
      BY <1>2, <2>1 DEF RowsSame, TypeOK, Closers
    <2>2. CASE ~ RowsSame
      <3>1. PICK r \in RowType, path \in Closers : Write(T(p), r, path)
        BY <1>3, <2>2, FailedTyped DEF WriteRow, Claim, Finalize, Stamp, BulkFail, Closers
      <3> QED BY <1>2, <3>1, WriteWrites DEF Written
    <2> QED BY <2>1, <2>2
  <1>7. pc' \in [Procs -> PCs] /\ job' \in [Procs -> JobType] /\ Placed'
    <2>1. ASSUME NEW l \in {"idle", "stamp", "finalize"}, Go(p, l, job[p])
          PROVE  pc' \in [Procs -> PCs] /\ job' \in [Procs -> JobType] /\ Placed'
      BY <1>2, <1>3, <2>1, GoMoves DEF Moved, PCs
    <2>2. ASSUME NEW mem \in RowType, NEW l \in {"idle", "finalize"}, StartBilling(p, mem, l)
          PROVE  pc' \in [Procs -> PCs] /\ job' \in [Procs -> JobType] /\ Placed'
      BY <1>1, <2>2, StartBillingMoves DEF Moved
    <2>7. ASSUME Expire(p)
          PROVE  pc' \in [Procs -> PCs] /\ job' \in [Procs -> JobType] /\ Placed'
      BY <1>1, <2>7, ExpireMoves DEF Moved
    <2>3. CASE WriteRow(p)
      <3>1. PICK won \in BOOLEAN : AfterWrite(p, won)
        BY <2>3 DEF WriteRow
      <3> QED BY <1>3, <2>1, <2>2, <2>7, <3>1 DEF AfterWrite
    <2>4. CASE Claim(p)
      <3>1. [job[p].mem EXCEPT !.status = up[T(p)], !.done = TRUE] \in RowType
        BY <1>2, <1>3, TaskFacts DEF RowType, Statuses
      <3> QED BY <2>1, <2>2, <2>4, <3>1 DEF Claim
    <2>5. CASE Stamp(p)
      BY <1>3, <2>2, <2>5 DEF Stamp
    <2>6. CASE Finalize(p) \/ BulkFail(p)
      BY <2>1, <2>6 DEF Finalize, BulkFail
    <2> QED BY <2>3, <2>4, <2>5, <2>6
  <1> QED BY <1>2, <1>4, <1>5, <1>6, <1>7, WorldTyped
          DEF TInv, TypeOK, AccountsSame, Closers

\* The same for the three calls of the billing.
LEMMA BillingTyped ==
    ASSUME TInv, NEW p \in Procs, AdjustFunding(p) \/ AdjustToken(p) \/ SaveQuota(p)
    PROVE  TInv'
  <1>1. pc[p] # "idle"
    BY DEF AdjustFunding, AdjustToken, SaveQuota
  <1>2. TypeOK /\ T(p) \in Tasks /\ job[p].task \in Tasks
    BY <1>1, AtWork
  <1>3. job[p] \in JobType /\ Delta(p) \in Int /\ job[p].target \in Nat
    BY <1>2, JobFacts DEF Delta
  <1>4. WorldSame
    BY DEF AdjustFunding, AdjustToken, SaveQuota
  <1>5. hit' \in [Tasks -> SUBSET Cuts]
    BY <1>2, HitTyped DEF AdjustFunding, AdjustToken, SaveQuota, AllTaskFaults, Cuts
  <1>6. paid' \in [Tasks -> Int] /\ tokenPaid' \in [Tasks -> Int] /\ moves' \in [Tasks -> Nat]
    BY <1>2, <1>3 DEF AdjustFunding, AdjustToken, SaveQuota, AccountsSame, TypeOK
  <1>7. row' \in [Tasks -> RowType] /\ closedBy' = closedBy
    <2>1. [row[T(p)] EXCEPT !.quota = job[p].target] \in RowType
      BY <1>2, <1>3, TaskFacts DEF RowType
    <2> QED BY <1>2, <2>1 DEF AdjustFunding, AdjustToken, SaveQuota, RowsSame, TypeOK
  <1>8. pc' \in [Procs -> PCs] /\ job' \in [Procs -> JobType] /\ Placed'
    <2>1. AfterBilling(p) \in PCs
      BY DEF AfterBilling, PCs
    <2>2. ASSUME NEW l \in PCs, Go(p, l, job[p])
          PROVE  pc' \in [Procs -> PCs] /\ job' \in [Procs -> JobType] /\ Placed'
      BY <1>2, <1>3, <2>2, GoMoves DEF Moved
    <2>3. CASE AdjustFunding(p) \/ AdjustToken(p)
      BY <2>1, <2>2, <2>3 DEF AdjustFunding, AdjustToken, PCs
    <2>4. CASE SaveQuota(p)
      <3> DEFINE j == [job[p] EXCEPT !.mem.quota = job[p].target]
      <3>1. j \in JobType /\ j.task \in Tasks
        BY <1>2, <1>3, JobFacts DEF JobType, RowType
      <3>2. Go(p, AfterBilling(p), j)
        BY <2>4 DEF SaveQuota
      <3> HIDE DEF j
      <3> QED BY <2>1, <3>1, <3>2, GoMoves DEF Moved
    <2> QED BY <2>3, <2>4
  <1> QED BY <1>2, <1>4, <1>5, <1>6, <1>7, <1>8, WorldTyped DEF TInv, TypeOK

\* What a crash cuts off.
LEMMA CutOffs ==
    /\ CutOff("stamp") = {"funding"} /\ CutOff("funding") = {"funding"}
    /\ CutOff("token") = {"token", "save"} /\ CutOff("save") = {"save"}
    /\ CutOff("finalize") = {"finalize"}
    /\ \A l : l \notin Billing => CutOff(l) = {}
  <1>1. CutOff("stamp") = {"funding"} /\ CutOff("funding") = {"funding"}
    BY DEF CutOff
  <1>2. CutOff("token") = {"token", "save"}
    BY DEF CutOff
  <1>3. CutOff("save") = {"save"} /\ CutOff("finalize") = {"finalize"}
    BY DEF CutOff
  <1>4. ASSUME NEW l, l \notin Billing PROVE CutOff(l) = {}
    BY <1>4 DEF CutOff, Billing
  <1> QED BY <1>1, <1>2, <1>3, <1>4

LEMMA CrashTyped ==
    ASSUME TInv, NEW p \in Procs, Crash(p)
    PROVE  TInv' /\ Moved(p, "idle", job[p])
  <1>1. TypeOK /\ T(p) \in Tasks
    BY AtWork DEF Crash
  <1>2. hit' \in [Tasks -> SUBSET Cuts]
    BY <1>1 DEF Crash, TypeOK, CutOff, Cuts
  <1>3. Moved(p, "idle", job[p])
    BY GoMoves DEF Crash, PCs
  <1> QED BY <1>1, <1>2, <1>3, WorldTyped
          DEF TInv, TypeOK, Crash, RowsSame, AccountsSame, Moved

\* The row of a submission.
LEMMA SubmitRowTyped ==
    ASSUME NEW status \in Statuses, NEW q \in Nat
    PROVE  /\ [NoRow EXCEPT !.status = status, !.done = status \in Terminal, !.quota = q] \in RowType
           /\ [NoRow EXCEPT !.status = status, !.quota = q] \in RowType
  <1>1. (status \in Terminal) \in BOOLEAN
    OBVIOUS
  <1>2. ASSUME NEW b \in BOOLEAN
        PROVE  [NoRow EXCEPT !.status = status, !.done = b, !.quota = q] \in RowType
    BY DEF NoRow, RowType
  <1>3. [NoRow EXCEPT !.status = status, !.done = status \in Terminal, !.quota = q] \in RowType
    BY <1>1, <1>2
  <1>4. [NoRow EXCEPT !.status = status, !.quota = q] \in RowType
    BY DEF NoRow, RowType
  <1> QED BY <1>3, <1>4

LEMMA SubmissionTyped ==
    ASSUME TInv, NEW t \in Tasks, SubmitStep(t) \/ UpstreamMoves(t)
    PROVE  TInv'
  <1>1. TypeOK /\ pc' = pc /\ job' = job /\ fetches' = fetches /\ price' = price
            /\ legacy' = legacy /\ moves' = moves
    BY DEF TInv, SubmitStep, Submit, SubmitUnconfirmed, SettleSubmit, UpstreamMoves, AccountsSame
  <1>2. Placed'
    BY <1>1 DEF TInv, Placed, T
  <1>3. hit' \in [Tasks -> SUBSET Cuts]
    BY <1>1, HitTyped
       DEF SubmitStep, Submit, SubmitUnconfirmed, SettleSubmit, UpstreamMoves, AllTaskFaults, Cuts
  <1>4. CASE \E pre, q \in Amounts : Submit(t, pre, q)
    <2>1. PICK pre \in Nat, q \in Nat : Submit(t, pre, q)
      BY <1>4, TaskDataAssumption
    <2>2. PICK status \in {"QUEUED"} \cup Terminal :
            /\ Write(t, [NoRow EXCEPT !.status = status, !.done = status \in Terminal,
                                      !.quota = q], "submit")
            /\ up' = [up EXCEPT ![t] = status]
      BY <2>1 DEF Submit
    <2>3. status \in Statuses /\ status \in Active \cup Terminal
      BY DEF Statuses, Active
    <2>4. row' \in [Tasks -> RowType] /\ closedBy' \in [Tasks -> Closers]
      BY <1>1, <2>2, <2>3, SubmitRowTyped, WriteWrites DEF Written, Closers
    <2>5. /\ up' \in [Tasks -> Active \cup Terminal]
          /\ hold' \in [Tasks -> Nat] /\ paid' \in [Tasks -> Int] /\ tokenPaid' \in [Tasks -> Int]
      BY <1>1, <2>1, <2>2, <2>3 DEF Submit, TypeOK
    <2> QED BY <1>1, <1>2, <1>3, <2>4, <2>5 DEF TInv, TypeOK, Closers
  <1>5. CASE \E pre \in Amounts : SubmitUnconfirmed(t, pre)
    <2>1. PICK pre \in Nat : SubmitUnconfirmed(t, pre)
      BY <1>5, TaskDataAssumption
    <2>2. row' \in [Tasks -> RowType] /\ closedBy' \in [Tasks -> Closers]
      BY <1>1, <2>1, SubmitRowTyped, WriteWrites
         DEF SubmitUnconfirmed, Written, Closers, Statuses
    <2>3. paid' \in [Tasks -> Int] /\ tokenPaid' \in [Tasks -> Int] /\ up' = up /\ hold' = hold
      BY <1>1, <2>1 DEF SubmitUnconfirmed, TypeOK
    <2> QED BY <1>1, <1>2, <1>3, <2>2, <2>3 DEF TInv, TypeOK, Closers
  <1>6. CASE SettleSubmit(t)
    <2>1. /\ hold' \in [Tasks -> Nat] /\ paid' \in [Tasks -> Int]
          /\ tokenPaid' \in [Tasks -> Int]
          /\ up' = up /\ row' = row /\ closedBy' = closedBy
      BY <1>1, <1>6 DEF SettleSubmit, RowsSame, TypeOK
    <2> QED BY <1>1, <1>2, <1>3, <2>1 DEF TInv, TypeOK
  <1>7. CASE UpstreamMoves(t)
    <2>1. up' \in [Tasks -> Active \cup Terminal]
      BY <1>1, <1>7 DEF UpstreamMoves, TypeOK, Active
    <2> QED BY <1>1, <1>2, <1>3, <1>7, <2>1
            DEF TInv, TypeOK, UpstreamMoves, RowsSame, AccountsSame
  <1> QED BY <1>4, <1>5, <1>6, <1>7 DEF SubmitStep

LEMMA InitTyped == Init => TInv
  <1> SUFFICES ASSUME Init PROVE TInv
    OBVIOUS
  <1>1. legacy \in [Tasks -> BOOLEAN] /\ price \in [Tasks -> PriceType]
    BY TaskDataAssumption DEF Init
  <1>2. TypeOK
    BY <1>1, EmptyTyped DEF Init, TypeOK, PCs, Active, Cuts
  <1> QED BY <1>2 DEF Init, TInv, Placed

LEMMA NextTyped == TInv /\ [Next]_vars => TInv'
  <1> SUFFICES ASSUME TInv, [Next]_vars PROVE TInv'
    OBVIOUS
  <1>1. CASE UNCHANGED vars
    BY <1>1 DEF vars, TInv, TypeOK, Placed, T
  <1>2. ASSUME NEW t \in Tasks, SubmitStep(t) \/ UpstreamMoves(t)
        PROVE  TInv'
    BY <1>2, SubmissionTyped
  <1>3. ASSUME NEW p \in Pollers, NEW t \in Tasks,
               PollLoad(p, t) \/ SweepLoad(p, t) \/ ResolveLoad(p, t)
        PROVE  TInv'
    BY <1>3, LoadsTyped, SweepLoadTyped DEF Procs
  <1>4. ASSUME NEW p \in Fetchers, NEW t \in Tasks, FetchLoad(p, t)
        PROVE  TInv'
    BY <1>4, LoadsTyped DEF Procs
  <1>5. ASSUME NEW p \in Procs, PollStep(p)
        PROVE  TInv'
    BY <1>5, AnswersTyped, WritesTyped, BillingTyped DEF PollStep
  <1>6. ASSUME NEW p \in Procs, Crash(p)
        PROVE  TInv'
    BY <1>6, CrashTyped
  <1>7. CASE Idle
    BY <1>1, <1>7 DEF Idle
  <1> QED BY <1>1, <1>2, <1>3, <1>4, <1>5, <1>6, <1>7 DEF Next

LEMMA TaskTyped == Spec => []TInv
  BY InitTyped, NextTyped, PTL DEF Spec

\* Rows, processes and accounts stay typed under every operation of the polling passes,
\* the sweep, the resolution and the user's queries; a process at work has a task.
THEOREM TaskTypeCorrect == Spec => []TypeOK
  <1>1. TInv => TypeOK
    BY DEF TInv
  <1> QED BY <1>1, TaskTyped, PTL

-----------------------------------------------------------------------------
(* The billing of polled tasks.  From here on no submission has an unknown *)
(* outcome and no user's query writes a row: with either, the properties   *)
(* below are violated (TaskLifecycle_resolve.cfg, TaskLifecycle_fetch.cfg).*)

PollingOnly == Fetchers = {} /\ "unconfirmed" \notin Paths

\* A copy that is still to be written was loaded from a row that had not ended, and as
\* long as the row has not ended its quota is the row's (or a legacy row's zero).
FreshCopy(p) ==
    pc[p] \in {"query", "write"} =>
        /\ job[p].path \in {"poll", "sweep"} /\ job[p].from \in Active
        /\ job[p].mem.status \in Active \cup Terminal
        /\ job[p].path = "sweep" => job[p].mem.status = "FAILURE" /\ job[p].priced = FALSE
        /\ row[T(p)].status # "NONE"
        /\ row[T(p)].status \in Active =>
             \/ job[p].mem.quota = row[T(p)].quota
             \/ job[p].path = "sweep" /\ legacy[T(p)] /\ job[p].mem.quota = 0

\* A process inside the billing has written the end of the row, and the account is
\* where its calls have brought it.
BillerBooks(p) ==
    pc[p] \notin {"idle", "query", "write"} =>
        /\ pc[p] \in {"funding", "token", "save"} /\ job[p].path \in {"poll", "sweep"}
        /\ row[T(p)].status \in Terminal
        /\ row[T(p)].status = job[p].mem.status /\ row[T(p)].quota = job[p].mem.quota
        /\ job[p].mem.status = "FAILURE" /\ price[T(p)].failure = Keep => job[p].target = 0
        /\ moves[T(p)] = IF pc[p] = "funding" THEN 0 ELSE 1
        /\ "hold" \notin hit[T(p)] =>
             paid[T(p)] = hold[T(p)] + IF pc[p] = "funding" THEN job[p].mem.quota ELSE job[p].target

\* Two processes are never inside the billing of one task.
SoleBiller ==
    \A p, q \in Procs : pc[p] \in Billing /\ pc[q] \in Billing /\ T(p) = T(q) => p = q

Unbilled(t) == \A p \in Procs : pc[p] \in Billing => T(p) # t

\* What a task has paid, before its end and after its billing.
TaskBooks(t) ==
    /\ row[t].status # "UNCONFIRMED"
    /\ row[t].status \notin Terminal =>
         moves[t] = 0 /\ ("hold" \notin hit[t] => paid[t] = row[t].quota + hold[t])
    /\ row[t].status \in Terminal /\ Unbilled(t) =>
         /\ moves[t] <= 1
         /\ "hold" \notin hit[t] /\ "save" \notin hit[t] =>
              \/ paid[t] = row[t].quota + hold[t]
              \/ legacy[t] /\ closedBy[t] = "sweep" /\ row[t].quota = 0
         /\ row[t].status = "FAILURE" /\ closedBy[t] \in {"poll", "sweep"} /\ ~ legacy[t]
              /\ "hold" \notin hit[t] /\ "funding" \notin hit[t]
              /\ price[t].failure = Keep => paid[t] = hold[t]

PollInv ==
    /\ TInv /\ SoleBiller
    /\ \A p \in Procs : FreshCopy(p) /\ BillerBooks(p)
    /\ \A t \in Tasks : TaskBooks(t)

\* A step of p leaves the other processes alone, a step on t the other tasks.
OwnJob(p) == \A q \in Procs \ {p} : pc'[q] = pc[q] /\ job'[q] = job[q]

OwnTask(t) ==
    /\ legacy' = legacy /\ price' = price
    /\ \A u \in Tasks \ {t} :
         /\ row'[u] = row[u] /\ closedBy'[u] = closedBy[u] /\ paid'[u] = paid[u]
         /\ moves'[u] = moves[u] /\ hit'[u] = hit[u] /\ hold'[u] = hold[u]

\* What a process or a task that has no part in a step keeps.
LEMMA ProcessLocal ==
    ASSUME PollInv, NEW t \in Tasks, OwnTask(t), NEW q \in Procs,
           pc'[q] = pc[q], job'[q] = job[q], pc[q] = "idle" \/ T(q) # t
    PROVE  FreshCopy(q)' /\ BillerBooks(q)'
  <1>1. FreshCopy(q) /\ BillerBooks(q) /\ (pc[q] # "idle" => T(q) \in Tasks)
    BY DEF PollInv, TInv, Placed
  <1>2. CASE pc[q] = "idle"
    BY <1>2 DEF FreshCopy, BillerBooks
  <1>3. CASE pc[q] # "idle"
    <2>1. /\ T(q) \in Tasks \ {t} /\ T(q)' = T(q)
          /\ row'[T(q)] = row[T(q)] /\ paid'[T(q)] = paid[T(q)] /\ moves'[T(q)] = moves[T(q)]
          /\ hit'[T(q)] = hit[T(q)] /\ hold'[T(q)] = hold[T(q)]
          /\ legacy'[T(q)] = legacy[T(q)] /\ price'[T(q)] = price[T(q)]
      BY <1>1, <1>3 DEF OwnTask, T
    <2> QED BY <1>1, <2>1 DEF FreshCopy, BillerBooks
  <1> QED BY <1>2, <1>3

LEMMA TaskLocal ==
    ASSUME PollInv, NEW t \in Tasks, OwnTask(t), NEW u \in Tasks \ {t},
           Unbilled(u)' => Unbilled(u)
    PROVE  TaskBooks(u)'
  <1>1. TaskBooks(u)
    BY DEF PollInv
  <1>2. /\ row'[u] = row[u] /\ closedBy'[u] = closedBy[u] /\ paid'[u] = paid[u]
        /\ moves'[u] = moves[u] /\ hit'[u] = hit[u] /\ hold'[u] = hold[u]
        /\ legacy'[u] = legacy[u] /\ price'[u] = price[u]
    BY DEF OwnTask
  <1> QED BY <1>1, <1>2 DEF TaskBooks

\* A step of p on t keeps the invariant if p, the other processes on t and t keep their
\* part of it and p does not join another biller.
LEMMA ProcessStepKeeps ==
    ASSUME PollInv, TInv', NEW p \in Procs, NEW t \in Tasks, OwnJob(p), OwnTask(t),
           pc[p] = "idle" \/ T(p) = t, pc'[p] = "idle" \/ T(p)' = t,
           FreshCopy(p)', BillerBooks(p)', TaskBooks(t)',
           \A q \in Procs \ {p} : pc[q] # "idle" /\ T(q) = t => FreshCopy(q)' /\ BillerBooks(q)',
           pc'[p] \in Billing => \A q \in Procs \ {p} : pc[q] \in Billing => T(q) # t
    PROVE  PollInv'
  <1>1. ASSUME NEW q \in Procs PROVE FreshCopy(q)' /\ BillerBooks(q)'
    BY ProcessLocal DEF OwnJob
  <1>2. ASSUME NEW u \in Tasks PROVE TaskBooks(u)'
    <2>1. CASE u = t
      BY <2>1
    <2>2. CASE u # t
      <3>1. Unbilled(u)' => Unbilled(u)
        BY <2>2 DEF Unbilled, OwnJob, T, Billing
      <3> QED BY <2>2, <3>1, TaskLocal
    <2> QED BY <2>1, <2>2
  <1>3. SoleBiller'
    <2> SUFFICES ASSUME NEW q \in Procs, NEW w \in Procs, pc'[q] \in Billing,
                        pc'[w] \in Billing, T(q)' = T(w)'
                 PROVE  q = w
      BY DEF SoleBiller, Billing
    <2>1. ASSUME NEW o \in Procs, o # p
          PROVE  pc'[o] = pc[o] /\ T(o)' = T(o)
      BY <2>1 DEF OwnJob, T
    <2>2. CASE q # p /\ w # p
      BY <2>1, <2>2 DEF PollInv, SoleBiller
    <2>3. CASE q = p /\ w # p
      <3>1. pc'[p] # "idle" /\ T(p)' = t
        BY <2>3 DEF Billing
      <3> QED BY <2>1, <2>3, <3>1
    <2>4. CASE q # p /\ w = p
      <3>1. pc'[p] # "idle" /\ T(p)' = t
        BY <2>4 DEF Billing
      <3> QED BY <2>1, <2>4, <3>1
    <2> QED BY <2>2, <2>3, <2>4
  <1> QED BY <1>1, <1>2, <1>3 DEF PollInv

\* The same for a step on t that no process takes.
LEMMA TaskStepKeeps ==
    ASSUME PollInv, TInv', NEW t \in Tasks, OwnTask(t), pc' = pc, job' = job, TaskBooks(t)',
           \A q \in Procs : pc[q] # "idle" /\ T(q) = t => FreshCopy(q)' /\ BillerBooks(q)'
    PROVE  PollInv'
  <1>1. ASSUME NEW q \in Procs PROVE FreshCopy(q)' /\ BillerBooks(q)'
    BY ProcessLocal
  <1>2. ASSUME NEW u \in Tasks PROVE TaskBooks(u)'
    <2>1. Unbilled(u)' => Unbilled(u)
      BY DEF Unbilled, T, Billing
    <2> QED BY <2>1, TaskLocal
  <1>3. SoleBiller'
    BY DEF PollInv, SoleBiller, T, Billing
  <1> QED BY <1>1, <1>2, <1>3 DEF PollInv

\* A step of p outside the billing that changes nothing but p's job.
LEMMA PrivateStepKeeps ==
    ASSUME PollInv, TInv', NEW p \in Procs, NEW t \in Tasks, OwnJob(p),
           row' = row, closedBy' = closedBy, paid' = paid, moves' = moves, hit' = hit,
           hold' = hold, legacy' = legacy, price' = price,
           pc[p] = "idle" \/ T(p) = t, pc'[p] = "idle" \/ T(p)' = t,
           pc[p] \notin Billing, pc'[p] \in {"idle", "query", "write"}, FreshCopy(p)'
    PROVE  PollInv'
  <1>1. OwnTask(t)
    BY DEF OwnTask
  <1>2. BillerBooks(p)'
    BY DEF BillerBooks
  <1>3. ASSUME NEW q \in Procs \ {p}
        PROVE  FreshCopy(q)' /\ BillerBooks(q)'
    <2>1. FreshCopy(q) /\ BillerBooks(q) /\ pc'[q] = pc[q] /\ job'[q] = job[q] /\ T(q)' = T(q)
      BY DEF PollInv, OwnJob, T
    <2> QED BY <2>1 DEF FreshCopy, BillerBooks
  <1>4. TaskBooks(t)'
    <2>1. Unbilled(t)' => Unbilled(t)
      BY DEF Unbilled, OwnJob, T, Billing
    <2> QED BY <2>1 DEF PollInv, TaskBooks
  <1>5. pc'[p] \notin Billing
    BY DEF Billing
  <1> QED BY <1>1, <1>2, <1>3, <1>4, <1>5, ProcessStepKeeps

\* What the invariant says of one process and its task.
LEMMA PollFacts ==
    ASSUME PollInv, NEW p \in Procs
    PROVE  TInv /\ TypeOK /\ FreshCopy(p) /\ BillerBooks(p)
  BY DEF PollInv, TInv

\* GetAllUnFinishSyncTasks and the sweep's query.
LEMMA LoadKeeps ==
    ASSUME PollInv, NEW p \in Procs, NEW t \in Tasks, PollLoad(p, t) \/ SweepLoad(p, t)
    PROVE  PollInv'
  <1>1. TInv /\ TypeOK /\ row[t].status \in Active /\ pc[p] = "idle"
    BY PollFacts DEF PollLoad, SweepLoad, Load
  <1>2. TInv'
    BY <1>1, LoadsTyped, SweepLoadTyped
  <1>l. PICK l \in {"query", "write"} : \E j :
          /\ Moved(p, l, j) /\ j.task = t /\ j.path \in {"poll", "sweep"}
          /\ j.from = row[t].status /\ j.priced = FALSE
          /\ j.path = "sweep" => j.mem.status = "FAILURE"
          /\ j.mem.status \in Active \cup Terminal
          /\ \/ j.mem.quota = row[t].quota
             \/ j.path = "sweep" /\ legacy[t] /\ j.mem.quota = 0
    <2>1. CASE PollLoad(p, t)
      <3> DEFINE j == [task |-> t, mem |-> row[t], path |-> "poll", from |-> row[t].status,
                       priced |-> FALSE, target |-> 0]
      <3>1. Moved(p, "query", j)
        BY <1>1, <2>1, LoadTyped DEF PollLoad, Ways
      <3> QED BY <1>1, <3>1
    <2>2. CASE SweepLoad(p, t)
      <3>1. Moved(p, "write", SweepJob(t))
        BY <1>1, <2>2, SweepLoadTyped
      <3>2. /\ SweepJob(t).path = "sweep" /\ SweepJob(t).from = row[t].status
            /\ SweepJob(t).priced = FALSE
        BY DEF SweepJob
      <3>3. \/ SweepJob(t).mem.quota = row[t].quota
            \/ legacy[t] /\ SweepJob(t).mem.quota = 0
        BY <1>1, SweepJobTyped
      <3>4. SweepJob(t).task = t /\ SweepJob(t).mem.status = "FAILURE"
        BY <1>1, SweepJobTyped
      <3>5. SweepJob(t).mem.status \in Active \cup Terminal
        BY <3>4 DEF Terminal
      <3> QED BY <3>1, <3>2, <3>3, <3>4, <3>5
    <2> QED BY <2>1, <2>2
  <1>3. PICK j :
          /\ Moved(p, l, j) /\ j.task = t /\ j.path \in {"poll", "sweep"}
          /\ j.from = row[t].status /\ j.priced = FALSE
          /\ j.path = "sweep" => j.mem.status = "FAILURE"
          /\ j.mem.status \in Active \cup Terminal
          /\ \/ j.mem.quota = row[t].quota
             \/ j.path = "sweep" /\ legacy[t] /\ j.mem.quota = 0
    BY <1>l
  <1>4. /\ row' = row /\ closedBy' = closedBy /\ paid' = paid /\ moves' = moves /\ hit' = hit
        /\ hold' = hold /\ legacy' = legacy /\ price' = price
    BY DEF PollLoad, SweepLoad, Load, RowsSame, AccountsSame, Works, WorldSame
  <1>5. pc'[p] = l /\ job'[p] = j /\ T(p)' = t /\ OwnJob(p)
    BY <1>3 DEF Moved, OwnJob, T
  <1>6. FreshCopy(p)'
    BY <1>1, <1>3, <1>4, <1>5 DEF FreshCopy, Active
  <1> QED BY <1>1, <1>2, <1>4, <1>5, <1>6, PrivateStepKeeps DEF Billing

\* The answers a poll gets.
LEMMA AnswerKeeps ==
    ASSUME PollInv, NEW p \in Procs,
           \/ PollAnswer(p) \/ PollNotFound(p) \/ PollError(p)
           \/ ResolveAnswer(p) \/ ResolveExpired(p) \/ FetchAnswer(p)
    PROVE  PollInv'
  <1>1. TInv /\ TypeOK /\ FreshCopy(p) /\ pc[p] = "query"
    BY PollFacts
       DEF PollAnswer, PollNotFound, PollError, ResolveAnswer, ResolveExpired, FetchAnswer
  <1>2. /\ job[p].path = "poll" /\ job[p].from \in Active /\ T(p) \in Tasks
        /\ job[p].mem \in RowType /\ job[p].mem.status \in Active \cup Terminal
    BY <1>1, AtWork, JobFacts
       DEF FreshCopy, PollAnswer, PollNotFound, PollError, ResolveAnswer, ResolveExpired,
           FetchAnswer
  <1>3. TInv'
    BY <1>1, AnswersTyped
  <1>4. PICK mem \in RowType, b \in BOOLEAN :
          /\ Prepare(p, mem, b, "write") /\ mem.quota = job[p].mem.quota
          /\ mem.status \in Active \cup Terminal
    <2>1. CASE PollAnswer(p)
      <3>1. PICK done \in BOOLEAN :
              Prepare(p, [job[p].mem EXCEPT !.status = up[T(p)], !.done = done,
                                            !.fails = IF up[T(p)] \in Terminal THEN @ ELSE 0],
                      TRUE, "write")
        BY <2>1 DEF PollAnswer, ReportedDone
      <3> DEFINE mem == [job[p].mem EXCEPT !.status = up[T(p)], !.done = done,
                                           !.fails = IF up[T(p)] \in Terminal THEN @ ELSE 0]
      <3>2. up[T(p)] \in Active \cup Terminal
        BY <1>1, <1>2, TaskFacts
      <3>3. mem \in RowType /\ mem.quota = job[p].mem.quota /\ mem.status = up[T(p)]
        BY <1>2, <3>2 DEF RowType, Statuses
      <3>4. Prepare(p, mem, TRUE, "write")
        BY <3>1
      <3> HIDE DEF mem
      <3> QED BY <3>2, <3>3, <3>4
    <2>2. CASE PollNotFound(p)
      <3>1. PICK priced \in BOOLEAN : Prepare(p, Failed(job[p].mem), priced, "write")
        BY <2>2 DEF PollNotFound
      <3> QED BY <1>2, <3>1, FailedTyped DEF Terminal
    <2>3. CASE PollError(p)
      <3> DEFINE mem == [job[p].mem EXCEPT !.fails = @ + 1]
                 cutoff == MaxPollFailures > 0 /\ mem.fails >= MaxPollFailures
                 new == IF cutoff THEN Failed(mem) ELSE mem
      <3>1. mem \in RowType /\ mem.quota = job[p].mem.quota /\ mem.status = job[p].mem.status
        BY <1>2, RowFacts DEF RowType
      <3>2. PICK priced \in BOOLEAN : Prepare(p, new, priced, "write")
        BY <2>3 DEF PollError
      <3>3. new \in RowType /\ new.quota = mem.quota /\ new.status \in {"FAILURE", mem.status}
        BY <3>1, FailedTyped
      <3> HIDE DEF new, mem
      <3> QED BY <1>2, <3>1, <3>2, <3>3 DEF Terminal
    <2> QED BY <1>2, <2>1, <2>2, <2>3 DEF ResolveAnswer, ResolveExpired, FetchAnswer
  <1> DEFINE j == [job[p] EXCEPT !.mem = mem, !.priced = b]
  <1>5. Moved(p, "write", j)
    BY <1>1, <1>4, PrepareTyped
  <1>6. /\ j.mem = mem /\ j.task = job[p].task /\ j.path = job[p].path
        /\ j.from = job[p].from
    BY <1>1, JobFacts DEF JobType
  <1> HIDE DEF j
  <1>7. /\ row' = row /\ closedBy' = closedBy /\ paid' = paid /\ moves' = moves /\ hit' = hit
        /\ hold' = hold /\ legacy' = legacy /\ price' = price
    BY <1>4 DEF Prepare, RowsSame, AccountsSame, Works, WorldSame
  <1>8. pc'[p] = "write" /\ job'[p] = j /\ T(p)' = T(p) /\ OwnJob(p)
    BY <1>5, <1>6 DEF Moved, OwnJob, T
  <1>9. FreshCopy(p)'
    BY <1>1, <1>2, <1>4, <1>6, <1>7, <1>8 DEF FreshCopy
  <1> QED BY <1>1, <1>2, <1>3, <1>7, <1>8, <1>9, PrivateStepKeeps DEF Billing

\* The row of t ends, or moves on, by the hand of p, which has a fresh copy or makes the
\* bulk update: nobody was inside its billing.
LEMMA RowWrittenKeeps ==
    ASSUME PollInv, TInv', NEW p \in Procs, pc[p] \in {"query", "write"},
           NEW t \in Tasks, T(p) = t, row[t].status \in Active,
           NEW r \in RowType, NEW path \in {"poll", "sweep", "bulk"}, Written(t, r, path),
           r.status \in Active \cup Terminal,
           \/ r.quota = row[t].quota
           \/ path = "sweep" /\ legacy[t] /\ r.quota = 0 /\ r.status = "FAILURE",
           AccountsSame, WorldSame, Works, OwnJob(p),
           pc'[p] = "idle" \/ T(p)' = t,
           pc'[p] \in {"idle", "funding"},
           pc'[p] = "funding" =>
             /\ r.status \in Terminal /\ r.quota = row[t].quota
             /\ job'[p].path \in {"poll", "sweep"} /\ job'[p].mem = r
             /\ r.status = "FAILURE" /\ price[t].failure = Keep => job'[p].target = 0,
           pc'[p] = "idle" /\ r.status = "FAILURE" /\ path \in {"poll", "sweep"}
              /\ price[t].failure = Keep => r.quota = 0
    PROVE  PollInv'
  <1>1. TypeOK /\ TaskBooks(t)
    BY PollFacts DEF PollInv
  <1>2. /\ row'[t] = r /\ closedBy'[t] = (IF r.status \in Terminal THEN path ELSE closedBy[t])
        /\ \A u \in Tasks \ {t} : row'[u] = row[u] /\ closedBy'[u] = closedBy[u]
    BY DEF Written, Active, Terminal
  <1>3. /\ paid' = paid /\ moves' = moves /\ hit' = hit /\ hold' = hold
        /\ legacy' = legacy /\ price' = price
    BY DEF AccountsSame, WorldSame, Works
  <1>4. OwnTask(t)
    BY <1>2, <1>3 DEF OwnTask
  <1>5. /\ row[t].status \notin Terminal /\ moves[t] = 0
        /\ ("hold" \notin hit[t] => paid[t] = row[t].quota + hold[t])
    BY <1>1 DEF TaskBooks, Active, Terminal
  <1>6. ASSUME NEW q \in Procs, pc[q] \in Billing PROVE T(q) # t
    BY <1>5, <1>6, PollFacts DEF BillerBooks, Billing
  <1>7. ASSUME NEW q \in Procs \ {p}, pc[q] # "idle", T(q) = t
        PROVE  FreshCopy(q)' /\ BillerBooks(q)'
    <2>1. /\ FreshCopy(q) /\ BillerBooks(q) /\ pc'[q] = pc[q] /\ job'[q] = job[q] /\ T(q)' = t
      BY <1>7, PollFacts DEF OwnJob, T
    <2>2. pc[q] \in {"query", "write"}
      BY <1>5, <1>7, <2>1 DEF BillerBooks
    <2>3. r.status \in Active => r.quota = row[t].quota
      BY DEF Active
    <2>4. r.status # "NONE"
      BY DEF Active, Terminal
    <2> QED BY <1>2, <1>3, <1>7, <2>1, <2>2, <2>3, <2>4 DEF FreshCopy, BillerBooks
  <1>8. FreshCopy(p)' /\ BillerBooks(p)'
    <2>1. CASE pc'[p] = "idle"
      BY <2>1 DEF FreshCopy, BillerBooks
    <2>2. CASE pc'[p] = "funding"
      BY <1>2, <1>3, <1>5, <2>2, TaskFacts, <1>1 DEF FreshCopy, BillerBooks
    <2> QED BY <2>1, <2>2
  <1>9. TaskBooks(t)'
    <2>1. CASE r.status \in Active
      BY <1>2, <1>3, <1>5, <2>1 DEF TaskBooks, Active, Terminal
    <2>2. CASE r.status \in Terminal
      <3>1. Unbilled(t)' => pc'[p] = "idle"
        BY DEF Unbilled, Billing
      <3>2. hold[t] \in Int
        BY <1>1, TaskFacts
      <3> QED BY <1>2, <1>3, <1>5, <2>2, <3>1, <3>2 DEF TaskBooks, Terminal
    <2> QED BY <2>1, <2>2
  <1> QED BY <1>4, <1>6, <1>7, <1>8, <1>9, ProcessStepKeeps

\* A failure for which the upstream reports no usage is settled at zero.
LEMMA FailureTarget ==
    ASSUME NEW p, NEW mem, mem.status = "FAILURE",
           job[p].priced = FALSE \/ price[T(p)].failure = Keep
    PROVE  Target(p, mem) = 0
  BY DEF Target, Computed, Keep

\* UpdateWithStatus of a poll or of the sweep.
LEMMA WriteRowKeeps ==
    ASSUME PollInv, NEW p \in Procs, WriteRow(p)
    PROVE  PollInv'
  <1> DEFINE t == T(p)
             mem == job[p].mem
             path == job[p].path
  <1>1. /\ TInv /\ TypeOK /\ FreshCopy(p) /\ BillerBooks(p) /\ pc[p] = "write" /\ t \in Tasks
        /\ AccountsSame /\ WorldSame /\ Works
    BY PollFacts, AtWork DEF WriteRow
  <1>2. /\ path \in {"poll", "sweep"} /\ job[p].from \in Active /\ mem \in RowType
        /\ mem.status \in Active \cup Terminal
        /\ path = "sweep" => mem.status = "FAILURE" /\ job[p].priced = FALSE
    BY <1>1, JobFacts DEF FreshCopy
  <1>3. TInv'
    BY <1>1, WritesTyped
  <1>6. ASSUME NEW won \in BOOLEAN, AfterWrite(p, won)
        PROVE  IF won /\ mem.status \in Terminal
               THEN StartBilling(p, mem, "idle") ELSE Go(p, "idle", job[p])
    BY <1>2, <1>6 DEF AfterWrite
  <1>4. CASE RowsSame /\ Go(p, "idle", job[p])
    <2>1. Moved(p, "idle", job[p])
      BY <1>1, <1>4, GoMoves DEF PCs
    <2>2. pc'[p] = "idle" /\ OwnJob(p) /\ FreshCopy(p)'
      BY <2>1 DEF Moved, OwnJob, FreshCopy
    <2> QED BY <1>1, <1>3, <1>4, <2>2, PrivateStepKeeps
            DEF RowsSame, AccountsSame, WorldSame, Works, Billing
  <1>5. CASE /\ row[t].status = job[p].from
             /\ Write(t, mem, path)
             /\ IF mem.status \in Terminal
                THEN StartBilling(p, mem, "idle") ELSE Go(p, "idle", job[p])
    <2>1. /\ row[t].status \in Active
          /\ \/ mem.quota = row[t].quota
             \/ path = "sweep" /\ legacy[t] /\ mem.quota = 0
      BY <1>1, <1>2, <1>5 DEF FreshCopy
    <2>2. Written(t, mem, path)
      BY <1>1, <1>2, <1>5, WriteWrites DEF Closers
    <2>3. CASE mem.status \in Active
      <3>1. Go(p, "idle", job[p])
        BY <1>5, <2>3 DEF Active, Terminal
      <3>2. pc'[p] = "idle" /\ OwnJob(p)
        BY <1>1, <3>1, GoMoves DEF Moved, OwnJob, PCs
      <3>3. mem.status # "FAILURE" /\ mem.quota = row[t].quota
        BY <1>2, <2>1, <2>3 DEF Active
      <3> HIDE DEF t, mem, path
      <3> QED BY <1>1, <1>2, <1>3, <2>1, <2>2, <2>3, <3>2, <3>3, RowWrittenKeeps DEF t
    <2>4. CASE mem.status \in Terminal
      <3>1. PICK j \in JobType, m \in {"funding", "idle"} :
              /\ j.mem = mem /\ j.target = Target(p, mem) /\ j.task = job[p].task
              /\ j.path = path
              /\ m = "funding" <=> Target(p, mem) # mem.quota
              /\ Moved(p, m, j)
        BY <1>1, <1>2, <1>5, <2>4, StartBillingMoves
      <3>2. pc'[p] = m /\ OwnJob(p) /\ (m = "funding" => job'[p] = j /\ T(p)' = t)
        BY <3>1 DEF Moved, OwnJob, T
      <3>3. mem.status = "FAILURE" /\ price[t].failure = Keep => Target(p, mem) = 0
        BY FailureTarget
      <3>4. path = "sweep" => Target(p, mem) = 0
        BY <1>2, FailureTarget
      <3>5. m = "funding" => mem.quota = row[t].quota
        BY <2>1, <3>1, <3>4
      <3>6. m = "idle" /\ mem.status = "FAILURE" /\ price[t].failure = Keep => mem.quota = 0
        BY <3>1, <3>3
      <3>7. \/ mem.quota = row[t].quota
            \/ path = "sweep" /\ legacy[t] /\ mem.quota = 0 /\ mem.status = "FAILURE"
        BY <1>2, <2>1
      <3>8. /\ pc'[p] \in {"idle", "funding"} /\ (pc'[p] = "idle" \/ T(p)' = t)
            /\ pc'[p] = "funding" =>
                 /\ mem.status \in Terminal /\ mem.quota = row[t].quota
                 /\ job'[p].path \in {"poll", "sweep"} /\ job'[p].mem = mem
                 /\ mem.status = "FAILURE" /\ price[t].failure = Keep => job'[p].target = 0
        BY <1>2, <2>4, <3>1, <3>2, <3>3, <3>5
      <3>9. T(p) = t /\ pc[p] \in {"query", "write"} /\ path \in {"poll", "sweep", "bulk"}
        BY <1>1, <1>2
      <3> HIDE DEF t, mem, path
      <3> QED BY <1>1, <1>2, <1>3, <2>1, <2>2, <2>4, <3>2, <3>6, <3>7, <3>8, <3>9,
                 RowWrittenKeeps
    <2> QED BY <1>2, <2>3, <2>4
  <1> QED BY <1>4, <1>5, <1>6 DEF WriteRow

\* TaskBulkUpdateByID.
LEMMA BulkFailKeeps ==
    ASSUME PollInv, NEW p \in Procs, BulkFail(p)
    PROVE  PollInv'
  <1> DEFINE t == T(p)
             r == Failed(row[t])
  <1>1. /\ TInv /\ TypeOK /\ pc[p] = "query" /\ t \in Tasks
        /\ AccountsSame /\ WorldSame /\ Works /\ Go(p, "idle", job[p])
    BY PollFacts, AtWork DEF BulkFail
  <1>2. TInv'
    BY <1>1, WritesTyped
  <1>3. pc'[p] = "idle" /\ OwnJob(p) /\ FreshCopy(p)'
    BY <1>1, GoMoves DEF Moved, OwnJob, PCs, FreshCopy
  <1>4. CASE RowsSame
    BY <1>1, <1>2, <1>3, <1>4, PrivateStepKeeps
       DEF RowsSame, AccountsSame, WorldSame, Works, Billing
  <1>5. CASE row[t].status \in Active /\ Write(t, r, "bulk")
    <2>1. r \in RowType /\ r.status = "FAILURE" /\ r.quota = row[t].quota
      BY <1>1, TaskFacts, FailedTyped
    <2>2. Written(t, r, "bulk")
      BY <1>1, <1>5, <2>1, WriteWrites DEF Closers
    <2>3. r.status \in Active \cup Terminal /\ T(p) = t
      BY <2>1 DEF Terminal
    <2> HIDE DEF t, r
    <2> QED BY <1>1, <1>2, <1>3, <1>5, <2>1, <2>2, <2>3, RowWrittenKeeps
  <1> QED BY <1>4, <1>5 DEF BulkFail

\* A step of the one biller of t.
LEMMA BillerStepKeeps ==
    ASSUME PollInv, TInv', NEW p \in Procs, pc[p] \in Billing, NEW t \in Tasks, T(p) = t,
           OwnJob(p), OwnTask(t), row'[t].status = row[t].status,
           pc'[p] = "idle" \/ T(p)' = t, pc'[p] \notin {"query", "write"},
           BillerBooks(p)', pc'[p] = "idle" => TaskBooks(t)', pc'[p] = "idle" \/ pc'[p] \in Billing
    PROVE  PollInv'
  <1>1. row[t].status \in Terminal
    BY PollFacts DEF BillerBooks, Billing
  <1>2. ASSUME NEW q \in Procs \ {p}, pc[q] \in Billing PROVE T(q) # t
    BY <1>2 DEF PollInv, SoleBiller
  <1>3. ASSUME NEW q \in Procs \ {p}, pc[q] # "idle", T(q) = t
        PROVE  FreshCopy(q)' /\ BillerBooks(q)'
    <2>1. FreshCopy(q) /\ BillerBooks(q) /\ pc'[q] = pc[q] /\ job'[q] = job[q] /\ T(q)' = t
      BY <1>3, PollFacts DEF OwnJob, T
    <2>2. pc[q] \in {"query", "write"}
      BY <1>2, <1>3, <2>1 DEF BillerBooks, Billing
    <2> QED BY <1>1, <1>3, <2>1, <2>2 DEF FreshCopy, BillerBooks, Terminal, Active
  <1>4. FreshCopy(p)'
    BY DEF FreshCopy
  <1>5. TaskBooks(t)'
    <2>1. CASE pc'[p] \in Billing
      <3>1. ~ Unbilled(t)'
        BY <2>1 DEF Unbilled, Billing
      <3> QED BY <1>1, <3>1 DEF TaskBooks, Terminal
    <2> QED BY <2>1
  <1> QED BY <1>2, <1>3, <1>4, <1>5, ProcessStepKeeps

\* taskAdjustFunding.
LEMMA AdjustFundingKeeps ==
    ASSUME PollInv, NEW p \in Procs, AdjustFunding(p)
    PROVE  PollInv'
  <1>0. PICK t \in Tasks : T(p) = t
    BY PollFacts, AtWork DEF AdjustFunding
  <1>1. /\ TInv /\ TypeOK /\ BillerBooks(p) /\ pc[p] = "funding" /\ t \in Tasks
        /\ job[p] \in JobType /\ job[p].task \in Tasks
    BY <1>0, PollFacts, AtWork, JobFacts DEF AdjustFunding
  <1>2. /\ job[p].path \in {"poll", "sweep"} /\ row[t].status \in Terminal
        /\ row[t].status = job[p].mem.status /\ row[t].quota = job[p].mem.quota
        /\ job[p].mem.status = "FAILURE" /\ price[t].failure = Keep => job[p].target = 0
        /\ moves[t] = 0 /\ ("hold" \notin hit[t] => paid[t] = hold[t] + job[p].mem.quota)
    BY <1>0, <1>1 DEF BillerBooks
  <1>3. TInv' /\ pc[p] \in Billing
    BY <1>0, <1>1, BillingTyped DEF Billing
  <1>4. row' = row /\ closedBy' = closedBy /\ legacy' = legacy /\ price' = price /\ hold' = hold
    BY <1>0 DEF AdjustFunding, RowsSame, WorldSame
  <1>5. CASE /\ paid' = [paid EXCEPT ![t] = @ + Delta(p)]
             /\ moves' = [moves EXCEPT ![t] = @ + 1]
             /\ Go(p, "token", job[p]) /\ Works
    <2>1. pc'[p] = "token" /\ job'[p] = job[p] /\ T(p)' = t /\ OwnJob(p)
      BY <1>0, <1>1, <1>5, GoMoves DEF Moved, OwnJob, PCs, T
    <2>2. OwnTask(t) /\ paid'[t] = paid[t] + Delta(p) /\ moves'[t] = moves[t] + 1 /\ hit' = hit
      BY <1>0, <1>1, <1>4, <1>5 DEF OwnTask, TypeOK, Works
    <2>3. paid[t] \in Int /\ hold[t] \in Int /\ job[p].target \in Int /\ job[p].mem.quota \in Int
      BY <1>0, <1>1, TaskFacts, JobFacts
    <2>4. BillerBooks(p)'
      BY <1>0, <1>2, <1>4, <2>1, <2>2, <2>3 DEF BillerBooks, Delta
    <2> QED BY <1>0, <1>1, <1>3, <1>4, <2>1, <2>2, <2>4, BillerStepKeeps DEF Billing
  <1>6. CASE /\ Fails(t, "funding", "funding") /\ UNCHANGED <<paid, moves>>
             /\ Go(p, AfterBilling(p), job[p])
    <2>1. AfterBilling(p) = "idle"
      BY <1>0, <1>2 DEF AfterBilling
    <2>2. pc'[p] = "idle" /\ OwnJob(p)
      BY <1>0, <1>1, <1>6, <2>1, GoMoves DEF Moved, OwnJob, PCs
    <2>3. OwnTask(t) /\ hit'[t] = hit[t] \cup {"funding"}
      BY <1>0, <1>1, <1>4, <1>6 DEF OwnTask, TypeOK, Fails
    <2>4. BillerBooks(p)'
      BY <1>0, <2>2 DEF BillerBooks
    <2>6. hold[t] \in Int /\ row[t].quota \in Int
      BY <1>1, TaskFacts
    <2>5. TaskBooks(t)'
      BY <1>0, <1>2, <1>4, <1>6, <2>3, <2>6 DEF TaskBooks, Terminal
    <2> QED BY <1>0, <1>1, <1>3, <1>4, <2>2, <2>3, <2>4, <2>5, BillerStepKeeps
  <1> QED BY <1>0, <1>5, <1>6 DEF AdjustFunding

\* taskAdjustTokenQuota.
LEMMA AdjustTokenKeeps ==
    ASSUME PollInv, NEW p \in Procs, AdjustToken(p)
    PROVE  PollInv'
  <1>0. PICK t \in Tasks : T(p) = t
    BY PollFacts, AtWork DEF AdjustToken
  <1>1. /\ TInv /\ TypeOK /\ BillerBooks(p) /\ pc[p] = "token" /\ t \in Tasks
        /\ job[p] \in JobType /\ job[p].task \in Tasks
    BY <1>0, PollFacts, AtWork, JobFacts DEF AdjustToken
  <1>2. TInv' /\ pc[p] \in Billing
    BY <1>0, <1>1, BillingTyped DEF Billing
  <1>3. /\ row' = row /\ closedBy' = closedBy /\ legacy' = legacy /\ price' = price
        /\ hold' = hold /\ paid' = paid /\ moves' = moves /\ Go(p, "save", job[p])
    BY <1>0 DEF AdjustToken, RowsSame, WorldSame
  <1>4. hit[t] \subseteq hit'[t] /\ \A u \in Tasks \ {t} : hit'[u] = hit[u]
    BY <1>0, <1>1 DEF AdjustToken, Works, Fails, TypeOK
  <1>5. pc'[p] = "save" /\ job'[p] = job[p] /\ T(p)' = t /\ OwnJob(p)
    BY <1>0, <1>1, <1>3, GoMoves DEF Moved, OwnJob, PCs, T
  <1>6. OwnTask(t)
    BY <1>0, <1>3, <1>4 DEF OwnTask
  <1>7. BillerBooks(p)'
    BY <1>0, <1>1, <1>3, <1>4, <1>5 DEF BillerBooks
  <1> QED BY <1>0, <1>1, <1>2, <1>3, <1>5, <1>6, <1>7, BillerStepKeeps DEF Billing

\* UpdateQuota.
LEMMA SaveQuotaKeeps ==
    ASSUME PollInv, NEW p \in Procs, SaveQuota(p)
    PROVE  PollInv'
  <1>0. PICK t \in Tasks : T(p) = t
    BY PollFacts, AtWork DEF SaveQuota
  <1> DEFINE j == [job[p] EXCEPT !.mem.quota = job[p].target]
  <1>1. /\ TInv /\ TypeOK /\ BillerBooks(p) /\ pc[p] = "save" /\ t \in Tasks
        /\ job[p] \in JobType /\ job[p].task \in Tasks
    BY <1>0, PollFacts, AtWork, JobFacts DEF SaveQuota
  <1>2. /\ job[p].path \in {"poll", "sweep"} /\ row[t].status \in Terminal
        /\ row[t].status = job[p].mem.status
        /\ job[p].mem.status = "FAILURE" /\ price[t].failure = Keep => job[p].target = 0
        /\ moves[t] = 1 /\ ("hold" \notin hit[t] => paid[t] = hold[t] + job[p].target)
    BY <1>0, <1>1 DEF BillerBooks
  <1>3. TInv' /\ pc[p] \in Billing
    BY <1>0, <1>1, BillingTyped DEF Billing
  <1>4. /\ closedBy' = closedBy /\ legacy' = legacy /\ price' = price /\ hold' = hold
        /\ paid' = paid /\ moves' = moves /\ Go(p, "idle", j)
    BY <1>0, <1>2 DEF SaveQuota, WorldSame, AccountsSame, AfterBilling
  <1>5. pc'[p] = "idle" /\ OwnJob(p)
    BY <1>0, <1>1, <1>4, GoMoves DEF Moved, OwnJob, PCs
  <1>6. /\ \/ row'[t] = [row[t] EXCEPT !.quota = job[p].target] /\ hit' = hit
           \/ /\ row' = row /\ hit'[t] = hit[t] \cup {"save"}
              /\ \A u \in Tasks \ {t} : hit'[u] = hit[u]
        /\ \A u \in Tasks \ {t} : row'[u] = row[u]
    BY <1>0, <1>1 DEF SaveQuota, Works, Fails, TypeOK
  <1>7. /\ row'[t].status = row[t].status /\ hit[t] \subseteq hit'[t]
        /\ "save" \in hit'[t] \/ row'[t].quota = job[p].target
    BY <1>0, <1>1, <1>6, TaskFacts DEF RowType
  <1>8. OwnTask(t)
    BY <1>0, <1>4, <1>6 DEF OwnTask
  <1>9. TaskBooks(t)'
    <2>1. hold[t] \in Int /\ job[p].target \in Int
      BY <1>0, <1>1, TaskFacts, JobFacts
    <2> QED BY <1>0, <1>2, <1>4, <1>7, <2>1 DEF TaskBooks, Terminal
  <1>10. BillerBooks(p)'
    BY <1>0, <1>5 DEF BillerBooks
  <1> HIDE DEF j
  <1> QED BY <1>0, <1>1, <1>3, <1>5, <1>7, <1>8, <1>9, <1>10, BillerStepKeeps

\* A process dies.
LEMMA CrashKeeps ==
    ASSUME PollInv, NEW p \in Procs, Crash(p)
    PROVE  PollInv'
  <1>0. PICK t \in Tasks : T(p) = t
    BY PollFacts, AtWork DEF Crash
  <1>1. TInv /\ TypeOK /\ BillerBooks(p) /\ pc[p] # "idle" /\ t \in Tasks
    BY PollFacts, AtWork DEF Crash
  <1>2. TInv' /\ pc'[p] = "idle" /\ OwnJob(p)
    BY <1>0, <1>1, CrashTyped DEF Moved, OwnJob
  <1>3. /\ row' = row /\ closedBy' = closedBy /\ legacy' = legacy /\ price' = price
        /\ hold' = hold /\ paid' = paid /\ moves' = moves
        /\ hit' = [hit EXCEPT ![t] = @ \cup CutOff(pc[p])]
    BY <1>0 DEF Crash, RowsSame, AccountsSame, WorldSame
  <1>4. CASE pc[p] \in Billing
    <2>1. hit'[t] = hit[t] \cup CutOff(pc[p]) /\ OwnTask(t)
      BY <1>0, <1>1, <1>3, <1>4 DEF OwnTask, TypeOK
    <2>2. /\ row[t].status \in Terminal /\ moves[t] <= 1 /\ row[t].quota = job[p].mem.quota
          /\ row[t].status = job[p].mem.status /\ pc[p] \in {"funding", "token", "save"}
          /\ row[t].status = "FAILURE" /\ price[t].failure = Keep => job[p].target = 0
          /\ "hold" \notin hit[t] =>
               paid[t] = hold[t] + IF pc[p] = "funding" THEN row[t].quota ELSE job[p].target
      BY <1>0, <1>1, <1>4 DEF BillerBooks, Billing
    <2>4. \/ pc[p] = "funding" /\ "funding" \in hit'[t]
          \/ pc[p] # "funding" /\ "save" \in hit'[t]
      <3>1. CASE pc[p] = "funding"
        BY <2>1, <3>1, CutOffs
      <3>2. CASE pc[p] = "token"
        BY <2>1, <3>2, CutOffs
      <3>3. CASE pc[p] = "save"
        BY <2>1, <3>3, CutOffs
      <3> QED BY <2>2, <3>1, <3>2, <3>3
    <2>5. "hold" \in hit[t] => "hold" \in hit'[t]
      BY <2>1
    <2>6. hold[t] \in Int /\ row[t].quota \in Int /\ paid[t] \in Int
      BY <1>1, TaskFacts
    <2>7. BillerBooks(p)'
      BY <1>2 DEF BillerBooks
    <2>8. TaskBooks(t)'
      BY <1>3, <2>2, <2>4, <2>5, <2>6 DEF TaskBooks, Terminal
    <2> QED BY <1>0, <1>1, <1>2, <1>3, <1>4, <2>1, <2>7, <2>8, BillerStepKeeps
  <1>5. CASE pc[p] \notin Billing
    <2>1. hit[t] \cup CutOff(pc[p]) = hit[t]
      BY <1>5, CutOffs
    <2>2. hit' = hit
      BY <1>0, <1>1, <1>3, <2>1 DEF TypeOK
    <2>3. FreshCopy(p)'
      BY <1>0, <1>2 DEF FreshCopy
    <2> QED BY <1>0, <1>1, <1>2, <1>3, <1>5, <2>2, <2>3, PrivateStepKeeps
  <1> QED BY <1>0, <1>4, <1>5

\* The submission inserts the row that nobody has loaded yet.
LEMMA SubmitKeeps ==
    ASSUME PollInv, NEW t \in Tasks, NEW pre \in Amounts, NEW q \in Amounts, Submit(t, pre, q)
    PROVE  PollInv'
  <1>1. TInv /\ TypeOK /\ TaskBooks(t) /\ row[t].status = "NONE" /\ pre \in Nat /\ q \in Nat
    BY TaskDataAssumption DEF PollInv, TInv, Submit
  <1>2. TInv'
    BY <1>1, SubmissionTyped DEF SubmitStep
  <1>3. PICK status \in {"QUEUED"} \cup Terminal :
          Write(t, [NoRow EXCEPT !.status = status, !.done = status \in Terminal,
                                 !.quota = q], "submit")
    BY DEF Submit
  <1> DEFINE r == [NoRow EXCEPT !.status = status, !.done = status \in Terminal, !.quota = q]
  <1>4. r \in RowType
    BY <1>1, SubmitRowTyped DEF Statuses, Active
  <1>5. r.status = status /\ r.quota = q
    BY DEF NoRow
  <1>6. Write(t, r, "submit")
    BY <1>3
  <1> HIDE DEF r
  <1>7. Written(t, r, "submit")
    BY <1>1, <1>4, <1>6, WriteWrites DEF Closers
  <1>8. row'[t] = r /\ (status \in Terminal => closedBy'[t] = "submit")
    BY <1>1, <1>5, <1>7 DEF Written, Terminal
  <1>9. /\ hold'[t] = pre - q /\ paid'[t] = pre /\ hit' = hit /\ moves' = moves
        /\ pc' = pc /\ job' = job
    BY <1>1 DEF Submit, TypeOK, Works
  <1>10. OwnTask(t)
    BY <1>1, <1>7 DEF OwnTask, Written, Submit, TypeOK, Works
  <1>11. ASSUME NEW o \in Procs, pc[o] # "idle" PROVE T(o) # t
    <2>1. FreshCopy(o) /\ BillerBooks(o)
      BY <1>11, PollFacts
    <2>2. row[T(o)].status # "NONE"
      <3>1. CASE pc[o] \in {"query", "write"}
        BY <2>1, <3>1 DEF FreshCopy
      <3>2. CASE pc[o] \notin {"query", "write"}
        BY <1>11, <2>1, <3>2, PollFacts DEF BillerBooks, Terminal
      <3> QED BY <3>1, <3>2
    <2> QED BY <1>1, <2>2
  <1>12. TaskBooks(t)'
    BY <1>1, <1>5, <1>8, <1>9 DEF TaskBooks, Terminal
  <1> QED BY <1>2, <1>9, <1>10, <1>11, <1>12, TaskStepKeeps

\* The settlement of the submission, at any time after the row was inserted.
LEMMA SettleSubmitKeeps ==
    ASSUME PollInv, NEW t \in Tasks, SettleSubmit(t)
    PROVE  PollInv'
  <1>1. TInv /\ TypeOK /\ TaskBooks(t) /\ paid[t] \in Int /\ hold[t] \in Int
    BY TaskFacts DEF PollInv, TInv
  <1>2. TInv'
    BY <1>1, SubmissionTyped DEF SubmitStep
  <1>3. /\ row' = row /\ closedBy' = closedBy /\ pc' = pc /\ job' = job /\ moves' = moves
        /\ legacy' = legacy /\ price' = price /\ hold'[t] = 0
        /\ hit[t] \subseteq hit'[t]
        /\ "hold" \in hit'[t] \/ paid'[t] = paid[t] - hold[t]
    BY <1>1 DEF SettleSubmit, RowsSame, Works, Fails, TypeOK
  <1>4. OwnTask(t)
    BY <1>1, <1>3 DEF OwnTask, SettleSubmit, Works, Fails, TypeOK
  <1>5. Unbilled(t)' = Unbilled(t)
    BY <1>3 DEF Unbilled, T, Billing
  <1>6. TaskBooks(t)'
    <2>1. row[t].quota \in Int
      BY <1>1, TaskFacts
    <2> QED BY <1>1, <1>3, <1>5, <2>1 DEF TaskBooks
  <1>7. ASSUME NEW q \in Procs, pc[q] # "idle", T(q) = t
        PROVE  FreshCopy(q)' /\ BillerBooks(q)'
    <2>1. /\ FreshCopy(q) /\ BillerBooks(q) /\ T(q)' = t
          /\ job[q].mem.quota \in Int /\ job[q].target \in Int
      BY <1>1, <1>3, <1>7, PollFacts, JobFacts DEF T
    <2>2. FreshCopy(q)'
      BY <1>3, <1>7, <2>1 DEF FreshCopy
    <2>3. BillerBooks(q)'
      BY <1>1, <1>3, <1>7, <2>1 DEF BillerBooks
    <2> QED BY <2>2, <2>3
  <1> QED BY <1>2, <1>3, <1>4, <1>6, <1>7, TaskStepKeeps

\* A step that none of the parts of the invariant can see.
LEMMA UnseenStepKeeps ==
    ASSUME PollInv, TInv', pc' = pc, job' = job, row' = row, closedBy' = closedBy, paid' = paid,
           moves' = moves, hit' = hit, hold' = hold, legacy' = legacy, price' = price
    PROVE  PollInv'
  <1>1. ASSUME NEW p \in Procs PROVE FreshCopy(p)' /\ BillerBooks(p)'
    BY PollFacts DEF FreshCopy, BillerBooks, T
  <1>2. ASSUME NEW t \in Tasks PROVE TaskBooks(t)'
    <2>1. TaskBooks(t) /\ Unbilled(t)' = Unbilled(t)
      BY DEF PollInv, Unbilled, T, Billing
    <2> QED BY <2>1 DEF TaskBooks
  <1>3. SoleBiller'
    BY DEF PollInv, SoleBiller, T, Billing
  <1> QED BY <1>1, <1>2, <1>3 DEF PollInv

LEMMA PollInit == Init => PollInv
  <1> SUFFICES ASSUME Init PROVE PollInv
    OBVIOUS
  <1>1. \A p \in Procs : pc[p] = "idle"
    BY DEF Init
  <1>2. ASSUME NEW t \in Tasks PROVE TaskBooks(t)
    BY DEF Init, TaskBooks, NoRow, Terminal
  <1>3. SoleBiller
    BY <1>1 DEF SoleBiller, Billing
  <1>4. \A p \in Procs : FreshCopy(p) /\ BillerBooks(p)
    BY <1>1 DEF FreshCopy, BillerBooks
  <1> QED BY <1>2, <1>3, <1>4, InitTyped DEF PollInv

LEMMA PollNext == PollingOnly /\ PollInv /\ [Next]_vars => PollInv'
  <1> SUFFICES ASSUME PollingOnly, PollInv, [Next]_vars PROVE PollInv'
    OBVIOUS
  <1>1. TInv /\ TInv'
    BY NextTyped DEF PollInv
  <1>2. CASE UNCHANGED vars
    BY <1>1, <1>2, UnseenStepKeeps DEF vars
  <1>3. ASSUME NEW t \in Tasks, SubmitStep(t)
        PROVE  PollInv'
    BY <1>3, SubmitKeeps, SettleSubmitKeeps DEF SubmitStep, SubmitUnconfirmed, PollingOnly
  <1>4. ASSUME NEW t \in Tasks, UpstreamMoves(t)
        PROVE  PollInv'
    BY <1>1, <1>4, UnseenStepKeeps DEF UpstreamMoves, RowsSame, AccountsSame, Works
  <1>5. ASSUME NEW p \in Pollers, NEW t \in Tasks,
               PollLoad(p, t) \/ SweepLoad(p, t) \/ ResolveLoad(p, t)
        PROVE  PollInv'
    <2>1. p \in Procs /\ ~ ResolveLoad(p, t)
      BY DEF Procs, ResolveLoad, PollInv, TaskBooks
    <2> QED BY <1>5, <2>1, LoadKeeps
  <1>6. ASSUME NEW p \in Procs, PollStep(p)
        PROVE  PollInv'
    <2>1. ~ Claim(p) /\ ~ Finalize(p) /\ ~ Stamp(p)
      BY PollFacts DEF BillerBooks, Claim, Finalize, Stamp
    <2> QED BY <1>6, <2>1, AnswerKeeps, WriteRowKeeps, BulkFailKeeps, AdjustFundingKeeps,
               AdjustTokenKeeps, SaveQuotaKeeps DEF PollStep
  <1>7. ASSUME NEW p \in Procs, Crash(p)
        PROVE  PollInv'
    BY <1>7, CrashKeeps
  <1>8. CASE Idle
    BY <1>2, <1>8 DEF Idle
  <1> QED BY <1>2, <1>3, <1>4, <1>5, <1>6, <1>7, <1>8 DEF Next, PollingOnly

\* The inductive invariant of the polled tasks holds whatever number of passes and
\* sweeps are at work, whichever calls fail and wherever a process dies.
THEOREM PollingBooks ==
    ASSUME PollingOnly
    PROVE  Spec => []PollInv
  <1>1. PollingOnly
    OBVIOUS
  <1>2. PollInv /\ [Next]_vars => PollInv'
    BY <1>1, PollNext
  <1> QED BY <1>2, PollInit, PTL DEF Spec

\* The end of a polled task is billed at most once, by one process: the others lose the
\* conditional write, and no path reopens the row.
THEOREM SettledOnceHolds ==
    ASSUME PollingOnly
    PROVE  Spec => []SettledOnce
  <1>1. PollInv => SettledOnce
    <2> SUFFICES ASSUME PollInv, NEW t \in Tasks PROVE moves[t] <= 1
      BY DEF SettledOnce
    <2>1. TaskBooks(t)
      BY DEF PollInv
    <2>2. CASE Unbilled(t)
      BY <2>1, <2>2 DEF TaskBooks
    <2>3. CASE ~ Unbilled(t)
      <3>1. PICK p \in Procs : pc[p] \in Billing /\ T(p) = t
        BY <2>3 DEF Unbilled
      <3>2. BillerBooks(p)
        BY PollFacts
      <3> QED BY <3>1, <3>2 DEF BillerBooks, Billing
    <2> QED BY <2>2, <2>3
  <1> QED BY <1>1, PollingBooks, PTL

\* Between billings the quota of a polled row is what the user has paid, so that a later
\* refund of the row gives back the right amount: also after a refused refund, a failed
\* token, or a crash before the funding source moved.  Only UpdateQuota and the settlement
\* of the submission can leave the two apart, by failing.
THEOREM PaidMatchesRowHolds ==
    ASSUME PollingOnly
    PROVE  Spec => []PaidMatchesRow
  <1>1. PollInv => PaidMatchesRow
    <2> SUFFICES ASSUME PollInv, NEW t \in Tasks, Quiet(t),
                        "hold" \notin hit[t], "save" \notin hit[t]
                 PROVE  \/ paid[t] = row[t].quota
                        \/ legacy[t] /\ closedBy[t] = "sweep" /\ row[t].quota = 0
      BY DEF PaidMatchesRow, Uncut
    <2>1. TaskBooks(t) /\ Unbilled(t) /\ hold[t] = 0 /\ row[t].quota \in Nat
      BY TaskFacts DEF PollInv, TInv, Quiet, Unbilled
    <2> QED BY <2>1 DEF TaskBooks
  <1> QED BY <1>1, PollingBooks, PTL

\* A task that a poll or the sweep has failed costs nothing in the end, unless the upstream
\* reported what the failed task used, or the funding source refused the refund or was not
\* reached before a crash; what fails later, of the token or of the row, takes nothing back.
THEOREM PolledFailureRefundedHolds ==
    ASSUME PollingOnly
    PROVE  Spec => []PolledFailureRefunded
  <1>1. PollInv => PolledFailureRefunded
    <2> SUFFICES ASSUME PollInv, NEW t \in Tasks, row[t].status = "FAILURE",
                        closedBy[t] \in {"poll", "sweep"}, Quiet(t), ~ legacy[t],
                        "hold" \notin hit[t], "funding" \notin hit[t],
                        price[t].failure = Keep
                 PROVE  paid[t] = 0
      BY DEF PolledFailureRefunded, RefundDue, Uncut
    <2>1. TaskBooks(t) /\ Unbilled(t) /\ hold[t] = 0
      BY DEF PollInv, Quiet, Unbilled
    <2>2. row[t].status \in Terminal
      BY DEF Terminal
    <2> QED BY <2>1, <2>2 DEF TaskBooks
  <1> QED BY <1>1, PollingBooks, PTL

\* A step never changes the status of a row that has ended: every copy that is still to
\* be written is conditional on a status that is not an end, and the calls of the billing
\* write the quota alone.
LEMMA EndedStays ==
    ASSUME PollingOnly, PollInv, [Next]_vars, NEW t \in Tasks, row[t].status \in Terminal
    PROVE  row'[t].status = row[t].status
  <1>1. TypeOK /\ row[t].status \notin Active /\ row[t].status # "NONE"
    BY DEF PollInv, TInv, Active, Terminal
  <1>2. CASE row' = row
    BY <1>2
  <1>3. ASSUME NEW u \in Tasks, SubmitStep(u) PROVE row'[t].status = row[t].status
    <2>1. CASE SettleSubmit(u)
      BY <2>1 DEF SettleSubmit, RowsSame
    <2>2. CASE ~ SettleSubmit(u)
      <3>1. row[u].status = "NONE" /\ \E r : row' = [row EXCEPT ![u] = r]
        BY <1>3, <2>2 DEF SubmitStep, Submit, SubmitUnconfirmed, Write
      <3> QED BY <1>1, <3>1 DEF TypeOK
    <2> QED BY <2>1, <2>2
  <1>4. ASSUME NEW p \in Procs, WriteRow(p) \/ BulkFail(p)
        PROVE  row'[t].status = row[t].status
    <2>1. FreshCopy(p) /\ T(p) \in Tasks /\ pc[p] \in {"query", "write"}
      BY <1>4, PollFacts, AtWork DEF WriteRow, BulkFail
    <2>2. CASE row' # row
      <3>1. row[T(p)].status \in Active /\ \E r : row' = [row EXCEPT ![T(p)] = r]
        BY <1>4, <2>1, <2>2 DEF WriteRow, BulkFail, FreshCopy, Write, RowsSame
      <3>2. T(p) # t
        BY <1>1, <3>1
      <3> QED BY <1>1, <2>1, <3>1, <3>2 DEF TypeOK
    <2> QED BY <2>2
  <1>5. ASSUME NEW p \in Procs, SaveQuota(p) PROVE row'[t].status = row[t].status
    <2>1. T(p) \in Tasks /\ row[T(p)] \in RowType
      BY <1>1, <1>5, PollFacts, AtWork, TaskFacts DEF SaveQuota
    <2>2. [row[T(p)] EXCEPT !.quota = job[p].target].status = row[T(p)].status
      BY <2>1 DEF RowType
    <2> QED BY <1>1, <1>5, <2>1, <2>2 DEF SaveQuota, TypeOK
  <1>6. ASSUME NEW p \in Procs, PollStep(p) PROVE row'[t].status = row[t].status
    <2>1. ~ Claim(p) /\ ~ Finalize(p) /\ ~ Stamp(p)
      BY PollFacts DEF BillerBooks, Claim, Finalize, Stamp
    <2>2. CASE row' = row
      BY <2>2
    <2>3. CASE row' # row
      BY <1>4, <1>5, <1>6, <2>1, <2>3
         DEF PollStep, PollAnswer, PollNotFound, PollError, ResolveAnswer, ResolveExpired,
             FetchAnswer, Prepare, Stop, AdjustFunding, AdjustToken, RowsSame
    <2> QED BY <2>2, <2>3
  <1>7. CASE UNCHANGED vars \/ Idle
    BY <1>7 DEF vars, Idle
  <1>8. ASSUME NEW p \in Procs, Crash(p) PROVE row'[t].status = row[t].status
    BY <1>8 DEF Crash, RowsSame
  <1>9. ASSUME NEW p \in Procs, NEW u \in Tasks,
               PollLoad(p, u) \/ SweepLoad(p, u) \/ ResolveLoad(p, u) \/ FetchLoad(p, u)
        PROVE  row'[t].status = row[t].status
    BY <1>9 DEF PollLoad, SweepLoad, ResolveLoad, FetchLoad, Load, RowsSame
  <1>10. ASSUME NEW u \in Tasks, UpstreamMoves(u) PROVE row'[t].status = row[t].status
    BY <1>10 DEF UpstreamMoves, RowsSame
  <1> QED BY <1>3, <1>6, <1>7, <1>8, <1>9, <1>10 DEF Next, Procs

THEOREM TerminalIsFinalHolds ==
    ASSUME PollingOnly
    PROVE  Spec => TerminalIsFinal
  <1>1. PollInv /\ [Next]_vars
          => [\A t \in Tasks : row[t].status \in Terminal => row'[t].status = row[t].status]_vars
    BY EndedStays
  <1> QED BY <1>1, PollingBooks, PTL DEF Spec, TerminalIsFinal

-----------------------------------------------------------------------------
(* The token beside the funding source, with every path and any number of  *)
(* processes inside the billing of one task.                               *)

\* Who is at work on a task has loaded a row that exists.
Loaded ==
    \A p \in Procs : pc[p] # "idle" =>
        row[T(p)].status # "NONE" /\ job[p].mem.status # "NONE"

\* What p has still to take from, or to give back to, the token of t.
Lag(p, t) == IF pc[p] = "token" /\ T(p) = t THEN Delta(p) ELSE 0

Lags(t) == [p \in Procs |-> Lag(p, t)]

TokenLag(t) ==
    "token" \notin hit[t] => paid[t] = tokenPaid[t] + SumFunctionOnSet(Lags(t), Procs)

TokenInv == TInv /\ Loaded /\ \A t \in Tasks : TokenLag(t)

LEMMA ProcsFinite == IsFiniteSet(Procs)
  BY ProcessesAssumption DEF Procs

LEMMA LagTyped ==
    ASSUME TInv, NEW t \in Tasks
    PROVE  \A p \in Procs : Lags(t)[p] = Lag(p, t) /\ Lag(p, t) \in Int
  BY JobFacts DEF TInv, Lags, Lag, Delta

\* p goes on with j: the copy takes the status of an answer or of a failure, and its quota
\* changes with the save of the billing only.
CopyEffect(p, j) ==
    /\ j.task = T(p)
    /\ j.mem.status \in {job[p].mem.status} \cup Active \cup Terminal
    /\ pc[p] # "save" => j.mem.quota = job[p].mem.quota
    /\ \/ j.path = job[p].path
       \/ job[p].path = "resolve" /\ j.path = "expire" /\ j.mem.status = "FAILURE"

\* What a step of p does to the statuses of the rows and to p's copy.
StatusEffect(p) ==
    /\ OwnJob(p)
    /\ pc'[p] # "idle" => CopyEffect(p, job'[p])
    /\ \A t \in Tasks \ {T(p)} : row'[t] = row[t]
    /\ row'[T(p)].status \in {row[T(p)].status, job[p].mem.status, "FAILURE"}

LEMMA JobMoved ==
    ASSUME NEW p \in Procs, NEW l, NEW j, Moved(p, l, j), T(p) \in Tasks,
           l = "idle" \/ CopyEffect(p, j),
           \A t \in Tasks \ {T(p)} : row'[t] = row[t],
           row'[T(p)].status \in {row[T(p)].status, job[p].mem.status, "FAILURE"}
    PROVE  StatusEffect(p)
  <1>1. pc'[p] = l /\ (l # "idle" => job'[p] = j) /\ OwnJob(p)
    BY DEF Moved, OwnJob
  <1> QED BY <1>1 DEF StatusEffect

\* A submission is given up with a failed copy of its row.
LEMMA ExpireEffect ==
    ASSUME TInv, NEW p \in Procs, pc[p] \in {"query", "write"}, job[p].path = "resolve", Expire(p)
    PROVE  \E j : Moved(p, "write", j) /\ CopyEffect(p, j)
  <1>1. TypeOK /\ job[p].mem \in RowType
    BY AtWork, JobFacts
  <1>2. PICK j \in JobType :
          /\ j.mem = Failed(job[p].mem) /\ j.path = "expire" /\ j.task = job[p].task
          /\ Moved(p, "write", j)
    BY ExpireMoves
  <1>3. j.mem.status = "FAILURE" /\ j.mem.quota = job[p].mem.quota
    BY <1>1, <1>2, FailedTyped
  <1> QED BY <1>2, <1>3 DEF T, CopyEffect, Terminal

\* The status of an answer, of a failed or of an unchanged copy.
LEMMA AnswerEffect ==
    ASSUME TInv, NEW p \in Procs,
           \/ PollAnswer(p) \/ PollNotFound(p) \/ PollError(p)
           \/ ResolveAnswer(p) \/ ResolveExpired(p) \/ FetchAnswer(p)
    PROVE  /\ StatusEffect(p) /\ pc[p] = "query" /\ pc'[p] \in {"idle", "write", "claim"}
           /\ UNCHANGED <<row, paid, tokenPaid, moves, hit, hold>>
  <1>1. pc[p] = "query" /\ RowsSame /\ AccountsSame /\ Works /\ WorldSame
    BY DEF PollAnswer, PollNotFound, PollError, ResolveAnswer, ResolveExpired, FetchAnswer,
           Prepare, Stop
  <1>2. /\ TypeOK /\ T(p) \in Tasks /\ job[p].task \in Tasks /\ job[p].mem \in RowType
        /\ up[T(p)] \in Active \cup Terminal /\ job[p].mem.done \in BOOLEAN
    BY <1>1, AtWork, JobFacts, TaskFacts
  <1>l. PICK l \in {"idle", "write", "claim"} : \E j :
          /\ Moved(p, l, j)
          /\ l = "idle" \/ CopyEffect(p, j)
    <2>1. ASSUME NEW mem \in RowType, NEW b \in BOOLEAN, NEW l \in {"write", "claim"},
                 Prepare(p, mem, b, l), mem.quota = job[p].mem.quota,
                 mem.status \in {job[p].mem.status} \cup Active \cup Terminal
          PROVE  \E j : Moved(p, l, j) /\ CopyEffect(p, j)
      <3> DEFINE j == [job[p] EXCEPT !.mem = mem, !.priced = b]
      <3>1. Moved(p, l, j)
        BY <1>1, <2>1, PrepareTyped
      <3>2. j.mem = mem /\ j.task = job[p].task /\ j.path = job[p].path
        BY <1>2, JobFacts DEF JobType
      <3> HIDE DEF j
      <3> QED BY <2>1, <3>1, <3>2 DEF T, CopyEffect
    <2>2. CASE Stop(p)
      <3>1. Moved(p, "idle", NoJob)
        BY <2>2, GoMoves DEF Stop, PCs
      <3> QED BY <3>1
    <2>3. CASE PollAnswer(p)
      <3>1. PICK done \in BOOLEAN :
              Prepare(p, [job[p].mem EXCEPT !.status = up[T(p)], !.done = done,
                                            !.fails = IF up[T(p)] \in Terminal THEN @ ELSE 0],
                      TRUE, "write")
        BY <2>3 DEF PollAnswer, ReportedDone
      <3> DEFINE mem == [job[p].mem EXCEPT !.status = up[T(p)], !.done = done,
                                           !.fails = IF up[T(p)] \in Terminal THEN @ ELSE 0]
      <3>2. mem \in RowType /\ mem.status = up[T(p)] /\ mem.quota = job[p].mem.quota
              /\ Prepare(p, mem, TRUE, "write")
        BY <1>2, <3>1 DEF RowType, Statuses
      <3> HIDE DEF mem
      <3> QED BY <1>2, <2>1, <3>2
    <2>4. CASE PollNotFound(p)
      <3>1. Failed(job[p].mem) \in RowType /\ Failed(job[p].mem).status \in Terminal
              /\ Failed(job[p].mem).quota = job[p].mem.quota
        BY <1>2, FailedTyped DEF Terminal
      <3>2. PICK priced \in BOOLEAN : Prepare(p, Failed(job[p].mem), priced, "write")
        BY <2>4 DEF PollNotFound
      <3> QED BY <2>1, <3>1, <3>2
    <2>5. CASE PollError(p)
      <3> DEFINE mem == [job[p].mem EXCEPT !.fails = @ + 1]
                 cutoff == MaxPollFailures > 0 /\ mem.fails >= MaxPollFailures
                 new == IF cutoff THEN Failed(mem) ELSE mem
      <3>1. mem \in RowType /\ mem.status = job[p].mem.status /\ mem.quota = job[p].mem.quota
        BY <1>2, RowFacts DEF RowType
      <3>2. PICK priced \in BOOLEAN : Prepare(p, new, priced, "write")
        BY <2>5 DEF PollError
      <3>3. new \in RowType /\ new.status \in {"FAILURE", job[p].mem.status}
              /\ new.quota = job[p].mem.quota
        BY <3>1, FailedTyped
      <3> HIDE DEF new
      <3> QED BY <2>1, <3>2, <3>3 DEF Terminal
    <2>6. CASE ResolveAnswer(p)
      <3>1. CASE \E done \in ReportedDone(up[T(p)]) :
                   Prepare(p, [job[p].mem EXCEPT !.done = done], FALSE, "write")
        <4>1. PICK done \in BOOLEAN : Prepare(p, [job[p].mem EXCEPT !.done = done], FALSE, "write")
          BY <3>1 DEF ReportedDone
        <4> DEFINE mem == [job[p].mem EXCEPT !.done = done]
        <4>2. /\ mem \in RowType /\ mem.status = job[p].mem.status
              /\ mem.quota = job[p].mem.quota /\ Prepare(p, mem, FALSE, "write")
          BY <1>2, <4>1 DEF RowType
        <4> HIDE DEF mem
        <4> QED BY <2>1, <4>2
      <3> QED BY <1>2, <2>1, <2>2, <2>6, <3>1 DEF ResolveAnswer
    <2>7. CASE ResolveExpired(p)
      BY <1>1, <2>7, ExpireEffect DEF ResolveExpired
    <2>8. CASE FetchAnswer(p)
      <3>1. CASE ~ Stop(p)
        <4>1. PICK done \in BOOLEAN :
                Prepare(p, [job[p].mem EXCEPT !.status = up[T(p)], !.done = done],
                        FALSE, "write")
          BY <1>2, <2>8, <3>1 DEF FetchAnswer, ReportedDone
        <4> DEFINE mem == [job[p].mem EXCEPT !.status = up[T(p)], !.done = done]
        <4>2. mem \in RowType /\ mem.status = up[T(p)] /\ mem.quota = job[p].mem.quota
                /\ Prepare(p, mem, FALSE, "write")
          BY <1>2, <4>1 DEF RowType, Statuses
        <4> HIDE DEF mem
        <4> QED BY <1>2, <2>1, <4>2
      <3> QED BY <2>2, <3>1
    <2> QED BY <2>3, <2>4, <2>5, <2>6, <2>7, <2>8
  <1>3. PICK j :
          /\ Moved(p, l, j)
          /\ l = "idle" \/ CopyEffect(p, j)
    BY <1>l
  <1>4. row' = row
    BY <1>1 DEF RowsSame
  <1>5. StatusEffect(p)
    BY <1>2, <1>3, <1>4, JobMoved
  <1> QED BY <1>1, <1>3, <1>5 DEF Moved, RowsSame, AccountsSame, Works, WorldSame

\* The conditional and the unconditional writes.
LEMMA WriteEffect ==
    ASSUME TInv, NEW p \in Procs,
           WriteRow(p) \/ Claim(p) \/ Finalize(p) \/ Stamp(p) \/ BulkFail(p)
    PROVE  /\ StatusEffect(p) /\ pc[p] \in {"query", "write", "claim", "finalize", "stamp"}
           /\ pc'[p] \in {"idle", "stamp", "finalize", "funding", "write"}
           /\ UNCHANGED <<paid, tokenPaid, moves, hold>>
           /\ \A t \in Tasks : hit[t] \subseteq hit'[t]
  <1>1. /\ pc[p] \in {"query", "write", "claim", "finalize", "stamp"} /\ AccountsSame /\ WorldSame
        /\ Works \/ Fails(T(p), "save", "finalize")
    BY DEF WriteRow, Claim, Finalize, Stamp, BulkFail
  <1>2. /\ TypeOK /\ T(p) \in Tasks /\ job[p].task \in Tasks /\ job[p] \in JobType
        /\ job[p].mem \in RowType /\ up[T(p)] \in Active \cup Terminal
    BY <1>1, AtWork, JobFacts, TaskFacts
  <1>3. /\ \A t \in Tasks \ {T(p)} : row'[t] = row[t]
        /\ row'[T(p)].status \in {row[T(p)].status, job[p].mem.status, "FAILURE"}
    <2>1. CASE row' = row
      BY <2>1
    <2>2. CASE row' # row
      <3>1. PICK r : r \in {job[p].mem, Failed(row[T(p)])} /\ row' = [row EXCEPT ![T(p)] = r]
        BY <2>2 DEF WriteRow, Claim, Finalize, Stamp, BulkFail, Write, RowsSame
      <3>2. Failed(row[T(p)]).status = "FAILURE"
        BY <1>2, TaskFacts, FailedTyped
      <3> QED BY <1>2, <3>1, <3>2 DEF TypeOK
    <2> QED BY <2>1, <2>2
  <1>l. PICK l \in {"idle", "stamp", "finalize", "funding", "write"} : \E j :
          /\ Moved(p, l, j)
          /\ l = "idle" \/ CopyEffect(p, j)
    <2>1. ASSUME NEW l \in {"idle", "stamp", "finalize"}, Go(p, l, job[p])
          PROVE  Moved(p, l, job[p]) /\ CopyEffect(p, job[p])
      BY <1>2, <2>1, GoMoves DEF PCs, T, CopyEffect
    <2>2. ASSUME NEW mem \in RowType, NEW o \in {"idle", "finalize"}, StartBilling(p, mem, o),
                 mem.quota = job[p].mem.quota,
                 mem.status \in {job[p].mem.status} \cup Active \cup Terminal
          PROVE  \E l \in {"idle", "finalize", "funding"} : \E j : Moved(p, l, j) /\ CopyEffect(p, j)
      <3>1. PICK j \in JobType, m \in {"funding", o} :
              /\ j.mem = mem /\ j.task = job[p].task /\ j.path = job[p].path
              /\ Moved(p, m, j)
        BY <1>1, <2>2, StartBillingMoves
      <3> QED BY <2>2, <3>1 DEF T, CopyEffect
    <2>3. CASE WriteRow(p) \/ Stamp(p)
      <3>1. CASE StartBilling(p, job[p].mem, "idle")
        BY <1>2, <2>2, <3>1
      <3>2. CASE Go(p, "idle", job[p]) \/ Go(p, "stamp", job[p])
        BY <2>1, <3>2
      <3>3. CASE pc[p] = "write" /\ job[p].path = "resolve" /\ Expire(p)
        BY <3>3, ExpireEffect
      <3> QED BY <2>3, <3>1, <3>2, <3>3 DEF WriteRow, AfterWrite, Stamp
    <2>4. CASE Claim(p)
      <3> DEFINE mem == [job[p].mem EXCEPT !.status = up[T(p)], !.done = TRUE]
      <3>1. mem \in RowType /\ mem.status = up[T(p)] /\ mem.quota = job[p].mem.quota
        BY <1>2 DEF RowType, Statuses
      <3>2. StartBilling(p, mem, "finalize") \/ Go(p, "finalize", job[p])
        BY <2>4 DEF Claim
      <3> HIDE DEF mem
      <3>3. CASE StartBilling(p, mem, "finalize")
        BY <1>2, <2>2, <3>1, <3>3
      <3>4. CASE Go(p, "finalize", job[p])
        BY <2>1, <3>4
      <3> QED BY <3>2, <3>3, <3>4
    <2>5. CASE Finalize(p) \/ BulkFail(p)
      BY <2>1, <2>5 DEF Finalize, BulkFail
    <2> QED BY <2>3, <2>4, <2>5
  <1>4. PICK j :
          /\ Moved(p, l, j)
          /\ l = "idle" \/ CopyEffect(p, j)
    BY <1>l
  <1>5. StatusEffect(p) /\ pc'[p] = l
    BY <1>2, <1>3, <1>4, JobMoved DEF Moved
  <1>6. \A t \in Tasks : hit[t] \subseteq hit'[t]
    BY <1>1, <1>2 DEF Works, Fails, TypeOK
  <1> QED BY <1>1, <1>4, <1>5, <1>6 DEF AccountsSame, WorldSame

\* The calls of the billing.
LEMMA BillingEffect ==
    ASSUME TInv, NEW p \in Procs, AdjustFunding(p) \/ AdjustToken(p) \/ SaveQuota(p)
    PROVE  StatusEffect(p) /\ \A t \in Tasks : hit[t] \subseteq hit'[t]
  <1>1. pc[p] # "idle"
    BY DEF AdjustFunding, AdjustToken, SaveQuota
  <1>2. /\ TypeOK /\ T(p) \in Tasks /\ job[p].task \in Tasks /\ job[p] \in JobType
        /\ job[p].mem \in RowType /\ job[p].target \in Nat
    BY <1>1, AtWork, JobFacts
  <1>3. /\ \A t \in Tasks \ {T(p)} : row'[t] = row[t]
        /\ row'[T(p)].status = row[T(p)].status
    <2>1. [row[T(p)] EXCEPT !.quota = job[p].target].status = row[T(p)].status
      BY <1>2, TaskFacts DEF RowType
    <2> QED BY <1>2, <2>1 DEF AdjustFunding, AdjustToken, SaveQuota, RowsSame, TypeOK
  <1>4. AfterBilling(p) \in PCs
    BY DEF AfterBilling, PCs
  <1>5. CASE AdjustFunding(p) \/ AdjustToken(p)
    <2>1. PICK l \in PCs : Go(p, l, job[p])
      BY <1>4, <1>5 DEF AdjustFunding, AdjustToken, PCs
    <2>2. Moved(p, l, job[p]) /\ CopyEffect(p, job[p])
      BY <1>2, <2>1, GoMoves DEF T, CopyEffect
    <2>3. StatusEffect(p)
      BY <1>2, <1>3, <2>2, JobMoved
    <2>4. \A t \in Tasks : hit[t] \subseteq hit'[t]
      BY <1>2, <1>5 DEF AdjustFunding, AdjustToken, Works, Fails, TypeOK
    <2> QED BY <2>3, <2>4
  <1>6. CASE SaveQuota(p)
    <2> DEFINE j == [job[p] EXCEPT !.mem.quota = job[p].target]
    <2>1. /\ j \in JobType /\ j.task = T(p) /\ j.mem.status = job[p].mem.status
          /\ j.path = job[p].path
      BY <1>2 DEF JobType, RowType, T
    <2>2. Go(p, AfterBilling(p), j)
      BY <1>6 DEF SaveQuota
    <2> HIDE DEF j
    <2>3. Moved(p, AfterBilling(p), j)
      BY <1>2, <1>4, <2>1, <2>2, GoMoves
    <2>4. StatusEffect(p)
      <3>1. CopyEffect(p, j)
        BY <1>6, <2>1 DEF CopyEffect, SaveQuota
      <3> QED BY <1>2, <1>3, <2>3, <3>1, JobMoved
    <2>5. \A t \in Tasks : hit[t] \subseteq hit'[t]
      BY <1>2, <1>6 DEF SaveQuota, Works, Fails, TypeOK
    <2> QED BY <2>4, <2>5
  <1> QED BY <1>5, <1>6

LEMMA CrashEffect ==
    ASSUME TInv, NEW p \in Procs, Crash(p)
    PROVE  /\ StatusEffect(p) /\ pc'[p] = "idle" /\ row' = row
           /\ UNCHANGED <<paid, tokenPaid, moves, hold>>
           /\ \A t \in Tasks : hit[t] \subseteq hit'[t]
           /\ hit'[T(p)] = hit[T(p)] \cup CutOff(pc[p])
  <1>1. TypeOK /\ T(p) \in Tasks /\ Moved(p, "idle", job[p])
    BY CrashTyped, AtWork DEF Crash
  <1>2. /\ row' = row /\ UNCHANGED <<paid, tokenPaid, moves, hold>>
        /\ hit' = [hit EXCEPT ![T(p)] = @ \cup CutOff(pc[p])]
    BY DEF Crash, RowsSame, AccountsSame, WorldSame
  <1>3. StatusEffect(p)
    BY <1>1, <1>2, JobMoved
  <1>4. \A t \in Tasks : hit[t] \subseteq hit'[t]
    BY <1>1, <1>2 DEF TypeOK
  <1>5. hit'[T(p)] = hit[T(p)] \cup CutOff(pc[p])
    BY <1>1, <1>2 DEF TypeOK
  <1> QED BY <1>1, <1>2, <1>3, <1>4, <1>5 DEF Moved

\* A step of p on its task keeps every copy one of a row that exists.
LEMMA LoadedKept ==
    ASSUME TInv, Loaded, NEW p \in Procs, pc[p] # "idle", StatusEffect(p)
    PROVE  Loaded'
  <1>1. T(p) \in Tasks /\ row[T(p)].status # "NONE" /\ job[p].mem.status # "NONE"
    BY AtWork DEF Loaded
  <1>2. \A t \in Tasks : row[t].status # "NONE" => row'[t].status # "NONE"
    BY <1>1 DEF StatusEffect
  <1>3. ASSUME NEW q \in Procs, pc'[q] # "idle"
        PROVE  row'[T(q)'].status # "NONE" /\ job'[q].mem.status # "NONE"
    <2>1. CASE q = p
      BY <1>1, <1>2, <1>3, <2>1 DEF StatusEffect, CopyEffect, Active, Terminal, T
    <2>2. CASE q # p
      <3>1. pc'[q] = pc[q] /\ job'[q] = job[q] /\ T(q)' = T(q)
        BY <2>2 DEF StatusEffect, OwnJob, T
      <3>2. T(q) \in Tasks /\ row[T(q)].status # "NONE" /\ job[q].mem.status # "NONE"
        BY <1>3, <3>1, AtWork DEF Loaded
      <3> QED BY <1>2, <3>1, <3>2
    <2> QED BY <2>1, <2>2
  <1> QED BY <1>3 DEF Loaded

\* A task on which nobody's lag changes.
LEMMA LagKept ==
    ASSUME TokenInv, NEW t \in Tasks, \A q \in Procs : Lag(q, t)' = Lag(q, t),
           paid'[t] = paid[t], tokenPaid'[t] = tokenPaid[t], hit[t] \subseteq hit'[t]
    PROVE  TokenLag(t)'
  <1>1. \A q \in Procs : Lags(t)[q] = Lags(t)'[q]
    BY DEF Lags
  <1>2. SumFunctionOnSet(Lags(t), Procs) = SumFunctionOnSet(Lags(t)', Procs)
    <2> DEFINE f == Lags(t)
               g == Lags(t)'
    <2>1. \A q \in Procs : f[q] = g[q]
      BY <1>1
    <2> HIDE DEF f, g
    <2>2. SumFunctionOnSet(f, Procs) = SumFunctionOnSet(g, Procs)
      BY <2>1, ProcsFinite, SumSame
    <2> QED BY <2>2 DEF f, g
  <1>3. TokenLag(t)
    BY DEF TokenInv
  <1> QED BY <1>2, <1>3 DEF TokenLag

\* A task on which p's lag changes.
LEMMA LagChanged ==
    ASSUME TokenInv, TInv', NEW p \in Procs, NEW t \in Tasks,
           \A q \in Procs \ {p} : Lag(q, t)' = Lag(q, t)
    PROVE  /\ SumFunctionOnSet(Lags(t)', Procs) =
                SumFunctionOnSet(Lags(t), Procs) + Lag(p, t)' - Lag(p, t)
           /\ SumFunctionOnSet(Lags(t), Procs) \in Int
  <1> DEFINE f == Lags(t)
             g == Lags(t)'
  <1>1. \A q \in Procs : f[q] = Lag(q, t) /\ f[q] \in Int
    BY LagTyped DEF TokenInv
  <1>2. \A q \in Procs : g[q] = Lag(q, t)' /\ g[q] \in Int
    <2>1. \A q \in Procs : Lag(q, t)' \in Int
      BY DEF TInv, TypeOK, JobType, RowType, Lag, Delta
    <2> QED BY <2>1 DEF Lags
  <1>3. \A q \in Procs \ {p} : g[q] = f[q]
    BY <1>1, <1>2
  <1> HIDE DEF f, g
  <1>4. SumFunctionOnSet(g, Procs) = SumFunctionOnSet(f, Procs) + g[p] - f[p]
    BY <1>1, <1>2, <1>3, ProcsFinite, SumChange
  <1>5. SumFunctionOnSet(f, Procs) \in Int
    BY <1>1, ProcsFinite, SumType
  <1>6. g[p] = Lag(p, t)' /\ f[p] = Lag(p, t)
    BY <1>1, <1>2
  <1> QED BY <1>4, <1>5, <1>6 DEF f, g

\* The processes a step leaves alone, and the tasks p is not on, keep their lags.
LEMMA LagsApart ==
    ASSUME NEW p \in Procs, OwnJob(p), NEW t
    PROVE  /\ \A q \in Procs \ {p} : Lag(q, t)' = Lag(q, t)
           /\ (pc[p] # "token" \/ T(p) # t) /\ (pc'[p] # "token" \/ T(p)' # t)
                => \A q \in Procs : Lag(q, t)' = Lag(q, t)
  <1>1. ASSUME NEW q \in Procs, q # p PROVE Lag(q, t)' = Lag(q, t)
    BY <1>1 DEF OwnJob, Lag, T, Delta
  <1>2. ASSUME pc[p] # "token" \/ T(p) # t, pc'[p] # "token" \/ T(p)' # t
        PROVE  Lag(p, t)' = Lag(p, t)
    BY <1>2 DEF Lag
  <1> QED BY <1>1, <1>2

\* taskAdjustFunding and taskAdjustTokenQuota: first the funding source moves, then the token.
LEMMA TokenBilled ==
    ASSUME TokenInv, TInv', NEW p \in Procs, AdjustFunding(p) \/ AdjustToken(p),
           NEW t \in Tasks
    PROVE  TokenLag(t)'
  <1>1. /\ TInv /\ TypeOK /\ T(p) \in Tasks /\ StatusEffect(p) /\ hit[t] \subseteq hit'[t]
        /\ job[p] \in JobType /\ Delta(p) \in Int
    BY AtWork, BillingEffect, JobFacts DEF TokenInv, AdjustFunding, AdjustToken, Delta
  <1>2. OwnJob(p) /\ (pc'[p] # "idle" => T(p)' = T(p))
    BY <1>1 DEF StatusEffect, CopyEffect, T
  <1>3. TokenLag(t) /\ paid[t] \in Int /\ tokenPaid[t] \in Int
    BY <1>1, TaskFacts DEF TokenInv
  <1>4. CASE T(p) # t
    <2>1. \A q \in Procs : Lag(q, t)' = Lag(q, t)
      BY <1>2, <1>4, LagsApart
    <2>2. paid'[t] = paid[t] /\ tokenPaid'[t] = tokenPaid[t]
      BY <1>1, <1>4 DEF AdjustFunding, AdjustToken, TypeOK
    <2> QED BY <1>1, <2>1, <2>2, LagKept
  <1>5. CASE T(p) = t /\ "token" \in hit'[t]
    BY <1>5 DEF TokenLag
  <1>6. CASE T(p) = t /\ "token" \notin hit'[t]
    <2>1. /\ SumFunctionOnSet(Lags(t)', Procs) =
               SumFunctionOnSet(Lags(t), Procs) + Lag(p, t)' - Lag(p, t)
          /\ SumFunctionOnSet(Lags(t), Procs) \in Int
      BY <1>2, LagsApart, LagChanged
    <2>2. paid[t] = tokenPaid[t] + SumFunctionOnSet(Lags(t), Procs)
      BY <1>1, <1>3, <1>6 DEF TokenLag
    <2>3. CASE AdjustFunding(p) /\ Go(p, "token", job[p])
      <3>1. /\ paid' = [paid EXCEPT ![t] = @ + Delta(p)] /\ tokenPaid' = tokenPaid
            /\ Go(p, "token", job[p]) /\ pc[p] = "funding"
        <4>1. pc'[p] = "token"
          BY <1>1, <2>3 DEF Go, TypeOK
        <4>2. ~ Go(p, AfterBilling(p), job[p])
          BY <1>1, <4>1 DEF Go, AfterBilling, TypeOK
        <4> QED BY <1>6, <2>3, <4>2 DEF AdjustFunding
      <3>2. pc'[p] = "token" /\ job'[p] = job[p]
        BY <1>1, <3>1, GoMoves, AtWork DEF Moved, PCs, T
      <3>3. Lag(p, t) = 0 /\ Lag(p, t)' = Delta(p)
        BY <1>6, <3>1, <3>2 DEF Lag, T, Delta
      <3>4. paid'[t] = paid[t] + Delta(p) /\ tokenPaid'[t] = tokenPaid[t]
        BY <1>1, <3>1 DEF TypeOK
      <3>5. paid'[t] = tokenPaid'[t] + SumFunctionOnSet(Lags(t)', Procs)
        BY <1>1, <1>3, <2>1, <2>2, <3>3, <3>4
      <3> QED BY <3>5 DEF TokenLag, Procs
    <2>4. CASE AdjustToken(p)
      <3>1. /\ tokenPaid' = [tokenPaid EXCEPT ![t] = @ + Delta(p)] /\ paid' = paid
            /\ Go(p, "save", job[p]) /\ pc[p] = "token"
        BY <1>1, <1>6, <2>4 DEF AdjustToken, Fails, TypeOK, T
      <3>2. pc'[p] = "save"
        BY <1>1, <3>1 DEF Go, TypeOK
      <3>3. Lag(p, t) = Delta(p) /\ Lag(p, t)' = 0
        BY <1>6, <3>1, <3>2 DEF Lag
      <3>4. tokenPaid'[t] = tokenPaid[t] + Delta(p) /\ paid'[t] = paid[t]
        BY <1>1, <3>1 DEF TypeOK
      <3>5. paid'[t] = tokenPaid'[t] + SumFunctionOnSet(Lags(t)', Procs)
        BY <1>1, <1>3, <2>1, <2>2, <3>3, <3>4
      <3> QED BY <3>5 DEF TokenLag, Procs
    <2>5. CASE AdjustFunding(p) /\ ~ Go(p, "token", job[p])
      <3>1. paid' = paid /\ tokenPaid' = tokenPaid /\ pc[p] # "token" /\ Go(p, AfterBilling(p), job[p])
        BY <2>5 DEF AdjustFunding
      <3>2. pc'[p] # "token"
        BY <1>1, <3>1 DEF Go, AfterBilling, TypeOK
      <3>3. \A q \in Procs : Lag(q, t)' = Lag(q, t)
        BY <1>2, <3>1, <3>2, LagsApart
      <3> QED BY <1>1, <3>1, <3>3, LagKept
    <2> QED BY <2>3, <2>4, <2>5
  <1> QED BY <1>4, <1>5, <1>6

\* Everything else leaves the lags alone, or marks the task.
LEMMA TokenStepKeeps ==
    ASSUME TokenInv, NEW p \in Procs, PollStep(p) \/ Crash(p)
    PROVE  TokenInv'
  <1>1. TInv /\ TInv' /\ Loaded
    BY AnswersTyped, WritesTyped, BillingTyped, CrashTyped DEF TokenInv, PollStep
  <1>2. StatusEffect(p) /\ pc[p] # "idle"
    <2>1. CASE Crash(p)
      BY <1>1, <2>1, CrashEffect DEF Crash
    <2>2. CASE AdjustFunding(p) \/ AdjustToken(p) \/ SaveQuota(p)
      BY <1>1, <2>2, BillingEffect DEF AdjustFunding, AdjustToken, SaveQuota
    <2>3. CASE WriteRow(p) \/ Claim(p) \/ Finalize(p) \/ Stamp(p) \/ BulkFail(p)
      BY <1>1, <2>3, WriteEffect
    <2> QED BY <1>1, <2>1, <2>2, <2>3, AnswerEffect DEF PollStep
  <1>3. Loaded'
    BY <1>1, <1>2, LoadedKept
  <1>4. OwnJob(p) /\ T(p) \in Tasks
    BY <1>1, <1>2, AtWork DEF StatusEffect
  <1>5. ASSUME NEW t \in Tasks, paid' = paid, tokenPaid' = tokenPaid, hit[t] \subseteq hit'[t],
               pc[p] # "token" \/ T(p) # t, pc'[p] # "token"
        PROVE  TokenLag(t)'
    BY <1>4, <1>5, LagsApart, LagKept
  <1>6. ASSUME NEW t \in Tasks PROVE TokenLag(t)'
    <2>1. CASE AdjustFunding(p) \/ AdjustToken(p)
      BY <1>1, <2>1, TokenBilled
    <2>2. CASE SaveQuota(p)
      <3>1. pc[p] = "save" /\ pc'[p] # "token"
        BY <1>1, <2>2 DEF SaveQuota, Go, AfterBilling, TInv, TypeOK
      <3> QED BY <1>1, <1>5, <2>2, <3>1, BillingEffect DEF SaveQuota, AccountsSame
    <2>3. CASE WriteRow(p) \/ Claim(p) \/ Finalize(p) \/ Stamp(p) \/ BulkFail(p)
      <3>1. pc[p] # "token" /\ pc'[p] # "token" /\ paid' = paid /\ tokenPaid' = tokenPaid
              /\ hit[t] \subseteq hit'[t]
        BY <1>1, <2>3, WriteEffect
      <3> QED BY <1>5, <3>1
    <2>4. CASE Crash(p)
      <3>1. /\ pc'[p] # "token" /\ paid' = paid /\ tokenPaid' = tokenPaid
            /\ hit[t] \subseteq hit'[t]
            /\ pc[p] = "token" => "token" \in hit'[T(p)]
        BY <1>1, <2>4, CrashEffect, CutOffs
      <3>2. CASE "token" \in hit'[t]
        BY <3>2 DEF TokenLag
      <3>3. CASE "token" \notin hit'[t]
        BY <1>5, <3>1, <3>3
      <3> QED BY <3>2, <3>3
    <2>5. CASE \/ PollAnswer(p) \/ PollNotFound(p) \/ PollError(p)
               \/ ResolveAnswer(p) \/ ResolveExpired(p) \/ FetchAnswer(p)
      <3>1. pc[p] # "token" /\ pc'[p] # "token" /\ paid' = paid /\ tokenPaid' = tokenPaid
              /\ hit' = hit
        BY <1>1, <2>5, AnswerEffect
      <3> QED BY <1>5, <3>1
    <2> QED BY <2>1, <2>2, <2>3, <2>4, <2>5 DEF PollStep
  <1> QED BY <1>1, <1>3, <1>6 DEF TokenInv

LEMMA TokenLoadKeeps ==
    ASSUME TokenInv, NEW p \in Procs, NEW t \in Tasks,
           PollLoad(p, t) \/ SweepLoad(p, t) \/ ResolveLoad(p, t) \/ FetchLoad(p, t)
    PROVE  TokenInv'
  <1>1. TInv /\ TypeOK /\ Loaded /\ TInv'
    BY LoadsTyped, SweepLoadTyped DEF TokenInv, TInv
  <1>2. /\ row[t].status # "NONE" /\ pc[p] = "idle" /\ row' = row
        /\ paid' = paid /\ tokenPaid' = tokenPaid /\ hit' = hit
    BY DEF PollLoad, SweepLoad, ResolveLoad, FetchLoad, Load, RowsSame, AccountsSame, Works, Active
  <1>l. PICK l \in {"query", "write"} : \E j :
          /\ Moved(p, l, j) /\ j.task = t /\ j.mem.status \in {row[t].status, "FAILURE"}
    <2>1. CASE SweepLoad(p, t)
      BY <1>1, <2>1, SweepLoadTyped, SweepJobTyped
    <2>2. CASE PollLoad(p, t) \/ ResolveLoad(p, t) \/ FetchLoad(p, t)
      <3>1. PICK path \in Ways : Load(p, t, path, "query")
        BY <2>2 DEF PollLoad, ResolveLoad, FetchLoad, Ways
      <3> DEFINE j == [task |-> t, mem |-> row[t], path |-> path, from |-> row[t].status,
                       priced |-> FALSE, target |-> 0]
      <3>2. Moved(p, "query", j)
        BY <1>1, <3>1, LoadTyped
      <3> QED BY <3>2
    <2> QED BY <2>1, <2>2
  <1>3. PICK j :
          /\ Moved(p, l, j) /\ j.task = t /\ j.mem.status \in {row[t].status, "FAILURE"}
    BY <1>l
  <1>4. pc'[p] = l /\ job'[p] = j /\ T(p)' = t /\ OwnJob(p)
    BY <1>3 DEF Moved, OwnJob, T
  <1>5. Loaded'
    <2> SUFFICES ASSUME NEW q \in Procs, pc'[q] # "idle"
                 PROVE  row'[T(q)'].status # "NONE" /\ job'[q].mem.status # "NONE"
      BY DEF Loaded
    <2>1. CASE q = p
      BY <1>2, <1>3, <1>4, <2>1
    <2>2. CASE q # p
      BY <1>1, <1>2, <1>4, <2>2 DEF OwnJob, Loaded, T
    <2> QED BY <2>1, <2>2
  <1>6. ASSUME NEW u \in Tasks PROVE TokenLag(u)'
    BY <1>2, <1>4, LagsApart, LagKept
  <1> QED BY <1>1, <1>5, <1>6 DEF TokenInv

\* A submission starts both charges at the same amount, and settles both or neither.
LEMMA TokenSubmitKeeps ==
    ASSUME TokenInv, NEW t \in Tasks, SubmitStep(t) \/ UpstreamMoves(t)
    PROVE  TokenInv'
  <1>1. TInv /\ TypeOK /\ Loaded /\ TInv'
    BY SubmissionTyped DEF TokenInv, TInv
  <1>2. pc' = pc /\ job' = job
    BY DEF SubmitStep, Submit, SubmitUnconfirmed, SettleSubmit, UpstreamMoves
  <1>3. \A q \in Procs, u \in Tasks : Lag(q, u)' = Lag(q, u)
    BY <1>2 DEF Lag, T, Delta
  <1>4. CASE \E pre \in Amounts : SubmitUnconfirmed(t, pre) \/ \E q \in Amounts : Submit(t, pre, q)
    <2>1. PICK pre \in Nat :
            /\ row[t].status = "NONE" /\ hit' = hit
            /\ paid' = [paid EXCEPT ![t] = pre] /\ tokenPaid' = [tokenPaid EXCEPT ![t] = pre]
            /\ \E r : r.status \in {"UNCONFIRMED", "QUEUED"} \cup Terminal
                        /\ row' = [row EXCEPT ![t] = r]
      <3>1. PICK pre \in Amounts : SubmitUnconfirmed(t, pre) \/ \E q \in Amounts : Submit(t, pre, q)
        BY <1>4
      <3>2. pre \in Nat
        BY TaskDataAssumption
      <3>3. CASE SubmitUnconfirmed(t, pre)
        <4> DEFINE r == [NoRow EXCEPT !.status = "UNCONFIRMED", !.quota = pre]
        <4>1. r.status = "UNCONFIRMED" /\ row' = [row EXCEPT ![t] = r]
          BY <3>3 DEF SubmitUnconfirmed, Write, NoRow
        <4> HIDE DEF r
        <4>2. \E z : z.status \in {"UNCONFIRMED", "QUEUED"} \cup Terminal
                        /\ row' = [row EXCEPT ![t] = z]
          BY <4>1
        <4> QED BY <3>2, <3>3, <4>2 DEF SubmitUnconfirmed, Works
      <3>4. CASE \E q \in Amounts : Submit(t, pre, q)
        <4>1. PICK q \in Amounts : Submit(t, pre, q)
          BY <3>4
        <4>2. PICK status \in {"QUEUED"} \cup Terminal :
                Write(t, [NoRow EXCEPT !.status = status, !.done = status \in Terminal,
                                       !.quota = q], "submit")
          BY <4>1 DEF Submit
        <4> DEFINE r == [NoRow EXCEPT !.status = status, !.done = status \in Terminal,
                                      !.quota = q]
        <4>3. r.status = status /\ row' = [row EXCEPT ![t] = r]
          BY <4>2 DEF Write, NoRow
        <4> HIDE DEF r
        <4>4. \E z : z.status \in {"UNCONFIRMED", "QUEUED"} \cup Terminal
                        /\ row' = [row EXCEPT ![t] = z]
          BY <4>3
        <4> QED BY <3>2, <4>1, <4>4 DEF Submit, Works
      <3> QED BY <3>1, <3>3, <3>4
    <2>2. /\ \A u \in Tasks \ {t} : row'[u] = row[u] /\ paid'[u] = paid[u]
                                     /\ tokenPaid'[u] = tokenPaid[u]
          /\ paid'[t] = pre /\ tokenPaid'[t] = pre /\ row'[t].status # "NONE"
      BY <1>1, <2>1 DEF TypeOK, Terminal
    <2>3. \A q \in Procs : pc[q] # "idle" => T(q) \in Tasks \ {t}
      BY <1>1, <2>1 DEF Loaded, TInv, Placed
    <2>4. Loaded'
      BY <1>1, <1>2, <2>2, <2>3 DEF Loaded, T
    <2>5. ASSUME NEW u \in Tasks PROVE TokenLag(u)'
      <3>1. CASE u # t
        BY <1>3, <2>1, <2>2, <3>1, LagKept
      <3>2. CASE u = t
        <4> DEFINE g == Lags(t)'
        <4>1. \A q \in Procs : g[q] = 0
          BY <1>2, <2>3 DEF Lags, Lag, T
        <4> HIDE DEF g
        <4>2. SumFunctionOnSet(g, Procs) = 0
          BY <4>1, ProcsFinite, SumZero
        <4>3. paid'[t] = tokenPaid'[t] + SumFunctionOnSet(g, Procs)
          BY <2>2, <4>2
        <4> QED BY <3>2, <4>3 DEF TokenLag, g
      <3> QED BY <3>1, <3>2
    <2> QED BY <1>1, <2>4, <2>5 DEF TokenInv
  <1>5. CASE SettleSubmit(t)
    <2>1. row' = row /\ hit[t] \subseteq hit'[t] /\ \A u \in Tasks \ {t} : hit'[u] = hit[u]
      BY <1>1, <1>5 DEF SettleSubmit, RowsSame, Works, Fails, TypeOK
    <2>2. Loaded'
      BY <1>1, <1>2, <2>1 DEF Loaded, T
    <2>3. \/ paid'[t] = paid[t] - hold[t] /\ tokenPaid'[t] = tokenPaid[t] - hold[t]
          \/ paid'[t] = paid[t] /\ tokenPaid'[t] = tokenPaid[t]
      BY <1>1, <1>5 DEF SettleSubmit, Works, Fails, TypeOK
    <2>4. \A u \in Tasks \ {t} : paid'[u] = paid[u] /\ tokenPaid'[u] = tokenPaid[u]
      BY <1>1, <1>5 DEF SettleSubmit, TypeOK
    <2>5. ASSUME NEW u \in Tasks PROVE TokenLag(u)'
      <3>1. CASE u # t
        BY <1>3, <2>1, <2>4, <3>1, LagKept
      <3>2. CASE u = t /\ "token" \in hit'[t]
        BY <3>2 DEF TokenLag
      <3>3. CASE u = t /\ "token" \notin hit'[t]
        <4>1. \A q \in Procs : Lags(t)'[q] = Lags(t)[q] /\ Lags(t)[q] \in Int
          BY <1>1, <1>3, LagTyped DEF Lags
        <4> DEFINE f == Lags(t)
                   g == Lags(t)'
        <4>2. \A q \in Procs : g[q] = f[q] /\ f[q] \in Int
          BY <4>1
        <4>3. paid[t] = tokenPaid[t] + SumFunctionOnSet(f, Procs)
          BY <2>1, <3>3 DEF TokenInv, TokenLag
        <4> HIDE DEF f, g
        <4>4. /\ SumFunctionOnSet(g, Procs) = SumFunctionOnSet(f, Procs)
              /\ SumFunctionOnSet(f, Procs) \in Int
          BY <4>2, ProcsFinite, SumSame, SumType
        <4>5. paid'[t] = tokenPaid'[t] + SumFunctionOnSet(g, Procs)
          BY <1>1, <2>3, <3>3, <4>3, <4>4, TaskFacts
        <4> QED BY <3>3, <4>5 DEF TokenLag, g
      <3> QED BY <3>1, <3>2, <3>3
    <2> QED BY <1>1, <2>2, <2>5 DEF TokenInv
  <1>6. CASE UpstreamMoves(t)
    <2>1. row' = row /\ paid' = paid /\ tokenPaid' = tokenPaid /\ hit' = hit
      BY <1>6 DEF UpstreamMoves, RowsSame, AccountsSame, Works
    <2>2. Loaded'
      BY <1>1, <1>2, <2>1 DEF Loaded, T
    <2>3. ASSUME NEW u \in Tasks PROVE TokenLag(u)'
      BY <1>3, <2>1, LagKept
    <2> QED BY <1>1, <2>2, <2>3 DEF TokenInv
  <1> QED BY <1>4, <1>5, <1>6 DEF SubmitStep

LEMMA TokenInit == Init => TokenInv
  <1> SUFFICES ASSUME Init PROVE TokenInv
    OBVIOUS
  <1>1. \A p \in Procs : pc[p] = "idle"
    BY DEF Init
  <1>2. ASSUME NEW t \in Tasks PROVE TokenLag(t)
    <2>1. \A p \in Procs : Lags(t)[p] = 0
      BY <1>1 DEF Lags, Lag
    <2>2. SumFunctionOnSet(Lags(t), Procs) = 0
      BY <2>1, ProcsFinite, SumZero
    <2> QED BY <2>2 DEF Init, TokenLag
  <1> QED BY <1>1, <1>2, InitTyped DEF TokenInv, Loaded

LEMMA TokenNext == TokenInv /\ [Next]_vars => TokenInv'
  <1> SUFFICES ASSUME TokenInv, [Next]_vars PROVE TokenInv'
    OBVIOUS
  <1>1. CASE UNCHANGED vars
    <2>1. TInv'
      BY NextTyped DEF TokenInv
    <2>2. Loaded'
      BY <1>1 DEF vars, TokenInv, Loaded, T
    <2>3. ASSUME NEW t \in Tasks PROVE TokenLag(t)'
      <3>1. \A q \in Procs : Lag(q, t)' = Lag(q, t)
        BY <1>1 DEF vars, Lag, T, Delta
      <3> QED BY <1>1, <3>1, LagKept DEF vars
    <2> QED BY <2>1, <2>2, <2>3 DEF TokenInv
  <1>2. CASE Idle
    BY <1>1, <1>2 DEF Idle
  <1> QED BY <1>1, <1>2, TokenSubmitKeeps, TokenLoadKeeps, TokenStepKeeps DEF Next, Procs

LEMMA TokenBooks == Spec => []TokenInv
  BY TokenInit, TokenNext, PTL DEF Spec

\* The token moves with the funding source on every path, with any number of processes
\* inside the billing of a task: what separates the two is what those between the two
\* calls have still to do, and what a failed or cut off call to the token has left undone.
THEOREM TokenFollowsFundingHolds == Spec => []TokenFollowsFunding
  <1>1. TokenInv => TokenFollowsFunding
    <2> SUFFICES ASSUME TokenInv, NEW t \in Tasks, Quiet(t), "token" \notin hit[t]
                 PROVE  tokenPaid[t] = paid[t]
      BY DEF TokenFollowsFunding, Uncut
    <2>1. \A p \in Procs : Lags(t)[p] = 0
      BY DEF Quiet, Lags, Lag, Billing
    <2>2. SumFunctionOnSet(Lags(t), Procs) = 0
      BY <2>1, ProcsFinite, SumZero
    <2>3. paid[t] \in Int /\ tokenPaid[t] \in Int /\ TokenLag(t)
      BY TaskFacts DEF TokenInv, TInv
    <2> QED BY <2>2, <2>3 DEF TokenLag
  <1> QED BY <1>1, TokenBooks, PTL

-----------------------------------------------------------------------------
(* Submissions of unknown outcome, with one polling process beside any     *)
(* number of user's queries.  (With two, one of them can write its old     *)
(* copy over the end the other has settled: TaskLifecycle_resolve.cfg.)    *)

OnePoller == \A p, q \in Pollers : p = q

\* What the two kinds of processes do: a user's query only asks and writes.
Role(p) ==
    pc[p] # "idle" =>
        /\ p \in Fetchers <=> job[p].path = "fetch"
        /\ job[p].path = "fetch" => pc[p] \in {"query", "write"}
        /\ job[p].path = "fetch" /\ pc[p] = "write" => job[p].mem.status # "UNCONFIRMED"
        /\ pc[p] = "claim" => job[p].path = "resolve"
        /\ pc[p] = "stamp" => job[p].path = "expire"

\* No billing of t was unable to save what it had come to.
Saved(t) == "save" \notin hit[t] /\ "finalize" \notin hit[t]

\* A copy whose outcome is unknown has been billed by nobody; what is billed by another
\* path than the resolution has left UNCONFIRMED; and a row whose outcome is unknown has
\* its whole hold until the funding source moves, where a crash may still leave it so.
UnknownCopy(p) ==
    /\ pc[p] # "idle" /\ p \in Pollers /\ job[p].mem.status = "UNCONFIRMED" =>
         /\ job[p].path = "resolve" /\ pc[p] \in {"query", "write", "claim", "finalize"}
         /\ hold[T(p)] = 0
         /\ Saved(T(p)) => moves[T(p)] = 0 /\ paid[T(p)] = job[p].mem.quota
    /\ pc[p] \in Billing /\ job[p].path # "resolve" => row[T(p)].status # "UNCONFIRMED"
    /\ pc[p] = "funding" /\ row[T(p)].status = "UNCONFIRMED" /\ Saved(T(p)) =>
         moves[T(p)] = 0 /\ paid[T(p)] = row[T(p)].quota

\* The same for the row.
UnknownBooks(t) ==
    /\ row[t].status = "NONE" => moves[t] = 0 /\ hold[t] = 0
    /\ row[t].status = "UNCONFIRMED" => hold[t] = 0
    /\ row[t].status = "UNCONFIRMED" /\ Unbilled(t) /\ Saved(t) =>
         moves[t] = 0 /\ paid[t] = row[t].quota

UnknownInv ==
    /\ TInv /\ Loaded
    /\ \A p \in Procs : Role(p) /\ UnknownCopy(p)
    /\ \A t \in Tasks : UnknownBooks(t)

\* A step on t leaves the rows and the accounts of the other tasks alone.
OwnBooks(t) ==
    \A u \in Tasks \ {t} :
        /\ row'[u] = row[u] /\ paid'[u] = paid[u] /\ moves'[u] = moves[u]
        /\ hit'[u] = hit[u] /\ hold'[u] = hold[u]

LEMMA UnknownFacts ==
    ASSUME UnknownInv, NEW p \in Procs
    PROVE  TInv /\ TypeOK /\ Loaded /\ Role(p) /\ UnknownCopy(p)
  BY DEF UnknownInv, TInv

LEMMA UnknownElsewhere ==
    ASSUME UnknownInv, NEW p \in Procs, NEW t \in Tasks, OwnJob(p), OwnBooks(t),
           pc[p] = "idle" \/ T(p) = t, NEW u \in Tasks \ {t}
    PROVE  UnknownBooks(u)'
  <1>1. UnknownBooks(u)
    BY DEF UnknownInv
  <1>2. Unbilled(u)' => Unbilled(u)
    BY DEF Unbilled, OwnJob, T, Billing
  <1>3. /\ row'[u] = row[u] /\ paid'[u] = paid[u] /\ moves'[u] = moves[u]
        /\ hit'[u] = hit[u] /\ hold'[u] = hold[u]
    BY DEF OwnBooks
  <1> QED BY <1>1, <1>2, <1>3 DEF UnknownBooks, Saved

LEMMA RoleKept ==
    ASSUME UnknownInv, NEW q \in Procs, pc'[q] = pc[q], job'[q] = job[q]
    PROVE  Role(q)'
  BY DEF UnknownInv, Role

\* A step of the poller: the other processes are user's queries, of which the invariant
\* says nothing that the poller could change.
LEMMA PollerStepKeeps ==
    ASSUME OnePoller, UnknownInv, TInv', Loaded', NEW p \in Pollers, NEW t \in Tasks,
           OwnJob(p), OwnBooks(t), pc[p] = "idle" \/ T(p) = t,
           Role(p)', UnknownCopy(p)', UnknownBooks(t)'
    PROVE  UnknownInv'
  <1>1. p \in Procs
    BY DEF Procs
  <1>2. ASSUME NEW q \in Procs \ {p} PROVE Role(q)' /\ UnknownCopy(q)'
    <2>1. pc'[q] = pc[q] /\ job'[q] = job[q]
      BY DEF OwnJob
    <2>2. Role(q)'
      BY <2>1, RoleKept
    <2>3. q \in Fetchers /\ q \notin Pollers
      BY ProcessesAssumption DEF OnePoller, Procs
    <2>4. Role(q)
      BY UnknownFacts
    <2>5. pc[q] \notin Billing
      BY <2>3, <2>4 DEF Role, Billing
    <2> QED BY <2>1, <2>2, <2>3, <2>5 DEF UnknownCopy, Billing, Saved
  <1>3. ASSUME NEW u \in Tasks PROVE UnknownBooks(u)'
    BY <1>1, UnknownElsewhere
  <1> QED BY <1>2, <1>3 DEF UnknownInv

\* A step of a user's query: it bills nobody and writes no unknown outcome.
LEMMA FetcherStepKeeps ==
    ASSUME UnknownInv, TInv', Loaded', NEW p \in Fetchers, OwnJob(p), Role(p)',
           pc[p] \notin Billing, pc'[p] \notin Billing,
           \A t \in Tasks : /\ row'[t] = row[t] \/ row'[t].status \notin {"NONE", "UNCONFIRMED"}
                            /\ paid'[t] = paid[t] /\ moves'[t] = moves[t]
                            /\ hold'[t] = hold[t] /\ hit'[t] = hit[t]
    PROVE  UnknownInv'
  <1>1. p \in Procs /\ p \notin Pollers
    BY ProcessesAssumption DEF Procs
  <1>2. ASSUME NEW q \in Procs \ {p} PROVE Role(q)' /\ UnknownCopy(q)'
    <2>1. pc'[q] = pc[q] /\ job'[q] = job[q] /\ T(q)' = T(q)
      BY DEF OwnJob, T
    <2>2. Role(q)' /\ UnknownCopy(q) /\ TInv
      BY <2>1, RoleKept, UnknownFacts
    <2>3. CASE pc[q] = "idle"
      BY <2>1, <2>2, <2>3 DEF UnknownCopy, Billing, Saved
    <2>4. CASE pc[q] # "idle"
      <3>1. T(q) \in Tasks
        BY <2>2, <2>4, AtWork
      <3> QED BY <2>1, <2>2, <2>4, <3>1 DEF UnknownCopy, Saved
    <2> QED BY <2>3, <2>4
  <1>3. UnknownCopy(p)'
    BY <1>1 DEF UnknownCopy, Billing, Saved
  <1>4. ASSUME NEW u \in Tasks PROVE UnknownBooks(u)'
    <2>1. UnknownBooks(u) /\ (Unbilled(u)' => Unbilled(u))
      BY DEF UnknownInv, Unbilled, OwnJob, T, Billing
    <2> QED BY <2>1 DEF UnknownBooks, Saved
  <1> QED BY <1>2, <1>3, <1>4 DEF UnknownInv

\* A process that is past its write is the poller.
LEMMA PollerAt ==
    ASSUME UnknownInv, NEW p \in Procs, pc[p] # "idle",
           pc[p] \notin {"query", "write"} \/ job[p].path # "fetch"
    PROVE  p \in Pollers /\ job[p].path # "fetch"
  BY UnknownFacts DEF Role, Procs

\* Loading a row: nobody else is inside its billing.
LEMMA UnknownLoadKeeps ==
    ASSUME OnePoller, UnknownInv, TInv', Loaded', NEW p \in Pollers, NEW t \in Tasks,
           PollLoad(p, t) \/ SweepLoad(p, t) \/ ResolveLoad(p, t)
    PROVE  UnknownInv'
  <1>1. p \in Procs /\ TInv /\ TypeOK /\ pc[p] = "idle" /\ UnknownBooks(t) /\ p \notin Fetchers
    BY ProcessesAssumption
       DEF Procs, UnknownInv, TInv, PollLoad, SweepLoad, ResolveLoad, Load
  <1>2. row' = row /\ paid' = paid /\ moves' = moves /\ hit' = hit /\ hold' = hold
    BY DEF PollLoad, SweepLoad, ResolveLoad, Load, RowsSame, AccountsSame, Works, WorldSame
  <1>l. PICK l \in {"query", "write"} : \E j :
          /\ Moved(p, l, j) /\ j.task = t /\ j.path \in {"poll", "sweep", "resolve"}
          /\ j.mem.status = "UNCONFIRMED" =>
               j.path = "resolve" /\ j.mem.quota = row[t].quota /\ row[t].status = "UNCONFIRMED"
    <2>1. CASE SweepLoad(p, t)
      <3>1. Moved(p, "write", SweepJob(t)) /\ SweepJob(t).path = "sweep"
        BY <1>1, <2>1, SweepLoadTyped DEF SweepJob
      <3> QED BY <1>1, <3>1, SweepJobTyped
    <2>2. CASE PollLoad(p, t)
      <3> DEFINE j == [task |-> t, mem |-> row[t], path |-> "poll", from |-> row[t].status,
                       priced |-> FALSE, target |-> 0]
      <3>1. Moved(p, "query", j) /\ row[t].status \in Active
        BY <1>1, <2>2, LoadTyped DEF PollLoad, Ways
      <3> QED BY <3>1 DEF Active
    <2>3. CASE ResolveLoad(p, t)
      <3> DEFINE j == [task |-> t, mem |-> row[t], path |-> "resolve", from |-> row[t].status,
                       priced |-> FALSE, target |-> 0]
      <3>1. Moved(p, "query", j)
        BY <1>1, <2>3, LoadTyped DEF ResolveLoad, Ways
      <3> QED BY <3>1
    <2> QED BY <2>1, <2>2, <2>3
  <1>3. PICK j :
          /\ Moved(p, l, j) /\ j.task = t /\ j.path \in {"poll", "sweep", "resolve"}
          /\ j.mem.status = "UNCONFIRMED" =>
               j.path = "resolve" /\ j.mem.quota = row[t].quota /\ row[t].status = "UNCONFIRMED"
    BY <1>l
  <1>4. pc'[p] = l /\ job'[p] = j /\ T(p)' = t /\ OwnJob(p)
    BY <1>3 DEF Moved, OwnJob, T
  <1>5. Unbilled(t)
    <2> SUFFICES ASSUME NEW q \in Procs, pc[q] \in Billing PROVE FALSE
      BY DEF Unbilled
    <2>1. q \in Pollers
      BY PollerAt DEF Billing
    <2> QED BY <1>1, <2>1 DEF OnePoller, Billing
  <1>6. Role(p)' /\ UnknownCopy(p)'
    BY <1>1, <1>2, <1>3, <1>4, <1>5 DEF Role, UnknownCopy, UnknownBooks, Billing, Saved
  <1>7. UnknownBooks(t)' /\ OwnBooks(t)
    BY <1>1, <1>2, <1>5 DEF UnknownBooks, OwnBooks, Saved
  <1> QED BY <1>1, <1>4, <1>6, <1>7, PollerStepKeeps

LEMMA FetchLoadKeeps ==
    ASSUME UnknownInv, TInv', Loaded', NEW p \in Fetchers, NEW t \in Tasks, FetchLoad(p, t)
    PROVE  UnknownInv'
  <1>1. p \in Procs /\ TInv /\ pc[p] = "idle" /\ Load(p, t, "fetch", "query")
    BY DEF Procs, UnknownInv, FetchLoad, Load
  <1> DEFINE j == [task |-> t, mem |-> row[t], path |-> "fetch", from |-> row[t].status,
                   priced |-> FALSE, target |-> 0]
  <1>2. Moved(p, "query", j)
    BY <1>1, LoadTyped DEF Ways
  <1>3. pc'[p] = "query" /\ job'[p].path = "fetch" /\ OwnJob(p)
    BY <1>2 DEF Moved, OwnJob
  <1>4. row' = row /\ paid' = paid /\ moves' = moves /\ hit' = hit /\ hold' = hold
    BY DEF FetchLoad, Load, RowsSame, AccountsSame, Works
  <1>5. Role(p)'
    BY <1>3 DEF Role
  <1> QED BY <1>1, <1>3, <1>4, <1>5, FetcherStepKeeps DEF Billing

\* The answers: an unknown outcome stays in the copy only where nothing was billed.
LEMMA UnknownAnswerKeeps ==
    ASSUME OnePoller, UnknownInv, TInv', Loaded', NEW p \in Procs,
           \/ PollAnswer(p) \/ PollNotFound(p) \/ PollError(p)
           \/ ResolveAnswer(p) \/ ResolveExpired(p) \/ FetchAnswer(p)
    PROVE  UnknownInv'
  <1>1. TInv /\ TypeOK /\ Role(p) /\ UnknownCopy(p)
    BY UnknownFacts
  <1>2. /\ StatusEffect(p) /\ pc[p] = "query" /\ pc'[p] \in {"idle", "write", "claim"}
        /\ UNCHANGED <<row, paid, tokenPaid, moves, hit, hold>>
    BY <1>1, AnswerEffect
  <1>3. PICK t \in Tasks : T(p) = t
    BY <1>1, <1>2, AtWork
  <1>4. OwnJob(p) /\ (pc'[p] # "idle" => CopyEffect(p, job'[p]))
    BY <1>2 DEF StatusEffect
  <1>5. CASE job[p].path # "fetch"
    <2>1. p \in Pollers /\ p \notin Fetchers
      BY <1>2, <1>5, PollerAt, ProcessesAssumption
    <2>2. pc'[p] = "claim" => job[p].path = "resolve" /\ job'[p].path = "resolve"
      <3> SUFFICES ASSUME pc'[p] = "claim"
                   PROVE  job[p].path = "resolve" /\ job'[p].path = "resolve"
        OBVIOUS
      <3>1. pc \in [Procs -> PCs]
        BY <1>1 DEF TypeOK
      <3>2. job[p].path = "resolve" /\ Prepare(p, job[p].mem, TRUE, "claim")
        BY <3>1
           DEF PollAnswer, PollNotFound, PollError, ResolveAnswer, ResolveExpired, FetchAnswer,
               Prepare, Stop, Expire, Go
      <3> DEFINE j == [job[p] EXCEPT !.mem = job[p].mem, !.priced = TRUE]
      <3>3. Moved(p, "claim", j)
        BY <1>1, <1>2, <3>2, PrepareTyped, JobFacts
      <3>4. j.path = job[p].path
        BY <1>1, JobFacts DEF JobType
      <3> HIDE DEF j
      <3> QED BY <3>2, <3>3, <3>4 DEF Moved
    <2>3. Role(p)'
      BY <1>2, <1>4, <1>5, <2>1, <2>2 DEF Role, CopyEffect
    <2>4. UnknownCopy(p)'
      <3>1. pc'[p] # "idle" => T(p)' = t
        BY <1>3, <1>4 DEF CopyEffect, T
      <3>2. pc'[p] # "idle" /\ job'[p].mem.status = "UNCONFIRMED" =>
              /\ job[p].mem.status = "UNCONFIRMED" /\ job'[p].mem.quota = job[p].mem.quota
              /\ job'[p].path = job[p].path
        BY <1>2, <1>4 DEF CopyEffect, Active, Terminal
      <3> QED BY <1>1, <1>2, <1>3, <2>1, <3>1, <3>2 DEF UnknownCopy, Billing, Saved
    <2>5. UnknownBooks(t)' /\ OwnBooks(t)
      <3>1. UnknownBooks(t) /\ (Unbilled(t)' => Unbilled(t))
        BY <1>2, <1>4 DEF UnknownInv, Unbilled, OwnJob, T, Billing
      <3> QED BY <1>2, <3>1 DEF UnknownBooks, OwnBooks, Saved
    <2> QED BY <1>3, <1>4, <2>1, <2>3, <2>4, <2>5, PollerStepKeeps
  <1>6. CASE job[p].path = "fetch"
    <2>1. p \in Fetchers
      BY <1>1, <1>2, <1>6 DEF Role
    <2>2. FetchAnswer(p)
      BY <1>6 DEF PollAnswer, PollNotFound, PollError, ResolveAnswer, ResolveExpired
    <2>3. pc'[p] \in {"idle", "write"} /\ (pc'[p] = "write" => job'[p].mem.status = up[T(p)])
      <3>1. CASE Stop(p)
        BY <1>1, <3>1 DEF Stop, Go, TypeOK
      <3>2. CASE ~ Stop(p)
        <4>1. job[p].mem \in RowType /\ up[T(p)] \in Statuses
          BY <1>1, <1>3, JobFacts, TaskFacts DEF Statuses
        <4>2. PICK done \in BOOLEAN :
                Prepare(p, [job[p].mem EXCEPT !.status = up[T(p)], !.done = done],
                        FALSE, "write")
          BY <1>1, <2>2, <3>2, JobFacts DEF FetchAnswer, ReportedDone
        <4> DEFINE mem == [job[p].mem EXCEPT !.status = up[T(p)], !.done = done]
                   j == [job[p] EXCEPT !.mem = mem, !.priced = FALSE]
        <4>3. mem \in RowType /\ mem.status = up[T(p)] /\ Prepare(p, mem, FALSE, "write")
          BY <4>1, <4>2 DEF RowType
        <4> HIDE DEF mem
        <4>4. Moved(p, "write", j)
          BY <1>1, <1>2, <4>3, PrepareTyped
        <4>5. j.mem = mem
          BY <1>1, JobFacts DEF JobType
        <4> HIDE DEF j
        <4> QED BY <4>3, <4>4, <4>5 DEF Moved
      <3> QED BY <3>1, <3>2
    <2>4. up[T(p)] \in Active \cup Terminal
      BY <1>1, <1>3, TaskFacts
    <2>5. pc'[p] # "idle" => job'[p].path = "fetch"
      BY <1>4, <1>6 DEF CopyEffect
    <2>6. Role(p)'
      BY <2>1, <2>3, <2>4, <2>5 DEF Role, Active, Terminal
    <2> QED BY <1>2, <1>4, <2>1, <2>3, <2>6, FetcherStepKeeps DEF Billing
  <1> QED BY <1>5, <1>6

\* UpdateWithStatus.
LEMMA UnknownWriteRowKeeps ==
    ASSUME OnePoller, UnknownInv, TInv', Loaded', NEW p \in Procs, WriteRow(p)
    PROVE  UnknownInv'
  <1>1. TInv /\ TypeOK /\ Role(p) /\ UnknownCopy(p) /\ Loaded /\ pc[p] = "write"
    BY UnknownFacts DEF WriteRow
  <1>2. PICK t \in Tasks : T(p) = t
    BY <1>1, AtWork
  <1>3. StatusEffect(p) /\ UNCHANGED <<paid, tokenPaid, moves, hold>> /\ hit' = hit
    BY <1>1, WriteEffect DEF WriteRow, Works
  <1>4. /\ OwnJob(p) /\ (pc'[p] # "idle" => CopyEffect(p, job'[p]))
        /\ \A u \in Tasks \ {t} : row'[u] = row[u]
    BY <1>2, <1>3 DEF StatusEffect
  <1>5. job[p].mem.status # "NONE" /\ row[t].status # "NONE"
    BY <1>1, <1>2 DEF Loaded
  <1>6. /\ row' = row \/ row'[t] = job[p].mem
        /\ \/ pc'[p] = "idle"
           \/ pc'[p] = "stamp" /\ job[p].path = "expire" /\ row'[t] = job[p].mem
           \/ pc'[p] = "funding" /\ job[p].path \in {"poll", "sweep"} /\ row'[t] = job[p].mem
           \/ /\ pc'[p] = "write" /\ job[p].path = "resolve"
              /\ job'[p].path = "expire" /\ job'[p].mem.status = "FAILURE"
    <2>1. row' = row \/ row'[t] = job[p].mem
      BY <1>1, <1>2 DEF WriteRow, RowsSame, Write, TypeOK
    <2>2. PICK won \in BOOLEAN : AfterWrite(p, won) /\ (won => row'[t] = job[p].mem)
      BY <1>1, <1>2 DEF WriteRow, RowsSame, Write, TypeOK
    <2>3. pc \in [Procs -> PCs]
      BY <1>1 DEF TypeOK
    <2>4. CASE job[p].path = "resolve" /\ Expire(p)
      <3>1. PICK j \in JobType :
              j.mem = Failed(job[p].mem) /\ j.path = "expire" /\ Moved(p, "write", j)
        BY <1>1, <2>4, ExpireMoves
      <3>2. j.mem.status = "FAILURE"
        BY <1>1, <3>1, FailedTyped, JobFacts
      <3> QED BY <2>1, <2>4, <3>1, <3>2 DEF Moved
    <2>5. CASE \/ Go(p, "stamp", job[p]) /\ job[p].path = "expire" /\ won
               \/ StartBilling(p, job[p].mem, "idle") /\ job[p].path \in {"poll", "sweep"} /\ won
               \/ Go(p, "idle", job[p])
      BY <2>1, <2>2, <2>3, <2>5 DEF Go, StartBilling
    <2> QED BY <2>2, <2>4, <2>5 DEF AfterWrite
  <1>7. CASE job[p].path # "fetch"
    <2>1. p \in Pollers /\ p \notin Fetchers
      BY <1>1, <1>7, PollerAt, ProcessesAssumption
    <2>2. /\ pc'[p] # "idle" => T(p)' = t /\ job'[p].mem.status # "UNCONFIRMED"
          /\ pc'[p] = "write" => job'[p].path = "expire"
          /\ pc'[p] \in {"stamp", "funding"} =>
               /\ job'[p].path = job[p].path /\ row'[t] = job[p].mem
               /\ job[p].mem.status # "UNCONFIRMED"
      BY <1>1, <1>2, <1>4, <1>6, <2>1 DEF CopyEffect, T, UnknownCopy, Active, Terminal, Saved
    <2>3. Role(p)'
      BY <1>6, <1>7, <2>1, <2>2 DEF Role
    <2>4. UnknownCopy(p)'
      BY <1>6, <2>2 DEF UnknownCopy, Billing, Saved
    <2>5. UnknownBooks(t)'
      <3>1. CASE row' = row
        <4>1. UnknownBooks(t) /\ (Unbilled(t)' => Unbilled(t))
          BY <1>1, <1>4 DEF UnknownInv, Unbilled, OwnJob, T, Billing
        <4> QED BY <1>3, <3>1, <4>1 DEF UnknownBooks, Saved
      <3>2. CASE row'[t] = job[p].mem
        BY <1>1, <1>2, <1>3, <1>5, <2>1, <3>2 DEF UnknownBooks, UnknownCopy, Saved
      <3> QED BY <1>6, <3>1, <3>2
    <2>6. OwnBooks(t)
      BY <1>3, <1>4 DEF OwnBooks
    <2> QED BY <1>2, <1>4, <2>1, <2>3, <2>4, <2>5, <2>6, PollerStepKeeps
  <1>8. CASE job[p].path = "fetch"
    <2>1. p \in Fetchers /\ job[p].mem.status # "UNCONFIRMED"
      BY <1>1, <1>8 DEF Role
    <2>2. pc'[p] = "idle"
      BY <1>6, <1>8
    <2>3. Role(p)'
      BY <2>2 DEF Role
    <2>4. ASSUME NEW u \in Tasks
          PROVE  row'[u] = row[u] \/ row'[u].status \notin {"NONE", "UNCONFIRMED"}
      BY <1>4, <1>5, <1>6, <2>1
    <2> QED BY <1>1, <1>3, <1>4, <2>1, <2>2, <2>3, <2>4, FetcherStepKeeps DEF Billing
  <1> QED BY <1>7, <1>8

\* The resolution: the claim, and the unconditional saves.
LEMMA UnknownSavesKeep ==
    ASSUME OnePoller, UnknownInv, TInv', Loaded', NEW p \in Procs,
           Claim(p) \/ Finalize(p) \/ Stamp(p) \/ BulkFail(p)
    PROVE  UnknownInv'
  <1>1. /\ TInv /\ TypeOK /\ Role(p) /\ UnknownCopy(p) /\ Loaded
        /\ pc[p] \in {"query", "claim", "finalize", "stamp"}
    BY UnknownFacts DEF Claim, Finalize, Stamp, BulkFail
  <1>2. PICK t \in Tasks : T(p) = t
    BY <1>1, AtWork
  <1>3. StatusEffect(p) /\ UNCHANGED <<paid, tokenPaid, moves, hold>>
    BY <1>1, WriteEffect
  <1>4. /\ OwnJob(p) /\ (pc'[p] # "idle" => CopyEffect(p, job'[p]))
        /\ \A u \in Tasks \ {t} : row'[u] = row[u]
    BY <1>2, <1>3 DEF StatusEffect
  <1>5. job[p].mem.status # "NONE" /\ row[t].status # "NONE" /\ UnknownBooks(t)
    BY <1>1, <1>2 DEF Loaded, UnknownInv
  <1>6. p \in Pollers /\ p \notin Fetchers /\ job[p].path # "fetch"
    BY <1>1, PollerAt, ProcessesAssumption DEF BulkFail, Claim, Finalize, Stamp
  <1>7. pc'[p] # "idle" => T(p)' = t
    BY <1>2, <1>4 DEF CopyEffect, T
  <1>8. hit' = hit \/ ("finalize" \in hit'[t] /\ \A u \in Tasks \ {t} : hit'[u] = hit[u])
    BY <1>1, <1>2 DEF Claim, Finalize, Stamp, BulkFail, Works, Fails, TypeOK
  <1>9. OwnBooks(t)
    BY <1>3, <1>4, <1>8 DEF OwnBooks
  <1>10. pc \in [Procs -> PCs] /\ row \in [Tasks -> RowType] /\ job \in [Procs -> JobType]
    BY <1>1 DEF TypeOK
  <1>11. CASE Claim(p)
    <2>1. pc[p] = "claim" /\ job[p].path = "resolve" /\ hit' = hit
      BY <1>1, <1>11 DEF Claim, Role, Works
    <2>2. pc'[p] \in {"finalize", "funding"}
      BY <1>10, <1>11 DEF Claim, Go, StartBilling
    <2>3. /\ row' = row /\ pc'[p] = "finalize" /\ job'[p] = job[p]
          \/ /\ row[t].status = "UNCONFIRMED" /\ row'[t] = job[p].mem
             /\ job'[p].mem.status # "UNCONFIRMED" /\ job'[p].path = job[p].path
      <3>1. CASE RowsSame /\ Go(p, "finalize", job[p])
        BY <1>10, <3>1 DEF RowsSame, Go
      <3>2. CASE /\ row[t].status = "UNCONFIRMED" /\ Write(t, job[p].mem, "resolve")
                 /\ StartBilling(p, [job[p].mem EXCEPT !.status = up[t], !.done = TRUE],
                                 "finalize")
        <4> DEFINE mem == [job[p].mem EXCEPT !.status = up[t], !.done = TRUE]
        <4>1. up[t] \in Active \cup Terminal /\ job[p].mem \in RowType
          BY <1>1, JobFacts, TaskFacts
        <4>2. mem \in RowType /\ mem.status = up[t] /\ StartBilling(p, mem, "finalize")
          BY <3>2, <4>1 DEF RowType, Statuses
        <4> HIDE DEF mem
        <4>3. PICK j \in JobType, m \in {"funding", "finalize"} :
                j.mem = mem /\ j.path = job[p].path /\ Moved(p, m, j)
          BY <1>1, <4>2, StartBillingMoves
        <4>4. job'[p].mem = mem /\ job'[p].path = job[p].path
          BY <4>3 DEF Moved
        <4>5. row'[t] = job[p].mem
          BY <1>10, <3>2 DEF Write
        <4> QED BY <3>2, <4>1, <4>2, <4>4, <4>5 DEF Active, Terminal
      <3> QED BY <1>2, <1>11, <3>1, <3>2 DEF Claim
    <2>4. job'[p].path = "resolve"
      BY <2>1, <2>3
    <2>5. Role(p)'
      BY <1>6, <2>2, <2>4 DEF Role
    <2>6. UnknownCopy(p)'
      <3>1. T(p)' = t /\ (Saved(t)' => Saved(t))
        BY <1>7, <2>1, <2>2 DEF Saved
      <3>2. CASE row' = row /\ pc'[p] = "finalize" /\ job'[p] = job[p]
        BY <1>1, <1>2, <1>3, <2>1, <3>1, <3>2 DEF UnknownCopy, Billing
      <3>3. CASE /\ row'[t] = job[p].mem /\ job'[p].mem.status # "UNCONFIRMED"
                 /\ job'[p].path = job[p].path
        <4>1. row'[t].status = "UNCONFIRMED" /\ Saved(t) =>
                moves[t] = 0 /\ paid[t] = row'[t].quota
          BY <1>1, <1>2, <1>6, <2>1, <3>3 DEF UnknownCopy
        <4> QED BY <1>3, <2>1, <2>2, <3>1, <3>3, <4>1 DEF UnknownCopy, Billing
      <3> QED BY <2>3, <3>2, <3>3
    <2>7. UnknownBooks(t)'
      <3>1. ~ Unbilled(t)'
        BY <1>7, <2>2 DEF Unbilled, Billing
      <3> QED BY <1>3, <1>5, <2>3, <3>1 DEF UnknownBooks, Saved
    <2> QED BY <1>2, <1>4, <1>6, <1>9, <2>5, <2>6, <2>7, PollerStepKeeps
  <1>12. CASE Finalize(p) \/ BulkFail(p)
    <2>1. pc'[p] = "idle"
      BY <1>10, <1>12 DEF Finalize, BulkFail, Go
    <2>2. Role(p)' /\ UnknownCopy(p)'
      BY <2>1 DEF Role, UnknownCopy, Billing, Saved
    <2>3. CASE Finalize(p)
      <3>1. \/ row'[t] = job[p].mem /\ hit' = hit
            \/ row' = row /\ "finalize" \in hit'[t]
        BY <1>1, <1>2, <1>10, <2>3 DEF Finalize, Write, Works, Fails, RowsSame, TypeOK
      <3>2. UnknownBooks(t)'
        BY <1>1, <1>2, <1>3, <1>5, <1>6, <2>3, <3>1 DEF UnknownBooks, UnknownCopy, Finalize, Saved
      <3> QED BY <1>2, <1>4, <1>6, <1>9, <2>2, <3>2, PollerStepKeeps
    <2>4. CASE BulkFail(p)
      <3>1. Failed(row[t]).status = "FAILURE"
        BY <1>10, FailedTyped
      <3>2. (row' = row \/ row'[t].status = "FAILURE") /\ hit' = hit /\ pc[p] = "query"
        BY <1>2, <1>10, <2>4, <3>1 DEF BulkFail, Write, Works, RowsSame
      <3>3. Unbilled(t)' => Unbilled(t)
        BY <1>4, <3>2 DEF Unbilled, OwnJob, T, Billing
      <3>4. UnknownBooks(t)'
        BY <1>3, <1>5, <3>2, <3>3 DEF UnknownBooks, Saved
      <3> QED BY <1>2, <1>4, <1>6, <1>9, <2>2, <3>4, PollerStepKeeps
    <2> QED BY <1>12, <2>3, <2>4
  <1>13. CASE Stamp(p)
    <2>1. /\ pc[p] = "stamp" /\ job[p].path = "expire" /\ hit' = hit
          /\ row[t].status # "UNCONFIRMED" /\ job[p].mem.status # "UNCONFIRMED"
      BY <1>1, <1>2, <1>6, <1>13 DEF Stamp, Role, UnknownCopy, Works, Billing, Saved
    <2>2. row' = row \/ row'[t] = job[p].mem
      BY <1>2, <1>10, <1>13 DEF Stamp, Write, RowsSame
    <2>3. pc'[p] \in {"funding", "idle"}
      BY <1>10, <1>13 DEF Stamp, StartBilling, Go
    <2>4. pc'[p] # "idle" => job'[p].path = "expire" /\ job'[p].mem.status # "UNCONFIRMED"
      BY <1>4, <2>1 DEF CopyEffect, Active, Terminal
    <2>5. Role(p)' /\ UnknownCopy(p)' /\ UnknownBooks(t)'
      BY <1>5, <1>6, <1>7, <2>1, <2>2, <2>3, <2>4 DEF Role, UnknownCopy, UnknownBooks, Billing, Saved
    <2> QED BY <1>2, <1>4, <1>6, <1>9, <2>5, PollerStepKeeps
  <1> QED BY <1>11, <1>12, <1>13

\* The billing: a copy inside it has its end, and unless it resolves a submission, so
\* has the row.
LEMMA UnknownBillingKeeps ==
    ASSUME OnePoller, UnknownInv, TInv', Loaded', NEW p \in Procs,
           AdjustFunding(p) \/ AdjustToken(p) \/ SaveQuota(p)
    PROVE  UnknownInv'
  <1>1. /\ TInv /\ TypeOK /\ Role(p) /\ UnknownCopy(p) /\ Loaded
        /\ pc[p] \in {"funding", "token", "save"}
    BY UnknownFacts DEF AdjustFunding, AdjustToken, SaveQuota
  <1>2. PICK t \in Tasks : T(p) = t
    BY <1>1, AtWork
  <1>3. StatusEffect(p)
    BY <1>1, BillingEffect
  <1>4. /\ OwnJob(p) /\ (pc'[p] # "idle" => CopyEffect(p, job'[p]))
        /\ \A u \in Tasks \ {t} : row'[u] = row[u]
        /\ row'[t].status \in {row[t].status, job[p].mem.status, "FAILURE"}
    BY <1>2, <1>3 DEF StatusEffect
  <1>5. job[p].mem.status # "NONE" /\ row[t].status # "NONE" /\ UnknownBooks(t)
    BY <1>1, <1>2 DEF Loaded, UnknownInv
  <1>6. p \in Pollers /\ p \notin Fetchers /\ job[p].path # "fetch"
    BY <1>1, PollerAt, ProcessesAssumption
  <1>7. /\ job[p].mem.status # "UNCONFIRMED"
        /\ job[p].path # "resolve" => row[t].status # "UNCONFIRMED"
    BY <1>1, <1>2, <1>6 DEF UnknownCopy, Billing, Saved
  <1>8. pc \in [Procs -> PCs] /\ job \in [Procs -> JobType] /\ hit \in [Tasks -> SUBSET Cuts]
        /\ paid \in [Tasks -> Int] /\ moves \in [Tasks -> Nat]
    BY <1>1 DEF TypeOK
  <1>9. /\ pc'[p] \in {"token", "save", "finalize", "idle"}
        /\ pc'[p] = "idle" => job[p].path # "resolve"
    BY <1>8 DEF AdjustFunding, AdjustToken, SaveQuota, Go, AfterBilling
  <1>10. pc'[p] # "idle" => job'[p].path = job[p].path
    <2>1. CASE AdjustFunding(p) \/ AdjustToken(p)
      BY <1>8, <2>1 DEF AdjustFunding, AdjustToken, Go
    <2>2. CASE SaveQuota(p)
      <3> DEFINE j == [job[p] EXCEPT !.mem.quota = job[p].target]
      <3>1. Go(p, AfterBilling(p), j)
        BY <2>2 DEF SaveQuota
      <3>2. j.path = job[p].path
        BY <1>1, JobFacts DEF JobType
      <3> HIDE DEF j
      <3> QED BY <1>8, <3>1, <3>2 DEF Go
    <2> QED BY <2>1, <2>2
  <1>11. OwnBooks(t) /\ hold' = hold
    <2>1. hold' = hold /\ \A u \in Tasks \ {t} : paid'[u] = paid[u] /\ moves'[u] = moves[u]
      BY <1>2, <1>8 DEF AdjustFunding, AdjustToken, SaveQuota, WorldSame, AccountsSame
    <2>2. \A u \in Tasks \ {t} : hit'[u] = hit[u]
      BY <1>2, <1>8 DEF AdjustFunding, AdjustToken, SaveQuota, Works, Fails
    <2> QED BY <1>4, <2>1, <2>2 DEF OwnBooks
  <1>12. pc'[p] # "idle" => T(p)' = t /\ job'[p].mem.status # "UNCONFIRMED"
    BY <1>2, <1>4, <1>7 DEF CopyEffect, T, Active, Terminal
  <1>13. row'[t].status # "NONE" /\ (row'[t].status = "UNCONFIRMED" => row[t].status = "UNCONFIRMED")
    BY <1>4, <1>5, <1>7
  <1>14. Role(p)'
    BY <1>6, <1>9, <1>10 DEF Role
  <1>15. UnknownCopy(p)'
    BY <1>7, <1>9, <1>10, <1>12, <1>13 DEF UnknownCopy, Billing, Saved
  <1>16. UnknownBooks(t)'
    <2>1. CASE pc'[p] = "idle"
      BY <1>7, <1>9, <1>13, <2>1 DEF UnknownBooks, Saved
    <2>2. CASE pc'[p] # "idle"
      <3>1. ~ Unbilled(t)'
        BY <1>9, <1>12, <2>2 DEF Unbilled, Billing
      <3> QED BY <1>5, <1>11, <1>13, <3>1 DEF UnknownBooks, Saved
    <2> QED BY <2>1, <2>2
  <1> QED BY <1>2, <1>4, <1>6, <1>11, <1>14, <1>15, <1>16, PollerStepKeeps

\* A crash: before the funding source moves the hold is whole, after it the hit records
\* what was not saved.
LEMMA UnknownCrashKeeps ==
    ASSUME OnePoller, UnknownInv, TInv', Loaded', NEW p \in Procs, Crash(p)
    PROVE  UnknownInv'
  <1>1. TInv /\ TypeOK /\ Role(p) /\ UnknownCopy(p) /\ pc[p] # "idle"
    BY UnknownFacts DEF Crash
  <1>2. PICK t \in Tasks : T(p) = t
    BY <1>1, AtWork
  <1>3. /\ StatusEffect(p) /\ pc'[p] = "idle" /\ row' = row
        /\ UNCHANGED <<paid, tokenPaid, moves, hold>>
        /\ hit[t] \subseteq hit'[t] /\ hit'[t] = hit[t] \cup CutOff(pc[p])
    BY <1>1, <1>2, CrashEffect
  <1>4. OwnJob(p) /\ UnknownBooks(t)
    BY <1>3 DEF StatusEffect, UnknownInv
  <1>5. \A u \in Tasks \ {t} : hit'[u] = hit[u]
    BY <1>1, <1>2 DEF Crash, TypeOK
  <1>6. Role(p)' /\ UnknownCopy(p)'
    BY <1>3 DEF Role, UnknownCopy, Billing, Saved
  <1>7. CASE p \in Pollers
    <2>1. UnknownBooks(t)'
      <3>1. pc[p] \notin Billing => (Unbilled(t)' => Unbilled(t))
        BY <1>4 DEF Unbilled, OwnJob, T
      <3>2. Saved(t)' => Saved(t)
        BY <1>3 DEF Saved
      <3>3. CASE pc[p] \notin Billing
        BY <1>3, <1>4, <3>1, <3>2, <3>3 DEF UnknownBooks
      <3>4. CASE pc[p] = "funding"
        BY <1>1, <1>2, <1>3, <1>4, <3>2, <3>4 DEF UnknownBooks, UnknownCopy
      <3>5. CASE pc[p] = "stamp"
        BY <1>1, <1>2, <1>3, <1>4, <3>5 DEF UnknownBooks, UnknownCopy, Role, Billing
      <3>6. CASE pc[p] = "token"
        <4>1. ~ Saved(t)'
          BY <1>3, <3>6, CutOffs DEF Saved
        <4> QED BY <1>3, <1>4, <4>1 DEF UnknownBooks
      <3>7. CASE pc[p] = "save"
        <4>1. ~ Saved(t)'
          BY <1>3, <3>7, CutOffs DEF Saved
        <4> QED BY <1>3, <1>4, <4>1 DEF UnknownBooks
      <3>8. CASE pc[p] = "finalize"
        <4>1. ~ Saved(t)'
          BY <1>3, <3>8, CutOffs DEF Saved
        <4> QED BY <1>3, <1>4, <4>1 DEF UnknownBooks
      <3> QED BY <3>3, <3>4, <3>5, <3>6, <3>7, <3>8 DEF Billing
    <2>2. OwnBooks(t)
      BY <1>3, <1>5 DEF OwnBooks
    <2> QED BY <1>2, <1>4, <1>6, <1>7, <2>1, <2>2, PollerStepKeeps
  <1>8. CASE p \in Fetchers
    <2>1. pc[p] \notin Billing
      BY <1>1, <1>8 DEF Role, Billing
    <2>2. hit'[t] = hit[t]
      BY <1>3, <2>1, CutOffs
    <2>3. \A u \in Tasks : hit'[u] = hit[u]
      BY <1>5, <2>2
    <2> QED BY <1>3, <1>4, <1>6, <1>8, <2>1, <2>3, FetcherStepKeeps DEF Billing
  <1> QED BY <1>7, <1>8 DEF Procs

\* Submissions: nobody works on a task that has no row yet.
LEMMA UnknownSubmitKeeps ==
    ASSUME OnePoller, UnknownInv, TInv', Loaded', NEW t \in Tasks,
           SubmitStep(t) \/ UpstreamMoves(t)
    PROVE  UnknownInv'
  <1>1. TInv /\ TypeOK /\ Loaded /\ UnknownBooks(t)
    BY DEF UnknownInv, TInv
  <1>2. pc' = pc /\ job' = job
    BY DEF SubmitStep, Submit, SubmitUnconfirmed, SettleSubmit, UpstreamMoves
  <1>3. \A q \in Procs : Role(q) /\ Role(q)' /\ UnknownCopy(q) /\ T(q)' = T(q)
    BY <1>2, RoleKept DEF UnknownInv, T
  <1>4. \A u \in Tasks : Unbilled(u)' <=> Unbilled(u)
    BY <1>2 DEF Unbilled, T
  <1>5. SUFFICES /\ OwnBooks(t) /\ UnknownBooks(t)'
                 /\ \A q \in Procs : pc[q] # "idle" /\ T(q) = t => UnknownCopy(q)'
    <2> SUFFICES ASSUME OwnBooks(t), UnknownBooks(t)',
                        \A q \in Procs : pc[q] # "idle" /\ T(q) = t => UnknownCopy(q)'
                 PROVE  UnknownInv'
      OBVIOUS
    <2>1. ASSUME NEW q \in Procs PROVE UnknownCopy(q)'
      <3>1. CASE pc[q] = "idle"
        BY <1>2, <3>1 DEF UnknownCopy, Billing, Saved
      <3>2. CASE pc[q] # "idle" /\ T(q) # t
        <4>1. PICK u \in Tasks \ {t} : T(q) = u
          BY <1>1, <3>2, AtWork
        <4>2. /\ row'[u] = row[u] /\ paid'[u] = paid[u] /\ moves'[u] = moves[u]
              /\ hit'[u] = hit[u] /\ hold'[u] = hold[u]
          BY DEF OwnBooks
        <4>3. pc'[q] = pc[q] /\ job'[q] = job[q] /\ T(q)' = u /\ UnknownCopy(q)
          BY <1>2, <1>3, <4>1
        <4> QED BY <4>1, <4>2, <4>3 DEF UnknownCopy, Saved
      <3> QED BY <3>1, <3>2
    <2>2. ASSUME NEW u \in Tasks PROVE UnknownBooks(u)'
      <3>1. CASE u # t
        <4>1. /\ row'[u] = row[u] /\ paid'[u] = paid[u] /\ moves'[u] = moves[u]
              /\ hit'[u] = hit[u] /\ hold'[u] = hold[u]
          BY <3>1 DEF OwnBooks
        <4>2. UnknownBooks(u) /\ (Unbilled(u)' <=> Unbilled(u))
          BY <1>4 DEF UnknownInv
        <4> QED BY <4>1, <4>2 DEF UnknownBooks, Saved
      <3> QED BY <3>1
    <2> QED BY <1>3, <2>1, <2>2 DEF UnknownInv
  <1>6. CASE \E pre \in Amounts : SubmitUnconfirmed(t, pre) \/ \E q \in Amounts : Submit(t, pre, q)
    <2>1. PICK pre \in Amounts : SubmitUnconfirmed(t, pre) \/ \E q \in Amounts : Submit(t, pre, q)
      BY <1>6
    <2>2. row[t].status = "NONE" /\ moves[t] = 0 /\ hold[t] = 0
      BY <1>1, <2>1 DEF SubmitUnconfirmed, Submit, UnknownBooks, Saved
    <2>3. \A q \in Procs : pc[q] # "idle" => T(q) # t
      BY <1>1, <2>2 DEF Loaded
    <2>4. /\ moves' = moves /\ hit' = hit /\ paid' = [paid EXCEPT ![t] = pre]
          /\ \A u \in Tasks \ {t} : hold'[u] = hold[u]
      BY <1>1, <2>1 DEF SubmitUnconfirmed, Submit, Works, TypeOK
    <2>5. \E r : /\ row' = [row EXCEPT ![t] = r]
                 /\ \/ r.status \in {"QUEUED"} \cup Terminal
                    \/ r.status = "UNCONFIRMED" /\ r.quota = pre /\ hold' = hold
      <3>1. CASE SubmitUnconfirmed(t, pre)
        <4> DEFINE r == [NoRow EXCEPT !.status = "UNCONFIRMED", !.quota = pre]
        <4>1. r.status = "UNCONFIRMED" /\ r.quota = pre /\ row' = [row EXCEPT ![t] = r]
          BY <3>1 DEF SubmitUnconfirmed, Write, NoRow
        <4> HIDE DEF r
        <4> QED BY <3>1, <4>1 DEF SubmitUnconfirmed
      <3>2. CASE \E q \in Amounts : Submit(t, pre, q)
        <4>1. PICK q \in Amounts : Submit(t, pre, q)
          BY <3>2
        <4>2. PICK status \in {"QUEUED"} \cup Terminal :
                Write(t, [NoRow EXCEPT !.status = status, !.done = status \in Terminal,
                                       !.quota = q], "submit")
          BY <4>1 DEF Submit
        <4> DEFINE r == [NoRow EXCEPT !.status = status, !.done = status \in Terminal,
                                      !.quota = q]
        <4>3. r.status = status /\ row' = [row EXCEPT ![t] = r]
          BY <4>2 DEF Write, NoRow
        <4> HIDE DEF r
        <4> QED BY <4>3
      <3> QED BY <2>1, <3>1, <3>2
    <2>6. OwnBooks(t) /\ paid'[t] = pre
      BY <1>1, <2>4, <2>5 DEF OwnBooks, TypeOK
    <2>7. \/ row'[t].status \in {"QUEUED"} \cup Terminal
          \/ row'[t].status = "UNCONFIRMED" /\ row'[t].quota = pre /\ hold'[t] = 0
      BY <1>1, <2>2, <2>5 DEF TypeOK
    <2>8. UnknownBooks(t)'
      BY <2>2, <2>4, <2>6, <2>7 DEF UnknownBooks, Terminal, Saved
    <2> QED BY <2>3, <2>6, <2>8
  <1>7. CASE SettleSubmit(t)
    <2>1. /\ row' = row /\ moves' = moves /\ hold[t] > 0
          /\ \A u \in Tasks \ {t} : hold'[u] = hold[u] /\ paid'[u] = paid[u]
      BY <1>1, <1>7 DEF SettleSubmit, RowsSame, TypeOK
    <2>2. \A u \in Tasks \ {t} : hit'[u] = hit[u]
      BY <1>1, <1>7 DEF SettleSubmit, Works, Fails, TypeOK
    <2>3. hold[t] # 0 /\ row[t].status \notin {"NONE", "UNCONFIRMED"}
      BY <1>1, <2>1 DEF UnknownBooks, Saved
    <2>4. OwnBooks(t) /\ UnknownBooks(t)'
      BY <2>1, <2>2, <2>3 DEF OwnBooks, UnknownBooks, Saved
    <2>5. ASSUME NEW q \in Procs, pc[q] # "idle", T(q) = t PROVE UnknownCopy(q)'
      <3>1. UnknownCopy(q) /\ pc'[q] = pc[q] /\ job'[q] = job[q] /\ T(q)' = t
        BY <1>2, <1>3, <2>5
      <3> QED BY <2>1, <2>3, <2>5, <3>1 DEF UnknownCopy, Saved
    <2> QED BY <2>4, <2>5
  <1>8. CASE UpstreamMoves(t)
    <2>1. row' = row /\ paid' = paid /\ moves' = moves /\ hit' = hit /\ hold' = hold
      BY <1>8 DEF UpstreamMoves, RowsSame, AccountsSame, Works
    <2>2. OwnBooks(t) /\ UnknownBooks(t)'
      BY <1>1, <1>4, <2>1 DEF OwnBooks, UnknownBooks, Saved
    <2>3. \A q \in Procs : UnknownCopy(q)'
      BY <1>2, <1>3, <2>1 DEF UnknownCopy, Saved
    <2> QED BY <2>2, <2>3
  <1> QED BY <1>6, <1>7, <1>8 DEF SubmitStep

LEMMA UnknownInit == Init => UnknownInv
  <1> SUFFICES ASSUME Init PROVE UnknownInv
    OBVIOUS
  <1>1. \A p \in Procs : pc[p] = "idle"
    BY DEF Init
  <1>2. \A t \in Tasks : row[t].status = "NONE" /\ moves[t] = 0 /\ hold[t] = 0
    BY DEF Init, NoRow
  <1>3. TInv /\ Loaded
    BY <1>1, InitTyped DEF Loaded
  <1> QED BY <1>1, <1>2, <1>3 DEF UnknownInv, Role, UnknownCopy, UnknownBooks, Billing, Saved

LEMMA UnknownNext == OnePoller /\ TokenInv /\ UnknownInv /\ [Next]_vars => UnknownInv'
  <1> SUFFICES ASSUME OnePoller, TokenInv, UnknownInv, [Next]_vars PROVE UnknownInv'
    OBVIOUS
  <1>1. TInv' /\ Loaded'
    BY TokenNext DEF TokenInv
  <1>2. CASE UNCHANGED vars
    <2>1. \A p \in Procs : Role(p)' /\ UnknownCopy(p)'
      BY <1>2 DEF vars, UnknownInv, Role, UnknownCopy, T, Saved
    <2>2. \A t \in Tasks : UnknownBooks(t)'
      BY <1>2 DEF vars, UnknownInv, UnknownBooks, Unbilled, T, Saved
    <2> QED BY <1>1, <2>1, <2>2 DEF UnknownInv
  <1>3. CASE Idle
    BY <1>2, <1>3 DEF Idle
  <1>4. CASE \E t \in Tasks : SubmitStep(t) \/ UpstreamMoves(t)
    BY <1>1, <1>4, UnknownSubmitKeeps
  <1>5. CASE \E p \in Pollers, t \in Tasks : PollLoad(p, t) \/ SweepLoad(p, t) \/ ResolveLoad(p, t)
    BY <1>1, <1>5, UnknownLoadKeeps
  <1>6. CASE \E p \in Fetchers, t \in Tasks : FetchLoad(p, t)
    BY <1>1, <1>6, FetchLoadKeeps
  <1>7. ASSUME NEW p \in Procs, PollStep(p) \/ Crash(p) PROVE UnknownInv'
    BY <1>1, <1>7, UnknownAnswerKeeps, UnknownWriteRowKeeps, UnknownSavesKeep,
       UnknownBillingKeeps, UnknownCrashKeeps DEF PollStep
  <1> QED BY <1>2, <1>3, <1>4, <1>5, <1>6, <1>7 DEF Next

\* While its outcome is unknown a submission keeps its hold: with one polling process,
\* however many queries the user makes beside it, nothing is settled or refunded before
\* the row has left UNCONFIRMED, unless the resolution could not save what it had come to.
THEOREM UnconfirmedHoldKeptHolds ==
    ASSUME OnePoller PROVE Spec => []UnconfirmedHoldKept
  <1>1. UnknownInv => UnconfirmedHoldKept
    BY DEF UnknownInv, UnknownBooks, UnconfirmedHoldKept, Quiet, Uncut, Unbilled, Saved
  <1>2. TokenInv /\ UnknownInv /\ [Next]_vars => UnknownInv'
    BY UnknownNext
  <1> QED BY <1>1, <1>2, UnknownInit, TokenBooks, PTL DEF Spec
=============================================================================
