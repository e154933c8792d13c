# skip-locked in TLA+

Specifications, model-checking runs and machine-checked proofs for the crate
`skip-locked`: a job queue in one PostgreSQL table, claimed with
`FOR NO KEY UPDATE SKIP LOCKED`. Paths below are relative to the repository
(`src/claim.rs` is in `src/src/` of this tree).

## The system

| Part | Code | State | Operations |
| --- | --- | --- | --- |
| Claiming | `src/claim.rs` | `jobs.state, run_at, locked_at, locked_by, attempts`, row locks | `claim_batch`, `fair_claim` |
| Lease | `src/lease.rs` | `locked_at` against `now()` | `heartbeat`, `reap` |
| Retry | `src/retry.rs` | `attempts`, `run_at`, table `jobs_dead` | `classify`, `requeue`, `dead_letter` |
| Enqueue and completion | `src/lib.rs` | a row of `jobs`, NOTIFY `jobs_ready` | `enqueue`, `enqueue_at`, `notify_ready`, `enqueue_pool`, `mark_done` |
| Worker loop | `src/worker.rs`, `examples/worker.rs` | position in the loop, semaphore, batch, claim in flight, token, listener | `run_worker` |
| Pool | `src/pool.rs` | eight connections, a 5 s acquire timeout, a statement cache or none | `connect`, `connect_pgbouncer` |
| PgBouncer demo | `examples/demo_pgbouncer.rs` | statements prepared on backends, sqlx's names for them | two phases of probes |
| Schema | `migrations/0001_jobs.sql` | `jobs`, `jobs_dead`, `processed_events` | |
| Idempotent handler | `examples/demo_idempotency.rs` | `processed_events`, `notifications` | `process` |
| Producer | `examples/producer.rs` | a transaction with several jobs and a NOTIFY | `main` |
| Claiming programs | `examples/bench_throughput.rs`, `bench_claim_latency.rs`, `demo_skip_locked.rs`, `demo_fairness.rs` | tasks, joins, counts, assertions | `main` and its tasks |
| Retention | `migrations/0002_partitioning.sql` | | illustrative DDL |

Everything meets in the table `jobs`. Producers insert rows in transactions of
their own. Workers claim rows, run handlers, and write the outcome with one
statement per outcome, each its own transaction: `mark_done`, `requeue`, or
`dead_letter` (`requeue` and then `dead_letter` when the attempts are used up).
A reaper, run by anyone, gives rows with an old `locked_at` back. The only
message between processes is NOTIFY, which may be lost. `run_worker` itself
calls `claim_batch` and nothing else of the crate: heartbeats, completions and
the reaper are its callers' business.

What is hard about it:

- a handler that is slow looks dead. The reaper gives its row back, another
  worker claims it, and the first handler's `mark_done`, `requeue` or
  `dead_letter`, which are by id alone, arrive late and hit a row that is
  running elsewhere, ready, done or gone;
- the claim does not check `max_attempts`; that no exhausted row is ever
  claimable is the joint work of `requeue` and `reap`;
- a job is delivered again although its first delivery still runs, or is gone and
  has left a transaction at the server, and all of them share few connections;
- claims overlap, each with an old snapshot, and the rows change under them;
- `run_worker` can be cancelled at every await: with a claim at the server, in
  the middle of a batch, while it waits for permits;
- workers crash, notifications are lost, claims fail after they were executed,
  handlers panic or hang, and the grace of the drain runs out.

What makes each part correct:

- claiming: a claim takes rows that are ready, due and no one's in the state it
  commits to; two claims are disjoint; a fair claim keeps the cap and serves
  every carrier in its window; every due row is claimed in the end;
- lease: with heartbeats in time, no job has two handlers and every handler owns
  its row; the reaper takes no row before its lease is over; a dead worker's job
  comes back;
- retry: the attempts budget holds, a job is never lost or copied, and every job
  ends;
- producer and handler: an event has its effect only after a transaction that
  enqueued a job about it has committed, is in the ledger exactly if it had it, and
  has it once;
- pool: the bound on connections makes no one wait for ever; behind a bouncer, a
  connection whose statements have no names executes only what it prepared itself;
- worker loop: no permit is lost, no delivered NOTIFY is slept on but over a row that
  another claim had locked, at most one batch is started after the cancellation, no
  claimed job is dropped but where the code lets go of it, every due job is claimed
  without NOTIFY, the drain ends and means what it says.

PROJECT.json lists the hazards line by line with the properties for each.

## The modules

### JobQueue

The tables, every statement that writes them, and the handlers that are running.

- `jobs`: the table, one record per id; `"absent"` stands for no row. Time is
  relative: `wait` is `run_at - now()` (0 once due), `age` is
  `now() - locked_at`, which stops counting one tick after the lease. So the
  clock needs no bound, and `Tick` (the passing of `now()`) ages every row.
- `jobs_dead`: how many rows the dead-letter table has for an id. The table has
  no key, so the count is not limited to one by construction.
- `exec`: the claimed jobs whose handler has not ended, each with the worker and
  the attempt number that the claim returned.

The actions have the names of the functions. A statement is one action, as it is
one transaction, and under READ COMMITTED a statement that waited for a row lock
evaluates its WHERE clause on the newest version of the row; everything between
two statements interleaves. `claim_batch` takes any set of due rows up to the
limit: which ones depends on the locks of other claims, and SkipLocked has the
detail. The statements are by id alone wherever the code's are. `Abandon` is a
handler that ends without an outcome (a panic, or an error of `mark_done` that
`examples/worker.rs` logs), and `Crash` the death of a process; `worker_id`s are
reused, as `worker-{pid}` may be. `heartbeat` beats any set of the worker's jobs,
and one that updates no row ends those handlers, as `src/lease.rs:19-20` asks of
its callers. `Lease` is in ticks and `reap` rounds it down to seconds, as
`as_secs()` does.

`HeartbeatEvery` is the assumption about handlers: `Tick` waits for a live
handler, owner of its row, that has not beaten for so long. A value above
`Lease + 1` never holds the clock up: handlers that never heartbeat, as those of
`examples/worker.rs`. It is an assumption on the workers, not of the code, so
both cases are checked.

### ExclusiveQueue

The abstract queue: each job is unborn, ready, running, done or dead, is handled
by at most one worker, is started at most `MaxAttempts` times, and is never undone.
No rows, leases, clocks or statements. `JobQueue` maps to it by
`Status`, `Handlers` and `Starts`.

### AtomicClaims, SkipLocked

`AtomicClaims` is what the claim statements are to everyone else: a claim is one
step, of at most its limit of due rows and of each carrier at most the cap. No
snapshots, visits or row locks, and no claim overlaps another. Which rows of a
carrier are taken depends on the rows that were locked, and so is `FairShares` of
SkipLocked, where the window is.

`SkipLocked` is `claim_batch` and `fair_claim` row lock by row lock: `Begin` takes the snapshot
and `now()`; `LockRow` visits one row in the order of the snapshot, skips it if
another claim has it, and looks at its newest version (`Takes`); `Commit` numbers
the locked rows within their carrier, takes those within the cap and releases
everything. `claim_batch(n)` is the same with window and cap `n`. The other
statements change rows under the claims: `End` and `GiveBack` meet ready, running
and done rows, since late ones do. Row locks of those statements are not modelled
apart from their waiting for a claim's. Rows that JobQueue bounds by attempts are
bounded here by `MaxReturns`.

`ClaimsAreAtomic` says that a commit takes rows that satisfy the WHERE clause in
the very state it commits to, which is what `claim_batch` in JobQueue assumes. `IsAtomic` is the whole of that
assumption: with `tx` and `aborts` forgotten, SkipLocked implements `AtomicClaims`,
where a commit is the claim, and its visits and roll backs are nothing at all. It implies
`ClaimsAreAtomic`, which has a theorem but is not checked by a run of its own.

### Worker

One call of `run_worker`. `pc` is where it is: `"starting"` and `"listening"` before
the loop; `"select"`, about to poll the outer select; `"claim"`, between its two
arms; `"wait"` and `"recv"`, the same of the inner select; a permit (`"dispatch"`);
the drain. The selects are biased, and one poll of them is several steps, one for
each arm: the token is an atomic that another thread may set after its arm was
polled and before the claim's is, and then the batch is taken in. `stmt` is the
claim at the server. `place` says where each job is, in the table or in the worker;
`"stranded"` is a row that is running with no one to handle it. `CommitClaim` is the
server's execution of the claim, which happens also if nobody waits for the answer
any more. `EndHandler` ends a handler in any way; `Exit` is the end of the process,
where the runtime drops its tasks. Once the call has returned only these and a claim
still at the server go on; what producers and other workers do then is no matter to it.

Other workers claim as well. `OtherLocks` is a claim of theirs that has locked a row,
`OtherClaims` its commit, `OtherReleases` its abort, or the commit of a fair claim that
had the row in its window and not within the cap. The claim of this worker takes the
first `Batch` rows by `run_at` that are not locked (`IsClaim`; `ahead` is the order), so
that it may come back empty though rows are due. The rows it skipped then are in
`passed`.

A producer is `enqueue_pool`: `Enqueue` inserts the row and calls `notify_ready` in
a transaction (`"inserted"`), and `CommitEnqueue` makes the row visible and only
then delivers the NOTIFY, if the listener exists and hears it; a rollback does
neither. `unheard` has the claimable jobs whose NOTIFY nobody will deliver.
`NoSleepOnWork` says that these and the rows in `passed` are the only ones the loop
may sleep on: LISTEN precedes the first claim, and what is delivered while a claim is
answered is received before the sleep.

### ExactlyOnce, IdempotentHandler, Pipeline

`IdempotentHandler` is `process`, await by await: `Begin` takes a connection,
`InsertKey` is `INSERT .. ON CONFLICT DO NOTHING` with its `rows_affected()`, which
waits for another transaction that has inserted the same key and is not over;
then the rollback of a duplicate, or the effect and the commit. `open` and `writes` are the
server's side: `Fail` may lose the connection, and then the transaction stays
open, with its key, until the server aborts it (`AbortOrphan`) or executes the
COMMIT it had been sent (`CommitOrphan`, `"lost"` in `writes`). So a client that
was told of an error may have committed, and its successor has to wait to know.

`Pipeline` puts a producer and a queue around it. The producer's transaction
enqueues any number of jobs, which no one sees before it commits, and commits or
rolls back as one. (What caused them is the caller's to insert; no code of the
repository does.) The queue is what JobQueue shows: a claim counts the attempt
and delivers, the reaper may take any running row for abandoned (so the clock is
left out), and outcomes are recorded by id, late or not. A run is a job on its
n-th attempt. An error is classified first (`Classify`, `classify` of `retry.rs`):
transient, and `requeue` is tried, or permanent, and `dead_letter` follows at once.
Which class an error has is the handler's to say, so that it may be either. The
statements that record an outcome use the pool as well.

`ExactlyOnce` is what both promise together: an event is enqueued by a commit, and
has its effect afterwards, once.

### PgBouncer

Clients of four sorts: the demo's two pools (cached, and `connect_pgbouncer` with
`persistent(false)`), another program's pool of `connect`, and a
`connect_pgbouncer` pool used by the crate's own queries, which nowhere say
`persistent(false)`. A query is linked to a backend, finds its statement in its
cache or prepares one (`sqlx_s_N`, or the unnamed one), and executes whatever the
backend has under that name. sqlx and PgBouncer are external; their part is what
`src/pool.rs:6-32` and the demo's comments say of them, in session and in
transaction mode. `EndProbe` and `EndLoop` are the demo's `main`. A statement
remembers who prepared it, which no real component knows and only the
properties read. The crate's own queries are where `statement_cache_capacity(0)`
alone is not enough: with no cache they are still prepared under names that count on,
and their connections may meet "already exists", as the demo's header says.
`OwnStatement` leaves these out in transaction mode.

### Fleet

The programs that drive claims with tasks of their own, on the claims of
SkipLocked, row lock by row lock. `main` seeds, spawns, joins in the order of the
handles, returns at the first panic, and reports or asserts. A task of
`bench_throughput` stops at its first empty batch; with SKIP LOCKED that batch may be
empty because others hold the last rows, and `ReportIsComplete` shows that the
count is the whole backlog nevertheless: whoever holds them counts them.
`BatchesAreDisjoint` says of every program what `demo_skip_locked` asserts of its
two batches: no job is handed out twice within a round. `Panic`
is the failure of a statement, before or after its commit.

## The runs

All runs are small enough to be exhaustive. Jobs, rows and workers are model
values, with symmetry in `claims` alone, which checks no liveness.

| Run | Bounds | Shows |
| --- | --- | --- |
| `settles` | JobQueue: 2 jobs, 2 workers of which one serves both kinds, batch 2, 3 attempts, lease 1, backoff up to 1, no heartbeats, fairness | `TypeOK`, `AttemptBudget`, `LockedWhileRunning`, `ClaimTokens`, `JobConserved`, `EventuallySettled` |
| `beats` | 2 jobs, 2 workers that serve both, batch 2, 3 attempts, enqueued with a delay or without, backoff up to 3, lease 2 and a beat at least every 2 ticks | `NoDoubleExecution`, `HandlersOwnTheirRows`, `IsExclusiveQueue` |
| `claims` | SkipLocked: 3 rows of 2 carriers, a fair claim (batch 1, window 4, cap 1) and a `claim_batch` of 2; 2 give-backs, clock 0..1 | `TypeOK`, `FairShares`, `IsAtomic` |
| `progress` | two fair claims, 1 give-back, 1 abort, fairness | `DueRowsClaimed` |
| `worker` | Worker: 3 jobs, batch 2, 1 permit, fairness | `TypeOK`, `PermitsConserved`, `NoSleepOnWork`, `OneBatchAfterCancel`, `DrainedMeansIdle`, `StrandedOnlyByHandler`, `CancelReturnsAnyway`; if handlers end, `BatchIsHandled`; if the server answers as well, `CancelReturns` and `DueJobsClaimed` |
| `pipeline` | Pipeline: 2 jobs of one event, 2 attempts each, 2 connections, 1 error | `TypeOK`, `EffectIffProcessed`, `DoneMeansApplied`, `IsExactlyOnce`, `DeliveriesEnd`, `EventuallyApplied` |
| `bouncer` | PgBouncer: 2 backends, one connection of each sort, 2 probes, 2 texts, 1 query of each other connection, 1 close, both modes | `TypeOK`, `OwnStatement`, `ErrorsComeOfMoving`, `DemoPasses` |
| `programs` | Fleet: 4 rows, 2 tasks with batches of 2, one that claims single rows, a fair claim with cap 1, 1 failing statement | `FleetTypeOK`, `ReportIsComplete`, `BatchesAreDisjoint`, `NoErrorUnreported`, `MainReturns` |

Why these bounds are enough to meet the cases: two jobs and two workers give a
claim that mixes a fresh and a re-claimed job, and a handler that is preempted;
delays and longer backoffs add waiting, which `beats` has and `settles` can do without.
Three attempts are needed for a late statement of each kind to meet each state of
the row: with two, whenever a handler is late its job is on the last attempt, and a
late `requeue` updates nothing; with three it takes a running row from its
handler, or a done one back to ready, and there is still a last attempt after it. In
SkipLocked two rows of a carrier
are over the cap and the third belongs to the other carrier; each claim meets rows
locked, taken, finished and given back by the other. In Worker a batch is larger
than the semaphore, so the loop waits for a permit with a job in hand, and a third
job is left for the next batch, or for the batch of a claim that is executed after it
was dropped, and any of them may be locked by another claim. In Pipeline four deliveries of one event compete
for two connections: one can hold the key while another holds the last connection
and waits for it, with the outcome of a third waiting behind; one error is one
fewer than the attempts, which is what `EventuallyApplied` needs, besides that it is
not called permanent. In PgBouncer
two backends are what it takes to be moved, and one query of a stranger what it
takes to find a name taken; each of the four ways a query can end badly or by
luck is reached. In Fleet the backlog is two batches for two tasks, so that
a task can find the last rows locked, and in `demo_fairness` a burst of three
stands before the row of the other carrier.

Four runs end in a violation, and are the findings:

| Run | Property | What the code does |
| --- | --- | --- |
| `done_undone` | `DoneIsNotUndone` | a late `requeue` (`src/retry.rs:65`, no guard on state or owner) makes a done job ready again: 3 attempts, the first handler still has one left when the second has completed the job |
| `last_attempt` | `DeadWorkerRecovered` | the row of a worker that died on the last attempt is never reaped nor dead-lettered (`src/lease.rs:67`) |
| `short_lease` | `ReapsOnlyExpired` | `lease.as_secs()` drops the fraction of a second (`src/lease.rs:60`) |
| `unbounded_drain` | `DrainIsBounded` | the wait for a permit ignores the token (`src/worker.rs:106`) |

More that the models make plain, without a run of their own. A claim that is
dropped by the cancellation is executed by the server all the same
(`src/worker.rs:89-92`): its rows are running with no one to handle them until
their lease is over, as `StrandedOnlyByHandler` allows. A token that fires after its
arm was polled lets one more batch in, the whole of which is dispatched
(`OneBatchAfterCancel`), although the comment at `src/worker.rs:86-87` speaks of the
instant the token fires. A claim that comes back empty because another claim holds the
locks of the due rows makes the loop sleep, its NOTIFYs spent; if that claim keeps none of
them, they wait for the poll. A worker cancelled while `connect_with` or LISTEN hangs
(`src/worker.rs:83-84`) does not return. One error of a
claim, a pool timeout included, makes `run_worker` return without a cancellation
and without a drain (`src/worker.rs:93`, `ClaimFails`). And a fair claim keeps the
cap whether or not anyone else is in the window (`src/claim.rs:112`, `Kept`): a
tenant alone in the queue gets `per_tenant_cap` rows of a batch, so "spare
capacity" (`src/claim.rs:71`) is used by the next claim at the earliest.

## Fairness

- `JobQueue!FairSpec`: time passes; someone keeps calling `reap`; a job that stays
  due is claimed, since workers poll and claim in the order of `run_at`; every
  handler ends, in one way or another. Nothing makes a producer enqueue or a
  worker crash, nor a handler succeed. The reaper and the polling workers are
  not started by the library, but nothing in the queue makes sense without them.
- `SkipLocked!FairSpec`: a worker that polls starts claims again and again, and a
  claim takes its next step, because with SKIP LOCKED it waits for no one.
- `Worker!LoopSpec`: what the runtime gives: a task that can take a step is
  polled, and timers fire. `Poll` has strong fairness, for between two polls of the inner
  select it is not enabled, but a sleep that is over stays ready at each of them.
  Nothing is assumed of the server: that it answers the connect, the LISTEN
  and the claims (`ServerFairness`) and that handlers end (`HandlerFairness`) are
  hypotheses inside the properties that need them. `CancelReturnsAnyway` needs
  neither, and for that leaves out the awaits before the loop.
  `DueJobsClaimed` also supposes that the row is not locked for ever or again
  and again by other claims, which `DueRowsClaimed` of SkipLocked is about.
- `Pipeline!FairSpec`: workers claim, the reaper comes round, the runtime polls the
  handlers, which go on when there is a connection for them, and the server ends
  transactions of clients that are gone. No error has to happen, the acquire timeout
  included, so that no circle of waiting is broken by it.
- `PgBouncer!FairSpec`: queries end and `main` goes on when it can. A probe waits for
  a backend that others take again and again, so its start needs strong fairness,
  which is the bouncer's first-come queue. In session mode a client keeps its backend
  and the probe may wait for ever; `DemoPasses` is about transaction mode.
- `Fleet!FairFleetSpec`: statements are answered and tasks are polled. That
  `main` returns is not assumed of any loop.

## What is proved

Every invariant, action property and refinement that a passing run checks is the
statement of a theorem, for every value of the constants that satisfies the named
assumption of its module:

- `JobQueueProofs`: any jobs, workers, batch, attempts, lease, clock resolution and
  backoff cap (`QueueAssumption`);
- `SkipLockedProofs`: any rows, carriers and workers, any limits and caps
  (`ClaimAssumption`);
- `PipelineProofs`: any jobs, events, attempts, connections and errors;
- `WorkerProofs`: any jobs, batch and permits (`WorkerAssumption`), wherever the
  token fires;
- `PgBouncerProofs`: any backends, connections, texts and probes, in both modes
  (`BouncerAssumption`);
- `FleetProofs`: any tasks, batches and failures, and any finite backlog
  (`FleetAssumption`).

| Theorem | Property | Assumes |
| --- | --- | --- |
| `TypeCorrect` | `TypeOK` | |
| `BudgetKept` | `AttemptBudget` | |
| `OwnerWhileRunning` | `LockedWhileRunning` | |
| `Conservation` | `JobConserved` | |
| `AttemptsAreTokens` | `ClaimTokens` | |
| `ExclusiveHandling` | `NoDoubleExecution` | `BeatsInTime` |
| `Ownership` | `HandlersOwnTheirRows` | `BeatsInTime` |
| `Refinement` | `IsExclusiveQueue` | `BeatsInTime` |
| `ClaimTypeCorrect` | SkipLocked's `TypeOK` | |
| `AtomicClaims` | `ClaimsAreAtomic` | |
| `SharesAreFair` | `FairShares` | |
| `ImplementsAtomicClaims` | `IsAtomic` | |
| `PipelineTypeCorrect` | Pipeline's `TypeOK` | |
| `EffectWithLedger` | `EffectIffProcessed` | |
| `DoneIsApplied` | `DoneMeansApplied` | |
| `ExactlyOnceProcessing` | `IsExactlyOnce` | |
| `WorkerTyped` | Worker's `TypeOK` | |
| `PermitsAreConserved` | `PermitsConserved` | |
| `NoWakeUpLost` | `NoSleepOnWork` | |
| `DrainLeavesNothing` | `DrainedMeansIdle` | |
| `LateWorkIsOneBatch` | `OneBatchAfterCancel` | |
| `RowsAreNotLost` | `StrandedOnlyByHandler` | |
| `BouncerTyped` | PgBouncer's `TypeOK` | |
| `StatementsAreOwn` | `OwnStatement` | |
| `ErrorsAreOfMoving` | `ErrorsComeOfMoving` | |
| `FleetTyped` | `FleetTypeOK` | |
| `ErrorsAreReported` | `NoErrorUnreported` | |
| `ReportsAreComplete` | `ReportIsComplete` | `HasTasks` |
| `NoJobHandedOutTwice` | `BatchesAreDisjoint` | |
| `DemoIsNotRefuted` | `main` never ends in the failed assertion | |

`BeatsInTime` is `HeartbeatEvery <= ReapAfter`: a live handler beats at least once
in the whole seconds of the lease that `reap` is given. It is a hypothesis of
the theorems that name it; without it they are false, as `src/lease.rs:40-46`
says. `HasTasks` is that every round has a task: with `BENCH_WORKERS=0` a program seeds
its backlog, joins no one and reports 0 jobs. (A batch of 0 would do the same; it is
excluded by `ClaimAssumption`.)

The argument for JobQueue has three inductive invariants.

- `TablesOK`: types, budget and ownership together. The types alone are not
  inductive: a claim raises `attempts` without looking at `max_attempts`, so
  `attempts <= max_attempts` needs that no ready row is exhausted, which needs that
  `requeue` and `reap` are guarded whatever row they meet.
- `TokenInv` adds `ClaimTokens` and that a handler without a row has its job in
  `jobs_dead`, hence never enqueued again with attempts that start over. A claim
  raises `attempts` above those of every handler left from before, and no other
  statement changes them.
- `LeaseInv` adds `HandlersOwnTheirRows` and `NoDoubleExecution`. The latter alone
  is not inductive: only ownership says that a ready row has no handler left. `Tick`
  keeps the age of an owned row within `HeartbeatEvery`, so `reap` finds none
  expired, and a late statement cannot exist, for there is no preempted handler.

From `LeaseInv` the refinement is shown action by action: `mark_done` is `Finish`,
`requeue` is `GiveBack` or, on the last attempt, nothing; `dead_letter` is `Bury`;
`Abandon` and `Crash` are `Lose`; `reap` is `Recover`; heartbeats and ticks change
nothing.

For SkipLocked it has one, `LocksInv`: the types, disjoint windows (`DisjointWindows`),
that a row
nobody runs is no one's, and that every row a claim has locked is still claimable
at the claim's own `now()`, which is not in the future. The last part is what makes
a claim atomic. It is kept because a claim looks at the newest version of a row when
it locks it, because `mark_done`, `dead_letter`, `requeue` and `reap` wait for the
lock, and because another claim's commit writes rows of its own window only, which is
where disjointness is needed.

The shares of a fair claim need no invariant but the types, and what
`row_number()` is: of a carrier with `n` rows in the window, those within
the cap are numbered one to one from 1 to the smaller of `n` and the cap, so that their
cardinality is known, and rows over the cap are no older (`TakenAreKept`,
`CommitShares`). The refinement adds that a window has at most `LIMIT` rows
(`WindowsWithinLimit`). With that, a commit is one claim of the abstract
specification (`CommitIsClaim`): its window is due and no one's by
`LockedStayClaimable`, and what it takes of it is no more, and within the cap. All
that comes before the commit is a stutter.

For Pipeline it has one, `OnceInv`. `EffectIffProcessed` is not inductive: a COMMIT
that reaches the server late adds an effect, and what says that no one has added it
before is `KeysOK`, the unique key with its wait: of all open transactions, orphans
included, at most one has inserted a key, and only if it is not in the ledger. That in
turn needs `RunsOK` and `WritesInOrder` (what a transaction has written is known from
where its run is, and a COMMIT is sent only with key and effect) and `Delivered`
(attempts only grow, so that a run is delivered once and an orphan's is never
reused). `BurstOK` says that the jobs of the open transaction have no rows yet. `Processed`
is why a duplicate may complete a job: it was told so by the
committed ledger. The refinement then has one step of interest for each side: the commit of a
burst is `Enqueue`, and the commit of a run, by its client or as an orphan, is `Apply`.

For Worker it has one, `WorkerInv`. The types alone are not inductive: a handler that
ends gives a permit back, and only `PermitsConserved` says that there is room for
it. `NoSleepOnWork` is not either: the loop goes to sleep after an empty answer, so
that what is known of the answer while it is on its way has to be said,
`NothingMissed`: every row that was claimable when it was given had its lock with
another claim, and rows that have become claimable since have left a NOTIFY in the
listener, or are among the unheard. `ClaimInTime` is what `OneBatchAfterCancel` rests
on: a turn that has passed the token's arm has started nothing late, and the answer
it may still take in is no more than a batch. `PlacesOK` and `StatementOK` tie the
places of the jobs and the claim at the server to where the loop is; `StatementOK`
also says who no longer waits for a claim, which is what `RowsAreNotLost` asks of a
stranded row.

For PgBouncer it has one, `BouncerInv`. `OwnStatement` speaks of an execution, so the
invariant says what is under the name before it (`QueryOK`). In session mode a
backend has only statements of the connection linked to it (`SessionOK`), and a
number is not given twice (`NumbersOK`), so a cached number is that statement or
nothing else; behind a bouncer in transaction mode only the unnamed statement is
safe, as it is parsed anew on the backend that executes it. `ErrorsAreOfMoving`
follows from it step by step: a statement that sqlx believes to be prepared is prepared
somewhere (`CacheOK`), so one that is missing is elsewhere. The bound on the demo's
probes needs that `main` probes one connection at a time (`ProbesOK`).

For Fleet there are four, one on top of the other, all over `LocksInv`.

- `TasksInv`: a task has a claim exactly while it waits for one, and a task that
  panicked stays for `main` to find, which is `NoErrorUnreported`.
- `RoundInv`: the rows of a round are its backlog; batches being marked done
  are disjoint sets of claimed rows; the counter is the cardinality of claimed rows that
  are not still to be counted, of all of them while nothing has failed. So
  it stays within the backlog although a statement may fail after its commit.
- `ReadySeen`: while nothing has failed, every ready row will be seen again by a
  task that has not ended. A row is skipped because another claim has it; that
  claim has a nonempty window, which gives a nonempty batch (by the shares above,
  as caps are at least 1), and a task with a nonempty batch claims again. So when
  all tasks have ended no row is ready, and the count is the backlog.
- `GotOK`: what a task was handed in this round is claimed, and a claimed row is never
  claimable again, for the programs give nothing back.

## Only model-checked

Liveness: `EventuallySettled`, `DueRowsClaimed`, `DeliveriesEnd`, `EventuallyApplied`,
`DemoPasses`, `MainReturns`, and of Worker `CancelReturns`, `CancelReturnsAnyway`,
`DueJobsClaimed` and `BatchIsHandled`. Each rests on fairness, hence on ENABLED, which
the provers cannot handle. The four findings are counterexamples and have
nothing to prove.

## Not modelled

- `examples/bench_migration.rs`: it times a computation on JSON and never meets the
  queue. `examples/demo_reaper.rs`: three fixed sequences of `claim_batch`, `heartbeat`
  and `reap`, each a behaviour of JobQueue, with nothing else in them.
- `migrations/0002_partitioning.sql`: illustrative DDL that no code writes to.
- `kinds` are a constant (`Serves`); payloads, `last_error`, the text of errors,
  printing, timing and percentiles are left out, and so is physical tuning (fillfactor,
  autovacuum, indexes). Wrap-around of `attempts` is out of reach with `max_attempts` 20.
- The value of the backoff's cut at 3600 s and `power(2, attempts)`: JobQueue has the
  shape of the backoff with `BackoffCap`, and the proofs hold for any.
- In JobQueue a producer's transaction is its commit (Worker and Pipeline have it in
  steps). In Pipeline a statement in flight when its connection is lost is either
  executed by then or not at all: an orphan only commits or aborts. In PgBouncer the
  messages of one query (Parse, Bind, Execute) are one transaction of the bouncer. That is an
  assumption about sqlx and PgBouncer that nothing in the repository confirms (it would
  not hold of a sqlx that ends its Parse with a Sync of its own); `OwnStatement` and
  `DemoPasses` rest on it for unnamed statements, as the advice of `src/pool.rs` does.
  The opening of connections and the parsing of URLs have no model.

## Plan

Done, in this order: JobQueue with ExclusiveQueue and its proofs, Worker,
SkipLocked and its proofs, the enqueue transaction in Worker, Pipeline with
ExactlyOnce and its proofs, PgBouncer, Fleet, the proofs for Worker, PgBouncer and
Fleet, the fair shares and AtomicClaims.

Next:

1. A composition of Worker with the lease: `run_worker` beats nothing, and a batch
   larger than the permits waits with its lease running.
2. `reap` row lock by row lock, next to the claims in SkipLocked.
3. A proof that JobQueue's `claim_batch` and the `Claim` of AtomicClaims are the
   same step on the columns they share.
