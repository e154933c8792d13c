------------------------------ MODULE JobQueue ------------------------------
(***************************************************************************)
(* The queue of skip-locked: the tables `jobs` and `jobs_dead`, every SQL  *)
(* statement of the crate that writes them, and the workers whose claimed  *)
(* jobs are being handled.                                                 *)
(*                                                                         *)
(* Each statement is its own transaction (the crate runs it on the pool),  *)
(* and under READ COMMITTED an UPDATE or DELETE that waited for a row lock *)
(* evaluates its WHERE clause again on the newest version of the row, so a *)
(* statement is one atomic action here.  What happens between two          *)
(* statements of one handler is not: other workers, the reaper, crashes    *)
(* and the clock interleave freely there.                                  *)
(*                                                                         *)
(* Time is kept relative to now(), which makes the state space finite      *)
(* without bounding the clock:  wait is run_at - now(), and 0 once the row *)
(* is due;  age is now() - locked_at, and stops counting at Lease + 1.     *)
(***************************************************************************)
EXTENDS Integers, FiniteSets

CONSTANTS
  Jobs,           \* ids the identity column can hand out
  Workers,        \* worker_id values
  NoWorker,       \* locked_by IS NULL
  Serves,         \* Serves[w]: the jobs whose kind is in worker w's `kinds`
  Batch,          \* LIMIT of a claim
  MaxAttempts,    \* jobs.max_attempts
  TicksPerSec,    \* resolution of the model's clock
  Lease,          \* the Duration given to reap, in ticks
  BackoffCap,     \* the cap on the backoff, in seconds (3600 in the code)
  Delays,         \* run_at - now() of the jobs producers enqueue, in ticks
  HeartbeatEvery  \* a live handler beats at least this often, in ticks;
                  \* more than Lease + 1 stands for handlers that never beat

ASSUME QueueAssumption ==
  /\ NoWorker \notin Workers
  /\ Serves \in [Workers -> SUBSET Jobs]
  /\ Batch \in Nat \ {0}
  /\ MaxAttempts \in Nat \ {0}
  /\ TicksPerSec \in Nat \ {0}
  /\ Lease \in Nat
  /\ BackoffCap \in Nat
  /\ Delays \subseteq Nat
  /\ HeartbeatEvery \in Nat \ {0}

VARIABLES
  jobs,       \* the table jobs; state "absent" stands for no row with that id
  jobs_dead,  \* jobs_dead[j]: how many rows of table jobs_dead have id j
  exec        \* claimed jobs whose handler has not ended, on live workers

vars == <<jobs, jobs_dead, exec>>

Row == [state     : {"absent", "ready", "running", "done"},
        wait      : Nat,
        age       : 0 .. Lease + 1,
        locked_by : Workers \cup {NoWorker},
        attempts  : 0 .. MaxAttempts]

(* Job as the claim returned it, with who handles it.  An execution in     *)
(* phase "exhausted" has had requeue answer zero rows.                     *)
Execution == [job     : Jobs,
              worker  : Workers,
              attempt : 1 .. MaxAttempts,
              phase   : {"handling", "exhausted"}]

NoRow == [state |-> "absent", wait |-> 0, age |-> 0,
          locked_by |-> NoWorker, attempts |-> 0]

(* least(power(2, attempts), 3600) * interval '1 second', in ticks.        *)
Backoff(attempts) ==
  TicksPerSec * (IF 2^attempts \in 0 .. BackoffCap THEN 2^attempts
                                                   ELSE BackoffCap)

(* reap hands the lease to make_interval in whole seconds.                 *)
ReapAfter == TicksPerSec * (Lease \div TicksPerSec)

Init ==
  /\ jobs = [j \in Jobs |-> NoRow]
  /\ jobs_dead = [j \in Jobs |-> 0]
  /\ exec = {}

-----------------------------------------------------------------------------
(* Producers                                                               *)

(* The defaults of the jobs table, and the run_at asked for.               *)
NewRow(delay) == [state |-> "ready", wait |-> delay, age |-> 0,
                  locked_by |-> NoWorker, attempts |-> 0]

(* enqueue (delay 0) and enqueue_at, in a transaction that commits.        *)
enqueue(j, delay) ==
  /\ jobs[j].state = "absent" /\ jobs_dead[j] = 0
  /\ jobs' = [jobs EXCEPT ![j] = NewRow(delay)]
  /\ UNCHANGED <<jobs_dead, exec>>

-----------------------------------------------------------------------------
(* Workers                                                                 *)

Due_AnyState(w) == {j \in Serves[w] : jobs[j].state # "absent" /\ jobs[j].wait = 0}

Due(w) == {j \in Serves[w] : jobs[j].state = "ready" /\ jobs[j].wait = 0}

Claimed_Uncounted(row, w) ==
  [row EXCEPT !.state = "running", !.age = 0, !.locked_by = w]

(* SET state = 'running', locked_at = now(), locked_by = $1,               *)
(*     attempts = attempts + 1                                             *)
Claimed(row, w) ==
  [row EXCEPT !.state = "running", !.age = 0, !.locked_by = w,
              !.attempts = @ + 1]

(* The claim takes at most Batch due rows.  Which ones is open: SKIP       *)
(* LOCKED passes over any row another transaction has locked.              *)
claim_batch(w, claimed) ==
  /\ claimed # {} /\ claimed \subseteq Due(w)
  /\ Cardinality(claimed) <= Batch
  /\ jobs' = [j \in Jobs |->
                IF j \in claimed THEN Claimed(jobs[j], w) ELSE jobs[j]]
  /\ exec' = exec \cup {[job |-> j, worker |-> w, phase |-> "handling",
                         attempt |-> jobs[j].attempts + 1] : j \in claimed}
  /\ UNCHANGED jobs_dead

(* The rows among ids a heartbeat of w updates.                            *)
Held(w, ids) ==
  {j \in ids : jobs[j].locked_by = w /\ jobs[j].state = "running"}

(* A worker beats some of the jobs it handles.  A heartbeat that updates   *)
(* no row tells the worker it was preempted, and it aborts those handlers. *)
heartbeat(w, ids) ==
  /\ ids # {} /\ ids \subseteq {e.job : e \in {x \in exec : x.worker = w}}
  /\ jobs' = [j \in Jobs |-> IF j \in Held(w, ids)
                             THEN [jobs[j] EXCEPT !.age = 0] ELSE jobs[j]]
  /\ exec' = IF Held(w, ids) = {}
             THEN {e \in exec : ~(e.worker = w /\ e.job \in ids)}
             ELSE exec
  /\ UNCHANGED jobs_dead

(* SET state = 'done', locked_at = NULL, locked_by = NULL                  *)
Completed(row) ==
  [row EXCEPT !.state = "done", !.age = 0, !.locked_by = NoWorker]

(* The handler succeeded.  The UPDATE is by id alone.                      *)
mark_done(e) ==
  /\ e.phase = "handling"
  /\ jobs' = IF jobs[e.job].state = "absent" THEN jobs
             ELSE [jobs EXCEPT ![e.job] = Completed(@)]
  /\ exec' = exec \ {e}
  /\ UNCHANGED jobs_dead

Requeueable_Always(j) == jobs[j].state # "absent"

Unlocked_KeepsOwner(row) == [row EXCEPT !.state = "ready", !.age = 0]

(* SET state = 'ready', locked_at = NULL, locked_by = NULL                 *)
Unlocked(row) ==
  [row EXCEPT !.state = "ready", !.age = 0, !.locked_by = NoWorker]

(* The handler failed with Class::Transient: back off while attempts are   *)
(* left, otherwise learn from the zero count that the job is exhausted.    *)
Requeueable(j) == jobs[j].state # "absent" /\ jobs[j].attempts < MaxAttempts

requeue(e) ==
  /\ e.phase = "handling"
  /\ \/ /\ Requeueable(e.job)
        /\ jobs' = [jobs EXCEPT ![e.job] =
                      [Unlocked(@) EXCEPT !.wait = Backoff(jobs[e.job].attempts)]]
        /\ exec' = exec \ {e}
     \/ /\ ~Requeueable(e.job)
        /\ exec' = (exec \ {e}) \cup {[e EXCEPT !.phase = "exhausted"]}
        /\ UNCHANGED jobs
  /\ UNCHANGED jobs_dead

dead_letter_InsertsAnyway(e) ==
  /\ jobs' = [jobs EXCEPT ![e.job] = NoRow]
  /\ jobs_dead' = [jobs_dead EXCEPT ![e.job] = @ + 1]
  /\ exec' = exec \ {e}

(* The handler failed with Class::Permanent, or is exhausted: DELETE the   *)
(* row and INSERT it into jobs_dead, if there still is one.                *)
dead_letter(e) ==
  /\ \/ /\ jobs[e.job].state # "absent"
        /\ jobs' = [jobs EXCEPT ![e.job] = NoRow]
        /\ jobs_dead' = [jobs_dead EXCEPT ![e.job] = @ + 1]
     \/ /\ jobs[e.job].state = "absent"
        /\ UNCHANGED <<jobs, jobs_dead>>
  /\ exec' = exec \ {e}

(* The handler ended and no completion statement took effect: it panicked, *)
(* or mark_done returned an error and the worker logged it.                *)
Abandon(e) ==
  /\ exec' = exec \ {e}
  /\ UNCHANGED <<jobs, jobs_dead>>

(* The worker process dies, with everything it was handling.  A process    *)
(* started later may use the same worker_id.                               *)
Crash(w) ==
  /\ \E e \in exec : e.worker = w
  /\ exec' = {e \in exec : e.worker # w}
  /\ UNCHANGED <<jobs, jobs_dead>>

-----------------------------------------------------------------------------
(* The reaper and the clock                                                *)

Expired_AtLease == {j \in Jobs : /\ jobs[j].state = "running"
                                 /\ jobs[j].age >= ReapAfter
                                 /\ jobs[j].attempts < MaxAttempts}

Expired_AnyAttempts == {j \in Jobs : /\ jobs[j].state = "running"
                                     /\ jobs[j].age > ReapAfter}

reap_ForgetsAttempts ==
  /\ \E j \in Jobs : jobs[j].state = "running" /\ jobs[j].age > ReapAfter
  /\ jobs' = [j \in Jobs |->
                IF jobs[j].state = "running" /\ jobs[j].age > ReapAfter
                THEN [Unlocked(jobs[j]) EXCEPT !.attempts = 0] ELSE jobs[j]]
  /\ UNCHANGED <<jobs_dead, exec>>

Expired == {j \in Jobs : /\ jobs[j].state = "running"
                         /\ jobs[j].age > ReapAfter
                         /\ jobs[j].attempts < MaxAttempts}

reap ==
  /\ Expired # {}
  /\ jobs' = [j \in Jobs |->
                IF j \in Expired THEN Unlocked(jobs[j]) ELSE jobs[j]]
  /\ UNCHANGED <<jobs_dead, exec>>

Aged(row) ==
  [row EXCEPT !.wait = IF @ = 0 THEN 0 ELSE @ - 1,
              !.age  = IF row.locked_by = NoWorker \/ @ = Lease + 1
                       THEN @ ELSE @ + 1]

(* A tick passes only when no live handler has a heartbeat overdue.        *)
BeatDue(e) == /\ jobs[e.job].state = "running"
              /\ jobs[e.job].locked_by = e.worker
              /\ jobs[e.job].age >= HeartbeatEvery

Tick ==
  /\ \A e \in exec : ~BeatDue(e)
  /\ jobs' = [j \in Jobs |-> Aged(jobs[j])]
  /\ UNCHANGED <<jobs_dead, exec>>

-----------------------------------------------------------------------------
Settle(e) == mark_done(e) \/ requeue(e) \/ dead_letter(e) \/ Abandon(e)

Next ==
  \/ \E j \in Jobs, delay \in Delays : enqueue(j, delay)
  \/ \E w \in Workers : \E claimed \in SUBSET Jobs : claim_batch(w, claimed)
  \/ \E w \in Workers : \E ids \in SUBSET Jobs : heartbeat(w, ids)
  \/ \E e \in exec : mark_done(e)
  \/ \E e \in exec : requeue(e)
  \/ \E e \in exec : dead_letter(e)
  \/ \E e \in exec : Abandon(e)
  \/ \E w \in Workers : Crash(w)
  \/ reap
  \/ Tick

Spec == Init /\ [][Next]_vars

(* Time passes, some process keeps calling reap, a due job is claimed      *)
(* sooner or later (claims go by run_at, and every worker polls), and every *)
(* handler ends.  Nothing makes a producer enqueue, a worker crash, or a   *)
(* handler end one way rather than another.                                *)
Fairness ==
  /\ WF_vars(Tick)
  /\ WF_vars(reap)
  /\ \A j \in Jobs : WF_vars(\E w \in Workers, claimed \in SUBSET Jobs :
                             j \in claimed /\ claim_batch(w, claimed))
  /\ \A j \in Jobs, n \in 1 .. MaxAttempts :
       WF_vars(\E e \in exec : e.job = j /\ e.attempt = n /\ Settle(e))

FairSpec == Spec /\ Fairness

-----------------------------------------------------------------------------
(* Properties                                                              *)

(* The columns hold what the schema and the statements let them hold.      *)
TypeOK ==
  /\ jobs \in [Jobs -> Row]
  /\ jobs_dead \in [Jobs -> Nat]
  /\ exec \subseteq Execution

(* No job is run more than max_attempts times.  The claim never looks at   *)
(* max_attempts: it relies on requeue and reap, and on every stale use of  *)
(* them, never to leave an exhausted row claimable.                        *)
AttemptBudget ==
  \A j \in Jobs : jobs[j].state = "ready" => jobs[j].attempts < MaxAttempts

(* A row is locked exactly while it is running, whoever wrote it last.     *)
LockedWhileRunning ==
  \A j \in Jobs : jobs[j].state = "running" <=> jobs[j].locked_by # NoWorker

(* The attempt number a claim returns identifies the claim: no two         *)
(* executions share it, no execution is ahead of its row, and while the    *)
(* row is running, the execution with the row's attempt number, if there   *)
(* is one, is that of the worker in locked_by.                             *)
ClaimTokens ==
  \A e \in exec :
    /\ \A f \in exec : e.job = f.job /\ e.attempt = f.attempt => e = f
    /\ jobs[e.job].state # "absent" => e.attempt <= jobs[e.job].attempts
    /\ /\ jobs[e.job].state = "running"
       /\ jobs[e.job].attempts = e.attempt
       => jobs[e.job].locked_by = e.worker

(* A job, once enqueued, is in exactly one of the two tables, exactly      *)
(* once, whatever statements race: dead_letter may run twice for one job,  *)
(* against rows that were re-claimed, finished or already moved, and       *)
(* jobs_dead has no key that would stop a second copy.                     *)
Places(j) == (IF jobs[j].state = "absent" THEN 0 ELSE 1) + jobs_dead[j]

JobConserved == [][\A j \in Jobs : Places(j) = 1 => Places(j)' = 1]_vars

(* Two handlers never run the same job at the same time.  It holds only of *)
(* instances with HeartbeatEvery <= ReapAfter: "a heartbeat protects a     *)
(* live job from the reaper" (README).                                     *)
NoDoubleExecution == \A e, f \in exec : e.job = f.job => e = f

(* The row of a job that is being handled belongs to its handler, so a     *)
(* statement by id alone hits no one else's claim.  Holds under the same   *)
(* condition, and is what makes NoDoubleExecution inductive.               *)
Owns(e) ==
  /\ jobs[e.job].state = "running"
  /\ jobs[e.job].locked_by = e.worker
  /\ jobs[e.job].attempts = e.attempt
  /\ jobs[e.job].age <= HeartbeatEvery

HandlersOwnTheirRows == \A e \in exec : Owns(e)

(* The reaper only takes rows whose lease, as given to reap, has expired:  *)
(* "Resurrect rows whose lease has expired" (lease.rs).                    *)
ReapsOnlyExpired ==
  [][reap => \A j \in Jobs :
       jobs[j].state = "running" /\ jobs'[j].state = "ready"
       => jobs[j].age > Lease]_vars

(* A completed job is not run again: "on success the row leaves the hot    *)
(* partial index" (lib.rs), the index of the rows that are ready.          *)
DoneIsNotUndone ==
  [][\A j \in Jobs : ~(jobs[j].state = "done" /\ jobs'[j].state = "ready")]_vars

(* A running row no live worker handles any more.                          *)
Orphaned(j) == jobs[j].state = "running" /\ \A e \in exec : e.job # j

(* A job whose worker died is recovered: it becomes claimable again, or is *)
(* moved to jobs_dead (or a stale handler finishes it).                    *)
DeadWorkerRecovered ==
  \A j \in Jobs : Orphaned(j) ~> ~Orphaned(j)

(* Every enqueued job ends for good: done, dead-lettered, or orphaned on   *)
(* its last attempt, where reap no longer takes it.  In particular no      *)
(* interplay of stale requeues, reaps and claims runs a job forever.       *)
Settled(j) ==
  \/ jobs_dead[j] = 1
  \/ jobs[j].state = "done"
  \/ Orphaned(j) /\ jobs[j].attempts = MaxAttempts

EventuallySettled ==
  \A j \in Jobs : (jobs[j].state # "absent") ~> [](Settled(j))

(* Provided that live handlers heartbeat in time, the tables and their     *)
(* workers together are an exclusive queue: whatever crashes, late         *)
(* completions and reaps interleave, each job is handled by one worker at  *)
(* a time, at most MaxAttempts times, and ends once.                       *)
Status ==
  [j \in Jobs |-> IF jobs[j].state # "absent" THEN jobs[j].state
                  ELSE IF jobs_dead[j] = 0 THEN "unborn" ELSE "dead"]

Handlers == [j \in Jobs |-> {e.worker : e \in {x \in exec : x.job = j}}]

Starts ==
  [j \in Jobs |-> IF jobs[j].state = "absent" THEN 0 ELSE jobs[j].attempts]

Queue == INSTANCE ExclusiveQueue
           WITH status <- Status, handlers <- Handlers, starts <- Starts

IsExclusiveQueue == Queue!Spec
=============================================================================
