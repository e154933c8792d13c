------------------------------- MODULE Fleet -------------------------------
(***************************************************************************)
(* The programs that drive the claim with tasks of their own and report    *)
(* what the tasks did: bench_throughput (two rounds, claiming a seeded     *)
(* backlog and processing it), bench_claim_latency (one worker, one job at *)
(* a time), demo_skip_locked (two claims at once) and demo_fairness (a     *)
(* claim_batch and a fair_claim of the same backlog).  Their claims are    *)
(* those of SkipLocked, row lock by row lock.                              *)
(*                                                                         *)
(* A task takes an empty batch for an empty backlog, though rows that      *)
(* others have locked look the same; it panics on any error.  main joins   *)
(* its tasks in turn and reports their count.                              *)
(***************************************************************************)
EXTENDS SkipLocked, Sequences

CONSTANTS
  Handles,   \* Handles[p][r]: the tasks of round r, in the order of the joins
  Backlog,   \* Backlog[p]: the rows program p seeds, each with its run_at
  Noisy,     \* the carrier with the burst in demo_fairness
  MaxErrors  \* bound: how many statements fail

Programs == {"bench_throughput", "bench_claim_latency", "demo_skip_locked",
             "demo_fairness"}

(* What the tasks of each round do.                                        *)
Rounds == [bench_throughput    |-> <<"claim", "process">>,
           bench_claim_latency |-> <<"latency">>,
           demo_skip_locked    |-> <<"once">>,
           demo_fairness       |-> <<"once", "once">>]

ASSUME FleetAssumption ==
  /\ \A p \in Programs : Handles[p] \in Seq(Seq(Workers))
                       /\ Len(Handles[p]) = Len(Rounds[p])
  /\ \A p \in Programs : /\ Backlog[p] \in Visits /\ IsFiniteSet(DOMAIN Backlog[p])
                         /\ \A j \in DOMAIN Backlog[p] : Backlog[p][j] <= MaxClock
  /\ MaxErrors \in Nat

VARIABLES
  program,  \* which program runs
  round,    \* the round it is in
  main,     \* where its main is
  joined,   \* how many tasks main has joined in this round
  task,     \* task[w]: where the loop of task w is
  batch,    \* batch[w]: what the last claim of w returned
  left,     \* left[w]: the part of it that is not marked done yet
  got,      \* got[w]: all that the claims of w returned in this round
  counter,  \* the count of this round
  errors    \* statements that failed so far

fleet == <<round, main, joined, task, batch, left, got, counter, errors>>
fvars == <<vars, program, fleet>>

Kind == Rounds[program][round]

Joins == Handles[program][round]

Tasks == {Joins[i] : i \in 1 .. Len(Joins)}

Seeded == DOMAIN Backlog[program]

(* The programs seed rows that are due: the clock is past every run_at.    *)
FleetInit ==
  /\ rows = [j \in Rows |-> [state |-> "absent", run_at |-> 0,
                             locked_by |-> NoWorker]]
  /\ tx = [w \in Workers |-> Idle]
  /\ clock = MaxClock /\ returns = 0 /\ aborts = 0
  /\ program \in Programs
  /\ round = 1
  /\ main = "seeding"
  /\ joined = 0
  /\ task = [w \in Workers |-> "idle"]
  /\ batch = [w \in Workers |-> {}]
  /\ left = [w \in Workers |-> {}]
  /\ got = [w \in Workers |-> {}]
  /\ counter = 0
  /\ errors = 0

-----------------------------------------------------------------------------
(* main                                                                    *)

SeededRow(j) == [state     |-> IF j \in Seeded THEN "ready" ELSE "absent",
                 run_at    |-> IF j \in Seeded THEN Backlog[program][j] ELSE 0,
                 locked_by |-> NoWorker]

(* TRUNCATE, the rows of the backlog, and a task for every handle.         *)
Seed ==
  /\ main = "seeding"
  /\ rows' = [j \in Rows |-> SeededRow(j)]
  /\ main' = "joining" /\ counter' = 0
  /\ task' = [w \in Workers |-> IF w \in Tasks THEN "looping" ELSE "idle"]
  /\ got' = [w \in Workers |-> IF w \in Tasks THEN {} ELSE got[w]]
  /\ UNCHANGED <<tx, clock, returns, aborts, program, round, joined, batch, left, errors>>

(* A statement of main itself fails: `?`.                                  *)
SeedFails ==
  /\ main = "seeding" /\ errors < MaxErrors
  /\ main' = "err" /\ errors' = errors + 1
  /\ UNCHANGED <<vars, program, round, joined, task, batch, left, got, counter>>

AllJoined == main = "joining" /\ joined = Len(Joins)

Awaited(w) == /\ main = "joining" /\ joined < Len(Joins)
              /\ Joins[joined + 1] = w

Join_IgnoresPanics(w) ==
  /\ Awaited(w) /\ task[w] \in {"ended", "panicked"}
  /\ joined' = joined + 1
  /\ UNCHANGED <<vars, program, round, main, task, batch, left, got, counter, errors>>

(* `h.await?`: the next task's end, or its panic, which main returns.      *)
Join(w) ==
  /\ Awaited(w)
  /\ \/ task[w] = "ended" /\ joined' = joined + 1 /\ UNCHANGED main
     \/ task[w] = "panicked" /\ main' = "err" /\ UNCHANGED joined
  /\ UNCHANGED <<vars, program, round, task, batch, left, got, counter, errors>>

Overlap == {j \in Rows : \E v, w \in Workers : v # w /\ j \in got[v] \cap got[w]}

Others(S) == {j \in S : Carrier[j] # Noisy}

Tally(r, S) == Cardinality(S \cap got[Handles["demo_fairness"][r][1]])

(* The assertions at the end of the demos.                                 *)
Asserts ==
  /\ program = "demo_skip_locked" => Overlap = {}
  /\ program = "demo_fairness" =>
       /\ Tally(2, Others(Rows)) > Tally(1, Others(Rows))
       /\ Tally(2, Rows \ Others(Rows)) <= Cap[Handles["demo_fairness"][2][1]]

(* Every task joined: report the count and go on, or assert.               *)
Report ==
  /\ AllJoined
  /\ IF round < Len(Rounds[program])
     THEN round' = round + 1 /\ main' = "seeding" /\ joined' = 0
     ELSE /\ main' = IF Asserts THEN "ok" ELSE "assertion failed"
          /\ UNCHANGED <<round, joined>>
  /\ UNCHANGED <<vars, program, task, batch, left, got, counter, errors>>

-----------------------------------------------------------------------------
(* A task                                                                  *)

Runs(w, at) == main = "joining" /\ task[w] = at

Goes(w, at) == task' = [task EXCEPT ![w] = at]

(* The call of claim_batch, and its locks.                                 *)
StartClaim(w) ==
  /\ Runs(w, "looping")
  /\ Begin(w)
  /\ Goes(w, "claiming")
  /\ UNCHANGED <<program, round, main, joined, batch, left, got, counter, errors>>

ScanRow(w) ==
  /\ Runs(w, "claiming")
  /\ LockRow(w)
  /\ UNCHANGED <<program, fleet>>

(* It returns.  An empty batch ends the loop; the demos claim once.        *)
TakeBatch(w) ==
  /\ Runs(w, "claiming")
  /\ Commit(w)
  /\ LET taken == Taken(w)
     IN  /\ batch' = [batch EXCEPT ![w] = taken]
         /\ left' = [left EXCEPT ![w] = taken]
         /\ got' = [got EXCEPT ![w] = @ \cup taken]
         /\ counter' = IF Kind \in {"claim", "latency"}
                       THEN counter + Cardinality(taken) ELSE counter
         /\ Goes(w, IF taken = {} \/ Kind = "once" THEN "ended"
                    ELSE IF Kind = "claim" THEN "looping" ELSE "marking")
  /\ UNCHANGED <<program, round, main, joined, errors>>

(* mark_done of the jobs of the batch in turn; then they are counted.      *)
MarkDone(w) ==
  /\ Runs(w, "marking")
  /\ \E j \in left[w] :
       /\ End(j, "done")
       /\ left' = [left EXCEPT ![w] = @ \ {j}]
       /\ IF left[w] = {j}
          THEN /\ Goes(w, "looping")
               /\ counter' = IF Kind = "process"
                             THEN counter + Cardinality(batch[w]) ELSE counter
          ELSE UNCHANGED <<task, counter>>
  /\ UNCHANGED <<program, round, main, joined, batch, got, errors>>

(* A statement of the task fails, before or after its commit.              *)
StatementFails(w) ==
  \/ /\ Runs(w, "claiming")
     /\ \/ /\ tx' = [tx EXCEPT ![w] = Idle]
           /\ UNCHANGED <<rows, clock, returns, aborts>>
        \/ Commit(w)
  \/ /\ Runs(w, "marking")
     /\ \/ \E j \in left[w] : End(j, "done")
        \/ UNCHANGED vars

Unwrapped_AsEmptyBatch == "ended"

(* `.unwrap()`                                                             *)
Unwrapped == "panicked"

Panic(w) ==
  /\ errors < MaxErrors /\ errors' = errors + 1
  /\ StatementFails(w)
  /\ Goes(w, Unwrapped)
  /\ UNCHANGED <<program, round, main, joined, batch, left, got, counter>>

TaskStep(w) == StartClaim(w) \/ ScanRow(w) \/ TakeBatch(w) \/ MarkDone(w)

FleetNext ==
  \/ Seed
  \/ SeedFails
  \/ \E w \in Workers : Join(w)
  \/ Report
  \/ \E w \in Workers : TaskStep(w)
  \/ \E w \in Workers : Panic(w)

FleetSpec == FleetInit /\ [][FleetNext]_fvars

(* Statements are answered, and the runtime polls every task.              *)
FleetFairness ==
  /\ WF_fvars(Seed)
  /\ \A w \in Workers : WF_fvars(Join(w)) /\ WF_fvars(TaskStep(w))
  /\ WF_fvars(Report)

FairFleetSpec == FleetSpec /\ FleetFairness

-----------------------------------------------------------------------------
(* Properties                                                              *)

(* The variables have their types; no round counts more than its jobs.     *)
FleetTypeOK ==
  /\ TypeOK
  /\ program \in Programs /\ round \in 1 .. Len(Rounds[program])
  /\ main \in {"seeding", "joining", "ok", "err", "assertion failed"}
  /\ joined \in 0 .. Len(Joins)
  /\ task \in [Workers -> {"idle", "looping", "claiming", "marking", "ended",
                           "panicked"}]
  /\ batch \in [Workers -> SUBSET Rows]
  /\ \A w \in Workers : left[w] \subseteq batch[w]
  /\ counter \in 0 .. Cardinality(Seeded)
  /\ errors \in 0 .. MaxErrors

(* What a round reports is the whole backlog, each job once: though every  *)
(* task stops at its first empty batch, which it may get while the last    *)
(* rows are locked by a claim that never commits, or whose answer is lost. *)
ReportIsComplete ==
  AllJoined /\ Kind # "once" =>
    /\ counter = Cardinality(Seeded)
    /\ \A j \in Seeded :
         rows[j].state = IF Kind = "claim" THEN "running" ELSE "done"

(* "SKIP LOCKED guarantees disjoint batches", of all the claims of a round *)
(* and not only of two at once: no job is handed to two tasks, not even    *)
(* one that the first has done since the second began to claim.            *)
BatchesAreDisjoint ==
  main = "joining" => \A v, w \in Tasks : v # w => got[v] \cap got[w] = {}

(* A figure is reported only if no statement behind it failed.             *)
NoErrorUnreported == main = "ok" => errors = 0

(* main returns: no task loops for ever, and no assertion fails, neither   *)
(* "SKIP LOCKED guarantees disjoint batches" nor "fair_claim must serve    *)
(* more of B+C than strict FIFO".                                          *)
MainReturns == <>(main \in {"ok", "err"})
=============================================================================
