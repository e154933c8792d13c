----------------------------- MODULE FleetProofs -----------------------------
(***************************************************************************)
(* Theorems about the programs of Fleet, for any tasks, any backlog, any   *)
(* batches, and any number of statements that fail.                        *)
(***************************************************************************)
EXTENDS Fleet, SkipLockedProofs, SequenceTheorems

TaskStates == {"idle", "looping", "claiming", "marking", "ended", "panicked"}

(* The types, but for the bound of the counter.                            *)
FleetTypes ==
  /\ program \in Programs /\ round \in 1 .. Len(Rounds[program])
  /\ main \in {"seeding", "joining", "ok", "err", "assertion failed"}
  /\ joined \in 0 .. Len(Joins)
  /\ task \in [Workers -> TaskStates]
  /\ batch \in [Workers -> SUBSET Rows]
  /\ left \in [Workers -> SUBSET Rows] /\ \A w \in Workers : left[w] \subseteq batch[w]
  /\ errors \in 0 .. MaxErrors

(* A task executes a claim exactly while it waits for one, and the backlog *)
(* is due for it; between two rounds no task runs.                         *)
TasksOK ==
  /\ clock = MaxClock
  /\ \A w \in Workers :
       /\ IF task[w] = "claiming" THEN tx[w].active /\ tx[w].now = clock ELSE tx[w] = Idle
       /\ main = "joining" /\ w \notin Tasks => task[w] = "idle"
       /\ main = "seeding" => task[w] \in {"idle", "ended"}

(* What main has joined has ended, and an error has left a panicked task   *)
(* for it to find.                                                         *)
JoinsOK ==
  /\ main = "seeding" => joined = 0
  /\ main = "joining" => \A i \in 1 .. joined : task[Joins[i]] = "ended"
  /\ main \in {"seeding", "ok", "assertion failed"} => errors = 0
  /\ main = "joining" /\ errors # 0 => \E w \in Tasks : task[w] = "panicked"

TasksInv == LocksInv /\ FleetTypes /\ TasksOK /\ JoinsOK

NoPanic == \A w \in Workers : task[w] # "panicked"

Claimed == {j \in Rows : rows[j].state \in {"running", "done"}}

Marking(w) == task[w] = "marking"

(* The rows that are claimed and that the round counts later.              *)
Pending == IF Kind = "process" THEN UNION {batch[w] : w \in {v \in Workers : Marking(v)}}
                               ELSE {}

(* The rows of a round are its backlog, all due.                           *)
BacklogOK ==
  \A j \in Rows :
    /\ rows[j].state \in {"absent", "ready", "running", "done"}
    /\ rows[j].state # "absent" <=> j \in Seeded
    /\ rows[j].state = "ready" => rows[j].run_at <= clock
    /\ Kind = "claim" => rows[j].state # "done"

(* The batches being marked done are claimed rows, each in one of them;    *)
(* and a claimed row is marked done by the task that claimed it.           *)
MarkingOK ==
  /\ \A w \in Workers : Marking(w) =>
       /\ Kind \in {"process", "latency"}
       /\ batch[w] \subseteq Claimed
       /\ \A v \in Workers \ {w} : Marking(v) => batch[v] \cap batch[w] = {}
  /\ NoPanic /\ Kind \in {"process", "latency"} =>
       \A j \in Rows : rows[j].state = "running" =>
         \E w \in Workers : Marking(w) /\ j \in left[w]

(* The counter counts claimed rows, all of them if nothing failed.         *)
CountOK ==
  \E S \in SUBSET (Claimed \ Pending) :
    /\ counter = Cardinality(S)
    /\ NoPanic /\ Kind # "once" => S = Claimed \ Pending

RoundInv ==
  /\ main = "joining" => BacklogOK /\ MarkingOK /\ CountOK
  /\ counter \in 0 .. Cardinality(Seeded)

(* Task w is not done with row j: it will see the row in a snapshot of its *)
(* own if no one else has taken it.                                        *)
WillSee(w, j) ==
  \/ task[w] \in {"looping", "marking"}
  \/ task[w] = "claiming" /\ (tx[w].window # {} \/ j \in DOMAIN tx[w].todo)

ReadySeen ==
  main = "joining" /\ Kind # "once" /\ NoPanic =>
    \A j \in Rows : rows[j].state = "ready" => \E w \in Tasks : WillSee(w, j)

FleetInv == TasksInv /\ RoundInv

(* BENCH_WORKERS is not 0: with no task at all a program reports 0 jobs.   *)
HasTasks == \A p \in Programs : \A r \in 1 .. Len(Rounds[p]) : Len(Handles[p][r]) > 0
-----------------------------------------------------------------------------
(* The tasks and their claims                                              *)

(* A step within a round leaves what the round is.                         *)
LEMMA SameRound ==
  ASSUME program' = program, round' = round
  PROVE  Kind' = Kind /\ Joins' = Joins /\ Tasks' = Tasks /\ Seeded' = Seeded
  BY DEF Kind, Joins, Tasks, Seeded

(* The tasks of a round are workers, joined in an order.                   *)
LEMMA RoundFacts ==
  ASSUME FleetTypes
  PROVE  /\ Joins \in Seq(Workers) /\ Len(Joins) \in Nat
         /\ Tasks \subseteq Workers
         /\ \A i \in 1 .. Len(Joins) : Joins[i] \in Tasks
         /\ Len(Rounds[program]) \in Nat
<1>1. /\ Handles[program] \in Seq(Seq(Workers))
      /\ Len(Handles[program]) = Len(Rounds[program])
      /\ round \in 1 .. Len(Rounds[program])
  BY FleetAssumption DEF FleetTypes
<1>2. Handles[program][round] \in Seq(Workers)
  BY <1>1
<1>3. Joins \in Seq(Workers)
  BY <1>2 DEF Joins
<1>4. \A i \in 1 .. Len(Joins) : Joins[i] \in Workers
  BY <1>3
<1> QED BY <1>1, <1>3, <1>4 DEF Tasks

(* Task w moves on by itself, to s.                                        *)
LEMMA TaskMoves ==
  ASSUME TasksInv, LocksInv', main = "joining",
         NEW w \in Workers, NEW s \in TaskStates,
         task[w] \notin {"idle", "ended", "panicked"},
         task' = [task EXCEPT ![w] = s], s # "idle",
         IF s = "claiming" THEN tx'[w].active /\ tx'[w].now = clock
                           ELSE tx'[w] = Idle,
         \A v \in Workers \ {w} : tx'[v] = tx[v],
         UNCHANGED <<clock, program, round, main, joined>>,
         batch' \in [Workers -> SUBSET Rows], left' \in [Workers -> SUBSET Rows],
         \A v \in Workers : left'[v] \subseteq batch'[v],
         errors' \in 0 .. MaxErrors, errors' = errors \/ s = "panicked"
  PROVE  TasksInv'
<1>1. Joins' = Joins /\ Tasks' = Tasks /\ w \in Tasks
  BY SameRound DEF TasksInv, TasksOK
<1>2. task \in [Workers -> TaskStates] /\ task' \in [Workers -> TaskStates]
  BY DEF TasksInv, FleetTypes
<1>3. \A v \in Workers : task'[v] = IF v = w THEN s ELSE task[v]
  BY <1>2
<1>4. FleetTypes'
  BY <1>1, <1>2 DEF TasksInv, FleetTypes
<1>5. TasksOK'
  <2> SUFFICES ASSUME NEW v \in Workers
               PROVE  /\ IF task'[v] = "claiming" THEN tx'[v].active /\ tx'[v].now = clock
                                                  ELSE tx'[v] = Idle
                      /\ v \notin Tasks => task'[v] = "idle"
    BY <1>1 DEF TasksInv, TasksOK
  <2>1. CASE v = w
    BY <2>1, <1>1, <1>3
  <2>2. CASE v # w
    BY <2>2, <1>3 DEF TasksInv, TasksOK
  <2> QED BY <2>1, <2>2
<1>6. JoinsOK'
  <2>1. \A i \in 1 .. joined : Joins[i] \in Workers /\ task[Joins[i]] = "ended"
    <3>1. joined \in 0 .. Len(Joins) /\ Len(Joins) \in Nat
      BY RoundFacts DEF TasksInv, FleetTypes
    <3>2. \A i \in 1 .. joined : i \in 1 .. Len(Joins)
      BY <3>1
    <3> QED BY <3>2, RoundFacts DEF TasksInv, JoinsOK
  <2>2. \A i \in 1 .. joined : task'[Joins[i]] = "ended"
    BY <2>1, <1>3
  <2>3. errors' # 0 => \E v \in Tasks : task'[v] = "panicked"
    <3>1. CASE s = "panicked"
      BY <3>1, <1>1, <1>3
    <3>2. CASE errors' = errors
      BY <3>2, <1>3, RoundFacts DEF TasksInv, JoinsOK
    <3> QED BY <3>1, <3>2
  <2> QED BY <1>1, <2>2, <2>3 DEF JoinsOK
<1> QED BY <1>4, <1>5, <1>6 DEF TasksInv

(* Nothing seeded, nobody at work.                                         *)
LEMMA TasksInit == FleetInit => TasksInv
<1> SUFFICES ASSUME FleetInit PROVE TasksInv
  OBVIOUS
<1>1. rows \in [Rows -> Row]
  BY ClaimAssumption DEF FleetInit, Row
<1>2. tx = [w \in Workers |-> Idle] /\ clock = MaxClock /\ returns = 0 /\ aborts = 0
  BY DEF FleetInit
<1>3. LocksInv
  <2>1. TypeOK
    BY <1>1, <1>2, IdleFacts, ClaimAssumption DEF TypeOK
  <2>2. OnlyRunningIsLocked
    BY DEF FleetInit, OnlyRunningIsLocked
  <2>3. LockedStayClaimable /\ DisjointWindows
    BY <1>2, IdleFacts, ClaimAssumption DEF LockedStayClaimable, DisjointWindows
  <2> QED BY <2>1, <2>2, <2>3 DEF LocksInv
<1>4. FleetTypes
  <2>1. program \in Programs /\ round = 1 /\ joined = 0 /\ errors = 0
    BY DEF FleetInit
  <2>2. round \in 1 .. Len(Rounds[program])
    BY <2>1 DEF Programs, Rounds
  <2>3. Handles[program] \in Seq(Seq(Workers)) /\ Len(Handles[program]) = Len(Rounds[program])
    BY <2>1, FleetAssumption
  <2>4. Joins \in Seq(Workers)
    BY <2>2, <2>3 DEF Joins
  <2>5. joined \in 0 .. Len(Joins) /\ errors \in 0 .. MaxErrors
    BY <2>1, <2>4, FleetAssumption
  <2> QED BY <2>1, <2>2, <2>5 DEF FleetInit, FleetTypes, TaskStates
<1>5. TasksOK /\ JoinsOK
  BY <1>2 DEF FleetInit, TasksOK, JoinsOK
<1> QED BY <1>3, <1>4, <1>5 DEF TasksInv

(* What a task that works has of its own.                                  *)
LEMMA TaskFacts ==
  ASSUME TasksInv
  PROVE  /\ tx \in [Workers -> Tx] /\ rows \in [Rows -> Row]
         /\ task \in [Workers -> TaskStates]
         /\ batch \in [Workers -> SUBSET Rows] /\ left \in [Workers -> SUBSET Rows]
         /\ \A v \in Workers : left[v] \subseteq batch[v]
         /\ errors \in 0 .. MaxErrors
         /\ clock = MaxClock /\ clock \in Nat
  BY ClaimAssumption DEF TasksInv, LocksInv, TypeOK, FleetTypes, TasksOK

(* The steps of a task, each of which moves that task alone.               *)
LEMMA StartClaimStep ==
  ASSUME TasksInv, NEW w \in Workers, StartClaim(w) PROVE TasksInv'
<1>1. LocksInv'
  BY BeginStep DEF StartClaim, TasksInv
<1> DEFINE seen == {j \in Rows : Claimable(j, clock)}
           t == [active |-> TRUE, now |-> clock, window |-> {},
                 todo |-> [j \in seen |-> rows[j].run_at]]
<1>2. tx' = [tx EXCEPT ![w] = t] /\ UNCHANGED clock
  BY DEF StartClaim, Begin
<1>3. t.active /\ t.now = clock
  OBVIOUS
<1> HIDE DEF t
<1>4. /\ main = "joining" /\ task[w] = "looping"
      /\ task' = [task EXCEPT ![w] = "claiming"]
      /\ UNCHANGED <<program, round, main, joined, batch, left, errors>>
  BY DEF StartClaim, Runs, Goes
<1>5. tx'[w] = t /\ \A v \in Workers \ {w} : tx'[v] = tx[v]
  BY <1>2, TaskFacts
<1>6. UNCHANGED <<clock, program, round, main, joined>>
  BY <1>2, <1>4
<1>7. "claiming" \in TaskStates /\ task[w] \notin {"idle", "ended", "panicked"}
  BY <1>4 DEF TaskStates
<1>8. /\ batch' \in [Workers -> SUBSET Rows] /\ left' \in [Workers -> SUBSET Rows]
      /\ \A v \in Workers : left'[v] \subseteq batch'[v]
      /\ errors' \in 0 .. MaxErrors
  BY <1>4, TaskFacts
<1> QED BY <1>1, <1>3, <1>4, <1>5, <1>6, <1>7, <1>8, TaskMoves

(* A row visited: the task waits on.                                       *)
LEMMA ScanRowStep ==
  ASSUME TasksInv, NEW w \in Workers, ScanRow(w) PROVE TasksInv'
<1>1. LocksInv'
  BY LockRowStep DEF ScanRow, TasksInv
<1>2. /\ main = "joining" /\ task[w] = "claiming"
      /\ UNCHANGED <<clock, program, round, main, joined, task, batch, left, errors>>
  BY DEF ScanRow, LockRow, Runs, fleet
<1>3. PICK j \in DOMAIN tx[w].todo :
        tx' = [tx EXCEPT
          ![w].todo   = [i \in DOMAIN @ \ {j} |-> @[i]],
          ![w].window = IF Takes(w, j) THEN @ \cup {j} ELSE @]
  BY DEF ScanRow, LockRow
<1>4. tx[w] \in Tx
  BY TaskFacts
<1> DEFINE todo == [i \in DOMAIN tx[w].todo \ {j} |-> tx[w].todo[i]]
           window == IF Takes(w, j) THEN tx[w].window \cup {j} ELSE tx[w].window
           t1 == [tx[w] EXCEPT !.todo = todo]
           t  == [t1 EXCEPT !.window = window]
<1>5. tx' = [tx EXCEPT ![w] = t]
  BY <1>3, TaskFacts
<1> HIDE DEF todo, window
<1>6. t.active = tx[w].active /\ t.now = tx[w].now
  BY <1>4 DEF Tx
<1> HIDE DEF t
<1>7. tx'[w] = t /\ \A v \in Workers \ {w} : tx'[v] = tx[v]
  BY <1>5, TaskFacts
<1>8. tx[w].active /\ tx[w].now = clock
  BY <1>2 DEF TasksInv, TasksOK
<1>9. task' = [task EXCEPT ![w] = "claiming"]
  BY <1>2, TaskFacts
<1>10. "claiming" \in TaskStates /\ task[w] \notin {"idle", "ended", "panicked"}
  BY <1>2 DEF TaskStates
<1>11. /\ batch' \in [Workers -> SUBSET Rows] /\ left' \in [Workers -> SUBSET Rows]
       /\ \A v \in Workers : left'[v] \subseteq batch'[v]
       /\ errors' \in 0 .. MaxErrors
  BY <1>2, TaskFacts
<1>12. tx'[w].active /\ tx'[w].now = clock
  BY <1>6, <1>7, <1>8
<1>13. UNCHANGED <<clock, program, round, main, joined>>
  BY <1>2
<1> QED BY <1>1, <1>2, <1>7, <1>9, <1>10, <1>11, <1>12, <1>13, TaskMoves

(* The batch is here, the claim is over.                                   *)
LEMMA TakeBatchStep ==
  ASSUME TasksInv, NEW w \in Workers, TakeBatch(w) PROVE TasksInv'
<1>1. LocksInv'
  BY CommitStep, IdleFacts DEF TakeBatch, TasksInv
<1> DEFINE taken == Taken(w)
           s == IF taken = {} \/ Kind = "once" THEN "ended"
                ELSE IF Kind = "claim" THEN "looping" ELSE "marking"
<1>2. /\ main = "joining" /\ task[w] = "claiming"
      /\ UNCHANGED <<program, round, main, joined, errors>>
      /\ batch' = [batch EXCEPT ![w] = taken]
      /\ left' = [left EXCEPT ![w] = taken]
      /\ task' = [task EXCEPT ![w] = s]
  BY DEF TakeBatch, Runs, Goes
<1>3. tx' = [tx EXCEPT ![w] = Idle] /\ UNCHANGED clock
  BY DEF TakeBatch, Commit
<1>4. taken \subseteq Rows
  BY DEF Taken
<1>5. s \in TaskStates \ {"idle", "claiming"}
  BY DEF TaskStates
<1> HIDE DEF taken, s
<1>6. tx'[w] = Idle /\ \A v \in Workers \ {w} : tx'[v] = tx[v]
  BY <1>3, TaskFacts
<1>7. UNCHANGED <<clock, program, round, main, joined>>
  BY <1>2, <1>3
<1>8. /\ batch' \in [Workers -> SUBSET Rows] /\ left' \in [Workers -> SUBSET Rows]
      /\ \A v \in Workers : left'[v] \subseteq batch'[v]
  BY <1>2, <1>4, TaskFacts
<1>9. errors' \in 0 .. MaxErrors /\ task[w] \notin {"idle", "ended", "panicked"}
  BY <1>2, TaskFacts
<1> QED BY <1>1, <1>2, <1>5, <1>6, <1>7, <1>8, <1>9, TaskMoves

(* A job of the batch done.                                                *)
LEMMA MarkDoneStep ==
  ASSUME TasksInv, NEW w \in Workers, MarkDone(w) PROVE TasksInv'
<1>1. PICK j \in left[w] :
        /\ End(j, "done")
        /\ left' = [left EXCEPT ![w] = @ \ {j}]
        /\ \/ task' = [task EXCEPT ![w] = "looping"]
           \/ UNCHANGED task
  BY DEF MarkDone, Goes
<1>2. /\ main = "joining" /\ task[w] = "marking"
      /\ UNCHANGED <<program, round, main, joined, batch, errors>>
  BY DEF MarkDone, Runs
<1>3. j \in Rows
  BY TaskFacts
<1>4. LocksInv'
  BY <1>1, <1>3, EndStep DEF TasksInv
<1>5. UNCHANGED <<tx, clock>>
  BY <1>1 DEF End
<1>6. PICK s \in {"looping", "marking"} : task' = [task EXCEPT ![w] = s]
  BY <1>1, <1>2, TaskFacts
<1>7. tx'[w] = Idle /\ \A v \in Workers \ {w} : tx'[v] = tx[v]
  BY <1>2, <1>5 DEF TasksInv, TasksOK
<1>8. UNCHANGED <<clock, program, round, main, joined>>
  BY <1>2, <1>5
<1>9. /\ batch' \in [Workers -> SUBSET Rows] /\ left' \in [Workers -> SUBSET Rows]
      /\ \A v \in Workers : left'[v] \subseteq batch'[v]
  BY <1>1, <1>2, TaskFacts
<1>10. errors' \in 0 .. MaxErrors /\ task[w] \notin {"idle", "ended", "panicked"}
  BY <1>2, TaskFacts
<1>11. s \in TaskStates /\ s # "idle" /\ s # "claiming"
  BY DEF TaskStates
<1> QED BY <1>2, <1>4, <1>6, <1>7, <1>8, <1>9, <1>10, <1>11, TaskMoves

(* A statement fails: committed, rolled back, or never executed.           *)
LEMMA FailedStatement ==
  ASSUME TasksInv, NEW w \in Workers, StatementFails(w)
  PROVE  /\ LocksInv' /\ main = "joining" /\ task[w] \in {"claiming", "marking"}
         /\ tx'[w] = Idle /\ \A v \in Workers \ {w} : tx'[v] = tx[v]
         /\ UNCHANGED clock
<1>1. CASE Runs(w, "claiming") /\ Commit(w)
  <2>1. LocksInv'
    BY <1>1, CommitStep, IdleFacts DEF TasksInv
  <2>2. tx' = [tx EXCEPT ![w] = Idle] /\ UNCHANGED clock
    BY <1>1 DEF Commit
  <2> QED BY <1>1, <2>1, <2>2, TaskFacts DEF Runs
<1>2. CASE /\ Runs(w, "claiming") /\ tx' = [tx EXCEPT ![w] = Idle]
           /\ UNCHANGED <<rows, clock, returns, aborts>>
  <2>1. UNCHANGED <<rows, clock, returns>> /\ aborts' \in 0 .. MaxAborts
    BY <1>2 DEF TasksInv, LocksInv, TypeOK
  <2>2. 0 <= clock
    BY TaskFacts
  <2>3. LocksInv'
    BY <1>2, <2>1, <2>2, IdleFacts, TxStep DEF TasksInv
  <2> QED BY <1>2, <2>3, TaskFacts DEF Runs
<1>3. ASSUME Runs(w, "marking"), NEW j \in left[w], End(j, "done")
      PROVE  LocksInv' /\ UNCHANGED <<tx, clock>>
  <2>1. j \in Rows
    BY TaskFacts
  <2> QED BY <1>3, <2>1, EndStep DEF End, TasksInv
<1>4. ASSUME UNCHANGED vars PROVE LocksInv' /\ UNCHANGED <<tx, clock>>
  <2>1. LocksInv'
    BY <1>4, LocksStep DEF TasksInv
  <2> QED BY <1>4, <2>1 DEF vars
<1>5. ASSUME Runs(w, "marking") PROVE tx[w] = Idle
  BY <1>5 DEF Runs, TasksInv, TasksOK
<1> QED BY <1>1, <1>2, <1>3, <1>4, <1>5 DEF StatementFails, Runs

(* The panic of a task is the error that main will find.                   *)
LEMMA PanicStep ==
  ASSUME TasksInv, NEW w \in Workers, Panic(w) PROVE TasksInv'
<1>1. /\ StatementFails(w) /\ task' = [task EXCEPT ![w] = "panicked"]
      /\ UNCHANGED <<program, round, main, joined, batch, left>>
      /\ errors < MaxErrors /\ errors' = errors + 1
  BY DEF Panic, Goes, Unwrapped
<1>2. errors' \in 0 .. MaxErrors
  BY <1>1, Counts, TaskFacts, FleetAssumption
<1>3. /\ LocksInv' /\ main = "joining" /\ task[w] \notin {"idle", "ended", "panicked"}
      /\ tx'[w] = Idle /\ \A v \in Workers \ {w} : tx'[v] = tx[v]
      /\ UNCHANGED clock
  BY <1>1, FailedStatement
<1>4. UNCHANGED <<clock, program, round, main, joined>>
  BY <1>1, <1>3
<1>5. /\ batch' \in [Workers -> SUBSET Rows] /\ left' \in [Workers -> SUBSET Rows]
      /\ \A v \in Workers : left'[v] \subseteq batch'[v]
  BY <1>1, TaskFacts
<1>6. "panicked" \in TaskStates
  BY DEF TaskStates
<1> QED BY <1>1, <1>2, <1>3, <1>4, <1>5, <1>6, TaskMoves

(* Everybody is between two claims when main seeds the rows.               *)
LEMMA SeedStep == TasksInv /\ Seed => TasksInv'
<1> SUFFICES ASSUME TasksInv, Seed PROVE TasksInv'
  OBVIOUS
<1>1. /\ main = "seeding" /\ main' = "joining"
      /\ rows' = [j \in Rows |-> SeededRow(j)]
      /\ task' = [w \in Workers |-> IF w \in Tasks THEN "looping" ELSE "idle"]
      /\ UNCHANGED <<tx, clock, returns, aborts, program, round, joined, batch, left, errors>>
  BY DEF Seed
<1>2. \A w \in Workers : tx[w] = Idle /\ tx'[w] = Idle
  BY <1>1 DEF TasksInv, TasksOK
<1>3. rows' \in [Rows -> Row] /\ OnlyRunningIsLocked'
  <2>1. program \in Programs
    BY DEF TasksInv, FleetTypes
  <2>2. Backlog[program] \in Visits
    BY <2>1, FleetAssumption
  <2>3. PICK S \in SUBSET Rows : Backlog[program] \in [S -> 0 .. MaxClock + 1]
    BY <2>2 DEF Visits
  <2>4. \A j \in Seeded : Backlog[program][j] \in 0 .. MaxClock + 1
    BY <2>3 DEF Seeded
  <2>5. \A j \in Rows : SeededRow(j) \in Row
    BY <2>4, ClaimAssumption DEF SeededRow, Row
  <2>6. \A j \in Rows : SeededRow(j).locked_by = NoWorker
    BY DEF SeededRow
  <2> QED BY <1>1, <2>5, <2>6 DEF OnlyRunningIsLocked
<1>4. TypeOK' /\ DisjointWindows'
  BY <1>1, <1>3 DEF TasksInv, LocksInv, TypeOK, DisjointWindows
<1>5. LockedStayClaimable'
  <2>1. clock' \in Nat
    BY <1>1, TaskFacts
  <2> QED BY <1>2, <2>1, IdleFacts DEF LockedStayClaimable
<1>6. Tasks' = Tasks /\ Joins' = Joins
  BY <1>1, SameRound
<1>7. FleetTypes'
  BY <1>1, <1>6 DEF TasksInv, FleetTypes, TaskStates
<1>8. TasksOK'
  BY <1>1, <1>2, <1>6 DEF TasksInv, TasksOK
<1>9. JoinsOK'
  BY <1>1 DEF TasksInv, JoinsOK
<1> QED BY <1>3, <1>4, <1>5, <1>7, <1>8, <1>9 DEF TasksInv, LocksInv

(* main alone moves on.                                                    *)
LEMMA LocksKept == ASSUME LocksInv, UNCHANGED vars PROVE LocksInv'
  BY LocksStep

(* The error of a statement of its own makes main return.                  *)
LEMMA SeedFailsStep == TasksInv /\ SeedFails => TasksInv'
<1> SUFFICES ASSUME TasksInv, SeedFails PROVE TasksInv'
  OBVIOUS
<1>1. /\ main' = "err" /\ errors < MaxErrors /\ errors' = errors + 1
      /\ UNCHANGED <<vars, program, round, joined, task, batch, left>>
  BY DEF SeedFails
<1>2. LocksInv'
  BY <1>1, LocksKept DEF TasksInv
<1>3. errors' \in 0 .. MaxErrors
  BY <1>1, Counts, TaskFacts, FleetAssumption
<1>4. Tasks' = Tasks /\ Joins' = Joins
  BY <1>1, SameRound
<1>5. FleetTypes'
  BY <1>1, <1>3, <1>4 DEF TasksInv, FleetTypes
<1>6. TasksOK' /\ JoinsOK'
  BY <1>1 DEF TasksInv, TasksOK, JoinsOK, vars
<1> QED BY <1>2, <1>5, <1>6 DEF TasksInv

(* One more task has ended, or main returns its panic.                     *)
LEMMA JoinStep ==
  ASSUME TasksInv, NEW w \in Workers, Join(w) PROVE TasksInv'
<1>1. /\ main = "joining" /\ joined < Len(Joins) /\ Joins[joined + 1] = w
      /\ \/ task[w] = "ended" /\ joined' = joined + 1 /\ UNCHANGED main
         \/ task[w] = "panicked" /\ main' = "err" /\ UNCHANGED joined
      /\ UNCHANGED <<vars, program, round, task, batch, left, errors>>
  BY DEF Join, Awaited
<1>2. LocksInv'
  BY <1>1, LocksKept DEF TasksInv
<1>3. Tasks' = Tasks /\ Joins' = Joins
  BY <1>1, SameRound
<1>4. joined \in 0 .. Len(Joins) /\ Len(Joins) \in Nat
  BY RoundFacts DEF TasksInv, FleetTypes
<1>5. joined' \in 0 .. Len(Joins)
  BY <1>1, <1>4, Counts
<1>6. FleetTypes'
  BY <1>1, <1>3, <1>5 DEF TasksInv, FleetTypes
<1>7. TasksOK'
  BY <1>1, <1>3 DEF TasksInv, TasksOK, vars
<1>8. JoinsOK'
  <2>1. CASE task[w] = "ended" /\ joined' = joined + 1 /\ UNCHANGED main
    <3>1. \A i \in 1 .. joined' : i \in 1 .. joined \/ i = joined + 1
      BY <2>1, <1>4
    <3>2. \A i \in 1 .. joined' : task[Joins[i]] = "ended"
      BY <3>1, <2>1, <1>1 DEF TasksInv, JoinsOK
    <3> QED BY <3>2, <2>1, <1>1, <1>3 DEF TasksInv, JoinsOK
  <2>2. CASE main' = "err"
    BY <2>2 DEF JoinsOK
  <2> QED BY <1>1, <2>1, <2>2
<1> QED BY <1>2, <1>6, <1>7, <1>8 DEF TasksInv

(* Once all are joined no one is at work, and no one has failed.           *)
LEMMA AllEnded ==
  ASSUME TasksInv, AllJoined
  PROVE  /\ \A w \in Tasks : task[w] = "ended"
         /\ \A w \in Workers : task[w] \in {"idle", "ended"}
         /\ errors = 0
<1>1. main = "joining" /\ joined = Len(Joins)
  BY DEF AllJoined
<1>2. \A i \in 1 .. Len(Joins) : task[Joins[i]] = "ended"
  BY <1>1 DEF TasksInv, JoinsOK
<1>3. \A w \in Tasks : task[w] = "ended"
  BY <1>2 DEF Tasks
<1>4. \A w \in Workers : task[w] \in {"idle", "ended"}
  BY <1>1, <1>3 DEF TasksInv, TasksOK
<1>5. errors = 0
  BY <1>1, <1>3 DEF TasksInv, JoinsOK
<1> QED BY <1>3, <1>4, <1>5

(* main goes on with no one at work and no error to report.                *)
LEMMA ReportStep == TasksInv /\ Report => TasksInv'
<1> SUFFICES ASSUME TasksInv, Report PROVE TasksInv'
  OBVIOUS
<1>1. /\ main = "joining" /\ errors = 0
      /\ \A w \in Workers : task[w] \in {"idle", "ended"}
  BY AllEnded DEF Report, AllJoined
<1>2. UNCHANGED <<vars, program, task, batch, left, errors>>
  BY DEF Report
<1>3. LocksInv'
  BY <1>2, LocksKept DEF TasksInv
<1>4. \A w \in Workers : tx'[w] = Idle
  BY <1>1, <1>2 DEF TasksInv, TasksOK, vars
<1>5. CASE round < Len(Rounds[program])
  <2>1. round' = round + 1 /\ main' = "seeding" /\ joined' = 0
    BY <1>5 DEF Report
  <2>2. round \in 1 .. Len(Rounds[program]) /\ Len(Rounds[program]) \in Nat
    BY RoundFacts DEF TasksInv, FleetTypes
  <2>3. round' \in 1 .. Len(Rounds[program])
    BY <1>5, <2>1, <2>2
  <2>4. /\ Handles[program] \in Seq(Seq(Workers))
        /\ Len(Handles[program]) = Len(Rounds[program])
    BY FleetAssumption DEF TasksInv, FleetTypes
  <2>5. Handles[program][round'] \in Seq(Workers)
    BY <2>3, <2>4
  <2>6. Joins' = Handles[program][round']
    BY <1>2 DEF Joins
  <2>7. joined' \in 0 .. Len(Joins')
    BY <2>1, <2>5, <2>6
  <2>8. FleetTypes'
    BY <1>2, <2>1, <2>3, <2>7 DEF TasksInv, FleetTypes
  <2>9. TasksOK' /\ JoinsOK'
    BY <1>1, <1>2, <1>4, <2>1 DEF TasksInv, TasksOK, JoinsOK, vars
  <2> QED BY <1>3, <2>8, <2>9 DEF TasksInv
<1>6. CASE ~(round < Len(Rounds[program]))
  <2>1. main' \in {"ok", "assertion failed"} /\ UNCHANGED <<round, joined>>
    BY <1>6 DEF Report
  <2>2. Tasks' = Tasks /\ Joins' = Joins
    BY <1>2, <2>1, SameRound
  <2>3. FleetTypes'
    BY <1>2, <2>1, <2>2 DEF TasksInv, FleetTypes
  <2>4. TasksOK' /\ JoinsOK'
    BY <1>1, <1>2, <1>4, <2>1 DEF TasksInv, TasksOK, JoinsOK, vars
  <2> QED BY <1>3, <2>3, <2>4 DEF TasksInv
<1> QED BY <1>5, <1>6

(* The invariant is inductive.                                             *)
LEMMA TasksStep == TasksInv /\ [FleetNext]_fvars => TasksInv'
<1> SUFFICES ASSUME TasksInv, [FleetNext]_fvars PROVE TasksInv'
  OBVIOUS
<1>1. CASE UNCHANGED fvars
  <2>1. UNCHANGED vars
    BY <1>1 DEF fvars
  <2>2. LocksInv'
    BY <2>1, LocksKept DEF TasksInv
  <2>3. UNCHANGED <<tx, clock, program, round, main, joined, task, batch, left, errors>>
    BY <1>1 DEF fvars, fleet, vars
  <2>4. Tasks' = Tasks /\ Joins' = Joins
    BY <2>3, SameRound
  <2> QED BY <2>2, <2>3, <2>4 DEF TasksInv, FleetTypes, TasksOK, JoinsOK
<1>2. ASSUME NEW w \in Workers, TaskStep(w) PROVE TasksInv'
  BY <1>2, StartClaimStep, ScanRowStep, TakeBatchStep, MarkDoneStep DEF TaskStep
<1>3. ASSUME NEW w \in Workers, Join(w) PROVE TasksInv'
  BY <1>3, JoinStep
<1>4. ASSUME NEW w \in Workers, Panic(w) PROVE TasksInv'
  BY <1>4, PanicStep
<1> QED BY <1>1, <1>2, <1>3, <1>4, SeedStep, SeedFailsStep, ReportStep DEF FleetNext

(* What holds of tasks and joins holds throughout.                         *)
LEMMA TasksAlways == FleetSpec => []TasksInv
  BY TasksInit, TasksStep, PTL DEF FleetSpec

(* A program that returns 0 has had no failing statement: the panic that a *)
(* failure makes of a task stays for main to find, which does not report   *)
(* before it has joined every task (`h.await?` in bench_throughput.rs).    *)
THEOREM ErrorsAreReported == FleetSpec => []NoErrorUnreported
<1>1. TasksInv => NoErrorUnreported
  BY DEF TasksInv, JoinsOK, NoErrorUnreported
<1> QED BY <1>1, TasksAlways, PTL

-----------------------------------------------------------------------------
(* What a round counts                                                     *)

(* Some of the rows of a backlog are at most as many as the backlog.       *)
LEMMA CountBound ==
  ASSUME program \in Programs, NEW S \in SUBSET Seeded
  PROVE  /\ IsFiniteSet(S) /\ Cardinality(S) \in 0 .. Cardinality(Seeded)
         /\ Cardinality(S) \in Nat
<1>1. IsFiniteSet(Seeded)
  BY FleetAssumption DEF Seeded
<1>2. /\ IsFiniteSet(S) /\ Cardinality(S) <= Cardinality(Seeded)
      /\ Cardinality(S) \in Nat /\ Cardinality(Seeded) \in Nat
  BY <1>1, FS_Subset, FS_CardinalityType
<1> QED BY <1>2

(* Two parts of a backlog without a row in common.                         *)
LEMMA CountBoth ==
  ASSUME program \in Programs, NEW S \in SUBSET Seeded, NEW T \in SUBSET Seeded,
         S \cap T = {}
  PROVE  Cardinality(S \cup T) = Cardinality(S) + Cardinality(T)
<1>1. /\ IsFiniteSet(S) /\ Cardinality(S) \in Nat
      /\ IsFiniteSet(T) /\ Cardinality(T) \in Nat
  BY CountBound
<1>2. Cardinality(S \cup T) = Cardinality(S) + Cardinality(T) - Cardinality(S \cap T)
  BY <1>1, FS_Union
<1>3. Cardinality(S \cap T) = 0
  BY FS_EmptySet
<1> QED BY <1>1, <1>2, <1>3

(* What a round may be, program by program.                                *)
LEMMA Kinds ==
  ASSUME FleetTypes PROVE Kind \in {"claim", "process", "latency", "once"}
<1>1. program \in Programs /\ round \in 1 .. Len(Rounds[program])
  BY DEF FleetTypes
<1>2. CASE program = "bench_throughput"
  <2>1. Rounds[program] = <<"claim", "process">>
    BY <1>2 DEF Rounds
  <2>2. round \in {1, 2}
    BY <1>1, <2>1
  <2> QED BY <2>1, <2>2 DEF Kind
<1>3. CASE program = "bench_claim_latency"
  <2>1. Rounds[program] = <<"latency">>
    BY <1>3 DEF Rounds
  <2>2. round = 1
    BY <1>1, <2>1
  <2> QED BY <2>1, <2>2 DEF Kind
<1>4. CASE program = "demo_skip_locked"
  <2>1. Rounds[program] = <<"once">>
    BY <1>4 DEF Rounds
  <2>2. round = 1
    BY <1>1, <2>1
  <2> QED BY <2>1, <2>2 DEF Kind
<1>5. CASE program = "demo_fairness"
  <2>1. Rounds[program] = <<"once", "once">>
    BY <1>5 DEF Rounds
  <2>2. round \in {1, 2}
    BY <1>1, <2>1
  <2> QED BY <2>1, <2>2 DEF Kind
<1> QED BY <1>1, <1>2, <1>3, <1>4, <1>5 DEF Programs

(* What a commit does to the rows.                                         *)
LEMMA CommitRows ==
  ASSUME LocksInv, NEW w \in Workers, Commit(w)
  PROVE  /\ Taken(w) \subseteq tx[w].window
         /\ \A j \in Taken(w) : rows[j].state = "ready" /\ rows'[j].state = "running"
         /\ \A j \in Rows \ Taken(w) : rows'[j] = rows[j]
         /\ tx[w].window # {} => Taken(w) # {}
<1>1. PICK rn \in RowNumbers(tx[w].window) :
        rows' = [j \in Rows |->
                   IF j \in Kept(w, rn)
                   THEN [rows[j] EXCEPT !.state = "running", !.locked_by = w]
                   ELSE rows[j]]
  BY DEF Commit
<1>2. Taken(w) = Kept(w, rn)
  BY <1>1, TakenAreKept
<1>3. /\ rows \in [Rows -> Row] /\ tx[w].window \subseteq Rows
      /\ Cap[w] \in Nat /\ Cap[w] # 0
  BY ClaimAssumption DEF LocksInv, TypeOK, Tx
<1>4. Taken(w) \subseteq tx[w].window
  BY <1>2 DEF Kept
<1>5. ASSUME NEW j \in Taken(w)
      PROVE  rows[j].state = "ready" /\ rows'[j].state = "running"
  <2>1. j \in Rows /\ rows[j] \in Row /\ rows[j].state = "ready"
    BY <1>3, <1>4 DEF LocksInv, LockedStayClaimable, Claimable
  <2> DEFINE r1 == [rows[j] EXCEPT !.state = "running"]
             r2 == [r1 EXCEPT !.locked_by = w]
  <2>2. rows'[j] = r2
    BY <1>1, <1>2, <2>1
  <2>3. r2.state = "running"
    BY <2>1 DEF Row
  <2> HIDE DEF r2
  <2> QED BY <2>1, <2>2, <2>3
<1>6. \A j \in Rows \ Taken(w) : rows'[j] = rows[j]
  BY <1>1, <1>2
<1>7. ASSUME NEW i \in tx[w].window PROVE Taken(w) # {}
  <2> DEFINE m == Cardinality(tx[w].window)
  <2>1. /\ rn \in [tx[w].window -> 1 .. m]
        /\ \A n \in 1 .. rn[i] : \E k \in tx[w].window :
             Carrier[k] = Carrier[i] /\ rn[k] = n
    BY DEF RowNumbers
  <2> HIDE DEF m
  <2>2. rn[i] \in Int /\ 1 <= rn[i]
    BY <2>1
  <2>3. 1 \in 1 .. rn[i]
    BY <2>2
  <2>4. PICK k \in tx[w].window : rn[k] = 1
    BY <2>1, <2>3
  <2>5. k \in Kept(w, rn)
    BY <2>4, <1>3 DEF Kept
  <2> QED BY <1>2, <2>5
<1> QED BY <1>4, <1>5, <1>6, <1>7

(* What mark_done does to the rows.                                        *)
LEMMA DoneRows ==
  ASSUME LocksInv, NEW j \in Rows, End(j, "done")
  PROVE  rows'[j].state = "done" /\ \A i \in Rows \ {j} : rows'[i] = rows[i]
<1>1. rows \in [Rows -> Row] /\ rows[j] \in Row
  BY DEF LocksInv, TypeOK
<1> DEFINE r1 == [rows[j] EXCEPT !.state = "done"]
           r2 == [r1 EXCEPT !.locked_by = NoWorker]
<1>2. rows' = [rows EXCEPT ![j] = r2]
  BY <1>1 DEF End
<1>3. r2.state = "done"
  BY <1>1 DEF Row
<1> HIDE DEF r2
<1> QED BY <1>1, <1>2, <1>3

(* The rows of a round are ready, then running, then done.                 *)
LEMMA BacklogKept ==
  ASSUME BacklogOK, UNCHANGED <<clock, program, round>>,
         \A j \in Rows :
           \/ rows'[j] = rows[j]
           \/ rows[j].state = "ready" /\ rows'[j].state = "running"
           \/ /\ rows[j].state \in {"running", "done"} /\ rows'[j].state = "done"
              /\ Kind # "claim"
  PROVE  BacklogOK' /\ Claimed \subseteq Claimed' /\ Claimed' \subseteq Seeded'
<1>1. Kind' = Kind /\ Seeded' = Seeded
  BY SameRound
<1>2. BacklogOK'
  BY <1>1 DEF BacklogOK
<1> QED BY <1>1, <1>2 DEF BacklogOK, Claimed

(* A step that counts nothing: it claims no row for good and marks none.   *)
LEMMA CountKept ==
  ASSUME RoundInv, FleetTypes, main = "joining",
         BacklogOK', MarkingOK', Claimed \subseteq Claimed', Claimed' \subseteq Seeded',
         Pending' \subseteq Pending,
         NoPanic' => NoPanic /\ (Kind = "once" \/ Claimed' \ Pending' = Claimed \ Pending),
         UNCHANGED <<program, round, counter>>
  PROVE  RoundInv'
<1>1. Kind' = Kind /\ Seeded' = Seeded
  BY SameRound
<1>2. PICK S \in SUBSET (Claimed \ Pending) :
        /\ counter = Cardinality(S)
        /\ NoPanic /\ Kind # "once" => S = Claimed \ Pending
  BY DEF RoundInv, CountOK
<1>3. S \in SUBSET (Claimed' \ Pending')
  BY <1>2
<1>4. NoPanic' /\ Kind' # "once" => S = Claimed' \ Pending'
  BY <1>1, <1>2
<1>5. CountOK'
  BY <1>2, <1>3, <1>4 DEF CountOK
<1>6. counter' \in 0 .. Cardinality(Seeded')
  BY <1>1 DEF RoundInv
<1> QED BY <1>5, <1>6 DEF RoundInv

(* A step that leaves the rows, the batches and who is marking his.        *)
LEMMA RoundKept ==
  ASSUME RoundInv, TasksInv, main = "joining",
         UNCHANGED <<rows, clock, program, round, batch, left, counter>>,
         \A w \in Workers : task'[w] = "marking" => task[w] = "marking",
         NoPanic' => NoPanic /\ \A w \in Workers : task[w] = "marking" => task'[w] = "marking"
  PROVE  RoundInv'
<1>1. Kind' = Kind /\ Seeded' = Seeded
  BY SameRound
<1>2. Claimed' = Claimed
  BY DEF Claimed
<1>3. BacklogOK' /\ Claimed' \subseteq Seeded'
  BY BacklogKept DEF RoundInv
<1>4. MarkingOK'
  BY <1>1, <1>2 DEF RoundInv, MarkingOK, Marking
<1>5. Pending' \subseteq Pending
  BY <1>1 DEF Pending, Marking
<1>6. NoPanic' => Pending' = Pending
  BY <1>1 DEF Pending, Marking
<1>7. FleetTypes
  BY DEF TasksInv
<1> HIDE DEF RoundInv, TasksInv
<1>8. NoPanic' => NoPanic /\ (Kind = "once" \/ Claimed' \ Pending' = Claimed \ Pending)
  BY <1>2, <1>6
<1> QED BY <1>2, <1>3, <1>4, <1>5, <1>7, <1>8, CountKept

(* A claim begun has taken no row yet.                                     *)
LEMMA StartClaimRound ==
  ASSUME RoundInv, TasksInv, NEW w \in Workers, StartClaim(w) PROVE RoundInv'
<1>1. /\ main = "joining" /\ task[w] = "looping"
      /\ task' = [task EXCEPT ![w] = "claiming"]
      /\ UNCHANGED <<rows, clock, program, round, batch, left, counter>>
  BY DEF StartClaim, Begin, Runs, Goes
<1>2. \A v \in Workers : task'[v] = IF v = w THEN "claiming" ELSE task[v]
  BY <1>1, TaskFacts
<1>3. \A v \in Workers : task'[v] = "marking" <=> task[v] = "marking"
  BY <1>1, <1>2
<1>4. NoPanic' => NoPanic
  BY <1>1, <1>2 DEF NoPanic
<1> QED BY <1>1, <1>3, <1>4, RoundKept

(* Nor has one that visits rows.                                           *)
LEMMA ScanRowRound ==
  ASSUME RoundInv, TasksInv, NEW w \in Workers, ScanRow(w) PROVE RoundInv'
<1>1. /\ main = "joining"
      /\ UNCHANGED <<rows, clock, program, round, batch, left, counter, task>>
  BY DEF ScanRow, LockRow, Runs, fleet
<1>2. NoPanic' => NoPanic
  BY <1>1 DEF NoPanic
<1> QED BY <1>1, <1>2, RoundKept

(* A batch is counted at once, or when it is marked done.                  *)
LEMMA TakeBatchRound ==
  ASSUME RoundInv, TasksInv, NEW w \in Workers, TakeBatch(w) PROVE RoundInv'
<1> DEFINE taken == Taken(w)
           s == IF taken = {} \/ Kind = "once" THEN "ended"
                ELSE IF Kind = "claim" THEN "looping" ELSE "marking"
<1>1. /\ main = "joining" /\ task[w] = "claiming"
      /\ UNCHANGED <<program, round>>
      /\ batch' = [batch EXCEPT ![w] = taken]
      /\ left' = [left EXCEPT ![w] = taken]
      /\ task' = [task EXCEPT ![w] = s]
      /\ counter' = IF Kind \in {"claim", "latency"}
                    THEN counter + Cardinality(taken) ELSE counter
      /\ Commit(w) /\ UNCHANGED clock
  BY DEF TakeBatch, Runs, Goes, Commit
<1>2. Kind' = Kind /\ Seeded' = Seeded
  BY <1>1, SameRound
<1>3. BacklogOK /\ MarkingOK /\ CountOK /\ program \in Programs
  BY <1>1 DEF RoundInv, TasksInv, FleetTypes
<1>4. /\ taken \subseteq Rows
      /\ \A j \in taken : rows[j].state = "ready" /\ rows'[j].state = "running"
      /\ \A j \in Rows \ taken : rows'[j] = rows[j]
  BY <1>1, CommitRows DEF Taken, TasksInv
<1>5. s \in {"ended", "looping", "marking"} /\ (s = "marking" <=> taken # {} /\ Kind \notin {"once", "claim"})
  OBVIOUS
<1>6. Kind \in {"claim", "process", "latency", "once"}
  BY Kinds DEF TasksInv
<1> HIDE DEF taken, s
<1>7. \A j \in Rows : \/ rows'[j] = rows[j]
                      \/ rows[j].state = "ready" /\ rows'[j].state = "running"
  BY <1>4
<1>8. BacklogOK' /\ Claimed' \subseteq Seeded'
  BY <1>1, <1>3, <1>7, BacklogKept
<1>9. Claimed' = Claimed \cup taken /\ Claimed \cap taken = {}
  BY <1>4, <1>7 DEF Claimed
<1>10. \A v \in Workers :
         /\ task'[v] = IF v = w THEN s ELSE task[v]
         /\ batch'[v] = IF v = w THEN taken ELSE batch[v]
         /\ left'[v] = IF v = w THEN taken ELSE left[v]
  BY <1>1, TaskFacts
<1>11. NoPanic' <=> NoPanic
  BY <1>1, <1>5, <1>10 DEF NoPanic
<1>12. MarkingOK'
  <2>1. ASSUME NEW v \in Workers, task'[v] = "marking"
        PROVE  /\ Kind \in {"process", "latency"}
               /\ batch'[v] \subseteq Claimed'
               /\ \A u \in Workers \ {v} : task'[u] = "marking" => batch'[u] \cap batch'[v] = {}
    <3>1. ASSUME NEW u \in Workers, u # w, task'[u] = "marking"
          PROVE  /\ Kind \in {"process", "latency"}
                 /\ batch'[u] = batch[u] /\ batch[u] \subseteq Claimed /\ task[u] = "marking"
      BY <3>1, <1>3, <1>10 DEF MarkingOK, Marking
    <3>2. CASE v = w
      BY <3>1, <3>2, <2>1, <1>5, <1>6, <1>9, <1>10
    <3>3. CASE v # w
      <4>1. ASSUME NEW u \in Workers \ {v}, task'[u] = "marking"
            PROVE  batch'[u] \cap batch'[v] = {}
        <5>1. CASE u = w
          BY <5>1, <3>1, <3>3, <2>1, <1>9, <1>10
        <5>2. CASE u # w
          BY <5>2, <4>1, <3>1, <3>3, <2>1, <1>3 DEF MarkingOK, Marking
        <5> QED BY <5>1, <5>2
      <4> QED BY <4>1, <3>1, <3>3, <2>1, <1>9
    <3> QED BY <3>2, <3>3
  <2>2. ASSUME NoPanic', Kind \in {"process", "latency"}, NEW j \in Rows,
               rows'[j].state = "running"
        PROVE  \E v \in Workers : task'[v] = "marking" /\ j \in left'[v]
    <3>1. CASE j \in taken
      BY <3>1, <2>2, <1>5, <1>10
    <3>2. CASE j \notin taken
      <4>1. rows[j].state = "running"
        BY <3>2, <2>2, <1>4
      <4>2. PICK v \in Workers : task[v] = "marking" /\ j \in left[v]
        BY <4>1, <2>2, <1>3, <1>11 DEF MarkingOK, Marking
      <4> QED BY <4>2, <1>1, <1>10
    <3> QED BY <3>1, <3>2
  <2> QED BY <2>1, <2>2, <1>2 DEF MarkingOK, Marking
<1>13. PICK S \in SUBSET (Claimed \ Pending) :
         /\ counter = Cardinality(S)
         /\ NoPanic /\ Kind # "once" => S = Claimed \ Pending
  BY <1>3 DEF CountOK
<1>14. CASE Kind \in {"claim", "latency"}
  <2>1. Pending = {} /\ Pending' = {}
    BY <1>14, <1>2 DEF Pending
  <2>2. S \in SUBSET Seeded /\ taken \in SUBSET Seeded /\ S \cup taken \in SUBSET Seeded
    BY <1>2, <1>8, <1>9, <1>13
  <2>3. S \cap taken = {}
    BY <1>9, <1>13
  <2>4. counter' = Cardinality(S \cup taken)
    BY <2>2, <2>3, <1>1, <1>3, <1>13, <1>14, CountBoth
  <2>5. counter' \in 0 .. Cardinality(Seeded')
    BY <2>2, <2>4, <1>2, <1>3, CountBound
  <2>6. S \cup taken \in SUBSET (Claimed' \ Pending')
    BY <2>1, <1>9, <1>13
  <2>7. NoPanic' /\ Kind' # "once" => S \cup taken = Claimed' \ Pending'
    BY <2>1, <1>2, <1>9, <1>11, <1>13
  <2>8. CountOK'
    BY <2>4, <2>6, <2>7 DEF CountOK
  <2> QED BY <2>5, <2>8, <1>8, <1>12 DEF RoundInv
<1>15. CASE Kind \in {"process", "once"}
  <2>1. Pending' = Pending \cup (IF Kind = "process" THEN taken ELSE {})
    <3>1. CASE Kind = "once"
      BY <3>1, <1>2 DEF Pending
    <3>2. CASE Kind = "process"
      <4>1. ASSUME NEW j PROVE j \in Pending' <=> j \in Pending \/ j \in taken
        <5>1. j \in Pending <=> \E v \in Workers : task[v] = "marking" /\ j \in batch[v]
          BY <3>2 DEF Pending, Marking
        <5>2. j \in Pending' <=> \E v \in Workers : task'[v] = "marking" /\ j \in batch'[v]
          BY <3>2, <1>2 DEF Pending, Marking
        <5>3. ASSUME j \in taken PROVE task'[w] = "marking" /\ j \in batch'[w]
          BY <5>3, <3>2, <1>5, <1>10
        <5>4. ASSUME NEW v \in Workers, task[v] = "marking", j \in batch[v]
              PROVE  task'[v] = "marking" /\ j \in batch'[v]
          BY <5>4, <1>1, <1>10
        <5>5. ASSUME NEW v \in Workers, task'[v] = "marking", j \in batch'[v]
              PROVE  j \in taken \/ (task[v] = "marking" /\ j \in batch[v])
          BY <5>5, <1>10
        <5> QED BY <5>1, <5>2, <5>3, <5>4, <5>5
      <4>2. Pending' = Pending \cup taken
        BY <4>1
      <4> QED BY <4>2, <3>2
    <3> QED BY <3>1, <3>2, <1>15
  <2>2. counter' = counter
    BY <1>1, <1>15
  <2>3. S \in SUBSET (Claimed' \ Pending')
    BY <2>1, <1>9, <1>13
  <2>4. NoPanic' /\ Kind' # "once" => S = Claimed' \ Pending'
    BY <2>1, <1>2, <1>9, <1>11, <1>13, <1>15
  <2>5. CountOK'
    BY <2>2, <2>3, <2>4, <1>13 DEF CountOK
  <2>6. counter' \in 0 .. Cardinality(Seeded')
    BY <2>2, <1>2 DEF RoundInv
  <2> QED BY <2>5, <2>6, <1>8, <1>12 DEF RoundInv
<1> QED BY <1>6, <1>14, <1>15

(* The last job of a batch done, the batch is counted: it was pending.     *)
LEMMA MarkDoneRound ==
  ASSUME RoundInv, TasksInv, NEW w \in Workers, MarkDone(w) PROVE RoundInv'
<1>1. PICK j \in left[w] :
        /\ End(j, "done")
        /\ left' = [left EXCEPT ![w] = @ \ {j}]
        /\ IF left[w] = {j}
           THEN /\ Goes(w, "looping")
                /\ counter' = IF Kind = "process"
                              THEN counter + Cardinality(batch[w]) ELSE counter
           ELSE UNCHANGED <<task, counter>>
  BY DEF MarkDone
<1>2. /\ main = "joining" /\ task[w] = "marking"
      /\ UNCHANGED <<program, round, batch, clock>>
  BY <1>1 DEF MarkDone, Runs, End
<1>3. Kind' = Kind /\ Seeded' = Seeded
  BY <1>2, SameRound
<1>4. BacklogOK /\ MarkingOK /\ CountOK /\ FleetTypes /\ program \in Programs
  BY <1>2 DEF RoundInv, TasksInv, FleetTypes
<1>5. Kind \in {"process", "latency"} /\ batch[w] \subseteq Claimed /\ j \in batch[w]
  BY <1>2, <1>4, TaskFacts DEF MarkingOK, Marking
<1>6. j \in Rows /\ rows[j].state \in {"running", "done"}
  BY <1>5 DEF Claimed
<1>7. rows'[j].state = "done" /\ \A i \in Rows \ {j} : rows'[i] = rows[i]
  BY <1>1, <1>6, DoneRows DEF TasksInv
<1>8. BacklogOK' /\ Claimed' \subseteq Seeded'
  BY <1>2, <1>4, <1>5, <1>6, <1>7, BacklogKept
<1>9. Claimed' = Claimed
  BY <1>6, <1>7 DEF Claimed
<1>10. \A v \in Workers : left'[v] = IF v = w THEN left[w] \ {j} ELSE left[v]
  BY <1>1, TaskFacts
<1>11. CASE left[w] # {j}
  <2>1. UNCHANGED <<task, counter>>
    BY <1>1, <1>11
  <2>2. MarkingOK'
    <3>1. ASSUME NoPanic, NEW i \in Rows, rows'[i].state = "running"
          PROVE  \E v \in Workers : task[v] = "marking" /\ i \in left'[v]
      <4>1. i # j /\ rows[i].state = "running"
        BY <3>1, <1>7
      <4>2. PICK v \in Workers : task[v] = "marking" /\ i \in left[v]
        BY <4>1, <3>1, <1>4, <1>5 DEF MarkingOK, Marking
      <4> QED BY <4>1, <4>2, <1>10
    <3> QED BY <3>1, <2>1, <1>2, <1>3, <1>4, <1>9 DEF MarkingOK, Marking, NoPanic
  <2>3. Pending' = Pending /\ (NoPanic' <=> NoPanic)
    BY <2>1, <1>2, <1>3 DEF Pending, Marking, NoPanic
  <2> HIDE DEF RoundInv
  <2> QED BY <2>1, <2>2, <2>3, <1>2, <1>4, <1>8, <1>9, CountKept
<1>12. CASE left[w] = {j}
  <2>1. /\ task' = [task EXCEPT ![w] = "looping"]
        /\ counter' = IF Kind = "process"
                      THEN counter + Cardinality(batch[w]) ELSE counter
    BY <1>1, <1>12 DEF Goes
  <2>2. \A v \in Workers : task'[v] = IF v = w THEN "looping" ELSE task[v]
    BY <2>1, TaskFacts
  <2>3. \A v \in Workers : task'[v] = "marking" <=> (v # w /\ task[v] = "marking")
    BY <2>2
  <2>4. NoPanic' <=> NoPanic
    BY <2>2, <1>2 DEF NoPanic
  <2>5. MarkingOK'
    <3>1. ASSUME NoPanic, NEW i \in Rows, rows'[i].state = "running"
          PROVE  \E v \in Workers : task'[v] = "marking" /\ i \in left'[v]
      <4>1. i # j /\ rows[i].state = "running"
        BY <3>1, <1>7
      <4>2. PICK v \in Workers : task[v] = "marking" /\ i \in left[v]
        BY <4>1, <3>1, <1>4, <1>5 DEF MarkingOK, Marking
      <4>3. v # w
        BY <4>1, <4>2, <1>12
      <4> QED BY <4>2, <4>3, <2>3, <1>10
    <3>2. ASSUME NEW v \in Workers, task'[v] = "marking"
          PROVE  /\ batch[v] \subseteq Claimed
                 /\ \A u \in Workers \ {v} : task'[u] = "marking" => batch[u] \cap batch[v] = {}
      BY <3>2, <2>3, <1>4 DEF MarkingOK, Marking
    <3> QED BY <3>1, <3>2, <2>4, <1>2, <1>3, <1>5, <1>9 DEF MarkingOK, Marking
  <2>6. CASE Kind = "latency"
    <3>1. Pending' = {} /\ Pending = {} /\ counter' = counter
      BY <2>6, <2>1, <1>3 DEF Pending
    <3> HIDE DEF RoundInv
    <3> QED BY <3>1, <2>4, <2>5, <1>2, <1>4, <1>8, <1>9, CountKept
  <2>7. CASE Kind = "process"
    <3>1. \A i : i \in Pending <=> \E v \in Workers : task[v] = "marking" /\ i \in batch[v]
      BY <2>7 DEF Pending, Marking
    <3>2. \A i : i \in Pending' <=> \E v \in Workers : task'[v] = "marking" /\ i \in batch[v]
      BY <2>7, <1>2, <1>3 DEF Pending, Marking
    <3>3. \A v \in Workers : v # w /\ task[v] = "marking" => batch[v] \cap batch[w] = {}
      BY <1>2, <1>4 DEF MarkingOK, Marking
    <3>4. ASSUME NEW i PROVE i \in Pending' <=> (i \in Pending /\ i \notin batch[w])
      <4>1. ASSUME NEW v \in Workers, task'[v] = "marking", i \in batch[v]
            PROVE  i \in Pending /\ i \notin batch[w]
        BY <4>1, <3>1, <3>3, <2>3
      <4>2. ASSUME i \in Pending, i \notin batch[w] PROVE i \in Pending'
        <5>1. PICK v \in Workers : task[v] = "marking" /\ i \in batch[v]
          BY <4>2, <3>1
        <5>2. v # w
          BY <4>2, <5>1
        <5> QED BY <5>1, <5>2, <3>2, <2>3
      <4> QED BY <4>1, <4>2, <3>2
    <3>5. Pending' = Pending \ batch[w] /\ batch[w] \subseteq Pending
      BY <3>1, <3>4, <1>2
    <3>6. PICK S \in SUBSET (Claimed \ Pending) :
            /\ counter = Cardinality(S)
            /\ NoPanic /\ Kind # "once" => S = Claimed \ Pending
      BY <1>4 DEF CountOK
    <3>7. S \in SUBSET Seeded /\ batch[w] \in SUBSET Seeded /\ S \cup batch[w] \in SUBSET Seeded
      BY <3>6, <1>3, <1>5, <1>8, <1>9
    <3>8. S \cap batch[w] = {}
      BY <3>5, <3>6
    <3>9. counter' = Cardinality(S \cup batch[w])
      BY <3>6, <3>7, <3>8, <2>1, <2>7, <1>4, CountBoth
    <3>10. counter' \in 0 .. Cardinality(Seeded')
      BY <3>7, <3>9, <1>3, <1>4, CountBound
    <3>11. S \cup batch[w] \in SUBSET (Claimed' \ Pending')
      BY <3>5, <3>6, <1>5, <1>9
    <3>12. NoPanic' /\ Kind' # "once" => S \cup batch[w] = Claimed' \ Pending'
      BY <3>5, <3>6, <2>4, <1>3, <1>5, <1>9
    <3>13. CountOK'
      BY <3>9, <3>11, <3>12 DEF CountOK
    <3> QED BY <3>10, <3>13, <2>5, <1>8 DEF RoundInv
  <2> QED BY <1>5, <2>6, <2>7
<1> QED BY <1>11, <1>12

(* A failed statement may have committed: then its rows are claimed, or    *)
(* done, and no one counts them.                                           *)
LEMMA PanicRound ==
  ASSUME RoundInv, TasksInv, NEW w \in Workers, Panic(w) PROVE RoundInv'
<1>1. /\ StatementFails(w) /\ task' = [task EXCEPT ![w] = "panicked"]
      /\ UNCHANGED <<program, round, batch, left, counter>>
  BY DEF Panic, Goes, Unwrapped
<1>2. main = "joining" /\ UNCHANGED clock
  BY <1>1, FailedStatement
<1>3. Kind' = Kind /\ Seeded' = Seeded
  BY <1>1, SameRound
<1>4. BacklogOK /\ MarkingOK /\ CountOK /\ FleetTypes
  BY <1>2 DEF RoundInv, TasksInv
<1>5. \A v \in Workers : task'[v] = "marking" => task[v] = "marking"
  BY <1>1, TaskFacts
<1>6. ~NoPanic'
  BY <1>1, TaskFacts DEF NoPanic
<1>7. \A j \in Rows :
        \/ rows'[j] = rows[j]
        \/ rows[j].state = "ready" /\ rows'[j].state = "running"
        \/ /\ rows[j].state \in {"running", "done"} /\ rows'[j].state = "done"
           /\ Kind # "claim"
  <2>1. ASSUME Commit(w)
        PROVE  \A j \in Rows : \/ rows'[j] = rows[j]
                               \/ rows[j].state = "ready" /\ rows'[j].state = "running"
    BY <2>1, CommitRows DEF TasksInv
  <2>2. ASSUME task[w] = "marking", NEW j \in left[w], End(j, "done")
        PROVE  \A i \in Rows :
                 \/ rows'[i] = rows[i]
                 \/ /\ rows[i].state \in {"running", "done"} /\ rows'[i].state = "done"
                    /\ Kind # "claim"
    <3>1. Kind # "claim" /\ j \in Claimed
      BY <2>2, <1>4, TaskFacts DEF MarkingOK, Marking
    <3>2. j \in Rows /\ rows[j].state \in {"running", "done"}
      BY <3>1 DEF Claimed
    <3>3. rows'[j].state = "done" /\ \A i \in Rows \ {j} : rows'[i] = rows[i]
      BY <2>2, <3>2, DoneRows DEF TasksInv
    <3> QED BY <3>1, <3>2, <3>3
  <2>3. \/ Commit(w)
        \/ task[w] = "marking" /\ \E j \in left[w] : End(j, "done")
        \/ UNCHANGED rows
    BY <1>1 DEF StatementFails, Runs, vars
  <2> QED BY <2>1, <2>2, <2>3
<1>8. BacklogOK' /\ Claimed \subseteq Claimed' /\ Claimed' \subseteq Seeded'
  BY <1>1, <1>2, <1>4, <1>7, BacklogKept
<1>9. MarkingOK'
  BY <1>1, <1>3, <1>4, <1>5, <1>6, <1>8 DEF MarkingOK, Marking
<1>10. Pending' \subseteq Pending
  BY <1>1, <1>3, <1>5 DEF Pending, Marking
<1> HIDE DEF RoundInv
<1> QED BY <1>1, <1>2, <1>4, <1>6, <1>8, <1>9, <1>10, CountKept

(* A new backlog, none of it claimed.                                      *)
LEMMA SeedRound == TasksInv /\ Seed => RoundInv'
<1> SUFFICES ASSUME TasksInv, Seed PROVE RoundInv'
  OBVIOUS
<1>1. /\ rows' = [j \in Rows |-> SeededRow(j)]
      /\ counter' = 0
      /\ task' = [w \in Workers |-> IF w \in Tasks THEN "looping" ELSE "idle"]
      /\ UNCHANGED <<clock, program, round>>
  BY DEF Seed
<1>2. Kind' = Kind /\ Seeded' = Seeded /\ program \in Programs
  BY <1>1, SameRound DEF TasksInv, FleetTypes
<1>3. \A w \in Workers : task'[w] # "marking"
  BY <1>1
<1>4. /\ \A j \in Seeded : Backlog[program][j] <= MaxClock
      /\ clock' = MaxClock
  BY <1>1, <1>2, FleetAssumption, TaskFacts DEF Seeded
<1>5. \A j \in Rows : /\ rows'[j].state = IF j \in Seeded THEN "ready" ELSE "absent"
                      /\ j \in Seeded => rows'[j].run_at = Backlog[program][j]
  BY <1>1 DEF SeededRow
<1>6. BacklogOK'
  BY <1>2, <1>4, <1>5 DEF BacklogOK
<1>7. Claimed' = {}
  BY <1>5 DEF Claimed
<1>8. MarkingOK'
  BY <1>3, <1>5 DEF MarkingOK, Marking
<1>9. CountOK'
  <2>1. {} \in SUBSET (Claimed' \ Pending') /\ counter' = Cardinality({})
    BY <1>1, FS_EmptySet
  <2>2. {} = Claimed' \ Pending'
    BY <1>7
  <2> QED BY <2>1, <2>2 DEF CountOK
<1>10. counter' \in 0 .. Cardinality(Seeded')
  <2>1. Cardinality({}) = 0 /\ {} \in SUBSET Seeded
    BY FS_EmptySet
  <2>2. 0 \in 0 .. Cardinality(Seeded)
    BY <2>1, <1>2, CountBound
  <2> QED BY <2>2, <1>1, <1>2
<1> QED BY <1>6, <1>8, <1>9, <1>10 DEF RoundInv

(* Nothing is counted at first.                                            *)
LEMMA RoundInit == FleetInit => RoundInv
<1> SUFFICES ASSUME FleetInit PROVE RoundInv
  OBVIOUS
<1>1. program \in Programs /\ counter = 0 /\ main = "seeding"
  BY DEF FleetInit
<1>2. Cardinality({}) = 0 /\ {} \in SUBSET Seeded
  BY FS_EmptySet
<1>3. 0 \in 0 .. Cardinality(Seeded)
  BY <1>1, <1>2, CountBound
<1> QED BY <1>1, <1>3 DEF RoundInv

(* main alone moves on.                                                    *)
LEMMA MainRound ==
  ASSUME RoundInv, TasksInv, UNCHANGED <<rows, clock, program, task, batch, left, counter>>,
         main' # "joining" \/ (main = "joining" /\ UNCHANGED round)
  PROVE  RoundInv'
<1>1. CASE main' # "joining"
  BY <1>1 DEF RoundInv, Seeded
<1>2. CASE main = "joining" /\ UNCHANGED round
  <2>1. NoPanic' => NoPanic
    BY DEF NoPanic
  <2> QED BY <2>1, <1>2, RoundKept
<1> QED BY <1>1, <1>2

(* The invariant of the round is inductive, given that of the tasks.       *)
LEMMA RoundStep == RoundInv /\ TasksInv /\ [FleetNext]_fvars => RoundInv'
<1> SUFFICES ASSUME RoundInv, TasksInv, [FleetNext]_fvars PROVE RoundInv'
  OBVIOUS
<1>1. CASE UNCHANGED fvars
  BY <1>1, MainRound DEF fvars, fleet, vars
<1>2. ASSUME NEW w \in Workers, TaskStep(w) PROVE RoundInv'
  BY <1>2, StartClaimRound, ScanRowRound, TakeBatchRound, MarkDoneRound DEF TaskStep
<1>3. ASSUME NEW w \in Workers, Join(w) PROVE RoundInv'
  BY <1>3, MainRound DEF Join, Awaited, vars
<1>4. ASSUME NEW w \in Workers, Panic(w) PROVE RoundInv'
  BY <1>4, PanicRound
<1>5. CASE SeedFails \/ Report
  BY <1>5, MainRound DEF SeedFails, Report, vars
<1> QED BY <1>1, <1>2, <1>3, <1>4, <1>5, SeedRound DEF FleetNext

(* Both hold throughout.                                                   *)
LEMMA FleetAlways == FleetSpec => []FleetInv
<1>1. FleetInit => FleetInv
  BY TasksInit, RoundInit DEF FleetInv
<1>2. FleetInv /\ [FleetNext]_fvars => FleetInv'
  BY TasksStep, RoundStep DEF FleetInv
<1> QED BY <1>1, <1>2, PTL DEF FleetSpec

(* The types of the programs' variables; no round reports more jobs than   *)
(* it has seeded, whichever statements fail after their commit.            *)
THEOREM FleetTyped == FleetSpec => []FleetTypeOK
<1>1. FleetInv => FleetTypeOK
  BY DEF FleetInv, TasksInv, LocksInv, FleetTypes, RoundInv, FleetTypeOK, TaskStates
<1> QED BY <1>1, FleetAlways, PTL

-----------------------------------------------------------------------------
(* No ready row is left behind                                             *)

(* A claim that covers a row lasts: only it can let go of the row.  So a   *)
(* row that a claim skips is in the window of another task's claim.        *)
LEMMA WindowIsOfTask ==
  ASSUME TasksInv, main = "joining", NEW v \in Workers, tx[v].window # {}
  PROVE  v \in Tasks /\ task[v] = "claiming"
<1>1. tx[v] # Idle
  BY IdleFacts
<1> QED BY <1>1 DEF TasksInv, TasksOK

(* The snapshot of a claim has every ready row.                            *)
LEMMA StartClaimSeen ==
  ASSUME FleetInv, ReadySeen, NEW w \in Workers, StartClaim(w) PROVE ReadySeen'
<1> DEFINE seen == {j \in Rows : Claimable(j, clock)}
           t == [active |-> TRUE, now |-> clock, window |-> {},
                 todo |-> [j \in seen |-> rows[j].run_at]]
<1>1. /\ main = "joining" /\ task[w] = "looping"
      /\ task' = [task EXCEPT ![w] = "claiming"]
      /\ tx' = [tx EXCEPT ![w] = t]
      /\ UNCHANGED <<rows, clock, program, round>>
  BY DEF StartClaim, Begin, Runs, Goes
<1>2. Tasks' = Tasks /\ Kind' = Kind /\ BacklogOK /\ TasksInv
  BY <1>1, SameRound DEF FleetInv, RoundInv
<1>3. \A v \in Workers : /\ task'[v] = IF v = w THEN "claiming" ELSE task[v]
                         /\ tx'[v] = IF v = w THEN t ELSE tx[v]
  BY <1>1, <1>2, TaskFacts
<1> SUFFICES ASSUME Kind # "once", NoPanic', NEW j \in Rows, rows'[j].state = "ready"
             PROVE  \E v \in Tasks : /\ \/ task'[v] \in {"looping", "marking"}
                                        \/ /\ task'[v] = "claiming"
                                           /\ tx'[v].window # {} \/ j \in DOMAIN tx'[v].todo
  BY <1>2 DEF ReadySeen, WillSee
<1>4. NoPanic
  BY <1>1, <1>3 DEF NoPanic
<1>5. rows[j].state = "ready"
  BY <1>1
<1>6. PICK v \in Tasks : WillSee(v, j)
  BY <1>1, <1>4, <1>5 DEF ReadySeen
<1>7. v \in Workers /\ w \in Workers
  BY <1>2, RoundFacts DEF TasksInv
<1>8. CASE v = w
  <2>1. j \in seen
    BY <1>2, <1>5 DEF BacklogOK, Claimable
  <2>2. t.todo = [i \in seen |-> rows[i].run_at]
    OBVIOUS
  <2>3. j \in DOMAIN t.todo
    BY <2>1, <2>2
  <2> HIDE DEF t
  <2> QED BY <1>3, <1>7, <1>8, <2>3
<1>9. CASE v # w
  <2> HIDE DEF t
  <2> QED BY <1>3, <1>6, <1>7, <1>9 DEF WillSee
<1> QED BY <1>8, <1>9

(* The row a claim skips is someone else's: it would have been claimable.  *)
LEMMA ScanRowSeen ==
  ASSUME FleetInv, ReadySeen, NEW w \in Workers, ScanRow(w) PROVE ReadySeen'
<1>1. /\ main = "joining" /\ task[w] = "claiming"
      /\ UNCHANGED <<rows, clock, program, round, main, task>>
  BY DEF ScanRow, LockRow, Runs, fleet
<1>2. Tasks' = Tasks /\ Kind' = Kind /\ BacklogOK /\ TasksInv
  BY <1>1, SameRound DEF FleetInv, RoundInv
<1>3. PICK i \in DOMAIN tx[w].todo :
        tx' = [tx EXCEPT
          ![w].todo   = [k \in DOMAIN @ \ {i} |-> @[k]],
          ![w].window = IF Takes(w, i) THEN @ \cup {i} ELSE @]
  BY DEF ScanRow, LockRow
<1>4. tx[w] \in Tx /\ tx[w].now = clock
  BY <1>1, <1>2, TaskFacts DEF TasksInv, TasksOK
<1> DEFINE todo == [k \in DOMAIN tx[w].todo \ {i} |-> tx[w].todo[k]]
           window == IF Takes(w, i) THEN tx[w].window \cup {i} ELSE tx[w].window
           t1 == [tx[w] EXCEPT !.todo = todo]
           t  == [t1 EXCEPT !.window = window]
<1>5. tx' = [tx EXCEPT ![w] = t]
  BY <1>2, <1>3, TaskFacts
<1>6. DOMAIN todo = DOMAIN tx[w].todo \ {i}
  OBVIOUS
<1>7. tx[w].window \subseteq window /\ (Takes(w, i) => i \in window)
  OBVIOUS
<1> HIDE DEF todo, window
<1>8. t.todo = todo /\ t.window = window
  BY <1>4 DEF Tx
<1> HIDE DEF t
<1>9. tx'[w] = t /\ \A v \in Workers \ {w} : tx'[v] = tx[v]
  BY <1>2, <1>5, TaskFacts
<1> SUFFICES ASSUME Kind # "once", NoPanic, NEW j \in Rows, rows[j].state = "ready"
             PROVE  \E v \in Tasks : /\ \/ task[v] \in {"looping", "marking"}
                                        \/ /\ task[v] = "claiming"
                                           /\ tx'[v].window # {} \/ j \in DOMAIN tx'[v].todo
  BY <1>1, <1>2 DEF ReadySeen, WillSee, NoPanic
<1>10. PICK v \in Tasks : WillSee(v, j)
  BY <1>1 DEF ReadySeen
<1>11. v \in Workers
  BY <1>2, RoundFacts DEF TasksInv
<1>12. CASE v # w
  BY <1>9, <1>10, <1>11, <1>12 DEF WillSee
<1>13. CASE v = w /\ tx[w].window # {}
  BY <1>1, <1>7, <1>8, <1>9, <1>13
<1>14. CASE v = w /\ j \in DOMAIN tx[w].todo
  <2>1. CASE j # i
    BY <2>1, <1>1, <1>6, <1>8, <1>9, <1>14
  <2>2. CASE j = i /\ Takes(w, i)
    BY <2>2, <1>1, <1>7, <1>8, <1>9, <1>14
  <2>3. CASE j = i /\ ~Takes(w, i)
    <3>1. Claimable(j, tx[w].now)
      BY <1>2, <1>4 DEF BacklogOK, Claimable
    <3>2. PICK u \in Workers : j \in tx[u].window
      BY <2>3, <3>1 DEF Takes, Locked
    <3>3. u \in Tasks /\ task[u] = "claiming"
      BY <1>1, <1>2, <3>2, WindowIsOfTask
    <3>4. tx'[u].window # {}
      BY <3>2, <1>7, <1>8, <1>9
    <3> QED BY <3>3, <3>4
  <2> QED BY <2>1, <2>2, <2>3
<1>15. v = w => tx[w].window # {} \/ j \in DOMAIN tx[w].todo
  BY <1>1, <1>10 DEF WillSee
<1> QED BY <1>12, <1>13, <1>14, <1>15

(* A claim that has seen a row it may take does not return empty.          *)
LEMMA TakeBatchSeen ==
  ASSUME FleetInv, ReadySeen, NEW w \in Workers, TakeBatch(w) PROVE ReadySeen'
<1> DEFINE taken == Taken(w)
           s == IF taken = {} \/ Kind = "once" THEN "ended"
                ELSE IF Kind = "claim" THEN "looping" ELSE "marking"
<1>1. /\ main = "joining" /\ task[w] = "claiming"
      /\ UNCHANGED <<program, round>>
      /\ task' = [task EXCEPT ![w] = s]
      /\ Commit(w) /\ tx' = [tx EXCEPT ![w] = Idle] /\ UNCHANGED clock
  BY DEF TakeBatch, Runs, Goes, Commit
<1>2. Tasks' = Tasks /\ Kind' = Kind /\ TasksInv /\ LocksInv
  BY <1>1, SameRound DEF FleetInv, TasksInv
<1>3. /\ \A j \in taken : rows'[j].state = "running"
      /\ \A j \in Rows \ taken : rows'[j] = rows[j]
      /\ tx[w].window # {} => taken # {}
  BY <1>1, <1>2, CommitRows
<1>4. s # "panicked" /\ (taken # {} /\ Kind # "once" => s \in {"looping", "marking"})
  OBVIOUS
<1> HIDE DEF s, taken
<1>5. \A v \in Workers : task'[v] = IF v = w THEN s ELSE task[v]
  BY <1>1, <1>2, TaskFacts
<1>6. \A v \in Workers \ {w} : tx'[v] = tx[v]
  BY <1>1, <1>2, TaskFacts
<1> SUFFICES ASSUME Kind # "once", NoPanic', NEW j \in Rows, rows'[j].state = "ready"
             PROVE  \E v \in Tasks : /\ \/ task'[v] \in {"looping", "marking"}
                                        \/ /\ task'[v] = "claiming"
                                           /\ tx'[v].window # {} \/ j \in DOMAIN tx'[v].todo
  BY <1>2 DEF ReadySeen, WillSee
<1>7. NoPanic
  BY <1>1, <1>5 DEF NoPanic
<1>8. rows[j].state = "ready"
  BY <1>3
<1>9. PICK v \in Tasks : WillSee(v, j)
  BY <1>1, <1>7, <1>8 DEF ReadySeen
<1>10. v \in Workers
  BY <1>2, RoundFacts DEF TasksInv
<1>11. CASE v # w
  BY <1>5, <1>6, <1>9, <1>10, <1>11 DEF WillSee
<1>12. CASE v = w
  <2>1. tx[w].window # {} \/ j \in DOMAIN tx[w].todo
    BY <1>1, <1>9, <1>12 DEF WillSee
  <2>2. tx[w].window # {}
    <3> SUFFICES ASSUME tx[w].window = {} PROVE FALSE
      OBVIOUS
    <3>1. Cardinality(tx[w].window) = 0
      BY FS_EmptySet
    <3>2. Limit[w] \in Nat \ {0}
      BY ClaimAssumption
    <3>3. Cardinality(tx[w].window) < Limit[w]
      BY <3>1, <3>2
    <3>4. Scanning(w)
      BY <3>3, <2>1, <1>1 DEF Scanning, Commit
    <3> QED BY <3>4, <1>1 DEF Commit
  <2> QED BY <2>2, <1>3, <1>4, <1>5, <1>10, <1>12
<1> QED BY <1>11, <1>12

(* A task that marks its batch done will claim again.                      *)
LEMMA MarkDoneSeen ==
  ASSUME FleetInv, ReadySeen, NEW w \in Workers, MarkDone(w) PROVE ReadySeen'
<1>1. PICK i \in left[w] :
        End(i, "done") /\ (UNCHANGED task \/ task' = [task EXCEPT ![w] = "looping"])
  BY DEF MarkDone, Goes
<1>2. /\ main = "joining" /\ task[w] = "marking"
      /\ UNCHANGED <<program, round, main, tx>>
  BY <1>1 DEF MarkDone, Runs, End
<1>3. Tasks' = Tasks /\ Kind' = Kind /\ TasksInv /\ LocksInv
  BY <1>2, SameRound DEF FleetInv, TasksInv
<1>4. i \in Rows
  BY <1>3, TaskFacts
<1>5. \A j \in Rows : rows'[j].state = "ready" => rows[j].state = "ready"
  BY <1>1, <1>3, <1>4, DoneRows
<1>6. \A v \in Workers : task'[v] = task[v] \/ (task[v] = "marking" /\ task'[v] = "looping")
  BY <1>1, <1>2, <1>3, TaskFacts
<1>7. NoPanic' => NoPanic
  BY <1>6 DEF NoPanic
<1>8. \A v \in Tasks : v \in Workers
  BY <1>3, RoundFacts DEF TasksInv
<1>9. \A v \in Tasks, j \in Rows : WillSee(v, j) =>
        \/ task'[v] \in {"looping", "marking"}
        \/ /\ task'[v] = "claiming"
           /\ tx'[v].window # {} \/ j \in DOMAIN tx'[v].todo
  BY <1>2, <1>6, <1>8 DEF WillSee
<1> QED BY <1>2, <1>3, <1>5, <1>7, <1>9 DEF ReadySeen, WillSee

(* Every row is ready, and every task is about to look.                    *)
LEMMA SeedSeen ==
  ASSUME HasTasks, FleetInv, Seed PROVE ReadySeen'
<1>1. /\ task' = [w \in Workers |-> IF w \in Tasks THEN "looping" ELSE "idle"]
      /\ UNCHANGED <<program, round>>
  BY DEF Seed
<1>2. Tasks' = Tasks /\ FleetTypes
  BY <1>1, SameRound DEF FleetInv, TasksInv
<1>3. Joins = Handles[program][round] /\ Len(Joins) > 0 /\ Len(Joins) \in Nat
  BY <1>2, RoundFacts DEF Joins, FleetTypes, HasTasks
<1>4. 1 \in 1 .. Len(Joins)
  BY <1>3
<1>5. Joins[1] \in Tasks /\ Joins[1] \in Workers
  BY <1>2, <1>4, RoundFacts
<1>6. task'[Joins[1]] = "looping"
  BY <1>1, <1>5
<1> QED BY <1>2, <1>5, <1>6 DEF ReadySeen, WillSee

(* While nothing fails, every ready row will be seen by some task.         *)
LEMMA SeenStep ==
  ASSUME HasTasks, FleetInv, ReadySeen, [FleetNext]_fvars PROVE ReadySeen'
<1>1. ASSUME UNCHANGED <<rows, tx, program, round, task>>, main' = "joining" => main = "joining"
      PROVE  ReadySeen'
  <2>1. Tasks' = Tasks /\ Kind' = Kind
    BY <1>1, SameRound
  <2> QED BY <1>1, <2>1 DEF ReadySeen, WillSee, NoPanic
<1>2. CASE UNCHANGED fvars
  BY <1>1, <1>2 DEF fvars, fleet, vars
<1>3. ASSUME NEW w \in Workers, TaskStep(w) PROVE ReadySeen'
  BY <1>3, StartClaimSeen, ScanRowSeen, TakeBatchSeen, MarkDoneSeen DEF TaskStep
<1>4. ASSUME NEW w \in Workers, Join(w) PROVE ReadySeen'
  BY <1>1, <1>4 DEF Join, Awaited, vars
<1>5. ASSUME NEW w \in Workers, Panic(w) PROVE ReadySeen'
  <2>1. task' = [task EXCEPT ![w] = "panicked"]
    BY <1>5 DEF Panic, Goes, Unwrapped
  <2>2. task'[w] = "panicked"
    BY <2>1, TaskFacts DEF FleetInv
  <2> QED BY <2>2 DEF ReadySeen, NoPanic
<1>6. CASE SeedFails
  BY <1>6 DEF SeedFails, ReadySeen
<1>7. CASE Report
  BY <1>7 DEF Report, ReadySeen
<1> QED BY <1>2, <1>3, <1>4, <1>5, <1>6, <1>7, SeedSeen DEF FleetNext

(* What a round of a benchmark reports is its whole backlog, each job      *)
(* once, if it has a task at all: a task may stop at an empty batch while  *)
(* another still holds the last rows, but that other will not stop.        *)
THEOREM ReportsAreComplete ==
  ASSUME HasTasks PROVE FleetSpec => []ReportIsComplete
<1>1. FleetInit => ReadySeen
  BY DEF FleetInit, ReadySeen
<1>2. FleetInv /\ ReadySeen /\ [FleetNext]_fvars => ReadySeen'
  BY SeenStep
<1>3. FleetInv /\ ReadySeen => ReportIsComplete
  <2> SUFFICES ASSUME FleetInv, ReadySeen, AllJoined, Kind # "once"
               PROVE  /\ counter = Cardinality(Seeded)
                      /\ \A j \in Seeded :
                           rows[j].state = IF Kind = "claim" THEN "running" ELSE "done"
    BY DEF ReportIsComplete
  <2>1. TasksInv /\ RoundInv /\ main = "joining"
    BY DEF FleetInv, AllJoined
  <2>2. /\ \A w \in Tasks : task[w] = "ended"
        /\ \A w \in Workers : task[w] \in {"idle", "ended"}
    BY <2>1, AllEnded
  <2>3. NoPanic /\ \A w \in Workers : ~Marking(w)
    BY <2>2 DEF NoPanic, Marking
  <2>4. BacklogOK /\ MarkingOK /\ CountOK
    BY <2>1 DEF RoundInv
  <2>5. \A j \in Rows : rows[j].state # "ready"
    BY <2>1, <2>2, <2>3 DEF ReadySeen, WillSee
  <2>6. Kind \in {"claim", "process", "latency"}
    BY <2>1, Kinds DEF TasksInv
  <2>7. Seeded \subseteq Rows
    <3>1. Backlog[program] \in Visits
      BY <2>1, FleetAssumption DEF TasksInv, FleetTypes
    <3> QED BY <3>1 DEF Visits, Seeded
  <2>8. ASSUME NEW j \in Seeded
        PROVE  rows[j].state = IF Kind = "claim" THEN "running" ELSE "done"
    <3>1. j \in Rows /\ rows[j].state \in {"running", "done"}
      BY <2>4, <2>5, <2>7 DEF BacklogOK
    <3>2. CASE Kind = "claim"
      BY <3>1, <3>2, <2>4 DEF BacklogOK
    <3>3. CASE Kind # "claim"
      BY <3>1, <3>3, <2>3, <2>4, <2>6 DEF MarkingOK
    <3> QED BY <3>2, <3>3
  <2>9. Claimed = Seeded
    BY <2>4, <2>5, <2>7 DEF Claimed, BacklogOK
  <2>10. Pending = {}
    BY <2>3 DEF Pending
  <2>11. counter = Cardinality(Seeded)
    <3>1. PICK S \in SUBSET (Claimed \ Pending) :
            counter = Cardinality(S) /\ S = Claimed \ Pending
      BY <2>3, <2>4 DEF CountOK
    <3>2. S = Seeded
      BY <3>1, <2>9, <2>10
    <3> QED BY <3>1, <3>2
  <2> QED BY <2>8, <2>11
<1> QED BY <1>1, <1>2, <1>3, FleetAlways, PTL DEF FleetSpec

-----------------------------------------------------------------------------
(* Nothing is handed out twice                                             *)

(* What the claims of a round returned is claimed, and is of one task.     *)
GotOK ==
  /\ got \in [Workers -> SUBSET Rows]
  /\ main = "joining" =>
       \A v \in Tasks : /\ got[v] \subseteq Claimed
                        /\ \A w \in Tasks \ {v} : got[v] \cap got[w] = {}

(* No step of a task gives a row back.                                     *)
LEMMA ClaimedStays ==
  ASSUME TasksInv, NEW w \in Workers, TaskStep(w) \/ Panic(w)
  PROVE  Claimed \subseteq Claimed'
<1>1. LocksInv
  BY DEF TasksInv
<1>2. ASSUME Commit(w) PROVE Claimed \subseteq Claimed'
  BY <1>1, <1>2, CommitRows DEF Claimed
<1>3. ASSUME NEW j \in left[w], End(j, "done") PROVE Claimed \subseteq Claimed'
  <2>1. j \in Rows
    BY TaskFacts
  <2> QED BY <1>1, <1>3, <2>1, DoneRows DEF Claimed
<1>4. \/ Commit(w)
      \/ \E j \in left[w] : End(j, "done")
      \/ UNCHANGED rows
  BY DEF TaskStep, StartClaim, Begin, ScanRow, LockRow, TakeBatch, MarkDone,
         Panic, StatementFails, vars
<1> QED BY <1>2, <1>3, <1>4 DEF Claimed

(* A claim adds rows that no claim of the round returned before.           *)
LEMMA GotStep == FleetInv /\ GotOK /\ [FleetNext]_fvars => GotOK'
<1> SUFFICES ASSUME FleetInv, GotOK, [FleetNext]_fvars PROVE GotOK'
  OBVIOUS
<1>1. TasksInv /\ LocksInv /\ FleetTypes
  BY DEF FleetInv, TasksInv
<1>2. ASSUME UNCHANGED <<program, round, got>>, Claimed \subseteq Claimed',
             main' = "joining" => main = "joining"
      PROVE  GotOK'
  <2>1. Tasks' = Tasks
    BY <1>2, SameRound
  <2> QED BY <1>2, <2>1 DEF GotOK
<1>3. ASSUME UNCHANGED rows PROVE Claimed \subseteq Claimed'
  BY <1>3 DEF Claimed
<1>4. CASE UNCHANGED fvars
  BY <1>2, <1>3, <1>4 DEF fvars, fleet, vars
<1>5. CASE Seed
  <2>1. /\ got' = [w \in Workers |-> IF w \in Tasks THEN {} ELSE got[w]]
        /\ UNCHANGED <<program, round>>
    BY <1>5 DEF Seed
  <2>2. Tasks' = Tasks /\ Tasks \subseteq Workers
    BY <1>1, <2>1, SameRound, RoundFacts
  <2> QED BY <2>1, <2>2 DEF GotOK
<1>6. CASE SeedFails
  BY <1>2, <1>3, <1>6 DEF SeedFails, vars
<1>7. CASE Report
  BY <1>7 DEF Report, GotOK
<1>8. ASSUME NEW w \in Workers, Join(w) PROVE GotOK'
  BY <1>2, <1>3, <1>8 DEF Join, Awaited, vars
<1>9. ASSUME NEW w \in Workers, Panic(w) PROVE GotOK'
  BY <1>1, <1>2, <1>9, ClaimedStays DEF Panic
<1>10. ASSUME NEW w \in Workers, StartClaim(w) \/ ScanRow(w) \/ MarkDone(w)
       PROVE  GotOK'
  <2>1. Claimed \subseteq Claimed'
    BY <1>1, <1>10, ClaimedStays DEF TaskStep
  <2> QED BY <1>2, <1>10, <2>1 DEF StartClaim, ScanRow, MarkDone, fleet
<1>11. ASSUME NEW w \in Workers, TakeBatch(w) PROVE GotOK'
  <2> DEFINE taken == Taken(w)
  <2>1. /\ main = "joining" /\ Commit(w)
        /\ got' = [got EXCEPT ![w] = @ \cup taken]
        /\ UNCHANGED <<program, round>>
    BY <1>11 DEF TakeBatch, Runs
  <2>2. /\ taken \subseteq Rows
        /\ \A j \in taken : rows[j].state = "ready" /\ rows'[j].state = "running"
    BY <1>1, <2>1, CommitRows DEF Taken
  <2> HIDE DEF taken
  <2>3. taken \cap Claimed = {} /\ taken \subseteq Claimed'
    BY <2>2 DEF Claimed
  <2>4. Claimed \subseteq Claimed'
    BY <1>1, <1>11, ClaimedStays DEF TaskStep
  <2>5. Tasks' = Tasks /\ Tasks \subseteq Workers
    BY <1>1, <2>1, SameRound, RoundFacts
  <2>6. \A v \in Workers : got'[v] = IF v = w THEN got[w] \cup taken ELSE got[v]
    BY <2>1 DEF GotOK
  <2>7. got' \in [Workers -> SUBSET Rows]
    BY <2>1, <2>2 DEF GotOK
  <2>8. ASSUME NEW v \in Tasks
        PROVE  /\ got'[v] \subseteq Claimed'
               /\ \A u \in Tasks \ {v} : got'[v] \cap got'[u] = {}
    <3>1. \A u \in Tasks : /\ got[u] \subseteq Claimed
                           /\ \A x \in Tasks \ {u} : got[u] \cap got[x] = {}
      BY <2>1 DEF GotOK
    <3>2. got'[v] \subseteq Claimed'
      BY <2>3, <2>4, <2>5, <2>6, <3>1
    <3>3. ASSUME NEW u \in Tasks \ {v} PROVE got'[v] \cap got'[u] = {}
      <4>1. got[v] \cap got[u] = {} /\ got[v] \cap taken = {} /\ got[u] \cap taken = {}
        BY <2>3, <3>1
      <4> QED BY <2>5, <2>6, <4>1
    <3> QED BY <3>2, <3>3
  <2> QED BY <2>5, <2>7, <2>8 DEF GotOK
<1> QED BY <1>4, <1>5, <1>6, <1>7, <1>8, <1>9, <1>10, <1>11 DEF FleetNext, TaskStep

(* "SKIP LOCKED guarantees disjoint batches" (demo_skip_locked.rs), of a   *)
(* whole round: no job is handed to two of its tasks.                      *)
THEOREM NoJobHandedOutTwice == FleetSpec => []BatchesAreDisjoint
<1>1. FleetInit => GotOK
  BY DEF FleetInit, GotOK
<1>2. GotOK => BatchesAreDisjoint
  BY DEF GotOK, BatchesAreDisjoint
<1> QED BY <1>1, <1>2, GotStep, FleetAlways, PTL DEF FleetSpec

(* The demo of the disjoint batches has one round.                         *)
LEMMA OneRound ==
  ASSUME FleetTypes, program = "demo_skip_locked"
  PROVE  ~(round < Len(Rounds[program]))
<1>1. Rounds[program] = <<"once">>
  BY DEF Rounds
<1>2. round \in 1 .. Len(Rounds[program])
  BY DEF FleetTypes
<1> QED BY <1>1, <1>2

(* So the assertion of demo_skip_locked never fails.                       *)
THEOREM DemoIsNotRefuted ==
  FleetSpec => [](main = "assertion failed" => program = "demo_fairness")
<1> DEFINE Quiet == \A w \in Workers : program = "demo_skip_locked" /\ w \notin Tasks => got[w] = {}
           Held == main = "assertion failed" => program = "demo_fairness"
<1>1. FleetInit => Quiet /\ Held
  BY DEF FleetInit
<1>2. FleetInv /\ GotOK /\ Quiet /\ Held /\ [FleetNext]_fvars => (Quiet /\ Held)'
  <2> SUFFICES ASSUME FleetInv, GotOK, Quiet, Held, [FleetNext]_fvars PROVE (Quiet /\ Held)'
    OBVIOUS
  <2>1. TasksInv /\ FleetTypes
    BY DEF FleetInv, TasksInv
  <2>2. program' = program
    BY DEF FleetNext, Seed, SeedFails, Join, Report, TaskStep, StartClaim, ScanRow,
           TakeBatch, MarkDone, Panic, fvars, vars, fleet
  <2>3. CASE Report
    <3>1. Held'
      <4> SUFFICES ASSUME main' = "assertion failed", program # "demo_fairness" PROVE FALSE
        BY <2>2
      <4>1. main = "joining" /\ program = "demo_skip_locked" /\ Overlap # {}
        BY <2>3 DEF Report, AllJoined, Asserts
      <4>2. PICK v, w \in Workers : v # w /\ got[v] \cap got[w] # {}
        BY <4>1 DEF Overlap
      <4>3. v \in Tasks /\ w \in Tasks
        BY <4>1, <4>2
      <4> QED BY <4>1, <4>2, <4>3 DEF GotOK
    <3>2. ASSUME program = "demo_skip_locked" PROVE round' = round
      <4>1. ~(round < Len(Rounds[program]))
        BY <2>1, <3>2, OneRound
      <4> QED BY <4>1, <2>3 DEF Report
    <3>3. Quiet'
      <4>1. program = "demo_skip_locked" => Tasks' = Tasks
        BY <3>2, <2>2, SameRound
      <4>2. got' = got
        BY <2>3 DEF Report
      <4> QED BY <4>1, <4>2, <2>2
    <3> QED BY <3>1, <3>3
  <2>4. CASE ~Report
    <3>1. round' = round /\ (main' = "assertion failed" => main = "assertion failed")
      BY <2>4 DEF FleetNext, Seed, SeedFails, Join, TaskStep, StartClaim, ScanRow,
             TakeBatch, MarkDone, Panic, fvars, vars, fleet
    <3>2. Tasks' = Tasks
      BY <3>1, <2>2, SameRound
    <3>3. \A w \in Workers : w \notin Tasks => got'[w] = got[w]
      <4>1. ASSUME NEW w \in Workers, TakeBatch(w) PROVE \A v \in Workers \ {w} : got'[v] = got[v]
        BY <4>1 DEF TakeBatch, GotOK
      <4>2. ASSUME NEW w \in Workers, TakeBatch(w) PROVE w \in Tasks
        BY <4>2, <2>1 DEF TakeBatch, Runs, TasksInv, TasksOK
      <4>3. Seed => \A w \in Workers : w \notin Tasks => got'[w] = got[w]
        BY DEF Seed
      <4>4. \/ Seed \/ got' = got \/ \E w \in Workers : TakeBatch(w)
        BY <2>4 DEF FleetNext, SeedFails, Join, TaskStep, StartClaim, ScanRow,
             MarkDone, Panic, fvars, vars, fleet
      <4> QED BY <4>1, <4>2, <4>3, <4>4
    <3> QED BY <3>1, <3>2, <3>3, <2>2
  <2> QED BY <2>3, <2>4
<1>3. FleetInit => GotOK
  BY DEF FleetInit, GotOK
<1>4. Quiet /\ Held => (main = "assertion failed" => program = "demo_fairness")
  OBVIOUS
<1> HIDE DEF Quiet, Held
<1> QED BY <1>1, <1>2, <1>3, <1>4, GotStep, FleetAlways, PTL DEF FleetSpec
=============================================================================
