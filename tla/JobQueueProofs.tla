---------------------------- MODULE JobQueueProofs ----------------------------
(***************************************************************************)
(* Theorems about JobQueue, for any number of jobs, workers and attempts,  *)
(* any batch, any lease and any backoff cap.                               *)
(***************************************************************************)
EXTENDS JobQueue, TLAPS

-----------------------------------------------------------------------------
(* What the helpers return.                                                *)

(* The backoff is a whole number of ticks, whatever the attempts are.      *)
LEMMA BackoffType == ASSUME NEW n PROVE Backoff(n) \in Nat
  BY QueueAssumption, Z3 DEF Backoff

(* The row that stands for no row, and the row an INSERT makes.            *)
LEMMA NoRowType == NoRow \in Row
  BY QueueAssumption DEF NoRow, Row

(* A new row is ready, unowned and not attempted yet.                      *)
LEMMA NewRowType ==
  ASSUME NEW delay \in Nat
  PROVE  /\ NewRow(delay) \in Row
         /\ NewRow(delay).state = "ready"
         /\ NewRow(delay).locked_by = NoWorker
         /\ NewRow(delay).attempts = 0
  BY QueueAssumption DEF NewRow, Row

(* What the SET clauses of the statements make of a row.                   *)
LEMMA UnlockedType ==
  ASSUME NEW row \in Row
  PROVE  /\ Unlocked(row) \in Row
         /\ Unlocked(row).state = "ready"
         /\ Unlocked(row).locked_by = NoWorker
         /\ Unlocked(row).attempts = row.attempts
<1> DEFINE r1 == [row EXCEPT !.state = "ready"]
           r2 == [r1 EXCEPT !.age = 0]
<1>1. r1 \in Row /\ r1.state = "ready" /\ r1.attempts = row.attempts
  BY DEF Row
<1> HIDE DEF r1
<1>2. r2 \in Row /\ r2.state = "ready" /\ r2.attempts = row.attempts
  BY <1>1, QueueAssumption DEF Row
<1> HIDE DEF r2
<1>3. Unlocked(row) = [r2 EXCEPT !.locked_by = NoWorker]
  BY DEF Unlocked, r1, r2
<1> QED BY <1>2, <1>3 DEF Row

(* mark_done makes a row done and unowned, and keeps its attempts.         *)
LEMMA CompletedType ==
  ASSUME NEW row \in Row
  PROVE  /\ Completed(row) \in Row
         /\ Completed(row).state = "done"
         /\ Completed(row).locked_by = NoWorker
         /\ Completed(row).attempts = row.attempts
<1> DEFINE r1 == [row EXCEPT !.state = "done"]
           r2 == [r1 EXCEPT !.age = 0]
<1>1. r1 \in Row /\ r1.state = "done" /\ r1.attempts = row.attempts
  BY DEF Row
<1> HIDE DEF r1
<1>2. r2 \in Row /\ r2.state = "done" /\ r2.attempts = row.attempts
  BY <1>1, QueueAssumption DEF Row
<1> HIDE DEF r2
<1>3. Completed(row) = [r2 EXCEPT !.locked_by = NoWorker]
  BY DEF Completed, r1, r2
<1> QED BY <1>2, <1>3 DEF Row

(* The claim makes a row running, owned, fresh, one attempt further: a row *)
(* of the table as long as it had an attempt left.                         *)
LEMMA ClaimedType ==
  ASSUME NEW row \in Row, NEW w \in Workers, row.attempts < MaxAttempts
  PROVE  /\ Claimed(row, w) \in Row
         /\ Claimed(row, w).state = "running"
         /\ Claimed(row, w).age = 0
         /\ Claimed(row, w).locked_by = w
         /\ Claimed(row, w).attempts = row.attempts + 1
<1> DEFINE r1 == [row EXCEPT !.state = "running"]
           r2 == [r1 EXCEPT !.age = 0]
           r3 == [r2 EXCEPT !.locked_by = w]
<1>1. r1 \in Row /\ r1.state = "running" /\ r1.attempts = row.attempts
  BY DEF Row
<1> HIDE DEF r1
<1>2. /\ r2 \in Row /\ r2.state = "running" /\ r2.age = 0
      /\ r2.attempts = row.attempts
  BY <1>1, QueueAssumption DEF Row
<1> HIDE DEF r2
<1>3. /\ r3 \in Row /\ r3.state = "running" /\ r3.age = 0
      /\ r3.locked_by = w /\ r3.attempts = row.attempts
  BY <1>2 DEF Row
<1> HIDE DEF r3
<1>4. Claimed(row, w) = [r3 EXCEPT !.attempts = @ + 1]
  BY DEF Claimed, r1, r2, r3
<1>5. row.attempts + 1 \in 0 .. MaxAttempts
  BY QueueAssumption DEF Row
<1> QED BY <1>3, <1>4, <1>5 DEF Row

(* The clock changes no state, owner or attempts of a row, and ages it by  *)
(* one tick at most.                                                       *)
LEMMA AgedType ==
  ASSUME NEW row \in Row
  PROVE  /\ Aged(row) \in Row
         /\ Aged(row).state = row.state
         /\ Aged(row).locked_by = row.locked_by
         /\ Aged(row).attempts = row.attempts
         /\ Aged(row).age <= row.age + 1
<1> DEFINE wait == IF row.wait = 0 THEN 0 ELSE row.wait - 1
           age  == IF row.locked_by = NoWorker \/ row.age = Lease + 1
                   THEN row.age ELSE row.age + 1
           r1   == [row EXCEPT !.wait = wait]
<1>1. /\ wait \in Nat
      /\ age \in 0 .. Lease + 1 /\ age <= row.age + 1
  BY QueueAssumption DEF Row
<1>2. Aged(row) = [r1 EXCEPT !.age = age]
  BY DEF Aged
<1> HIDE DEF wait, age
<1>3. /\ r1 \in Row
      /\ r1.state = row.state /\ r1.locked_by = row.locked_by
      /\ r1.attempts = row.attempts
  BY <1>1 DEF Row
<1> HIDE DEF r1
<1> QED BY <1>1, <1>2, <1>3 DEF Row

-----------------------------------------------------------------------------
(* The tables, whatever the workers do.                                    *)

(* The inductive invariant: types alone are not inductive, because a claim *)
(* adds one to attempts without looking at max_attempts.                   *)
TablesOK == TypeOK /\ AttemptBudget /\ LockedWhileRunning

RowOK(row) ==
  /\ row \in Row
  /\ row.state = "ready" => row.attempts < MaxAttempts
  /\ row.state = "running" <=> row.locked_by # NoWorker

(* The invariant of the tables, row by row.                                *)
LEMMA TablesOKByRow ==
  TablesOK <=> /\ jobs = [j \in Jobs |-> jobs[j]]
               /\ \A j \in Jobs : RowOK(jobs[j])
               /\ jobs_dead \in [Jobs -> Nat]
               /\ exec \subseteq Execution
  BY DEF TablesOK, TypeOK, AttemptBudget, LockedWhileRunning, RowOK

(* What is left to show of a step: that each row it writes is all right.   *)
LEMMA TablesOKByRowNext ==
  ASSUME jobs' = [j \in Jobs |-> jobs'[j]],
         \A j \in Jobs : RowOK(jobs'[j]),
         jobs_dead' \in [Jobs -> Nat],
         exec' \subseteq Execution
  PROVE  TablesOK'
  BY DEF TablesOK, TypeOK, AttemptBudget, LockedWhileRunning, RowOK

(* The empty tables satisfy the invariant.                                 *)
LEMMA TablesInit == Init => TablesOK
<1> SUFFICES ASSUME Init PROVE TablesOK
  OBVIOUS
<1>1. RowOK(NoRow)
  BY NoRowType, QueueAssumption DEF RowOK, NoRow
<1> QED BY <1>1, TablesOKByRow DEF Init

(* A step that leaves the rows and the dead letters alone.                 *)
LEMMA TablesSameRows ==
  ASSUME TablesOK, UNCHANGED <<jobs, jobs_dead>>, exec' \subseteq Execution
  PROVE  TablesOK'
  BY DEF TablesOK, TypeOK, AttemptBudget, LockedWhileRunning

(* Every statement, crash and tick preserves the invariant of the tables.  *)
LEMMA TablesStep == TablesOK /\ [Next]_vars => TablesOK'
<1> SUFFICES ASSUME TablesOK, [Next]_vars PROVE TablesOK'
  OBVIOUS
<1>0. /\ jobs = [j \in Jobs |-> jobs[j]]
      /\ \A j \in Jobs : RowOK(jobs[j])
      /\ jobs_dead \in [Jobs -> Nat]
      /\ exec \subseteq Execution
  BY TablesOKByRow
<1>1. ASSUME NEW j \in Jobs, NEW delay \in Delays, enqueue(j, delay)
      PROVE  TablesOK'
  <2>1. RowOK(NewRow(delay))
    BY NewRowType, QueueAssumption DEF RowOK
  <2> QED BY <1>0, <1>1, <2>1, TablesOKByRowNext DEF enqueue
<1>2. ASSUME NEW w \in Workers, NEW claimed \in SUBSET Jobs,
             claim_batch(w, claimed)
      PROVE  TablesOK'
  <2>1. \A j \in claimed : jobs[j].state = "ready" /\ jobs[j].attempts < MaxAttempts
    BY <1>0, <1>2 DEF claim_batch, Due, RowOK
  <2>2. \A j \in Jobs : RowOK(IF j \in claimed THEN Claimed(jobs[j], w) ELSE jobs[j])
    BY <1>0, <2>1, ClaimedType, QueueAssumption DEF RowOK
  <2>3. jobs' = [j \in Jobs |-> IF j \in claimed THEN Claimed(jobs[j], w) ELSE jobs[j]]
    BY <1>2 DEF claim_batch
  <2>4. exec' \subseteq Execution
    <3>0. \A j \in Jobs : jobs[j].attempts \in 0 .. MaxAttempts
      BY <1>0 DEF RowOK, Row
    <3>1. \A j \in claimed : jobs[j].attempts + 1 \in 1 .. MaxAttempts
      BY <1>2, <2>1, <3>0, QueueAssumption
    <3>2. {[job |-> j, worker |-> w, phase |-> "handling",
            attempt |-> jobs[j].attempts + 1] : j \in claimed}
          \subseteq Execution
      BY <3>1 DEF Execution
    <3> QED BY <1>0, <1>2, <3>2 DEF claim_batch
  <2> QED BY <1>0, <1>2, <2>2, <2>3, <2>4, TablesOKByRowNext DEF claim_batch
<1>3. ASSUME NEW w \in Workers, NEW ids \in SUBSET Jobs, heartbeat(w, ids)
      PROVE  TablesOK'
  <2>1. \A j \in Jobs : RowOK([jobs[j] EXCEPT !.age = 0])
    BY <1>0, QueueAssumption DEF RowOK, Row
  <2>2. jobs' = [j \in Jobs |-> IF j \in Held(w, ids)
                                THEN [jobs[j] EXCEPT !.age = 0] ELSE jobs[j]]
    BY <1>3 DEF heartbeat
  <2>3. \A j \in Jobs : RowOK(jobs'[j])
    BY <1>0, <2>1, <2>2
  <2>4. exec' \subseteq Execution /\ UNCHANGED jobs_dead
    BY <1>0, <1>3 DEF heartbeat
  <2> QED BY <1>0, <2>2, <2>3, <2>4, TablesOKByRowNext
<1>4. ASSUME NEW e \in exec, mark_done(e)
      PROVE  TablesOK'
  <2>1. e.job \in Jobs
    BY <1>0 DEF Execution
  <2>2. RowOK(Completed(jobs[e.job]))
    BY <1>0, <2>1, CompletedType DEF RowOK
  <2>3. exec' \subseteq Execution /\ UNCHANGED jobs_dead
    BY <1>0, <1>4 DEF mark_done
  <2>4. CASE jobs' = jobs
    BY <2>3, <2>4, TablesSameRows
  <2>5. CASE jobs' = [jobs EXCEPT ![e.job] = Completed(jobs[e.job])]
    BY <1>0, <2>2, <2>3, <2>5, TablesOKByRowNext
  <2> QED BY <1>4, <2>4, <2>5 DEF mark_done
<1>5. ASSUME NEW e \in exec, requeue(e)
      PROVE  TablesOK'
  <2>1. e.job \in Jobs
    BY <1>0 DEF Execution
  <2>2. CASE Requeueable(e.job)
    <3> DEFINE row == Unlocked(jobs[e.job])
               new == [row EXCEPT !.wait = Backoff(jobs[e.job].attempts)]
    <3>1. /\ row \in Row /\ row.state = "ready" /\ row.locked_by = NoWorker
          /\ row.attempts < MaxAttempts
      BY <1>0, <2>1, <2>2, UnlockedType DEF RowOK, Requeueable
    <3>2. jobs' = [jobs EXCEPT ![e.job] = new]
      BY <1>5, <2>2 DEF requeue
    <3> HIDE DEF row
    <3>3. RowOK(new)
      BY <3>1, BackoffType DEF RowOK, Row
    <3> HIDE DEF new
    <3>4. exec' \subseteq Execution /\ UNCHANGED jobs_dead
      BY <1>0, <1>5, <2>2 DEF requeue
    <3> QED BY <1>0, <3>2, <3>3, <3>4, TablesOKByRowNext
  <2>3. CASE ~Requeueable(e.job)
    <3>1. [e EXCEPT !.phase = "exhausted"] \in Execution
      BY <1>0 DEF Execution
    <3>2. exec' \subseteq Execution /\ UNCHANGED <<jobs, jobs_dead>>
      BY <1>0, <1>5, <2>3, <3>1 DEF requeue
    <3> QED BY <3>2, TablesSameRows
  <2> QED BY <2>2, <2>3
<1>6. ASSUME NEW e \in exec, dead_letter(e)
      PROVE  TablesOK'
  <2>1. e.job \in Jobs /\ exec' \subseteq Execution
    BY <1>0, <1>6 DEF Execution, dead_letter
  <2>2. RowOK(NoRow)
    BY NoRowType, QueueAssumption DEF RowOK, NoRow
  <2>3. CASE UNCHANGED <<jobs, jobs_dead>>
    BY <2>1, <2>3, TablesSameRows
  <2>4. CASE /\ jobs' = [jobs EXCEPT ![e.job] = NoRow]
             /\ jobs_dead' = [jobs_dead EXCEPT ![e.job] = @ + 1]
    BY <1>0, <2>1, <2>2, <2>4, TablesOKByRowNext
  <2> QED BY <1>6, <2>3, <2>4 DEF dead_letter
<1>7. ASSUME NEW e \in exec, Abandon(e)
      PROVE  TablesOK'
  BY <1>0, <1>7, TablesSameRows DEF Abandon
<1>8. ASSUME NEW w \in Workers, Crash(w)
      PROVE  TablesOK'
  BY <1>0, <1>8, TablesSameRows DEF Crash
<1>9. CASE reap
  <2>1. \A j \in Expired : jobs[j].attempts < MaxAttempts
    BY DEF Expired
  <2>2. \A j \in Jobs : RowOK(IF j \in Expired THEN Unlocked(jobs[j]) ELSE jobs[j])
    BY <1>0, <2>1, UnlockedType DEF RowOK
  <2> QED BY <1>0, <1>9, <2>2, TablesOKByRowNext DEF reap
<1>10. CASE Tick
  <2>1. \A j \in Jobs : RowOK(Aged(jobs[j]))
    BY <1>0, AgedType DEF RowOK
  <2> QED BY <1>0, <1>10, <2>1, TablesOKByRowNext DEF Tick
<1>11. CASE UNCHANGED vars
  BY <1>0, <1>11, TablesSameRows DEF vars
<1> QED BY <1>1, <1>2, <1>3, <1>4, <1>5, <1>6, <1>7, <1>8, <1>9, <1>10, <1>11
    DEF Next

(* The columns always hold what the schema and the statements let them     *)
(* hold, attempts <= max_attempts included.                                *)
THEOREM TypeCorrect == Spec => []TypeOK
<1>1. TablesOK => TypeOK
  BY DEF TablesOK
<1> QED BY <1>1, TablesInit, TablesStep, PTL DEF Spec

(* No exhausted row is ever claimable: requeue and reap, stale or not,     *)
(* keep the budget that the claim itself does not check.                   *)
THEOREM BudgetKept == Spec => []AttemptBudget
<1>1. TablesOK => AttemptBudget
  BY DEF TablesOK
<1> QED BY <1>1, TablesInit, TablesStep, PTL DEF Spec

(* A row has an owner exactly while it is running.                         *)
THEOREM OwnerWhileRunning == Spec => []LockedWhileRunning
<1>1. TablesOK => LockedWhileRunning
  BY DEF TablesOK
<1> QED BY <1>1, TablesInit, TablesStep, PTL DEF Spec

-----------------------------------------------------------------------------
(* A job is never lost and never copied.                                   *)

(* A step that makes and removes no row leaves every job where it is.      *)
LEMMA SamePlaces ==
  ASSUME jobs_dead' = jobs_dead,
         \A j \in Jobs : jobs'[j].state = "absent" <=> jobs[j].state = "absent"
  PROVE  \A j \in Jobs : Places(j)' = Places(j)
  BY DEF Places

(* Every step leaves a job that is in one place in one place.              *)
LEMMA PlacesStep ==
  ASSUME TablesOK, Next
  PROVE  \A j \in Jobs : Places(j) = 1 => Places(j)' = 1
<1>0. /\ jobs = [j \in Jobs |-> jobs[j]]
      /\ \A j \in Jobs : jobs[j] \in Row
      /\ jobs_dead \in [Jobs -> Nat]
      /\ exec \subseteq Execution
  BY DEF TablesOK, TypeOK
<1>1. ASSUME NEW i \in Jobs, NEW delay \in Delays, enqueue(i, delay)
      PROVE  \A j \in Jobs : Places(j) = 1 => Places(j)' = 1
  BY <1>0, <1>1 DEF enqueue, Places
<1>2. ASSUME NEW w \in Workers, NEW claimed \in SUBSET Jobs,
             claim_batch(w, claimed)
      PROVE  \A j \in Jobs : Places(j)' = Places(j)
  <2>1. \A j \in claimed : jobs[j].state = "ready" /\ jobs[j].attempts < MaxAttempts
    BY <1>2 DEF claim_batch, Due, TablesOK, AttemptBudget
  <2>2. \A j \in claimed : Claimed(jobs[j], w).state = "running"
    BY <1>0, <2>1, ClaimedType
  <2> QED BY <1>2, <2>1, <2>2, SamePlaces DEF claim_batch
<1>3. ASSUME NEW w \in Workers, NEW ids \in SUBSET Jobs, heartbeat(w, ids)
      PROVE  \A j \in Jobs : Places(j)' = Places(j)
  <2>1. \A j \in Jobs : [jobs[j] EXCEPT !.age = 0].state = jobs[j].state
    BY <1>0 DEF Row
  <2>2. \A j \in Jobs : jobs'[j].state = jobs[j].state
    BY <1>3, <2>1 DEF heartbeat
  <2> QED BY <1>3, <2>2, SamePlaces DEF heartbeat
<1>4. ASSUME NEW e \in exec, mark_done(e)
      PROVE  \A j \in Jobs : Places(j)' = Places(j)
  <2>1. e.job \in Jobs /\ Completed(jobs[e.job]).state = "done"
    BY <1>0, CompletedType DEF Execution
  <2> QED BY <1>0, <1>4, <2>1, SamePlaces DEF mark_done
<1>5. ASSUME NEW e \in exec, requeue(e)
      PROVE  \A j \in Jobs : Places(j)' = Places(j)
  <2> DEFINE row == Unlocked(jobs[e.job])
             new == [row EXCEPT !.wait = Backoff(jobs[e.job].attempts)]
  <2>1. e.job \in Jobs /\ row \in Row /\ row.state = "ready"
    BY <1>0, UnlockedType DEF Execution
  <2>2. \/ /\ jobs[e.job].state # "absent"
           /\ jobs' = [jobs EXCEPT ![e.job] = new]
        \/ jobs' = jobs
    BY <1>5 DEF requeue, Requeueable
  <2> HIDE DEF row
  <2>3. new.state = "ready"
    BY <2>1 DEF Row
  <2> HIDE DEF new
  <2>4. jobs_dead' = jobs_dead
    BY <1>5 DEF requeue
  <2> QED BY <1>0, <2>1, <2>2, <2>3, <2>4, SamePlaces
<1>6. ASSUME NEW e \in exec, dead_letter(e)
      PROVE  \A j \in Jobs : Places(j) = 1 => Places(j)' = 1
  <2>1. NoRow.state = "absent" /\ e.job \in Jobs
    BY <1>0 DEF NoRow, Execution
  <2>2. CASE UNCHANGED <<jobs, jobs_dead>>
    BY <2>2, SamePlaces
  <2>3. CASE /\ jobs[e.job].state # "absent"
             /\ jobs' = [jobs EXCEPT ![e.job] = NoRow]
             /\ jobs_dead' = [jobs_dead EXCEPT ![e.job] = @ + 1]
    BY <1>0, <2>1, <2>3 DEF Places
  <2> QED BY <1>6, <2>2, <2>3 DEF dead_letter
<1>7. ASSUME UNCHANGED <<jobs, jobs_dead>>
      PROVE  \A j \in Jobs : Places(j)' = Places(j)
  BY <1>7, SamePlaces
<1>8. ASSUME reap
      PROVE  \A j \in Jobs : Places(j)' = Places(j)
  <2>1. \A j \in Expired : jobs[j].state = "running"
    BY DEF Expired
  <2>2. \A j \in Jobs : Unlocked(jobs[j]).state = "ready"
    BY <1>0, UnlockedType
  <2> QED BY <1>8, <2>1, <2>2, SamePlaces DEF reap
<1>9. ASSUME Tick
      PROVE  \A j \in Jobs : Places(j)' = Places(j)
  <2>1. \A j \in Jobs : Aged(jobs[j]).state = jobs[j].state
    BY <1>0, AgedType
  <2> QED BY <1>9, <2>1, SamePlaces DEF Tick
<1> QED BY <1>1, <1>2, <1>3, <1>4, <1>5, <1>6, <1>7, <1>8, <1>9
    DEF Next, Abandon, Crash

(* From the moment it is enqueued, a job is in jobs or in jobs_dead, and   *)
(* once: no interleaving of stale handlers with the reaper, with other     *)
(* claims or with each other loses it, or leaves two copies of it.         *)
THEOREM Conservation == Spec => JobConserved
<1>1. TablesOK /\ [Next]_vars
      => [\A j \in Jobs : Places(j) = 1 => Places(j)' = 1]_vars
  BY PlacesStep
<1> QED BY <1>1, TablesInit, TablesStep, PTL DEF Spec, JobConserved

-----------------------------------------------------------------------------
(* Attempt numbers as claim tokens, whatever the workers do.               *)

(* A handler without a row means that the row went to jobs_dead: so its    *)
(* job is never enqueued again, with attempts starting over.               *)
NoHandlerUnborn ==
  \A e \in exec : jobs[e.job].state = "absent" => jobs_dead[e.job] # 0

TokenInv == TablesOK /\ ClaimTokens /\ NoHandlerUnborn

(* No one handles anything at first.                                       *)
LEMMA TokenInit == Init => TokenInv
  BY TablesInit DEF TokenInv, Init, ClaimTokens, NoHandlerUnborn

(* What a statement other than the claim may do to the row of a handled    *)
(* job: move it to jobs_dead, or keep its attempts, and keep its owner if  *)
(* it leaves it running.                                                   *)
KeepsTokens(j) ==
  \/ jobs'[j].state = "absent" /\ jobs_dead'[j] # 0
  \/ /\ jobs'[j].state # "absent" /\ jobs[j].state # "absent"
     /\ jobs'[j].attempts = jobs[j].attempts
     /\ jobs'[j].state = "running" => /\ jobs[j].state = "running"
                                      /\ jobs'[j].locked_by = jobs[j].locked_by

(* Such a statement, which starts no handler, preserves the tokens.        *)
LEMMA TokensKept ==
  ASSUME TokenInv, exec' \subseteq exec,
         \A e \in exec : KeepsTokens(e.job)
  PROVE  ClaimTokens' /\ NoHandlerUnborn'
<1>1. \A e \in exec' : KeepsTokens(e.job)
  OBVIOUS
<1> QED BY <1>1 DEF TokenInv, ClaimTokens, NoHandlerUnborn, KeepsTokens

(* Every step preserves the tokens, the claim included, which makes a new  *)
(* one.                                                                    *)
LEMMA TokenStep == TokenInv /\ [Next]_vars => TokenInv'
<1> SUFFICES ASSUME TokenInv, [Next]_vars
             PROVE  ClaimTokens' /\ NoHandlerUnborn'
  BY TablesStep DEF TokenInv
<1>0. /\ jobs = [j \in Jobs |-> jobs[j]]
      /\ \A j \in Jobs : jobs[j] \in Row
      /\ jobs_dead \in [Jobs -> Nat]
      /\ exec \subseteq Execution
      /\ \A e \in exec : e.job \in Jobs
      /\ \A e \in exec : jobs[e.job].state = "absent" => jobs_dead[e.job] # 0
  BY DEF TokenInv, TablesOK, TypeOK, NoHandlerUnborn, Execution
<1>s. ASSUME NEW j \in Jobs, jobs'[j] = jobs[j], jobs_dead'[j] = jobs_dead[j],
             jobs[j].state = "absent" => jobs_dead[j] # 0
      PROVE  KeepsTokens(j)
  BY <1>s DEF KeepsTokens
<1>1. ASSUME NEW i \in Jobs, NEW delay \in Delays, enqueue(i, delay)
      PROVE  ClaimTokens' /\ NoHandlerUnborn'
  <2>1. \A e \in exec : e.job # i
    BY <1>0, <1>1 DEF enqueue
  <2>2. \A e \in exec : KeepsTokens(e.job)
    BY <1>0, <1>s, <1>1, <2>1 DEF enqueue
  <2> QED BY <1>1, <2>2, TokensKept DEF enqueue
<1>2. ASSUME NEW w \in Workers, NEW claimed \in SUBSET Jobs,
             claim_batch(w, claimed)
      PROVE  ClaimTokens' /\ NoHandlerUnborn'
  <2>1. \A j \in claimed : jobs[j].state = "ready" /\ jobs[j].attempts < MaxAttempts
    BY <1>2 DEF claim_batch, Due, TokenInv, TablesOK, AttemptBudget
  <2>2. \A j \in claimed : jobs'[j] = Claimed(jobs[j], w)
    BY <1>2 DEF claim_batch
  <2>3. \A j \in claimed : /\ jobs'[j].state = "running"
                           /\ jobs'[j].locked_by = w
                           /\ jobs'[j].attempts = jobs[j].attempts + 1
    BY <1>0, <2>1, <2>2, ClaimedType
  <2>4. \A j \in Jobs \ claimed : jobs'[j] = jobs[j]
    BY <1>2 DEF claim_batch
  <2>5. jobs_dead' = jobs_dead
    BY <1>2 DEF claim_batch
  <2>6. \A e \in exec' :
          \/ e \in exec
          \/ /\ e.job \in claimed /\ e.worker = w
             /\ e.attempt = jobs[e.job].attempts + 1
             /\ e.phase = "handling"
    BY <1>2 DEF claim_batch
  <2>7. \A e \in exec' : e \in Execution
    BY TablesStep DEF TokenInv, TablesOK, TypeOK
  <2>8. \A j \in Jobs : jobs[j].attempts \in Nat
    BY <1>0, QueueAssumption DEF Row
  <2>9. \A e \in exec : /\ e.attempt \in Nat
                        /\ e.job \in claimed => e.attempt < jobs[e.job].attempts + 1
    <3>1. \A e \in exec : e.attempt \in Nat
      BY <1>0, QueueAssumption DEF Execution
    <3>2. \A e \in exec : jobs[e.job].state # "absent"
                           => e.attempt <= jobs[e.job].attempts
      BY DEF TokenInv, ClaimTokens
    <3>3. \A e \in exec : e.job \in claimed => e.attempt <= jobs[e.job].attempts
      BY <2>1, <3>2
    <3> QED BY <1>0, <2>8, <3>1, <3>3
  <2>10. NoHandlerUnborn'
    <3> SUFFICES ASSUME NEW e \in exec', jobs'[e.job].state = "absent"
                 PROVE  jobs_dead'[e.job] # 0
      BY DEF NoHandlerUnborn
    <3> QED BY <1>0, <2>3, <2>4, <2>5, <2>6
  <2>11. ASSUME NEW e \in exec', NEW f \in exec', e.job = f.job,
                e.attempt = f.attempt
         PROVE  e = f
    <3>1. CASE e \in exec /\ f \in exec
      BY <2>11, <3>1 DEF TokenInv, ClaimTokens
    <3>2. CASE e \in exec /\ f \notin exec
      BY <2>6, <2>8, <2>9, <2>11, <3>2, <1>0
    <3>3. CASE e \notin exec /\ f \in exec
      BY <2>6, <2>8, <2>9, <2>11, <3>3, <1>0
    <3>4. CASE e \notin exec /\ f \notin exec
      BY <2>6, <2>7, <2>11, <3>4 DEF Execution
    <3> QED BY <3>1, <3>2, <3>3, <3>4
  <2>12. ASSUME NEW e \in exec'
         PROVE  /\ jobs'[e.job].state # "absent"
                   => e.attempt <= jobs'[e.job].attempts
                /\ /\ jobs'[e.job].state = "running"
                   /\ jobs'[e.job].attempts = e.attempt
                   => jobs'[e.job].locked_by = e.worker
    <3>1. CASE e \notin exec
      BY <2>3, <2>6, <2>8, <3>1
    <3>2. CASE e \in exec /\ e.job \in claimed
      <4>1. /\ jobs'[e.job].attempts = jobs[e.job].attempts + 1
            /\ jobs[e.job].attempts \in Nat
        BY <1>0, <2>3, <2>8, <3>2
      <4>2. e.attempt \in Nat /\ e.attempt < jobs[e.job].attempts + 1
        BY <2>9, <3>2
      <4> QED BY <4>1, <4>2
    <3>3. CASE e \in exec /\ e.job \notin claimed
      BY <1>0, <2>4, <3>3 DEF TokenInv, ClaimTokens
    <3> QED BY <3>1, <3>2, <3>3
  <2> QED BY <2>10, <2>11, <2>12 DEF ClaimTokens
<1>3. ASSUME NEW w \in Workers, NEW ids \in SUBSET Jobs, heartbeat(w, ids)
      PROVE  ClaimTokens' /\ NoHandlerUnborn'
  <2>1. \A j \in Jobs : LET new == [jobs[j] EXCEPT !.age = 0]
                        IN  /\ new.state = jobs[j].state
                            /\ new.locked_by = jobs[j].locked_by
                            /\ new.attempts = jobs[j].attempts
    BY <1>0 DEF Row
  <2>2. \A j \in Jobs : /\ jobs'[j].state = jobs[j].state
                        /\ jobs'[j].locked_by = jobs[j].locked_by
                        /\ jobs'[j].attempts = jobs[j].attempts
    BY <1>3, <2>1 DEF heartbeat
  <2>3. exec' \subseteq exec /\ jobs_dead' = jobs_dead
    BY <1>3 DEF heartbeat
  <2>4. \A e \in exec : KeepsTokens(e.job)
    BY <1>0, <2>2, <2>3 DEF KeepsTokens
  <2> QED BY <2>3, <2>4, TokensKept
<1>4. ASSUME NEW e \in exec, mark_done(e)
      PROVE  ClaimTokens' /\ NoHandlerUnborn'
  <2>1. /\ Completed(jobs[e.job]).state = "done"
        /\ Completed(jobs[e.job]).attempts = jobs[e.job].attempts
    BY <1>0, CompletedType
  <2>2. exec' \subseteq exec /\ jobs_dead' = jobs_dead
    BY <1>4 DEF mark_done
  <2>3. \/ jobs' = jobs
        \/ /\ jobs[e.job].state # "absent"
           /\ jobs' = [jobs EXCEPT ![e.job] = Completed(jobs[e.job])]
    BY <1>4 DEF mark_done
  <2>4. \A f \in exec : KeepsTokens(f.job)
    BY <1>0, <1>s, <2>1, <2>2, <2>3 DEF KeepsTokens
  <2> QED BY <2>2, <2>4, TokensKept
<1>5. ASSUME NEW e \in exec, requeue(e), Requeueable(e.job)
      PROVE  ClaimTokens' /\ NoHandlerUnborn'
  <2> DEFINE row == Unlocked(jobs[e.job])
             new == [row EXCEPT !.wait = Backoff(jobs[e.job].attempts)]
  <2>1. /\ row \in Row /\ row.state = "ready"
        /\ row.attempts = jobs[e.job].attempts
    BY <1>0, UnlockedType
  <2>2. jobs' = [jobs EXCEPT ![e.job] = new] /\ jobs[e.job].state # "absent"
    BY <1>5 DEF requeue, Requeueable
  <2> HIDE DEF row
  <2>3. new.state = "ready" /\ new.attempts = jobs[e.job].attempts
    BY <2>1 DEF Row
  <2> HIDE DEF new
  <2>4. exec' \subseteq exec /\ jobs_dead' = jobs_dead
    BY <1>5 DEF requeue
  <2>5. \A f \in exec : KeepsTokens(f.job)
    BY <1>0, <1>s, <2>2, <2>3, <2>4 DEF KeepsTokens
  <2> QED BY <2>4, <2>5, TokensKept
<1>6. ASSUME NEW e \in exec, requeue(e), ~Requeueable(e.job)
      PROVE  ClaimTokens' /\ NoHandlerUnborn'
  <2> DEFINE x == [e EXCEPT !.phase = "exhausted"]
  <2>1. x.job = e.job /\ x.worker = e.worker /\ x.attempt = e.attempt
    BY <1>0 DEF Execution
  <2>2. exec' = (exec \ {e}) \cup {x} /\ UNCHANGED <<jobs, jobs_dead>>
    BY <1>6 DEF requeue
  <2> HIDE DEF x
  <2>3. \A f \in exec' : \E g \in exec : /\ f.job = g.job
                                         /\ f.worker = g.worker
                                         /\ f.attempt = g.attempt
    BY <2>1, <2>2
  <2>4. ASSUME NEW f \in exec', NEW g \in exec', f.job = g.job,
               f.attempt = g.attempt
        PROVE  f = g
    BY <2>1, <2>2, <2>4 DEF TokenInv, ClaimTokens
  <2>5. ASSUME NEW f \in exec'
        PROVE  /\ jobs[f.job].state = "absent" => jobs_dead[f.job] # 0
               /\ jobs[f.job].state # "absent"
                  => f.attempt <= jobs[f.job].attempts
               /\ /\ jobs[f.job].state = "running"
                  /\ jobs[f.job].attempts = f.attempt
                  => jobs[f.job].locked_by = f.worker
    BY <1>0, <2>3 DEF TokenInv, ClaimTokens
  <2> QED BY <2>2, <2>4, <2>5 DEF ClaimTokens, NoHandlerUnborn
<1>7. ASSUME NEW e \in exec, dead_letter(e)
      PROVE  ClaimTokens' /\ NoHandlerUnborn'
  <2>1. NoRow.state = "absent"
    BY DEF NoRow
  <2>2. \/ UNCHANGED <<jobs, jobs_dead>>
        \/ /\ jobs' = [jobs EXCEPT ![e.job] = NoRow]
           /\ jobs_dead' = [jobs_dead EXCEPT ![e.job] = @ + 1]
    BY <1>7 DEF dead_letter
  <2>3. \A f \in exec : KeepsTokens(f.job)
    BY <1>0, <1>s, <2>1, <2>2 DEF KeepsTokens
  <2> QED BY <1>7, <2>3, TokensKept DEF dead_letter
<1>8. ASSUME exec' \subseteq exec, UNCHANGED <<jobs, jobs_dead>>
      PROVE  ClaimTokens' /\ NoHandlerUnborn'
  BY <1>0, <1>s, <1>8, TokensKept
<1>9. ASSUME reap
      PROVE  ClaimTokens' /\ NoHandlerUnborn'
  <2>1. /\ jobs' = [j \in Jobs |-> IF j \in Expired THEN Unlocked(jobs[j])
                                                   ELSE jobs[j]]
        /\ UNCHANGED <<jobs_dead, exec>>
    BY <1>9 DEF reap
  <2>2. \A j \in Jobs : /\ Unlocked(jobs[j]).state = "ready"
                        /\ Unlocked(jobs[j]).attempts = jobs[j].attempts
    BY <1>0, UnlockedType
  <2>3. \A j \in Expired : jobs[j].state = "running"
    BY DEF Expired
  <2>4. \A e \in exec : KeepsTokens(e.job)
    BY <1>0, <1>s, <2>1, <2>2, <2>3 DEF KeepsTokens
  <2> QED BY <2>1, <2>4, TokensKept
<1>10. ASSUME Tick
       PROVE  ClaimTokens' /\ NoHandlerUnborn'
  <2>1. \A j \in Jobs : /\ jobs'[j].state = jobs[j].state
                        /\ jobs'[j].locked_by = jobs[j].locked_by
                        /\ jobs'[j].attempts = jobs[j].attempts
    BY <1>0, <1>10, AgedType DEF Tick
  <2>2. UNCHANGED <<jobs_dead, exec>>
    BY <1>10 DEF Tick
  <2>3. \A e \in exec : KeepsTokens(e.job)
    BY <1>0, <2>1, <2>2 DEF KeepsTokens
  <2> QED BY <2>2, <2>3, TokensKept
<1>11. CASE UNCHANGED vars
  BY <1>8, <1>11 DEF vars
<1> QED BY <1>1, <1>2, <1>3, <1>4, <1>5, <1>6, <1>7, <1>8, <1>9, <1>10, <1>11
    DEF Next, Abandon, Crash

(* The attempt number identifies a claim for as long as its handler lives: *)
(* stale handlers never share it with, or overtake, the current claim.     *)
THEOREM AttemptsAreTokens == Spec => []ClaimTokens
<1>1. TokenInv => ClaimTokens
  BY DEF TokenInv
<1> QED BY <1>1, TokenInit, TokenStep, PTL DEF Spec

-----------------------------------------------------------------------------
(* The lease, when live handlers beat in time.                             *)

BeatsInTime == HeartbeatEvery <= ReapAfter

(* NoDoubleExecution alone is not inductive: two handlers of one job arise *)
(* from a claim, and nothing but ownership says that a ready row has no    *)
(* handler left.                                                           *)
LeaseInv == TablesOK /\ HandlersOwnTheirRows /\ NoDoubleExecution

(* The whole seconds of the lease are a number of ticks.                   *)
LEMMA ReapAfterType == ReapAfter \in Int
  BY QueueAssumption DEF ReapAfter

(* No one handles anything at first.                                       *)
LEMMA LeaseInit == Init => LeaseInv
  BY TablesInit DEF LeaseInv, Init, HandlersOwnTheirRows, NoDoubleExecution

(* A step that only ends handlers, or beats, disturbs no one.              *)
LEMMA LeaseFewer ==
  ASSUME LeaseInv, exec' \subseteq exec, \A e \in exec' : Owns(e)'
  PROVE  HandlersOwnTheirRows' /\ NoDoubleExecution'
  BY DEF LeaseInv, HandlersOwnTheirRows, NoDoubleExecution

(* A step that leaves the row of a handler alone leaves it its owner.      *)
LEMMA OwnsSameRow ==
  ASSUME NEW e \in exec, Owns(e), jobs'[e.job] = jobs[e.job]
  PROVE  Owns(e)'
  BY DEF Owns

(* Every step preserves ownership and exclusion when live handlers beat in *)
(* time: the reaper never finds the row of a handler expired, and so a     *)
(* ready row has no handler when it is claimed.                            *)
LEMMA LeaseStep ==
  ASSUME BeatsInTime, LeaseInv, [Next]_vars
  PROVE  LeaseInv'
<1> SUFFICES HandlersOwnTheirRows' /\ NoDoubleExecution'
  BY TablesStep DEF LeaseInv
<1>0. /\ jobs = [j \in Jobs |-> jobs[j]]
      /\ \A j \in Jobs : jobs[j] \in Row
      /\ exec \subseteq Execution
      /\ \A e \in exec : e.job \in Jobs
      /\ \A e \in exec : Owns(e)
      /\ \A e, f \in exec : e.job = f.job => e = f
  BY DEF LeaseInv, TablesOK, TypeOK, HandlersOwnTheirRows, NoDoubleExecution,
         Execution
<1>1. ASSUME NEW j \in Jobs, NEW delay \in Delays, enqueue(j, delay)
      PROVE  HandlersOwnTheirRows' /\ NoDoubleExecution'
  <2>1. \A e \in exec : e.job # j
    BY <1>0, <1>1 DEF enqueue, Owns
  <2>2. \A e \in exec : jobs'[e.job] = jobs[e.job]
    BY <1>0, <1>1, <2>1 DEF enqueue
  <2> QED BY <1>0, <1>1, <2>2, OwnsSameRow, LeaseFewer DEF enqueue
<1>2. ASSUME NEW w \in Workers, NEW claimed \in SUBSET Jobs,
             claim_batch(w, claimed)
      PROVE  HandlersOwnTheirRows' /\ NoDoubleExecution'
  <2>1. \A j \in claimed : jobs[j].state = "ready" /\ jobs[j].attempts < MaxAttempts
    BY <1>2 DEF claim_batch, Due, LeaseInv, TablesOK, AttemptBudget
  <2>2. \A e \in exec : e.job \notin claimed
    BY <1>0, <2>1 DEF Owns
  <2>3. \A e \in exec : Owns(e)'
    BY <1>0, <1>2, <2>2, OwnsSameRow DEF claim_batch
  <2>4. \A e \in exec' : e \in exec \/ \E j \in claimed :
          e = [job |-> j, worker |-> w, phase |-> "handling",
               attempt |-> jobs[j].attempts + 1]
    BY <1>2 DEF claim_batch
  <2>5. ASSUME NEW e \in exec', e \notin exec
        PROVE  Owns(e)'
    <3>1. PICK j \in claimed :
            e = [job |-> j, worker |-> w, phase |-> "handling",
                 attempt |-> jobs[j].attempts + 1]
      BY <2>4, <2>5
    <3>2. jobs'[j] = Claimed(jobs[j], w)
      BY <1>2 DEF claim_batch
    <3>3. /\ jobs'[j].state = "running" /\ jobs'[j].age = 0
          /\ jobs'[j].locked_by = w
          /\ jobs'[j].attempts = jobs[j].attempts + 1
      BY <1>0, <2>1, <3>2, ClaimedType
    <3> QED BY <3>1, <3>3, QueueAssumption DEF Owns
  <2>6. HandlersOwnTheirRows'
    BY <2>3, <2>5 DEF HandlersOwnTheirRows
  <2>7. NoDoubleExecution'
    <3> SUFFICES ASSUME NEW e \in exec', NEW f \in exec', e.job = f.job
                 PROVE  e = f
      BY DEF NoDoubleExecution
    <3> QED BY <1>0, <2>2, <2>4
  <2> QED BY <2>6, <2>7
<1>3. ASSUME NEW w \in Workers, NEW ids \in SUBSET Jobs, heartbeat(w, ids)
      PROVE  HandlersOwnTheirRows' /\ NoDoubleExecution'
  <2>1. \A j \in Jobs : LET new == [jobs[j] EXCEPT !.age = 0]
                        IN  /\ new.state = jobs[j].state /\ new.age = 0
                            /\ new.locked_by = jobs[j].locked_by
                            /\ new.attempts = jobs[j].attempts
    BY <1>0 DEF Row
  <2>2. \A j \in Jobs : /\ jobs'[j].state = jobs[j].state
                        /\ jobs'[j].age = 0 \/ jobs'[j].age = jobs[j].age
                        /\ jobs'[j].locked_by = jobs[j].locked_by
                        /\ jobs'[j].attempts = jobs[j].attempts
    BY <1>3, <2>1 DEF heartbeat
  <2>3. \A e \in exec : Owns(e)'
    BY <1>0, <2>2, QueueAssumption DEF Owns
  <2> QED BY <1>3, <2>3, LeaseFewer DEF heartbeat
<1>4. ASSUME NEW e \in exec, exec' = exec \ {e},
             \A j \in Jobs : j # e.job => jobs'[j] = jobs[j]
      PROVE  HandlersOwnTheirRows' /\ NoDoubleExecution'
  <2>1. \A f \in exec' : f.job # e.job /\ jobs'[f.job] = jobs[f.job]
    BY <1>0, <1>4
  <2> QED BY <1>0, <1>4, <2>1, OwnsSameRow, LeaseFewer
<1>5. ASSUME NEW e \in exec, mark_done(e)
      PROVE  HandlersOwnTheirRows' /\ NoDoubleExecution'
  BY <1>0, <1>4, <1>5 DEF mark_done
<1>6. ASSUME NEW e \in exec, requeue(e)
      PROVE  HandlersOwnTheirRows' /\ NoDoubleExecution'
  <2>1. CASE Requeueable(e.job)
    BY <1>0, <1>4, <1>6, <2>1 DEF requeue
  <2>2. CASE ~Requeueable(e.job)
    <3> DEFINE f == [e EXCEPT !.phase = "exhausted"]
    <3>1. f.job = e.job /\ f.worker = e.worker /\ f.attempt = e.attempt
      BY <1>0 DEF Execution
    <3>2. exec' = (exec \ {e}) \cup {f} /\ jobs' = jobs
      BY <1>6, <2>2 DEF requeue
    <3> HIDE DEF f
    <3>3. Owns(f)'
      BY <1>0, <3>1, <3>2 DEF Owns
    <3>4. \A g \in exec : Owns(g)'
      BY <1>0, <3>2, OwnsSameRow
    <3> QED BY <1>0, <3>1, <3>2, <3>3, <3>4
        DEF HandlersOwnTheirRows, NoDoubleExecution
  <2> QED BY <2>1, <2>2
<1>7. ASSUME NEW e \in exec, dead_letter(e)
      PROVE  HandlersOwnTheirRows' /\ NoDoubleExecution'
  BY <1>0, <1>4, <1>7 DEF dead_letter
<1>8. ASSUME exec' \subseteq exec, jobs' = jobs
      PROVE  HandlersOwnTheirRows' /\ NoDoubleExecution'
  BY <1>0, <1>8, OwnsSameRow, LeaseFewer
<1>9. ASSUME reap
      PROVE  HandlersOwnTheirRows' /\ NoDoubleExecution'
  <2>1. \A e \in exec : e.job \notin Expired
    BY <1>0, ReapAfterType, QueueAssumption DEF Expired, Owns, BeatsInTime, Row
  <2>2. \A e \in exec : jobs'[e.job] = jobs[e.job]
    BY <1>0, <1>9, <2>1 DEF reap
  <2> QED BY <1>0, <1>9, <2>2, OwnsSameRow, LeaseFewer DEF reap
<1>10. ASSUME Tick
       PROVE  HandlersOwnTheirRows' /\ NoDoubleExecution'
  <2>1. \A j \in Jobs : /\ jobs'[j].state = jobs[j].state
                        /\ jobs'[j].locked_by = jobs[j].locked_by
                        /\ jobs'[j].attempts = jobs[j].attempts
                        /\ jobs'[j].age <= jobs[j].age + 1
                        /\ jobs'[j] \in Row
    BY <1>0, <1>10, AgedType DEF Tick
  <2>2. \A e \in exec : jobs[e.job].age < HeartbeatEvery
    BY <1>0, <1>10, QueueAssumption DEF Tick, BeatDue, Owns, Row
  <2>3. \A j \in Jobs : jobs[j].age \in Int /\ jobs'[j].age \in Int
    BY <1>0, <2>1, QueueAssumption DEF Row
  <2>4. \A e \in exec : jobs'[e.job].age <= HeartbeatEvery
    BY <1>0, <2>1, <2>2, <2>3, QueueAssumption
  <2>5. \A e \in exec : Owns(e)'
    BY <1>0, <2>1, <2>4 DEF Owns
  <2> QED BY <1>10, <2>5, LeaseFewer DEF Tick
<1>11. CASE UNCHANGED vars
  BY <1>8, <1>11 DEF vars
<1> QED BY <1>1, <1>2, <1>3, <1>5, <1>6, <1>7, <1>8, <1>9, <1>10, <1>11
    DEF Next, Abandon, Crash

(* If every live handler beats at least once per lease (as reap counts     *)
(* it), no job is ever handled twice at a time, whatever crashes: "a       *)
(* heartbeat protects a live job from the reaper".                         *)
THEOREM ExclusiveHandling ==
  ASSUME BeatsInTime PROVE Spec => []NoDoubleExecution
<1>1. LeaseInv /\ [Next]_vars => LeaseInv'
  BY LeaseStep
<1>2. LeaseInv => NoDoubleExecution
  BY DEF LeaseInv
<1> QED BY <1>1, <1>2, LeaseInit, PTL DEF Spec

(* Under the same condition a handler's row is its own, with its attempt   *)
(* number, until the handler ends: the statements by id alone (mark_done,  *)
(* requeue, dead_letter) then hit no other worker's claim.                 *)
THEOREM Ownership ==
  ASSUME BeatsInTime PROVE Spec => []HandlersOwnTheirRows
<1>1. LeaseInv /\ [Next]_vars => LeaseInv'
  BY LeaseStep
<1>2. LeaseInv => HandlersOwnTheirRows
  BY DEF LeaseInv
<1> QED BY <1>1, <1>2, LeaseInit, PTL DEF Spec

-----------------------------------------------------------------------------
(* The refinement of ExclusiveQueue, under the same condition.             *)

(* A job has the worker of its one handler as its handlers, or none.       *)
LEMMA HandlersOf ==
  ASSUME LeaseInv
  PROVE  /\ \A e \in exec : Handlers[e.job] = {e.worker}
         /\ \A j \in Jobs : (\A e \in exec : e.job # j) => Handlers[j] = {}
         /\ \A e \in exec : Status[e.job] = "running" /\ e.job \in Jobs
  BY DEF LeaseInv, NoDoubleExecution, HandlersOwnTheirRows, Owns, Handlers,
         Status, TablesOK, TypeOK, Execution

(* The empty tables are the abstract queue before any submission.          *)
LEMMA RefineInit == Init => Queue!Init
  BY DEF Init, NoRow, Queue!Init, Status, Handlers, Starts

(* The end of handler e, as the abstract queue sees its handlers.          *)
LEMMA HandlersEnd ==
  ASSUME LeaseInv, NEW e \in exec, exec' = exec \ {e}
  PROVE  Handlers' = [Handlers EXCEPT ![e.job] = {}]
<1>1. \A f \in exec : f.job = e.job => f = e
  BY DEF LeaseInv, NoDoubleExecution
<1>2. \A j \in Jobs : j # e.job =>
        {x \in exec' : x.job = j} = {x \in exec : x.job = j}
  OBVIOUS
<1>3. {x \in exec' : x.job = e.job} = {}
  BY <1>1
<1> DEFINE of(S) == {f.worker : f \in S}
<1>4. of({}) = {}
  OBVIOUS
<1>5. /\ Handlers' = [j \in Jobs |-> of({x \in exec' : x.job = j})]
      /\ Handlers = [j \in Jobs |-> of({x \in exec : x.job = j})]
  BY DEF Handlers
<1> HIDE DEF of
<1>6. \A j \in Jobs : of({x \in exec' : x.job = j}) =
        IF j = e.job THEN {} ELSE of({x \in exec : x.job = j})
  BY <1>2, <1>3, <1>4
<1> QED BY <1>5, <1>6

(* A step that keeps states, attempts and dead letters is invisible to the *)
(* status and the starts of the abstract queue.                            *)
LEMMA SameStatus ==
  ASSUME UNCHANGED jobs_dead,
         \A j \in Jobs : /\ jobs'[j].state = jobs[j].state
                         /\ jobs'[j].attempts = jobs[j].attempts
  PROVE  UNCHANGED <<Status, Starts>>
  BY DEF Status, Starts

(* Every step of the tables and their workers is a step of the abstract    *)
(* queue, or leaves it unchanged.                                          *)
LEMMA RefineStep ==
  ASSUME BeatsInTime, LeaseInv, [Next]_vars
  PROVE  [Queue!Next]_(Queue!vars)
<1>0. /\ jobs = [j \in Jobs |-> jobs[j]]
      /\ \A j \in Jobs : jobs[j] \in Row
      /\ jobs_dead \in [Jobs -> Nat]
      /\ exec \subseteq Execution
      /\ \A e \in exec : e.job \in Jobs /\ e.worker \in Workers
      /\ \A e \in exec : Owns(e)
  BY DEF LeaseInv, TablesOK, TypeOK, HandlersOwnTheirRows, Execution
<1>h. /\ \A e \in exec : Handlers[e.job] = {e.worker}
      /\ \A j \in Jobs : (\A e \in exec : e.job # j) => Handlers[j] = {}
      /\ \A e \in exec : Status[e.job] = "running"
      /\ \A e \in exec : Queue!Handling(e.job)
  BY HandlersOf DEF Queue!Handling
<1>1. ASSUME NEW j \in Jobs, NEW delay \in Delays, enqueue(j, delay)
      PROVE  Queue!Submit(j)
  <2>1. /\ NewRow(delay).state = "ready" /\ NewRow(delay).attempts = 0
    BY NewRowType, QueueAssumption
  <2> QED BY <1>0, <1>1, <2>1
      DEF enqueue, Queue!Submit, Status, Handlers, Starts
<1>2. ASSUME NEW w \in Workers, NEW claimed \in SUBSET Jobs,
             claim_batch(w, claimed)
      PROVE  Queue!Start(w, claimed)
  <2>1. \A j \in claimed : jobs[j].state = "ready" /\ jobs[j].attempts < MaxAttempts
    BY <1>2 DEF claim_batch, Due, LeaseInv, TablesOK, AttemptBudget
  <2>2. \A j \in claimed : \A e \in exec : e.job # j
    BY <1>0, <2>1 DEF Owns
  <2>3. \A j \in claimed : /\ Status[j] = "ready" /\ Handlers[j] = {}
                           /\ Starts[j] < MaxAttempts
    BY <1>h, <2>1, <2>2 DEF Status, Starts
  <2>4. \A j \in claimed : /\ Claimed(jobs[j], w).state = "running"
                           /\ Claimed(jobs[j], w).attempts = jobs[j].attempts + 1
    BY <1>0, <2>1, ClaimedType
  <2>5. /\ Status' = [j \in Jobs |-> IF j \in claimed THEN "running" ELSE Status[j]]
        /\ Starts' = [j \in Jobs |-> IF j \in claimed THEN Starts[j] + 1 ELSE Starts[j]]
    BY <1>2, <2>1, <2>4 DEF claim_batch, Status, Starts
  <2>6. Handlers' = [j \in Jobs |-> IF j \in claimed THEN {w} ELSE Handlers[j]]
    <3> DEFINE new == {[job |-> j, worker |-> w, phase |-> "handling",
                        attempt |-> jobs[j].attempts + 1] : j \in claimed}
    <3>1. exec' = exec \cup new
      BY <1>2 DEF claim_batch
    <3>2. \A e \in new : e.job \in claimed /\ e.worker = w
      OBVIOUS
    <3>3. ASSUME NEW j \in claimed PROVE \E e \in new : e.job = j
      <4> DEFINE e == [job |-> j, worker |-> w, phase |-> "handling",
                       attempt |-> jobs[j].attempts + 1]
      <4>1. e \in new /\ e.job = j
        OBVIOUS
      <4> QED BY <4>1
    <3> HIDE DEF new
    <3>4. \A j \in Jobs : {e.worker : e \in {x \in exec' : x.job = j}} =
            IF j \in claimed THEN {w}
            ELSE {e.worker : e \in {x \in exec : x.job = j}}
      BY <2>2, <3>1, <3>2, <3>3
    <3> QED BY <3>4 DEF Handlers
  <2> QED BY <2>3, <2>5, <2>6 DEF Queue!Start
<1>3. ASSUME NEW w \in Workers, NEW ids \in SUBSET Jobs, heartbeat(w, ids)
      PROVE  UNCHANGED Queue!vars
  <2>1. \A j \in Jobs : LET new == [jobs[j] EXCEPT !.age = 0]
                        IN  /\ new.state = jobs[j].state
                            /\ new.attempts = jobs[j].attempts
    BY <1>0 DEF Row
  <2>2. \A j \in Jobs : /\ jobs'[j].state = jobs[j].state
                        /\ jobs'[j].attempts = jobs[j].attempts
    BY <1>3, <2>1 DEF heartbeat
  <2>3. PICK j \in ids : \E e \in exec : e.worker = w /\ e.job = j
    BY <1>3 DEF heartbeat
  <2>4. Held(w, ids) # {}
    BY <1>0, <2>3 DEF Held, Owns
  <2>5. exec' = exec /\ jobs_dead' = jobs_dead
    BY <1>3, <2>4 DEF heartbeat
  <2> QED BY <2>2, <2>5, SameStatus DEF Queue!vars, Handlers
<1>4. ASSUME NEW e \in exec, mark_done(e)
      PROVE  Queue!Finish(e.job)
  <2>1. /\ Completed(jobs[e.job]).state = "done"
        /\ Completed(jobs[e.job]).attempts = jobs[e.job].attempts
    BY <1>0, CompletedType
  <2>2. jobs' = [jobs EXCEPT ![e.job] = Completed(jobs[e.job])]
    BY <1>0, <1>4 DEF mark_done, Owns
  <2>3. Status' = [Status EXCEPT ![e.job] = "done"] /\ UNCHANGED Starts
    <3>1. UNCHANGED jobs_dead
      BY <1>4 DEF mark_done
    <3>2. \A j \in Jobs : j # e.job => jobs'[j] = jobs[j]
      BY <1>0, <2>2
    <3>3. jobs'[e.job] = Completed(jobs[e.job]) /\ jobs[e.job].state # "absent"
      BY <1>0, <1>4, <2>2 DEF Owns
    <3>4. \A j \in Jobs : Status'[j] = IF j = e.job THEN "done" ELSE Status[j]
      BY <2>1, <3>1, <3>2, <3>3 DEF Status
    <3>5. \A j \in Jobs : Starts'[j] = Starts[j]
      BY <2>1, <3>1, <3>2, <3>3 DEF Starts
    <3>6. /\ Status' = [j \in Jobs |-> Status'[j]] /\ Status = [j \in Jobs |-> Status[j]]
          /\ Starts' = [j \in Jobs |-> Starts'[j]] /\ Starts = [j \in Jobs |-> Starts[j]]
      BY DEF Status, Starts
    <3> QED BY <3>4, <3>5, <3>6
  <2>4. Handlers' = [Handlers EXCEPT ![e.job] = {}]
    BY <1>4, HandlersEnd DEF mark_done
  <2> QED BY <1>h, <2>3, <2>4 DEF Queue!Finish
<1>5. ASSUME NEW e \in exec, requeue(e), Requeueable(e.job)
      PROVE  Queue!GiveBack(e.job)
  <2> DEFINE row == Unlocked(jobs[e.job])
             new == [row EXCEPT !.wait = Backoff(jobs[e.job].attempts)]
  <2>1. /\ row \in Row /\ row.state = "ready"
        /\ row.attempts = jobs[e.job].attempts
    BY <1>0, UnlockedType
  <2>2. jobs' = [jobs EXCEPT ![e.job] = new]
    BY <1>5 DEF requeue
  <2> HIDE DEF row
  <2>3. new.state = "ready" /\ new.attempts = jobs[e.job].attempts
    BY <2>1 DEF Row
  <2> HIDE DEF new
  <2>4. Status' = [Status EXCEPT ![e.job] = "ready"] /\ UNCHANGED Starts
    BY <1>0, <1>5, <2>2, <2>3 DEF Status, Starts, requeue, Owns
  <2>5. Handlers' = [Handlers EXCEPT ![e.job] = {}]
    BY <1>5, HandlersEnd DEF requeue
  <2>6. Starts[e.job] < MaxAttempts
    BY <1>0, <1>5 DEF Starts, Requeueable
  <2> QED BY <1>h, <2>4, <2>5, <2>6 DEF Queue!GiveBack
<1>6. ASSUME NEW e \in exec, requeue(e), ~Requeueable(e.job)
      PROVE  UNCHANGED Queue!vars
  <2> DEFINE f == [e EXCEPT !.phase = "exhausted"]
  <2>1. f.job = e.job /\ f.worker = e.worker
    BY <1>0 DEF Execution
  <2>2. exec' = (exec \ {e}) \cup {f} /\ UNCHANGED <<jobs, jobs_dead>>
    BY <1>6 DEF requeue
  <2> HIDE DEF f
  <2>3. \A j \in Jobs : {x.worker : x \in {y \in exec' : y.job = j}} =
                        {x.worker : x \in {y \in exec : y.job = j}}
    BY <2>1, <2>2
  <2> QED BY <2>2, <2>3, SameStatus DEF Queue!vars, Handlers
<1>7. ASSUME NEW e \in exec, dead_letter(e)
      PROVE  Queue!Bury(e.job)
  <2>1. /\ jobs' = [jobs EXCEPT ![e.job] = NoRow]
        /\ jobs_dead' = [jobs_dead EXCEPT ![e.job] = @ + 1]
    BY <1>0, <1>7 DEF dead_letter, Owns
  <2>2. jobs_dead'[e.job] # 0
    BY <1>0, <2>1
  <2>3. NoRow.state = "absent"
    BY DEF NoRow
  <2>4. /\ Status' = [Status EXCEPT ![e.job] = "dead"]
        /\ Starts' = [Starts EXCEPT ![e.job] = 0]
    BY <1>0, <2>1, <2>2, <2>3 DEF Status, Starts
  <2>5. Handlers' = [Handlers EXCEPT ![e.job] = {}]
    BY <1>7, HandlersEnd DEF dead_letter
  <2> QED BY <1>h, <2>4, <2>5 DEF Queue!Bury
<1>8. ASSUME NEW e \in exec, Abandon(e)
      PROVE  Queue!Lose({e.job})
  <2>1. Handlers' = [Handlers EXCEPT ![e.job] = {}]
    BY <1>8, HandlersEnd DEF Abandon
  <2>2. Handlers' = [j \in Jobs |-> IF j \in {e.job} THEN {} ELSE Handlers[j]]
    BY <2>1 DEF Handlers
  <2>3. UNCHANGED <<Status, Starts>>
    BY <1>8, SameStatus DEF Abandon
  <2> QED BY <1>h, <2>2, <2>3 DEF Queue!Lose
<1>9. ASSUME NEW w \in Workers, Crash(w)
      PROVE  \E S \in SUBSET Jobs : Queue!Lose(S)
  <2> DEFINE S == {e.job : e \in {x \in exec : x.worker = w}}
  <2>1. S \in SUBSET Jobs /\ \A j \in S : Queue!Handling(j)
    BY <1>0, <1>h
  <2>2. exec' = {e \in exec : e.worker # w} /\ UNCHANGED <<jobs, jobs_dead>>
    BY <1>9 DEF Crash
  <2>3. \A e, f \in exec : e.job = f.job => e = f
    BY DEF LeaseInv, NoDoubleExecution
  <2>4. \A j \in Jobs : {e.worker : e \in {x \in exec' : x.job = j}} =
          IF j \in S THEN {} ELSE {e.worker : e \in {x \in exec : x.job = j}}
    <3> SUFFICES ASSUME NEW j \in Jobs
                 PROVE  {x \in exec' : x.job = j} =
                        IF j \in S THEN {} ELSE {x \in exec : x.job = j}
      OBVIOUS
    <3>1. CASE j \in S
      BY <2>2, <2>3, <3>1
    <3>2. CASE j \notin S
      BY <2>2, <3>2
    <3> QED BY <3>1, <3>2
  <2>5. Handlers' = [j \in Jobs |-> IF j \in S THEN {} ELSE Handlers[j]]
    BY <2>4 DEF Handlers
  <2>6. UNCHANGED <<Status, Starts>>
    BY <2>2, SameStatus
  <2> HIDE DEF S
  <2> QED BY <2>1, <2>5, <2>6 DEF Queue!Lose
<1>10. ASSUME reap
       PROVE  Queue!Recover(Expired)
  <2>1. \A j \in Expired : /\ jobs[j].state = "running" /\ j \in Jobs
                           /\ jobs[j].attempts < MaxAttempts
                           /\ jobs[j].age > ReapAfter
    BY DEF Expired
  <2>2. \A j \in Expired : \A e \in exec : e.job # j
    <3>1. \A j \in Jobs : jobs[j].age \in Int
      BY <1>0, QueueAssumption DEF Row
    <3>2. \A j \in Expired : ~(jobs[j].age <= HeartbeatEvery)
      BY <2>1, <3>1, ReapAfterType, QueueAssumption DEF BeatsInTime
    <3> QED BY <1>0, <3>2 DEF Owns
  <2>3. \A j \in Expired : /\ Status[j] = "running" /\ Handlers[j] = {}
                           /\ Starts[j] < MaxAttempts
    BY <1>h, <2>1, <2>2 DEF Status, Starts
  <2>4. \A j \in Expired : /\ Unlocked(jobs[j]).state = "ready"
                           /\ Unlocked(jobs[j]).attempts = jobs[j].attempts
    BY <1>0, <2>1, UnlockedType
  <2>5. /\ \A j \in Expired : /\ jobs'[j].state = "ready"
                              /\ jobs'[j].attempts = jobs[j].attempts
        /\ \A j \in Jobs \ Expired : jobs'[j] = jobs[j]
        /\ UNCHANGED <<jobs_dead, exec>>
    <3>1. /\ jobs' = [j \in Jobs |-> IF j \in Expired THEN Unlocked(jobs[j])
                                                       ELSE jobs[j]]
          /\ UNCHANGED <<jobs_dead, exec>>
      BY <1>10 DEF reap
    <3>2. \A j \in Expired : jobs'[j] = Unlocked(jobs[j])
      BY <2>1, <3>1
    <3> QED BY <2>4, <3>1, <3>2
  <2>6. Status' = [j \in Jobs |-> IF j \in Expired THEN "ready" ELSE Status[j]]
    BY <2>5 DEF Status
  <2>7. UNCHANGED Starts
    BY <2>1, <2>5 DEF Starts
  <2>8. UNCHANGED Handlers
    BY <2>5 DEF Handlers
  <2> QED BY <2>3, <2>6, <2>7, <2>8 DEF Queue!Recover
<1>11. ASSUME Tick
       PROVE  UNCHANGED Queue!vars
  <2>1. \A j \in Jobs : /\ jobs'[j].state = jobs[j].state
                        /\ jobs'[j].attempts = jobs[j].attempts
    BY <1>0, <1>11, AgedType DEF Tick
  <2> QED BY <1>11, <2>1, SameStatus DEF Tick, Queue!vars, Handlers
<1>12. CASE UNCHANGED vars
  BY <1>12, SameStatus DEF vars, Queue!vars, Handlers
<1>13. Expired \in SUBSET Jobs
  BY DEF Expired
<1>14. CASE Next
  <2>1. CASE \E j \in Jobs, delay \in Delays : enqueue(j, delay)
    BY <1>1, <2>1 DEF Queue!Next
  <2>2. CASE \E w \in Workers : \E claimed \in SUBSET Jobs : claim_batch(w, claimed)
    BY <1>2, <2>2 DEF Queue!Next
  <2>3. CASE \E w \in Workers : \E ids \in SUBSET Jobs : heartbeat(w, ids)
    BY <1>3, <2>3
  <2>4. CASE \E e \in exec : mark_done(e)
    BY <1>0, <1>4, <2>4 DEF Queue!Next
  <2>5. CASE \E e \in exec : requeue(e)
    BY <1>0, <1>5, <1>6, <2>5 DEF Queue!Next
  <2>6. CASE \E e \in exec : dead_letter(e)
    BY <1>0, <1>7, <2>6 DEF Queue!Next
  <2>7. CASE \E e \in exec : Abandon(e)
    <3>1. PICK e \in exec : Abandon(e)
      BY <2>7
    <3>2. {e.job} \in SUBSET Jobs
      BY <1>0
    <3> QED BY <1>8, <3>1, <3>2 DEF Queue!Next
  <2>8. CASE \E w \in Workers : Crash(w)
    BY <1>9, <2>8 DEF Queue!Next
  <2>9. CASE reap
    BY <1>10, <1>13, <2>9 DEF Queue!Next
  <2>10. CASE Tick
    BY <1>11, <2>10
  <2> QED BY <1>14, <2>1, <2>2, <2>3, <2>4, <2>5, <2>6, <2>7, <2>8, <2>9, <2>10
      DEF Next
<1> QED BY <1>12, <1>14

(* With heartbeats in time the tables and their workers are an exclusive   *)
(* queue: one handler at a time, at most max_attempts starts, done and     *)
(* dead-lettered jobs final, recovery only of jobs without a handler.      *)
THEOREM Refinement ==
  ASSUME BeatsInTime PROVE Spec => IsExclusiveQueue
<1>1. LeaseInv /\ [Next]_vars => LeaseInv'
  BY LeaseStep
<1>2. LeaseInv /\ [Next]_vars => [Queue!Next]_(Queue!vars)
  BY RefineStep
<1> QED BY <1>1, <1>2, LeaseInit, RefineInit, PTL
    DEF Spec, IsExclusiveQueue, Queue!Spec
=============================================================================
