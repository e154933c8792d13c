-------------------------- MODULE SkipLockedProofs --------------------------
(***************************************************************************)
(* Theorems about SkipLocked, for any rows, carriers and workers, any      *)
(* limits and caps, and any bounds.                                        *)
(***************************************************************************)
EXTENDS SkipLocked, FiniteSetTheorems, TLAPS

(* A row that is not running is no one's; so one that can be claimed.      *)
OnlyRunningIsLocked ==
  \A j \in Rows : rows[j].state # "running" => rows[j].locked_by = NoWorker

(* What a claim knows of the rows it has locked: they are still claimable, *)
(* for whatever could change them waits for the lock, and its own now() is *)
(* not in the future.                                                      *)
LockedStayClaimable ==
  \A w \in Workers : /\ tx[w].now <= clock
                     /\ \A j \in tx[w].window : Claimable(j, tx[w].now)

(* Two claims never hold the same row.                                     *)
DisjointWindows ==
  \A v, w \in Workers : v # w => tx[v].window \cap tx[w].window = {}

(* Disjointness is inductive by itself; that the rows of a window are      *)
(* claimable when they are taken is not: it needs that only the holder of  *)
(* a lock writes the row, hence that the locks are exclusive.              *)
LocksInv == TypeOK /\ OnlyRunningIsLocked /\ LockedStayClaimable /\ DisjointWindows

(* Facts about Idle that need its record, once and for all.                *)
LEMMA IdleFacts ==
  Idle \in Tx /\ Idle.now = 0 /\ Idle.window = {} /\ DOMAIN Idle.todo = {}
<1> DEFINE none == [j \in {} |-> 0]
<1>1. none \in [{} -> 0 .. MaxClock + 1] /\ DOMAIN none = {}
  OBVIOUS
<1>2. none \in Visits
  BY <1>1 DEF Visits
<1>3. Idle = [active |-> FALSE, now |-> 0, todo |-> none, window |-> {}]
  BY DEF Idle
<1> HIDE DEF none
<1>4. 0 \in 0 .. MaxClock
  BY ClaimAssumption
<1> QED BY <1>1, <1>2, <1>3, <1>4 DEF Tx

(* The empty table, and no claim.                                          *)
LEMMA LocksInit == Init => LocksInv
<1> SUFFICES ASSUME Init PROVE LocksInv
  OBVIOUS
<1>1. rows \in [Rows -> Row]
  BY ClaimAssumption DEF Init, Row
<1>2. tx = [w \in Workers |-> Idle] /\ clock = 0 /\ returns = 0 /\ aborts = 0
  BY DEF Init
<1>3. TypeOK
  BY <1>1, <1>2, IdleFacts, ClaimAssumption DEF TypeOK
<1>4. OnlyRunningIsLocked
  BY DEF Init, OnlyRunningIsLocked
<1>5. LockedStayClaimable /\ DisjointWindows
  BY <1>2, IdleFacts DEF LockedStayClaimable, DisjointWindows
<1> QED BY <1>3, <1>4, <1>5 DEF LocksInv

(* A step of claim w that writes no row: what is left to show of its new   *)
(* state t.                                                                *)
LEMMA TxStep ==
  ASSUME LocksInv, NEW w \in Workers, NEW t \in Tx,
         tx' = [tx EXCEPT ![w] = t],
         t.now <= clock, t.window \cap DOMAIN t.todo = {},
         \A j \in t.window : rows[j].state = "ready" /\ rows[j].run_at <= t.now,
         \A v \in Workers \ {w} : t.window \cap tx[v].window = {},
         UNCHANGED <<rows, clock, returns>>, aborts' \in 0 .. MaxAborts
  PROVE  LocksInv'
<1>1. TypeOK' /\ \A v \in Workers : tx'[v] = IF v = w THEN t ELSE tx[v]
  BY DEF LocksInv, TypeOK
<1>2. OnlyRunningIsLocked' /\ LockedStayClaimable'
  BY <1>1 DEF LocksInv, OnlyRunningIsLocked, LockedStayClaimable, Claimable
<1>3. DisjointWindows'
  BY <1>1 DEF LocksInv, DisjointWindows
<1> QED BY <1>1, <1>2, <1>3 DEF LocksInv

(* A step of anyone else: what is left to show is that it writes no locked *)
(* row.                                                                    *)
LEMMA RowStep ==
  ASSUME LocksInv, UNCHANGED <<tx, aborts>>,
         rows' \in [Rows -> Row], OnlyRunningIsLocked',
         \A j \in Rows : Locked(j) => rows'[j] = rows[j],
         clock' \in 0 .. MaxClock, clock <= clock',
         returns' \in 0 .. MaxReturns
  PROVE  LocksInv'
<1>1. TypeOK' /\ DisjointWindows'
  BY DEF LocksInv, TypeOK, DisjointWindows
<1>2. ASSUME NEW w \in Workers
      PROVE  /\ tx[w].now <= clock'
             /\ \A j \in tx[w].window :
                  rows'[j].state = "ready" /\ rows'[j].run_at <= tx[w].now
  <2>1. tx[w] \in Tx /\ clock \in 0 .. MaxClock
    BY DEF LocksInv, TypeOK
  <2>2. tx[w].now \in Int /\ tx[w].window \subseteq Rows
    BY <2>1 DEF Tx
  <2>3. \A j \in tx[w].window : rows'[j] = rows[j]
    BY <2>2 DEF Locked
  <2> QED BY <2>1, <2>2, <2>3, ClaimAssumption
          DEF LocksInv, LockedStayClaimable, Claimable
<1>3. LockedStayClaimable'
  BY <1>2 DEF LockedStayClaimable, Claimable
<1> QED BY <1>1, <1>3 DEF LocksInv

(* A number the bound allows, one higher.                                  *)
LEMMA Counts ==
  ASSUME NEW max \in Nat, NEW n \in 0 .. max, n < max PROVE n + 1 \in 0 .. max
  OBVIOUS

(* The claim visits a row: it locks it only if no one has it and it is     *)
(* claimable in its newest version.                                        *)
LEMMA LockRowStep ==
  ASSUME LocksInv, NEW w \in Workers, LockRow(w) PROVE LocksInv'
<1>1. PICK j \in DOMAIN tx[w].todo :
        tx' = [tx EXCEPT
          ![w].todo   = [i \in DOMAIN @ \ {j} |-> @[i]],
          ![w].window = IF Takes(w, j) THEN @ \cup {j} ELSE @]
  BY DEF LockRow
<1>2. tx \in [Workers -> Tx] /\ tx[w] \in Tx
  BY DEF LocksInv, TypeOK
<1>3. tx[w].todo \in Visits /\ tx[w].window \subseteq Rows
  BY <1>2 DEF Tx
<1>4. PICK S \in SUBSET Rows : tx[w].todo \in [S -> 0 .. MaxClock + 1]
  BY <1>3 DEF Visits
<1> DEFINE todo == [i \in DOMAIN tx[w].todo \ {j} |-> tx[w].todo[i]]
           window == IF Takes(w, j) THEN tx[w].window \cup {j} ELSE tx[w].window
           t1 == [tx[w] EXCEPT !.todo = todo]
           t  == [t1 EXCEPT !.window = window]
<1>5. todo \in Visits /\ DOMAIN todo = S \ {j}
  <2>1. todo \in [S \ {j} -> 0 .. MaxClock + 1]
    BY <1>4
  <2> QED BY <2>1 DEF Visits
<1>6. window \subseteq Rows /\ window \cap (S \ {j}) = {}
  BY <1>3, <1>4, <1>1 DEF LocksInv, TypeOK
<1>7. tx' = [tx EXCEPT ![w] = t]
  BY <1>1, <1>2
<1>8. \A i \in window : rows[i].state = "ready" /\ rows[i].run_at <= tx[w].now
  BY DEF Takes, LocksInv, LockedStayClaimable, Claimable
<1>9. \A v \in Workers \ {w} : window \cap tx[v].window = {}
  BY DEF Takes, Locked, LocksInv, DisjointWindows
<1> HIDE DEF todo, window
<1>10. t1 \in Tx /\ t1.todo = todo /\ t1.now = tx[w].now
  BY <1>2, <1>5 DEF Tx
<1> HIDE DEF t1
<1>11. t \in Tx /\ t.todo = todo /\ t.window = window /\ t.now = tx[w].now
  BY <1>6, <1>10 DEF Tx
<1> HIDE DEF t
<1>12. tx[w].now <= clock
  BY DEF LocksInv, LockedStayClaimable
<1>13. UNCHANGED <<rows, clock, returns>> /\ aborts' \in 0 .. MaxAborts
  BY DEF LockRow, LocksInv, TypeOK
<1>14. t.now <= clock /\ t.window \cap DOMAIN t.todo = {}
  BY <1>5, <1>6, <1>11, <1>12
<1>15. \A i \in t.window : rows[i].state = "ready" /\ rows[i].run_at <= t.now
  BY <1>8, <1>11
<1>16. \A v \in Workers \ {w} : t.window \cap tx[v].window = {}
  BY <1>9, <1>11
<1>17. t \in Tx
  BY <1>11
<1> QED BY <1>7, <1>13, <1>14, <1>15, <1>16, <1>17, TxStep

(* The commit writes rows of its window alone, and so none that another    *)
(* claim has locked.                                                       *)
LEMMA CommitStep ==
  ASSUME LocksInv, NEW w \in Workers, Commit(w), Idle \in Tx,
         Idle.now = 0, Idle.window = {}, DOMAIN Idle.todo = {}
  PROVE  LocksInv'
<1>1. PICK rn \in RowNumbers(tx[w].window) :
        rows' = [j \in Rows |->
                   IF j \in Kept(w, rn)
                   THEN [rows[j] EXCEPT !.state = "running", !.locked_by = w]
                   ELSE rows[j]]
  BY DEF Commit
<1>2. /\ rows \in [Rows -> Row] /\ tx \in [Workers -> Tx]
      /\ clock \in 0 .. MaxClock
      /\ \A v \in Workers : tx[v].window \subseteq Rows
  BY DEF LocksInv, TypeOK, Tx
<1>3. /\ tx' = [tx EXCEPT ![w] = Idle]
      /\ UNCHANGED <<clock, returns, aborts>>
  BY DEF Commit
<1>4. Kept(w, rn) \subseteq tx[w].window
  BY DEF Kept
<1>5. \A j \in Rows : rows'[j] \in Row
  <2> SUFFICES ASSUME NEW j \in Rows PROVE rows'[j] \in Row
    OBVIOUS
  <2>1. rows[j] \in Row
    BY <1>2
  <2> DEFINE r1 == [rows[j] EXCEPT !.state = "running"]
             r2 == [r1 EXCEPT !.locked_by = w]
  <2>2. rows'[j] = r2 \/ rows'[j] = rows[j]
    BY <1>1
  <2>3. r1 \in Row
    BY <2>1 DEF Row
  <2> HIDE DEF r1
  <2>4. r2 \in Row
    BY <2>3 DEF Row
  <2> QED BY <2>1, <2>2, <2>4
<1>6. rows' \in [Rows -> Row]
  BY <1>1, <1>5
<1>7. TypeOK'
  BY <1>2, <1>3, <1>6 DEF TypeOK, LocksInv
<1>8. OnlyRunningIsLocked'
  <2> SUFFICES ASSUME NEW j \in Rows, rows'[j].state # "running"
               PROVE  rows'[j].locked_by = NoWorker
    BY DEF OnlyRunningIsLocked
  <2>1. rows[j] \in Row
    BY <1>2
  <2>2. [rows[j] EXCEPT !.state = "running", !.locked_by = w].state = "running"
    BY <2>1 DEF Row
  <2> QED BY <1>1, <2>2 DEF LocksInv, OnlyRunningIsLocked
<1>9. LockedStayClaimable'
  <2> SUFFICES ASSUME NEW v \in Workers
               PROVE  /\ tx'[v].now <= clock
                      /\ \A j \in tx'[v].window : /\ rows'[j].state = "ready"
                                                  /\ rows'[j].run_at <= tx'[v].now
    BY <1>3 DEF LockedStayClaimable, Claimable
  <2>1. CASE v = w
    BY <2>1, <1>2, <1>3, ClaimAssumption
  <2>2. CASE v # w
    <3>1. tx'[v] = tx[v]
      BY <2>2, <1>2, <1>3
    <3>2. \A j \in tx[v].window : rows'[j] = rows[j]
      BY <2>2, <1>1, <1>2, <1>4 DEF LocksInv, DisjointWindows
    <3> QED BY <3>1, <3>2 DEF LocksInv, LockedStayClaimable, Claimable
  <2> QED BY <2>1, <2>2
<1>10. DisjointWindows'
  BY <1>2, <1>3 DEF LocksInv, DisjointWindows
<1> QED BY <1>7, <1>8, <1>9, <1>10 DEF LocksInv

(* A claim that begins holds no lock.                                      *)
LEMMA BeginStep ==
  ASSUME LocksInv, NEW w \in Workers, Begin(w) PROVE LocksInv'
<1> DEFINE seen == {j \in Rows : Claimable(j, clock)}
           todo == [j \in seen |-> rows[j].run_at]
           t == [active |-> TRUE, now |-> clock, window |-> {}, todo |-> todo]
<1>1. rows \in [Rows -> Row] /\ clock \in 0 .. MaxClock
  BY DEF LocksInv, TypeOK
<1>2. \A j \in Rows : rows[j].run_at \in 0 .. MaxClock + 1
  BY <1>1 DEF Row
<1>3. todo \in [seen -> 0 .. MaxClock + 1] /\ seen \in SUBSET Rows
  BY <1>2
<1>4. todo \in Visits
  BY <1>3 DEF Visits
<1>5. tx' = [tx EXCEPT ![w] = t]
  BY DEF Begin
<1>6. UNCHANGED <<rows, clock, returns>> /\ aborts' \in 0 .. MaxAborts
  BY DEF Begin, LocksInv, TypeOK
<1> HIDE DEF todo
<1>7. t \in Tx /\ t.now = clock /\ t.window = {}
  BY <1>1, <1>4 DEF Tx
<1> HIDE DEF t
<1>8. t.now <= clock
  BY <1>1, <1>7, ClaimAssumption
<1> QED BY <1>5, <1>6, <1>7, <1>8, TxStep

(* A claim that is rolled back leaves the rows and lets go of its locks.   *)
LEMMA AbortStep ==
  ASSUME LocksInv, NEW w \in Workers, Abort(w) PROVE LocksInv'
<1>1. tx' = [tx EXCEPT ![w] = Idle] /\ UNCHANGED <<rows, clock, returns>>
  BY DEF Abort
<1>2. aborts' \in 0 .. MaxAborts
  BY Counts, ClaimAssumption DEF Abort, LocksInv, TypeOK
<1>3. clock \in 0 .. MaxClock
  BY DEF LocksInv, TypeOK
<1>4. 0 <= clock
  BY <1>3, ClaimAssumption
<1> QED BY <1>1, <1>2, <1>4, IdleFacts, TxStep

(* The statements by id write no locked row: they wait for the lock.       *)
LEMMA InsertStep ==
  ASSUME LocksInv, NEW j \in Rows, NEW run_at \in 0 .. MaxClock,
         Insert(j, run_at)
  PROVE  LocksInv'
<1>1. rows \in [Rows -> Row] /\ rows[j] \in Row
  BY DEF LocksInv, TypeOK
<1> DEFINE r1 == [rows[j] EXCEPT !.state = "ready"]
           r2 == [r1 EXCEPT !.run_at = run_at]
<1>2. rows' = [rows EXCEPT ![j] = r2]
  BY <1>1 DEF Insert
<1>3. r1 \in Row
  BY <1>1 DEF Row
<1> HIDE DEF r1
<1>4. run_at \in 0 .. MaxClock + 1
  BY ClaimAssumption
<1>5. r2 \in Row
  BY <1>3, <1>4 DEF Row
<1>6. r2.state = "ready" /\ r2.locked_by = rows[j].locked_by
  BY <1>1 DEF r1, Row
<1> HIDE DEF r2
<1>7. rows' \in [Rows -> Row] /\ \A i \in Rows \ {j} : rows'[i] = rows[i]
  BY <1>1, <1>2, <1>5
<1>8. OnlyRunningIsLocked'
  BY <1>1, <1>2, <1>6, <1>7 DEF Insert, LocksInv, OnlyRunningIsLocked
<1>9. ~Locked(j)
  BY DEF Insert, Locked, LocksInv, LockedStayClaimable, Claimable
<1>10. UNCHANGED <<tx, aborts, clock, returns>>
  BY DEF Insert
<1>11. /\ clock' \in 0 .. MaxClock /\ clock <= clock'
       /\ returns' \in 0 .. MaxReturns
  BY <1>10, ClaimAssumption DEF LocksInv, TypeOK
<1> QED BY <1>7, <1>8, <1>9, <1>10, <1>11, RowStep

(* mark_done and dead_letter wait for the lock, and clear the owner.       *)
LEMMA EndStep ==
  ASSUME LocksInv, NEW j \in Rows, NEW state \in {"done", "dead"},
         End(j, state)
  PROVE  LocksInv'
<1>1. rows \in [Rows -> Row] /\ rows[j] \in Row
  BY DEF LocksInv, TypeOK
<1> DEFINE r1 == [rows[j] EXCEPT !.state = state]
           r2 == [r1 EXCEPT !.locked_by = NoWorker]
<1>2. rows' = [rows EXCEPT ![j] = r2]
  BY <1>1 DEF End
<1>3. r1 \in Row
  BY <1>1 DEF Row
<1> HIDE DEF r1
<1>4. r2 \in Row /\ r2.locked_by = NoWorker
  BY <1>3 DEF Row
<1> HIDE DEF r2
<1>5. rows' \in [Rows -> Row] /\ \A i \in Rows \ {j} : rows'[i] = rows[i]
  BY <1>1, <1>2, <1>4
<1>6. OnlyRunningIsLocked'
  BY <1>1, <1>2, <1>4, <1>5 DEF LocksInv, OnlyRunningIsLocked
<1>7. ~Locked(j) /\ UNCHANGED <<tx, aborts, clock, returns>>
  BY DEF End
<1>8. /\ clock' \in 0 .. MaxClock /\ clock <= clock'
      /\ returns' \in 0 .. MaxReturns
  BY <1>7, ClaimAssumption DEF LocksInv, TypeOK
<1> QED BY <1>5, <1>6, <1>7, <1>8, RowStep

(* So do requeue and the reaper.                                           *)
LEMMA GiveBackStep ==
  ASSUME LocksInv, NEW j \in Rows, NEW run_at \in 0 .. MaxClock + 1,
         GiveBack(j, run_at)
  PROVE  LocksInv'
<1>1. rows \in [Rows -> Row]
  BY DEF LocksInv, TypeOK
<1> DEFINE r == [state |-> "ready", run_at |-> run_at, locked_by |-> NoWorker]
<1>2. rows' = [rows EXCEPT ![j] = r]
  BY DEF GiveBack
<1>3. r \in Row /\ r.locked_by = NoWorker
  BY DEF Row
<1> HIDE DEF r
<1>4. rows' \in [Rows -> Row] /\ \A i \in Rows \ {j} : rows'[i] = rows[i]
  BY <1>1, <1>2, <1>3
<1>5. OnlyRunningIsLocked'
  BY <1>1, <1>2, <1>3, <1>4 DEF LocksInv, OnlyRunningIsLocked
<1>6. ~Locked(j) /\ UNCHANGED <<tx, aborts, clock>>
  BY DEF GiveBack
<1>7. returns' \in 0 .. MaxReturns
  BY Counts, ClaimAssumption DEF GiveBack, LocksInv, TypeOK
<1>8. clock' \in 0 .. MaxClock /\ clock <= clock'
  BY <1>6, ClaimAssumption DEF LocksInv, TypeOK
<1> QED BY <1>4, <1>5, <1>6, <1>7, <1>8, RowStep

(* A later now() leaves due what is due.                                   *)
LEMMA TickStep == LocksInv /\ Tick => LocksInv'
<1> SUFFICES ASSUME LocksInv, Tick PROVE LocksInv'
  OBVIOUS
<1>1. UNCHANGED <<rows, tx, returns, aborts>>
  BY DEF Tick
<1>2. clock' \in 0 .. MaxClock /\ clock <= clock'
  BY ClaimAssumption, Counts DEF Tick, LocksInv, TypeOK
<1>3. OnlyRunningIsLocked'
  BY <1>1 DEF LocksInv, OnlyRunningIsLocked
<1>4. rows' \in [Rows -> Row] /\ returns' \in 0 .. MaxReturns
  BY <1>1 DEF LocksInv, TypeOK
<1> QED BY <1>1, <1>2, <1>3, <1>4, RowStep

(* The invariant is inductive.                                             *)
LEMMA LocksStep == LocksInv /\ [Next]_vars => LocksInv'
<1> SUFFICES ASSUME LocksInv, [Next]_vars PROVE LocksInv'
  OBVIOUS
<1>1. ASSUME NEW w \in Workers, Begin(w) PROVE LocksInv'
  BY <1>1, BeginStep
<1>2. ASSUME NEW w \in Workers, LockRow(w) PROVE LocksInv'
  BY <1>2, LockRowStep
<1>3. ASSUME NEW w \in Workers, Commit(w) PROVE LocksInv'
  BY <1>3, CommitStep, IdleFacts
<1>4. ASSUME NEW w \in Workers, Abort(w) PROVE LocksInv'
  BY <1>4, AbortStep
<1>5. ASSUME NEW j \in Rows, NEW run_at \in 0 .. MaxClock, Insert(j, run_at)
      PROVE  LocksInv'
  BY <1>5, InsertStep
<1>6. ASSUME NEW j \in Rows, NEW state \in {"done", "dead"}, End(j, state)
      PROVE  LocksInv'
  BY <1>6, EndStep
<1>7. ASSUME NEW j \in Rows, NEW run_at \in 0 .. MaxClock + 1, GiveBack(j, run_at)
      PROVE  LocksInv'
  BY <1>7, GiveBackStep
<1>8. CASE Tick
  BY <1>8, TickStep
<1>9. CASE UNCHANGED vars
  <2>1. UNCHANGED <<rows, tx, clock, returns, aborts>>
    BY <1>9 DEF vars
  <2> QED BY <2>1 DEF LocksInv, TypeOK, OnlyRunningIsLocked, LockedStayClaimable,
                      DisjointWindows, Claimable
<1> QED BY <1>1, <1>2, <1>3, <1>4, <1>5, <1>6, <1>7, <1>8, <1>9 DEF Next

(* It holds throughout.                                                    *)
LEMMA LocksAlways == Spec => []LocksInv
  BY LocksInit, LocksStep, PTL DEF Spec

(* A claim's window holds only rows of the table, it is of the claim's own *)
(* now(), and no row is visited twice, whatever the table does under it.   *)
THEOREM ClaimTypeCorrect == Spec => []TypeOK
<1>1. LocksInv => TypeOK
  BY DEF LocksInv
<1> QED BY <1>1, LocksAlways, PTL

(* Only a commit gives a worker rows, and only rows of its window.         *)
LEMMA TakenIsOfTheWindow ==
  ASSUME LocksInv, [Next]_vars, NEW w \in Workers, NEW j \in Taken(w)
  PROVE  Commit(w) /\ j \in tx[w].window
<1>1. j \in Rows /\ rows'[j].locked_by = w /\ rows[j].locked_by # w
  BY DEF Taken
<1>2. rows \in [Rows -> Row] /\ rows[j] \in Row /\ w # NoWorker
  BY <1>1, ClaimAssumption DEF LocksInv, TypeOK
<1>3. ASSUME NEW v \in Workers, Commit(v) PROVE v = w /\ j \in tx[w].window
  <2>1. PICK rn \in RowNumbers(tx[v].window) :
          rows' = [i \in Rows |->
                     IF i \in Kept(v, rn)
                     THEN [rows[i] EXCEPT !.state = "running", !.locked_by = v]
                     ELSE rows[i]]
    BY <1>3 DEF Commit
  <2>2. j \in Kept(v, rn)
    BY <2>1, <1>1
  <2> DEFINE r1 == [rows[j] EXCEPT !.state = "running"]
             r2 == [r1 EXCEPT !.locked_by = v]
  <2>3. rows'[j] = r2
    BY <2>1, <2>2, <1>1
  <2>4. r1 \in Row
    BY <1>2 DEF Row
  <2> HIDE DEF r1
  <2>5. r2.locked_by = v
    BY <2>4 DEF Row
  <2> HIDE DEF r2
  <2> QED BY <1>1, <2>2, <2>3, <2>5 DEF Kept
<1>4. ASSUME NEW i \in Rows, NEW run_at \in 0 .. MaxClock, Insert(i, run_at)
      PROVE  FALSE
  <2> DEFINE r1 == [rows[i] EXCEPT !.state = "ready"]
             r2 == [r1 EXCEPT !.run_at = run_at]
  <2>1. rows' = [rows EXCEPT ![i] = r2] /\ rows[i] \in Row
    BY <1>2, <1>4 DEF Insert
  <2>2. r2.locked_by = rows[i].locked_by
    BY <2>1 DEF Row
  <2> HIDE DEF r2
  <2> QED BY <1>1, <1>2, <2>1, <2>2
<1>5. ASSUME NEW i \in Rows, NEW state \in {"done", "dead"}, End(i, state)
      PROVE  FALSE
  <2> DEFINE r1 == [rows[i] EXCEPT !.state = state]
             r2 == [r1 EXCEPT !.locked_by = NoWorker]
  <2>1. rows' = [rows EXCEPT ![i] = r2] /\ rows[i] \in Row
    BY <1>2, <1>5 DEF End
  <2>2. r1 \in Row
    BY <2>1 DEF Row
  <2> HIDE DEF r1
  <2>3. r2.locked_by = NoWorker
    BY <2>2 DEF Row
  <2> HIDE DEF r2
  <2> QED BY <1>1, <1>2, <2>1, <2>3
<1>6. ASSUME NEW i \in Rows, NEW run_at \in 0 .. MaxClock + 1, GiveBack(i, run_at)
      PROVE  FALSE
  <2> DEFINE r == [state |-> "ready", run_at |-> run_at, locked_by |-> NoWorker]
  <2>1. rows' = [rows EXCEPT ![i] = r]
    BY <1>6 DEF GiveBack
  <2>2. r.locked_by = NoWorker
    OBVIOUS
  <2> HIDE DEF r
  <2> QED BY <1>1, <1>2, <2>1, <2>2
<1>7. ~UNCHANGED rows
  BY <1>1
<1> QED BY <1>3, <1>4, <1>5, <1>6, <1>7
        DEF Next, vars, Begin, LockRow, Abort, Tick

(* "A disjoint batch" (claim.rs): every row a worker walks away with is,   *)
(* in the state the claim commits to, ready, due and no one's, whatever    *)
(* the other claims, the retries and the reaper did since its snapshot.    *)
THEOREM AtomicClaims == Spec => ClaimsAreAtomic
<1>1. LocksInv /\ [Next]_vars =>
        [\A w \in Workers : \A j \in Taken(w) :
           Claimable(j, clock) /\ rows[j].locked_by = NoWorker]_vars
  <2> SUFFICES ASSUME LocksInv, [Next]_vars, NEW w \in Workers, NEW j \in Taken(w)
               PROVE  Claimable(j, clock) /\ rows[j].locked_by = NoWorker
    OBVIOUS
  <2>1. j \in tx[w].window
    BY TakenIsOfTheWindow
  <2>2. j \in Rows /\ rows[j] \in Row /\ clock \in 0 .. MaxClock /\ tx[w] \in Tx
    BY DEF Taken, LocksInv, TypeOK
  <2>3. rows[j].run_at \in Int /\ tx[w].now \in Int
    BY <2>2, ClaimAssumption DEF Row, Tx
  <2>4. Claimable(j, tx[w].now) /\ tx[w].now <= clock
    BY <2>1 DEF LocksInv, LockedStayClaimable
  <2>5. Claimable(j, clock)
    BY <2>2, <2>3, <2>4, ClaimAssumption DEF Claimable
  <2> QED BY <2>2, <2>5 DEF Claimable, LocksInv, OnlyRunningIsLocked
<1> QED BY <1>1, LocksAlways, PTL DEF Spec, ClaimsAreAtomic

(* A commit takes the rows whose number is within the cap, and no others.  *)
LEMMA TakenAreKept ==
  ASSUME LocksInv, NEW w \in Workers, NEW rn,
         rows' = [j \in Rows |->
                    IF j \in Kept(w, rn)
                    THEN [rows[j] EXCEPT !.state = "running", !.locked_by = w]
                    ELSE rows[j]]
  PROVE  Taken(w) = Kept(w, rn)
<1>1. /\ rows \in [Rows -> Row] /\ tx[w] \in Tx /\ tx[w].window \subseteq Rows
      /\ w # NoWorker
  BY ClaimAssumption DEF LocksInv, TypeOK, Tx
<1>2. ASSUME NEW j \in Kept(w, rn) PROVE j \in Taken(w)
  <2>1. j \in Rows /\ j \in tx[w].window
    BY <1>1 DEF Kept
  <2>2. rows[j] \in Row /\ rows[j].state = "ready"
    BY <1>1, <2>1 DEF LocksInv, LockedStayClaimable, Claimable
  <2>3. rows[j].locked_by # w
    BY <1>1, <2>1, <2>2 DEF LocksInv, OnlyRunningIsLocked
  <2> DEFINE r1 == [rows[j] EXCEPT !.state = "running"]
             r2 == [r1 EXCEPT !.locked_by = w]
  <2>4. rows'[j] = r2
    BY <2>1
  <2>5. r1 \in Row
    BY <2>2 DEF Row
  <2> HIDE DEF r1
  <2>6. r2.locked_by = w
    BY <2>5 DEF Row
  <2> HIDE DEF r2
  <2> QED BY <2>1, <2>3, <2>4, <2>6 DEF Taken
<1>3. ASSUME NEW j \in Taken(w) PROVE j \in Kept(w, rn)
  BY DEF Taken
<1> QED BY <1>2, <1>3

(* What a commit takes of each carrier: its numbers are those up to the    *)
(* cap, one for each row, the lower ones for the older rows.               *)
LEMMA CommitShares ==
  ASSUME LocksInv, NEW w \in Workers, Commit(w), NEW c
  PROVE  LET took == Of(Taken(w), c)
             left == Of(tx[w].window, c) \ took
         IN  /\ Cardinality(took) <= Cap[w]
             /\ left # {} => Cardinality(took) = Cap[w]
             /\ \A i \in took, j \in left : rows[i].run_at <= rows[j].run_at
<1> DEFINE took == Of(Taken(w), c)
           left == Of(tx[w].window, c) \ took
<1>1. PICK rn \in RowNumbers(tx[w].window) :
        rows' = [j \in Rows |->
                   IF j \in Kept(w, rn)
                   THEN [rows[j] EXCEPT !.state = "running", !.locked_by = w]
                   ELSE rows[j]]
  BY DEF Commit
<1>2. Taken(w) = Kept(w, rn)
  BY <1>1, TakenAreKept
<1>3. Cap[w] \in Nat \ {0} /\ tx[w].window \subseteq Rows /\ rows \in [Rows -> Row]
  BY ClaimAssumption DEF LocksInv, TypeOK, Tx
<1>4. \A j \in Rows : rows[j].run_at \in Int
  BY <1>3, ClaimAssumption DEF Row
<1> DEFINE m == Cardinality(tx[w].window)
           numbers == [j \in took |-> rn[j]]
<1>5. /\ rn \in [tx[w].window -> 1 .. m]
      /\ \A i, j \in tx[w].window : Carrier[i] = Carrier[j] =>
           /\ i # j => rn[i] # rn[j]
           /\ rows[i].run_at < rows[j].run_at => rn[i] < rn[j]
           /\ \A n \in 1 .. rn[i] : \E k \in tx[w].window :
                Carrier[k] = Carrier[i] /\ rn[k] = n
  BY DEF RowNumbers
<1> HIDE DEF m
<1>6. \A j \in tx[w].window : rn[j] \in Int /\ 1 <= rn[j]
  BY <1>5
<1>7. took = {j \in tx[w].window : Carrier[j] = c /\ rn[j] <= Cap[w]}
  BY <1>2 DEF Of, Kept
<1>8. left = {j \in tx[w].window : Carrier[j] = c /\ ~(rn[j] <= Cap[w])}
  BY <1>7 DEF Of
<1> HIDE DEF took, left
<1>9. numbers \in Injection(took, 1 .. Cap[w])
  <2>1. \A j \in took : rn[j] \in 1 .. Cap[w]
    BY <1>3, <1>6, <1>7
  <2>2. numbers \in [took -> 1 .. Cap[w]]
    BY <2>1
  <2>3. \A i, j \in took : numbers[i] = numbers[j] => i = j
    <3>1. \A i, j \in tx[w].window : Carrier[i] = Carrier[j] /\ i # j => rn[i] # rn[j]
      BY <1>5
    <3>2. \A i \in took : i \in tx[w].window /\ Carrier[i] = c
      BY <1>7
    <3> QED BY <3>1, <3>2
  <2> HIDE DEF numbers
  <2> QED BY <2>2, <2>3 DEF Injection, IsInjective
<1>10. IsFiniteSet(1 .. Cap[w]) /\ Cardinality(1 .. Cap[w]) = Cap[w]
  <2>1. \A k \in Nat \ {0} : IsFiniteSet(1 .. k) /\ Cardinality(1 .. k) = k
    BY FS_Interval
  <2> QED BY <1>3, <2>1
<1>11. IsFiniteSet(took) /\ Cardinality(took) \in Nat /\ Cardinality(took) <= Cap[w]
  BY <1>9, <1>10, FS_Injection, FS_CardinalityType
<1>12. ASSUME left # {} PROVE Cardinality(took) = Cap[w]
  <2>1. PICK i \in left : TRUE
    BY <1>12
  <2>2. ASSUME NEW n \in 1 .. Cap[w] PROVE \E k \in took : rn[k] = n
    <3>1. n \in 1 .. rn[i]
      BY <1>3, <1>6, <1>8
    <3>2. PICK k \in tx[w].window : Carrier[k] = c /\ rn[k] = n
      BY <1>5, <1>8, <3>1
    <3> QED BY <1>3, <1>7, <3>2
  <2>3. numbers \in Surjection(took, 1 .. Cap[w])
    <3>1. numbers \in [took -> 1 .. Cap[w]]
      BY <1>9 DEF Injection
    <3>2. \A n \in 1 .. Cap[w] : \E k \in took : numbers[k] = n
      BY <2>2
    <3> HIDE DEF numbers
    <3> QED BY <3>1, <3>2 DEF Surjection
  <2>4. Cap[w] <= Cardinality(took)
    BY <1>10, <1>11, <2>3, FS_Surjection
  <2> QED BY <1>3, <1>11, <2>4
<1>13. ASSUME NEW i \in took, NEW j \in left PROVE rows[i].run_at <= rows[j].run_at
  <2>1. /\ i \in tx[w].window /\ j \in tx[w].window /\ Carrier[i] = Carrier[j]
        /\ rn[i] <= Cap[w] /\ ~(rn[j] <= Cap[w])
    BY <1>7, <1>8
  <2>2. ~(rows[j].run_at < rows[i].run_at)
    <3>1. rows[j].run_at < rows[i].run_at => rn[j] < rn[i]
      BY <1>5, <2>1
    <3>2. rn[i] \in Int /\ rn[j] \in Int
      BY <1>6, <2>1
    <3> QED BY <1>3, <2>1, <3>1, <3>2
  <2> QED BY <1>3, <1>4, <2>1, <2>2
<1> QED BY <1>11, <1>12, <1>13 DEF took, left

(* "No single carrier eats more than per_tenant_cap rows of a batch", and  *)
(* none with a row in the window is left out: of each carrier the oldest   *)
(* rows are taken, up to the cap (the row_number() of fair_claim.rs).      *)
THEOREM SharesAreFair == Spec => FairShares
<1> DEFINE Shares(w) ==
             \A c \in {Carrier[j] : j \in Rows} :
               LET took == Of(Taken(w), c)
                   left == Of(tx[w].window, c) \ took
               IN  /\ Cardinality(took) <= Cap[w]
                   /\ left # {} => Cardinality(took) = Cap[w]
                   /\ \A i \in took, j \in left : rows[i].run_at <= rows[j].run_at
<1>1. LocksInv /\ [Next]_vars => \A w \in Workers : Taken(w) # {} => Shares(w)
  <2> SUFFICES ASSUME LocksInv, [Next]_vars, NEW w \in Workers, Taken(w) # {}
               PROVE  Shares(w)
    OBVIOUS
  <2>1. Commit(w)
    BY TakenIsOfTheWindow
  <2> QED BY <2>1, CommitShares
<1>2. LocksInv /\ [Next]_vars => [\A w \in Workers : Taken(w) # {} => Shares(w)]_vars
  BY <1>1
<1> QED BY <1>2, LocksAlways, PTL DEF Spec, FairShares

-----------------------------------------------------------------------------
(* The claims implement atomic ones                                        *)

(* LIMIT: the window of a claim never outgrows it.                         *)
WindowsWithinLimit ==
  \A w \in Workers : /\ IsFiniteSet(tx[w].window)
                     /\ Cardinality(tx[w].window) <= Limit[w]

(* A worker that executes no claim has an empty window.                    *)
LEMMA NoWindow ==
  ASSUME NEW w \in Workers
  PROVE  IsFiniteSet(Idle.window) /\ Cardinality(Idle.window) <= Limit[w]
<1>1. Idle.window = {} /\ IsFiniteSet({}) /\ Cardinality({}) = 0
  BY IdleFacts, FS_EmptySet
<1>2. Limit[w] \in Nat
  BY ClaimAssumption
<1> QED BY <1>1, <1>2

(* A row is added to a window only below the limit.                        *)
LEMMA LimitStep ==
  ASSUME LocksInv, WindowsWithinLimit, [Next]_vars PROVE WindowsWithinLimit'
<1>1. ASSUME NEW w \in Workers, NEW t, tx' = [tx EXCEPT ![w] = t],
             IsFiniteSet(t.window), Cardinality(t.window) <= Limit[w]
      PROVE  WindowsWithinLimit'
  <2>1. \A v \in Workers : tx'[v] = IF v = w THEN t ELSE tx[v]
    BY <1>1 DEF LocksInv, TypeOK
  <2> QED BY <1>1, <2>1 DEF WindowsWithinLimit
<1>2. ASSUME UNCHANGED tx PROVE WindowsWithinLimit'
  BY <1>2 DEF WindowsWithinLimit
<1>3. ASSUME NEW w \in Workers, Begin(w) PROVE WindowsWithinLimit'
  <2> DEFINE seen == {j \in Rows : Claimable(j, clock)}
             t == [active |-> TRUE, now |-> clock, window |-> {},
                   todo |-> [j \in seen |-> rows[j].run_at]]
  <2>1. tx' = [tx EXCEPT ![w] = t]
    BY <1>3 DEF Begin
  <2>2. t.window = Idle.window
    BY IdleFacts
  <2> HIDE DEF t
  <2> QED BY <1>1, <2>1, <2>2, NoWindow
<1>4. ASSUME NEW w \in Workers, Commit(w) \/ Abort(w) PROVE WindowsWithinLimit'
  BY <1>1, <1>4, NoWindow DEF Commit, Abort
<1>5. ASSUME NEW w \in Workers, LockRow(w) PROVE WindowsWithinLimit'
  <2>1. PICK j \in DOMAIN tx[w].todo :
          tx' = [tx EXCEPT
            ![w].todo   = [i \in DOMAIN @ \ {j} |-> @[i]],
            ![w].window = IF Takes(w, j) THEN @ \cup {j} ELSE @]
    BY <1>5 DEF LockRow
  <2>2. tx \in [Workers -> Tx] /\ tx[w] \in Tx
    BY DEF LocksInv, TypeOK
  <2> DEFINE old == tx[w].window
             window == IF Takes(w, j) THEN old \cup {j} ELSE old
             t1 == [tx[w] EXCEPT !.todo = [i \in DOMAIN tx[w].todo \ {j} |-> tx[w].todo[i]]]
             t  == [t1 EXCEPT !.window = window]
  <2>3. tx' = [tx EXCEPT ![w] = t]
    BY <2>1, <2>2
  <2>4. t.window = window
    BY <2>2 DEF Tx
  <2> HIDE DEF t
  <2>5. /\ IsFiniteSet(old) /\ Cardinality(old) \in Nat
        /\ Cardinality(old) < Limit[w] /\ Limit[w] \in Nat
    BY <1>5, FS_CardinalityType, ClaimAssumption DEF LockRow, Scanning, WindowsWithinLimit
  <2>6. /\ IsFiniteSet(old \cup {j})
        /\ Cardinality(old \cup {j}) \in {Cardinality(old), Cardinality(old) + 1}
    BY <2>5, FS_AddElement
  <2>7. IsFiniteSet(window) /\ Cardinality(window) <= Limit[w]
    <3> HIDE DEF old
    <3> QED BY <2>5, <2>6
  <2> HIDE DEF window
  <2> QED BY <1>1, <2>3, <2>4, <2>7
<1> QED BY <1>2, <1>3, <1>4, <1>5 DEF Next, Insert, End, GiveBack, Tick, vars

(* What is counted is the same in both modules.                            *)
LEMMA SameCardinality == \A S : Atomic!Cardinality(S) = Cardinality(S)
  BY DEF Atomic!Cardinality, Cardinality

(* A commit is the atomic claim, of the rows it has locked.                *)
LEMMA CommitIsClaim ==
  ASSUME LocksInv, WindowsWithinLimit, NEW w \in Workers, Commit(w)
  PROVE  Atomic!Claim(w)
<1> DEFINE window == tx[w].window
           S == Taken(w)
<1>1. /\ rows \in [Rows -> Row] /\ tx \in [Workers -> Tx] /\ tx[w] \in Tx
      /\ clock \in 0 .. MaxClock
  BY DEF LocksInv, TypeOK
<1>2. PICK rn \in RowNumbers(window) :
        rows' = [j \in Rows |->
                   IF j \in Kept(w, rn)
                   THEN [rows[j] EXCEPT !.state = "running", !.locked_by = w]
                   ELSE rows[j]]
  BY DEF Commit
<1>3. S = Kept(w, rn) /\ S \subseteq window
  BY <1>2, TakenAreKept DEF Kept
<1>4. rows' = [j \in Rows |->
                 IF j \in S THEN [rows[j] EXCEPT !.state = "running", !.locked_by = w]
                            ELSE rows[j]]
  BY <1>2, <1>3
<1>5. window \subseteq Atomic!Due
  <2> SUFFICES ASSUME NEW j \in window PROVE j \in Atomic!Due
    OBVIOUS
  <2>1. j \in Rows /\ rows[j] \in Row
    BY <1>1 DEF Tx
  <2>2. rows[j].state = "ready" /\ rows[j].run_at <= tx[w].now /\ tx[w].now <= clock
    BY DEF LocksInv, LockedStayClaimable, Claimable
  <2>3. rows[j].run_at \in Int /\ tx[w].now \in Int /\ clock \in Int
    BY <1>1, <2>1, ClaimAssumption DEF Row, Tx
  <2>4. rows[j].run_at <= clock
    BY <2>2, <2>3
  <2>5. rows[j].locked_by = NoWorker
    BY <2>1, <2>2 DEF LocksInv, OnlyRunningIsLocked
  <2> QED BY <2>1, <2>2, <2>4, <2>5 DEF Atomic!Due
<1>6. Cardinality(S) <= Limit[w]
  <2>1. IsFiniteSet(window) /\ Cardinality(window) <= Limit[w] /\ Limit[w] \in Nat
    BY ClaimAssumption DEF WindowsWithinLimit
  <2>2. /\ Cardinality(S) <= Cardinality(window)
        /\ Cardinality(S) \in Nat /\ Cardinality(window) \in Nat
    BY <1>3, <2>1, FS_Subset, FS_CardinalityType
  <2> QED BY <2>1, <2>2
<1>7. \A c \in {Carrier[j] : j \in S} : Cardinality(Atomic!Of(S, c)) <= Cap[w]
  BY CommitShares DEF Atomic!Of, Of
<1>8. UNCHANGED <<clock, returns>>
  BY DEF Commit
<1> HIDE DEF S, window
<1> QED BY <1>3, <1>4, <1>5, <1>6, <1>7, <1>8, SameCardinality DEF Atomic!Claim

(* Every step is one of the atomic queue, or no step of it: the snapshots, *)
(* the visits and the rollbacks have no effect that anyone sees.           *)
LEMMA AtomicStep ==
  ASSUME LocksInv, WindowsWithinLimit, [Next]_vars
  PROVE  [Atomic!Next]_(Atomic!vars)
<1>1. ASSUME NEW w \in Workers, Commit(w) PROVE Atomic!Next
  BY <1>1, CommitIsClaim DEF Atomic!Next
<1>2. ASSUME NEW w \in Workers, Begin(w) \/ LockRow(w) \/ Abort(w)
      PROVE  UNCHANGED Atomic!vars
  BY <1>2 DEF Begin, LockRow, Abort, Atomic!vars
<1>3. ASSUME NEW j \in Rows, NEW run_at \in 0 .. MaxClock, Insert(j, run_at)
      PROVE  Atomic!Next
  BY <1>3 DEF Insert, Atomic!Next, Atomic!Insert
<1>4. ASSUME NEW j \in Rows, NEW state \in {"done", "dead"}, End(j, state)
      PROVE  Atomic!Next
  BY <1>4 DEF End, Atomic!Next, Atomic!End
<1>5. ASSUME NEW j \in Rows, NEW run_at \in 0 .. MaxClock + 1, GiveBack(j, run_at)
      PROVE  Atomic!Next
  BY <1>5 DEF GiveBack, Atomic!Next, Atomic!GiveBack
<1>6. CASE Tick
  BY <1>6 DEF Tick, Atomic!Next, Atomic!Tick
<1>7. CASE UNCHANGED vars
  BY <1>7 DEF vars, Atomic!vars
<1> QED BY <1>1, <1>2, <1>3, <1>4, <1>5, <1>6, <1>7 DEF Next

(* The claims, row by row and overlapping, implement claims that are one   *)
(* step each: what JobQueue takes claim_batch to be, and what "FOR NO KEY  *)
(* UPDATE SKIP LOCKED" is for (claim.rs).                                  *)
THEOREM ImplementsAtomicClaims == Spec => IsAtomic
<1>1. Init => Atomic!Init
  BY DEF Init, Atomic!Init
<1>2. Init => WindowsWithinLimit
  BY NoWindow DEF Init, WindowsWithinLimit
<1> QED BY <1>1, <1>2, LimitStep, AtomicStep, LocksAlways, PTL
        DEF Spec, IsAtomic, Atomic!Spec
=============================================================================
