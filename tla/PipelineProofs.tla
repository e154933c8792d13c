--------------------------- MODULE PipelineProofs ---------------------------
(***************************************************************************)
(* Theorems about Pipeline, for any jobs, events, attempts, connections    *)
(* and errors that satisfy its assumptions.                                *)
(***************************************************************************)
EXTENDS Pipeline, FiniteSetTheorems, TLAPS

(* A ready row has an attempt left, and no row has had none.               *)
RowsOK ==
  \A j \in Jobs : /\ row[j].state = "ready" => row[j].attempts < MaxAttempts
                  /\ row[j].state = "absent" => row[j].attempts = 0

(* The jobs of the producer's transaction are new.                         *)
BurstOK == \A j \in producer : row[j].state = "absent"

(* Where run r is tells what its transaction has written.                  *)
RunOK(r) ==
  /\ pc[r] \in {"idle", "begin"} => r \notin open
  /\ pc[r] \in {"insert", "duplicate"} => r \in open /\ writes[r] = {}
  /\ pc[r] = "effect" => r \in open /\ writes[r] = {"key"}
  /\ pc[r] = "commit" => r \in open /\ writes[r] = {"key", "effect"}
  /\ r \notin open => writes[r] = {}

RunsOK == \A r \in Runs : RunOK(r)

(* A COMMIT is sent only after the effect, and the effect is only inserted *)
(* after the key.                                                          *)
WritesInOrder ==
  \A r \in Runs : /\ "lost" \in writes[r] => "effect" \in writes[r]
                  /\ "effect" \in writes[r] => "key" \in writes[r]

(* A run is delivered by a claim of its attempt, so no run is delivered    *)
(* twice, and none without a row.                                          *)
Delivered ==
  \A r \in Runs : pc[r] # "idle" => /\ row[r[1]].state # "absent"
                                    /\ r[2] <= row[r[1]].attempts

(* The unique key: an event is in the ledger or has been inserted by one   *)
(* transaction at most, orphans included.                                  *)
KeysOK ==
  \A r \in Runs : "key" \in writes[r] =>
    /\ KeyOf[r] \notin ledger
    /\ \A q \in Runs \ {r} : "key" \in writes[q] => KeyOf[q] # KeyOf[r]

(* Who is told "already processed", or commits, knows its key in the       *)
(* ledger, and so does the row it completes.                               *)
Processed ==
  /\ \A r \in Runs : pc[r] \in {"duplicate", "ok"} => KeyOf[r] \in ledger
  /\ \A j \in Jobs : row[j].state = "done" => Key[j] \in ledger

Types == TypeOK /\ IsFiniteSet(conn)

(* EffectIffProcessed is not inductive by itself: a COMMIT that reaches    *)
(* the server late adds an effect, and only KeysOK says that no other      *)
(* transaction has added it since.                                         *)
OnceInv ==
  /\ Types /\ RowsOK /\ BurstOK
  /\ RunsOK /\ WritesInOrder /\ Delivered /\ KeysOK /\ Processed
  /\ EffectIffProcessed

-----------------------------------------------------------------------------
(* A run is a job and an attempt of it.                                    *)
LEMMA RunParts ==
  /\ \A r \in Runs : /\ r[1] \in Jobs /\ r[2] \in 1 .. MaxAttempts
                     /\ r = <<r[1], r[2]>> /\ KeyOf[r] = Key[r[1]]
                     /\ KeyOf[r] \in Keys
  /\ \A j \in Jobs, n \in 1 .. MaxAttempts : <<j, n>> \in Runs
BY PipelineAssumption, HandlerAssumption

(* At first there is nothing to contradict.                                *)
LEMMA OnceInit == Init => OnceInv
<1> SUFFICES ASSUME Init PROVE OnceInv
  OBVIOUS
<1> USE DEF Init, HandlerInit
<1>1. IsFiniteSet({}) /\ Cardinality({}) = 0
  BY FS_EmptySet
<1>2. HandlerTypeOK
  BY <1>1, HandlerAssumption DEF HandlerTypeOK, Points
<1>3. row \in [Jobs -> Rows]
  BY PipelineAssumption DEF Rows
<1>4. Types
  BY <1>1, <1>2, <1>3 DEF Types, TypeOK
<1>5. RowsOK /\ BurstOK
  BY PipelineAssumption DEF RowsOK, BurstOK
<1>6. RunsOK /\ WritesInOrder /\ Delivered
  BY DEF RunsOK, RunOK, WritesInOrder, Delivered
<1>7. KeysOK /\ Processed /\ EffectIffProcessed
  BY DEF KeysOK, Processed, EffectIffProcessed
<1> QED BY <1>4, <1>5, <1>6, <1>7 DEF OnceInv

-----------------------------------------------------------------------------
(* The steps of the handler                                                *)

(* A step of run r of the handler that ends no transaction: it adds to     *)
(* r's writes at most, and leaves the other runs alone.                    *)
LEMMA RunStep ==
  ASSUME OnceInv, NEW r \in Runs, UNCHANGED <<qvars, tables>>,
         NEW p \in Points \ {"idle"}, Goto(r, p), pc[r] # "idle",
         conn' \in SUBSET Runs, IsFiniteSet(conn'),
         Cardinality(conn') <= MaxConnections,
         open' \in SUBSET Runs, \A q \in Runs \ {r} : q \in open' <=> q \in open,
         writes' \in [Runs -> SUBSET {"key", "effect", "lost"}],
         \A q \in Runs \ {r} : writes'[q] = writes[q],
         faults' \in 0 .. MaxFaults,
         RunOK(r)',
         "lost" \in writes'[r] => "effect" \in writes'[r],
         "effect" \in writes'[r] => "key" \in writes'[r],
         "key" \in writes'[r] => \/ "key" \in writes[r]
                                 \/ KeyOf[r] \notin ledger /\ Inserting(r) = {},
         p \in {"duplicate", "ok"} => KeyOf[r] \in ledger
  PROVE  OnceInv'
<1> USE DEF OnceInv
<1>1. pc' = [pc EXCEPT ![r] = p] /\ pc \in [Runs -> Points]
  BY DEF Goto, Types, TypeOK, HandlerTypeOK
<1>2. /\ pc'[r] = p
      /\ \A q \in Runs \ {r} : pc'[q] = pc[q]
  BY <1>1
<1>3. Types'
  BY <1>1 DEF Types, TypeOK, HandlerTypeOK, qvars, tables
<1>4. RowsOK' /\ BurstOK'
  BY DEF RowsOK, BurstOK, qvars
<1>5. RunsOK'
  BY <1>2 DEF RunsOK, RunOK
<1>6. WritesInOrder' /\ Delivered'
  BY <1>2 DEF WritesInOrder, Delivered, qvars
<1>7. \A q \in Runs : "key" \in writes[q] => q \in open
  BY DEF RunsOK, RunOK
<1>8. KeysOK'
  BY <1>7 DEF KeysOK, Inserting, tables
<1>9. Processed' /\ EffectIffProcessed'
  BY <1>2 DEF Processed, EffectIffProcessed, qvars, tables
<1> QED BY <1>3, <1>4, <1>5, <1>6, <1>8, <1>9

(* The pool has one connection less, or one more.                          *)
LEMMA ConnectionSteps ==
  ASSUME Types, NEW r \in Runs
  PROVE  /\ FreeConnection => /\ conn \cup {r} \in SUBSET Runs
                              /\ IsFiniteSet(conn \cup {r})
                              /\ Cardinality(conn \cup {r}) <= MaxConnections
         /\ conn \ {r} \in SUBSET Runs /\ IsFiniteSet(conn \ {r})
         /\ Cardinality(conn \ {r}) <= MaxConnections
         /\ conn \in SUBSET Runs /\ Cardinality(conn) <= MaxConnections
<1>1. /\ IsFiniteSet(conn) /\ conn \in SUBSET Runs
      /\ Cardinality(conn) <= MaxConnections /\ MaxConnections \in Nat
  BY HandlerAssumption DEF Types, TypeOK, HandlerTypeOK
<1>2. Cardinality(conn) \in Nat
  BY <1>1, FS_CardinalityType
<1>3. /\ IsFiniteSet(conn \cup {r})
      /\ Cardinality(conn \cup {r}) = IF r \in conn THEN Cardinality(conn)
                                       ELSE Cardinality(conn) + 1
  BY <1>1, FS_AddElement, Zenon
<1>4. /\ IsFiniteSet(conn \ {r})
      /\ Cardinality(conn \ {r}) = IF r \in conn THEN Cardinality(conn) - 1
                                    ELSE Cardinality(conn)
  BY <1>1, FS_RemoveElement, Zenon
<1>5. Cardinality(conn \cup {r}) \in Nat /\ Cardinality(conn \ {r}) \in Nat
  BY <1>3, <1>4, FS_CardinalityType
<1> QED BY <1>1, <1>2, <1>3, <1>4, <1>5 DEF FreeConnection

(* process up to its commit, and its errors that leave the transaction to  *)
(* the server: every such step adds to the writes of its own run.          *)
LEMMA ProcessStep ==
  ASSUME OnceInv, NEW r \in Runs, UNCHANGED qvars,
         \/ Begin(r) \/ InsertKey(r) \/ RollBack(r) \/ InsertEffect(r)
         \/ AcquireTimeout(r)
  PROVE  OnceInv'
<1> USE DEF OnceInv
<1>1. /\ open \subseteq Runs /\ faults \in 0 .. MaxFaults /\ IsFiniteSet(conn)
      /\ writes \in [Runs -> SUBSET {"key", "effect", "lost"}]
      /\ pc \in [Runs -> Points] /\ MaxFaults \in Nat
  BY HandlerAssumption DEF Types, TypeOK, HandlerTypeOK
<1>2. RunOK(r)
  BY DEF RunsOK
<1>3. Types
  OBVIOUS
<1>4. CASE Begin(r)
  <2>1. pc'[r] = "insert" /\ writes'[r] = {}
    BY <1>1, <1>2, <1>4 DEF Begin, Goto, RunOK
  <2>2. RunOK(r)'
    BY <1>4, <2>1 DEF Begin, RunOK
  <2>3. Goto(r, "insert") /\ pc[r] # "idle" /\ "insert" \in Points \ {"idle"}
    BY <1>4 DEF Begin, Points
  <2> QED BY <1>1, <1>3, <1>4, <2>1, <2>2, <2>3, RunStep, ConnectionSteps
          DEF Begin, tables
<1>5. CASE InsertKey(r)
  <2>0. /\ pc[r] = "insert" /\ Inserting(r) = {} /\ writes[r] = {} /\ r \in open
        /\ UNCHANGED <<conn, open, tables, faults>>
    BY <1>2, <1>5 DEF InsertKey, RunOK
  <2>1. CASE KeyOf[r] \in ledger /\ Goto(r, "duplicate") /\ UNCHANGED writes
    <3>1. RunOK(r)'
      BY <1>1, <2>0, <2>1 DEF RunOK, Goto
    <3>2. "duplicate" \in Points \ {"idle"}
      BY DEF Points
    <3> QED BY <1>1, <1>3, <2>0, <2>1, <3>1, <3>2, RunStep, ConnectionSteps
  <2>2. CASE /\ KeyOf[r] \notin ledger /\ Goto(r, "effect")
             /\ writes' = [writes EXCEPT ![r] = @ \cup {"key"}]
    <3>1. writes'[r] = {"key"} /\ pc'[r] = "effect"
      BY <1>1, <2>0, <2>2 DEF Goto
    <3>2. RunOK(r)' /\ "effect" \in Points \ {"idle"}
      BY <2>0, <3>1 DEF RunOK, Points
    <3>3. writes' \in [Runs -> SUBSET {"key", "effect", "lost"}]
      BY <1>1, <2>2
    <3> QED BY <1>1, <1>3, <2>0, <2>2, <3>1, <3>2, <3>3, RunStep, ConnectionSteps
  <2> QED BY <1>5, <2>1, <2>2 DEF InsertKey
<1>6. CASE RollBack(r)
  <2>1. /\ pc[r] = "duplicate" /\ pc'[r] = "ok" /\ writes'[r] = {}
        /\ KeyOf[r] \in ledger
    BY <1>1, <1>2, <1>6 DEF RollBack, Goto, RunOK, Processed
  <2>2. RunOK(r)' /\ Goto(r, "ok") /\ "ok" \in Points \ {"idle"}
    BY <1>6, <2>1 DEF RollBack, RunOK, Points
  <2> QED BY <1>1, <1>3, <1>6, <2>1, <2>2, RunStep, ConnectionSteps
          DEF RollBack, tables
<1>7. CASE InsertEffect(r)
  <2>1. /\ pc[r] = "effect" /\ pc'[r] = "commit" /\ r \in open
        /\ writes[r] = {"key"} /\ writes'[r] = {"key", "effect"}
    BY <1>1, <1>2, <1>7 DEF InsertEffect, Goto, RunOK
  <2>2. RunOK(r)' /\ Goto(r, "commit") /\ "commit" \in Points \ {"idle"}
    BY <1>7, <2>1 DEF InsertEffect, RunOK, Points
  <2>3. writes' \in [Runs -> SUBSET {"key", "effect", "lost"}]
    BY <1>1, <1>7 DEF InsertEffect
  <2> QED BY <1>1, <1>3, <1>7, <2>1, <2>2, <2>3, RunStep, ConnectionSteps
          DEF InsertEffect
<1>8. CASE AcquireTimeout(r)
  <2>1. /\ pc[r] = "begin" /\ pc'[r] = "failed" /\ writes[r] = {} /\ r \notin open
        /\ faults' \in 0 .. MaxFaults
    BY <1>1, <1>2, <1>8 DEF AcquireTimeout, Goto, RunOK
  <2>2. RunOK(r)' /\ Goto(r, "failed") /\ "failed" \in Points \ {"idle"}
    BY <1>8, <2>1 DEF AcquireTimeout, RunOK, Points
  <2> QED BY <1>1, <1>3, <1>8, <2>1, <2>2, RunStep, ConnectionSteps
          DEF AcquireTimeout
<1> QED BY <1>4, <1>5, <1>6, <1>7, <1>8

(* A transaction with the key and the effect is committed: it was the only *)
(* one that had inserted the key, and the key was not in the ledger.       *)
LEMMA CommitStep ==
  ASSUME OnceInv, NEW r \in Runs, Committed(r), "effect" \in writes[r],
         UNCHANGED <<qvars, faults>>, NEW p \in Points \ InProcess, p # "idle",
         Goto(r, p), conn' \in {conn, conn \ {r}}
  PROVE  /\ OnceInv'
         /\ effects[KeyOf[r]] = 0
         /\ effects' = [effects EXCEPT ![KeyOf[r]] = 1]
         /\ r[1] \in Enqueued
<1> USE DEF OnceInv
<1>1. /\ open \subseteq Runs /\ pc \in [Runs -> Points]
      /\ writes \in [Runs -> SUBSET {"key", "effect", "lost"}]
      /\ effects \in [Keys -> Nat] /\ ledger \subseteq Keys /\ KeyOf[r] \in Keys
  BY RunParts DEF Types, TypeOK, HandlerTypeOK
<1>2. "key" \in writes[r] /\ KeyOf[r] \notin ledger /\ r \in open
  BY DEF WritesInOrder, KeysOK, RunsOK, RunOK
<1>3. /\ ledger' = ledger \cup {KeyOf[r]}
      /\ effects' = [effects EXCEPT ![KeyOf[r]] = @ + 1]
      /\ open' = open \ {r}
      /\ writes' = [writes EXCEPT ![r] = {}]
  BY <1>1, <1>2 DEF Committed
<1>4. effects[KeyOf[r]] = 0
  BY <1>1, <1>2 DEF EffectIffProcessed
<1>5. effects' = [effects EXCEPT ![KeyOf[r]] = 1]
  BY <1>1, <1>3, <1>4
<1>6. /\ pc'[r] = p /\ writes'[r] = {} /\ r \notin open'
      /\ \A q \in Runs \ {r} : /\ pc'[q] = pc[q] /\ writes'[q] = writes[q]
                               /\ q \in open' <=> q \in open
  BY <1>1, <1>3 DEF Goto
<1>7. Types'
  <2>1. /\ conn' \in SUBSET Runs /\ IsFiniteSet(conn')
        /\ Cardinality(conn') <= MaxConnections
    BY ConnectionSteps DEF Types
  <2>2. /\ pc' \in [Runs -> Points] /\ open' \in SUBSET Runs
        /\ writes' \in [Runs -> SUBSET {"key", "effect", "lost"}]
        /\ effects' \in [Keys -> Nat] /\ ledger' \in SUBSET Keys
    BY <1>1, <1>3, <1>5 DEF Goto
  <2> QED BY <2>1, <2>2 DEF Types, TypeOK, HandlerTypeOK, qvars
<1>8. RowsOK' /\ BurstOK'
  BY DEF RowsOK, BurstOK, qvars
<1>9. RunsOK'
  BY <1>6 DEF RunsOK, RunOK, InProcess
<1>10. WritesInOrder'
  BY <1>6 DEF WritesInOrder
<1>11. pc[r] # "idle"
  BY <1>2 DEF RunsOK, RunOK
<1>12. Delivered'
  BY <1>6, <1>11 DEF Delivered, qvars
<1>13. KeysOK'
  BY <1>2, <1>3, <1>6 DEF KeysOK
<1>14. Processed'
  BY <1>3, <1>6 DEF Processed, qvars
<1>15. EffectIffProcessed'
  BY <1>1, <1>3, <1>5 DEF EffectIffProcessed
<1>16. r[1] \in Enqueued
  BY <1>11, RunParts DEF Delivered, BurstOK, Enqueued
<1> QED BY <1>4, <1>5, <1>7, <1>8, <1>9, <1>10, <1>12, <1>13, <1>14, <1>15, <1>16

(* The errors of a statement, and what the server does with a transaction  *)
(* whose client is gone, unless it commits it.                             *)
LEMMA ErrorStep ==
  ASSUME OnceInv, NEW r \in Runs, UNCHANGED qvars, Fail(r) \/ AbortOrphan(r)
  PROVE  OnceInv'
<1> USE DEF OnceInv
<1>1. /\ open \subseteq Runs /\ faults \in 0 .. MaxFaults /\ IsFiniteSet(conn)
      /\ writes \in [Runs -> SUBSET {"key", "effect", "lost"}]
      /\ pc \in [Runs -> Points] /\ MaxFaults \in Nat
  BY HandlerAssumption DEF Types, TypeOK, HandlerTypeOK
<1>2. RunOK(r)
  BY DEF RunsOK
<1>3. Types /\ \A q \in Runs : writes[q] \in SUBSET {"key", "effect", "lost"}
  BY <1>1
<1>4. CASE Fail(r)
  <2>1. /\ pc[r] \in InProcess \ {"begin"} /\ Goto(r, "failed")
        /\ pc'[r] = "failed" /\ conn' = conn \ {r}
        /\ faults' \in 0 .. MaxFaults /\ "failed" \in Points \ {"idle"}
    BY <1>1, <1>4 DEF Fail, Goto, Points
  <2>2. CASE Aborted(r)
    <3>1. writes'[r] = {} /\ RunOK(r)'
      BY <1>1, <2>1, <2>2 DEF Aborted, RunOK
    <3> QED BY <1>1, <1>3, <2>1, <2>2, <3>1, RunStep, ConnectionSteps
            DEF Aborted, InProcess
  <2>3. CASE UNCHANGED <<open, writes, tables>>
    <3>1. RunOK(r)' /\ WritesInOrder
      BY <1>2, <2>1, <2>3 DEF RunOK
    <3> QED BY <1>1, <1>3, <2>1, <2>3, <3>1, RunStep, ConnectionSteps
            DEF InProcess, WritesInOrder
  <2>4. CASE /\ pc[r] = "commit" /\ UNCHANGED <<open, tables>>
             /\ writes' = [writes EXCEPT ![r] = @ \cup {"lost"}]
    <3>1. /\ writes[r] = {"key", "effect"}
          /\ writes'[r] = {"key", "effect", "lost"} /\ r \in open
      BY <1>1, <1>2, <2>4 DEF RunOK
    <3>2. RunOK(r)' /\ writes' \in [Runs -> SUBSET {"key", "effect", "lost"}]
      BY <1>1, <2>1, <2>4, <3>1 DEF RunOK
    <3> QED BY <1>1, <1>3, <2>1, <2>4, <3>1, <3>2, RunStep, ConnectionSteps
  <2> QED BY <1>4, <2>2, <2>3, <2>4 DEF Fail
<1>5. CASE AbortOrphan(r)
  <2>1. /\ r \in open /\ pc[r] \notin InProcess /\ pc[r] # "idle"
        /\ Goto(r, pc[r]) /\ pc[r] \in Points \ {"idle"}
    BY <1>1, <1>2, <1>5 DEF AbortOrphan, Orphaned, Goto, RunOK
  <2>2. writes'[r] = {} /\ RunOK(r)'
    BY <1>1, <1>5, <2>1 DEF AbortOrphan, Aborted, RunOK, InProcess, Goto
  <2> QED BY <1>1, <1>3, <1>5, <2>1, <2>2, RunStep, ConnectionSteps
          DEF AbortOrphan, Aborted, Processed
<1> QED BY <1>4, <1>5

-----------------------------------------------------------------------------
(* The steps of the queue and of the producer                              *)

(* A statement on the row of job j, and where it leaves run r of it: what  *)
(* is left to show of the row.                                             *)
LEMMA RowStep ==
  ASSUME OnceInv, NEW j \in Jobs, NEW t \in Rows, row' = [row EXCEPT ![j] = t],
         NEW r \in Runs, r[1] = j, NEW p \in Points, Goto(r, p),
         UNCHANGED <<producer, conn, open, writes, tables>>,
         faults' \in 0 .. MaxFaults,
         t.state = "ready" => t.attempts < MaxAttempts,
         t.state = "done" => Key[j] \in ledger,
         t.state # "absent", row[j].state # "absent",
         row[j].attempts <= t.attempts,
         \/ p = pc[r]
         \/ /\ p \in {"begin", "giveup", "over"}
            /\ p = "begin" => r \notin open
            /\ pc[r] \notin InProcess /\ r[2] <= t.attempts
  PROVE  OnceInv'
<1> USE DEF OnceInv
<1>1. /\ row \in [Jobs -> Rows] /\ pc \in [Runs -> Points] /\ MaxAttempts \in Nat
  BY PipelineAssumption DEF Types, TypeOK, HandlerTypeOK
<1>2. /\ row'[j] = t
      /\ \A i \in Jobs \ {j} : row'[i] = row[i]
      /\ pc'[r] = p
      /\ \A q \in Runs \ {r} : pc'[q] = pc[q]
      /\ row' \in [Jobs -> Rows] /\ pc' \in [Runs -> Points]
  BY <1>1 DEF Goto
<1>3. Types'
  BY <1>2 DEF Types, TypeOK, HandlerTypeOK, tables
<1>4. RowsOK'
  BY <1>2 DEF RowsOK
<1>5. BurstOK'
  BY <1>2 DEF BurstOK
<1>6. RunsOK'
  BY <1>2 DEF RunsOK, RunOK, InProcess
<1>7. WritesInOrder' /\ KeysOK' /\ EffectIffProcessed'
  BY DEF WritesInOrder, KeysOK, EffectIffProcessed, tables
<1>8. Delivered'
  <2> SUFFICES ASSUME NEW q \in Runs, pc'[q] # "idle"
               PROVE  row'[q[1]].state # "absent" /\ q[2] <= row'[q[1]].attempts
    BY DEF Delivered
  <2>1. CASE q = r /\ p # pc[r]
    BY <1>2, <2>1
  <2>2. CASE q # r \/ p = pc[r]
    <3>1. row[q[1]].state # "absent" /\ q[2] <= row[q[1]].attempts
      BY <1>2, <2>2 DEF Delivered
    <3>2. q[1] \in Jobs /\ q[2] \in Int
      BY RunParts
    <3>3. row[q[1]].attempts \in Int /\ t.attempts \in Int
      BY <1>1, <3>2 DEF Rows
    <3> QED BY <1>2, <3>1, <3>2, <3>3
  <2> QED BY <2>1, <2>2
<1>9. Processed'
  BY <1>2 DEF Processed, tables
<1> QED BY <1>3, <1>4, <1>5, <1>6, <1>7, <1>8, <1>9

(* A step that changes no row and delivers nothing.                        *)
LEMMA QuietStep ==
  ASSUME OnceInv, UNCHANGED <<row, conn, open, writes, tables>>,
         faults' \in 0 .. MaxFaults, BurstOK',
         producer' \in SUBSET Jobs,
         \/ UNCHANGED pc
         \/ \E r \in Runs, p \in {"transient", "permanent", "giveup", "over"} :
              pc[r] \notin InProcess \cup {"idle"} /\ Goto(r, p)
  PROVE  OnceInv'
<1> USE DEF OnceInv
<1>1. pc \in [Runs -> Points]
  BY DEF Types, TypeOK, HandlerTypeOK
<1>2. /\ pc' \in [Runs -> Points]
      /\ \A q \in Runs : \/ pc'[q] = pc[q]
                         \/ /\ pc[q] \notin InProcess \cup {"idle"}
                            /\ pc'[q] \in {"transient", "permanent", "giveup", "over"}
  BY <1>1 DEF Goto, Points
<1>3. Types'
  BY <1>2 DEF Types, TypeOK, HandlerTypeOK, tables
<1>4. RowsOK' /\ WritesInOrder' /\ KeysOK' /\ EffectIffProcessed'
  BY DEF RowsOK, WritesInOrder, KeysOK, EffectIffProcessed, tables
<1>5. RunsOK'
  BY <1>2 DEF RunsOK, RunOK, InProcess
<1>6. Delivered'
  BY <1>2 DEF Delivered
<1>7. Processed'
  BY <1>2 DEF Processed, tables
<1> QED BY <1>3, <1>4, <1>5, <1>6, <1>7

(* The burst commits: its rows and its jobs are visible together.          *)
LEMMA BurstStep ==
  ASSUME OnceInv, CommitBurst PROVE OnceInv'
<1> USE DEF OnceInv
<1>1. /\ row \in [Jobs -> Rows] /\ producer \in SUBSET Jobs
      /\ producer \in SUBSET Jobs
      /\ 0 \in 0 .. MaxAttempts /\ 0 < MaxAttempts
  BY PipelineAssumption DEF Types, TypeOK
<1>2. \A j \in producer : row[j].state = "absent" /\ row[j].attempts = 0
  BY <1>1 DEF BurstOK, RowsOK
<1>3. \A j \in Jobs : /\ row'[j] \in Rows /\ row'[j].attempts = row[j].attempts
                      /\ row'[j].state = IF j \in producer THEN "ready"
                                         ELSE row[j].state
  BY <1>1 DEF CommitBurst, Rows
<1>4. row' \in [Jobs -> Rows]
  BY <1>3 DEF CommitBurst
<1>5. /\ producer' = {}
      /\ UNCHANGED <<pc, conn, open, writes, ledger, effects, faults>>
  BY DEF CommitBurst, hvars
<1>6. Types'
  BY <1>1, <1>4, <1>5 DEF Types, TypeOK, HandlerTypeOK
<1>7. RowsOK'
  BY <1>1, <1>2, <1>3 DEF RowsOK
<1>8. BurstOK'
  BY <1>1, <1>3, <1>5 DEF BurstOK
<1>9. RunsOK' /\ WritesInOrder' /\ KeysOK' /\ EffectIffProcessed'
  BY <1>5 DEF RunsOK, RunOK, WritesInOrder, KeysOK, EffectIffProcessed
<1>10. Delivered'
  BY <1>3, <1>5, RunParts DEF Delivered
<1>11. Processed'
  BY <1>3, <1>5 DEF Processed
<1> QED BY <1>6, <1>7, <1>8, <1>9, <1>10, <1>11

(* Before that the producer writes in its transaction, or rolls it back.   *)
LEMMA ProducerStep ==
  ASSUME OnceInv, (\E j \in Jobs : Enqueue(j)) \/ RollBackBurst
  PROVE  OnceInv'
<1>1. producer \in SUBSET Jobs /\ faults \in 0 .. MaxFaults
  BY DEF OnceInv, Types, TypeOK, HandlerTypeOK
<1>2. producer' \in SUBSET Jobs /\ UNCHANGED <<row, hvars>>
  BY <1>1 DEF Enqueue, RollBackBurst
<1>3. BurstOK'
  BY DEF Enqueue, RollBackBurst, OnceInv, BurstOK
<1> QED BY <1>1, <1>2, <1>3, QuietStep DEF hvars, tables

(* A claim delivers a run that was never delivered before.                 *)
LEMMA ClaimStep ==
  ASSUME OnceInv, NEW j \in Jobs, Claim(j) PROVE OnceInv'
<1> DEFINE r == <<j, row[j].attempts + 1>>
           t == [state |-> "running", attempts |-> row[j].attempts + 1]
<1>1. /\ row \in [Jobs -> Rows] /\ faults \in 0 .. MaxFaults /\ MaxAttempts \in Nat
      /\ row[j].state = "ready" /\ row[j].attempts < MaxAttempts
  BY PipelineAssumption
     DEF OnceInv, Types, TypeOK, HandlerTypeOK, RowsOK, Claim
<1>2. /\ row[j].attempts \in 0 .. MaxAttempts
      /\ row[j].attempts + 1 \in 1 .. MaxAttempts
      /\ row[j].attempts + 1 \in 0 .. MaxAttempts
  BY <1>1 DEF Rows
<1>3. t \in Rows /\ r \in Runs /\ r[1] = j /\ r[2] = t.attempts
  BY <1>2, RunParts DEF Rows
<1>4. pc[r] = "idle" /\ r \notin open
  BY <1>2, <1>3 DEF OnceInv, Delivered, RunsOK, RunOK
<1>5. row' = [row EXCEPT ![j] = t] /\ Goto(r, "begin")
  BY <1>1 DEF Claim
<1>6. UNCHANGED <<producer, conn, open, writes, tables, faults>>
  BY DEF Claim, tables
<1>7. "begin" \in Points /\ "idle" \notin InProcess
  BY DEF Points, InProcess
<1>8. /\ t.state = "running" /\ row[j].attempts <= t.attempts /\ r[2] <= t.attempts
  BY <1>2
<1> HIDE DEF r, t
<1> QED BY <1>1, <1>3, <1>4, <1>5, <1>6, <1>7, <1>8, RowStep

(* A row keeps its attempts and changes its state.                         *)
LEMMA NewState ==
  ASSUME OnceInv, NEW j \in Jobs, NEW s \in {"ready", "done", "dead"}
  PROVE  /\ [row[j] EXCEPT !.state = s] \in Rows
         /\ [row[j] EXCEPT !.state = s].state = s
         /\ [row[j] EXCEPT !.state = s].attempts = row[j].attempts
         /\ [row EXCEPT ![j].state = s] = [row EXCEPT ![j] = [row[j] EXCEPT !.state = s]]
         /\ row[j].attempts \in Int
<1>1. row[j] \in Rows /\ row \in [Jobs -> Rows]
  BY DEF OnceInv, Types, TypeOK
<1> QED BY <1>1 DEF Rows

(* A row taken for abandoned leaves its runs as they are.                  *)
LEMMA ReapStep ==
  ASSUME OnceInv, NEW j \in Jobs, Reap(j) PROVE OnceInv'
<1> DEFINE t == [row[j] EXCEPT !.state = "ready"]
           r == <<j, 1>>
<1>1. /\ t \in Rows /\ t.state = "ready" /\ t.attempts = row[j].attempts
      /\ [row EXCEPT ![j].state = "ready"] = [row EXCEPT ![j] = t]
      /\ row[j].attempts \in Int
  BY NewState
<1>2. r \in Runs /\ r[1] = j
  BY PipelineAssumption, RunParts
<1>3. pc \in [Runs -> Points] /\ faults \in 0 .. MaxFaults
  BY DEF OnceInv, Types, TypeOK, HandlerTypeOK
<1>4. /\ row' = [row EXCEPT ![j] = t] /\ row[j].state = "running"
      /\ row[j].attempts < MaxAttempts
      /\ UNCHANGED <<producer, pc, conn, open, writes, tables, faults>>
  BY <1>1 DEF Reap, hvars, tables
<1>5. pc[r] \in Points /\ Goto(r, pc[r])
  BY <1>2, <1>3, <1>4 DEF Goto
<1>6. /\ t.attempts < MaxAttempts /\ t.state # "done" /\ t.state # "absent"
      /\ row[j].state # "absent" /\ row[j].attempts <= t.attempts
      /\ UNCHANGED <<producer, conn, open, writes, tables>>
      /\ faults' \in 0 .. MaxFaults
  BY <1>1, <1>3, <1>4
<1> HIDE DEF t, r
<1> QED BY <1>1, <1>2, <1>4, <1>5, <1>6, RowStep

(* A delivery whose process has returned records its outcome: late as it   *)
(* may be, done is only said of an event in the ledger, and an exhausted   *)
(* row is not made ready.                                                  *)
LEMMA OutcomeStep ==
  ASSUME OnceInv, NEW r \in Runs, Settle(r) \/ Abandon(r) PROVE OnceInv'
<1> DEFINE j == r[1]
<1>1. /\ j \in Jobs /\ KeyOf[r] = Key[j] /\ r[2] \in Int /\ MaxFaults \in Nat
      /\ pc \in [Runs -> Points] /\ faults \in 0 .. MaxFaults
      /\ producer \in SUBSET Jobs
  BY RunParts, HandlerAssumption DEF OnceInv, Types, TypeOK, HandlerTypeOK
<1>2. /\ pc[r] \in {"ok", "failed", "transient", "permanent", "giveup"}
      /\ pc[r] \notin InProcess \cup {"idle"} /\ pc[r] # "idle"
      /\ pc[r] \notin InProcess
  BY DEF Settle, MarkDone, Classify, Requeue, DeadLetter, Abandon, InProcess
<1>3. row[j].state # "absent" /\ r[2] <= row[j].attempts
  BY <1>2 DEF OnceInv, Delivered
<1>4. \A s \in {"ready", "done", "dead"} :
        /\ [row[j] EXCEPT !.state = s] \in Rows
        /\ [row[j] EXCEPT !.state = s].state = s
        /\ [row[j] EXCEPT !.state = s].attempts = row[j].attempts
        /\ [row EXCEPT ![j].state = s]
             = [row EXCEPT ![j] = [row[j] EXCEPT !.state = s]]
        /\ row[j].attempts \in Int
  BY <1>1, NewState
<1>5. "giveup" \in Points /\ "over" \in Points
  BY DEF Points
<1>6. ASSUME NEW s \in {"ready", "done", "dead"},
             row' = [row EXCEPT ![j].state = s], Goto(r, "over"), Handled(r),
             s = "ready" => row[j].attempts < MaxAttempts,
             s = "done" => Key[j] \in ledger
      PROVE  OnceInv'
  <2> DEFINE t == [row[j] EXCEPT !.state = s]
  <2>1. /\ t \in Rows /\ t.state = s /\ t.attempts = row[j].attempts
        /\ row' = [row EXCEPT ![j] = t] /\ row[j].attempts \in Int
    BY <1>4, <1>6
  <2>2. /\ UNCHANGED <<producer, conn, open, writes, tables>>
        /\ faults' \in 0 .. MaxFaults
    BY <1>1, <1>6 DEF Handled, tables
  <2>3. /\ row[j].attempts <= t.attempts /\ r[2] <= t.attempts
        /\ t.state # "absent"
        /\ t.state = "ready" => t.attempts < MaxAttempts
        /\ t.state = "done" => Key[j] \in ledger
    BY <1>3, <1>6, <2>1
  <2> HIDE DEF t, j
  <2> QED BY <1>1, <1>2, <1>3, <1>5, <1>6, <2>1, <2>2, <2>3, RowStep DEF j
<1>7. ASSUME NEW p \in {"transient", "permanent", "giveup", "over"}, Goto(r, p), UNCHANGED row,
             UNCHANGED <<producer, conn, open, writes, ledger, effects>>,
             faults' \in 0 .. MaxFaults
      PROVE  OnceInv'
  <2>1. BurstOK'
    BY <1>7 DEF OnceInv, BurstOK
  <2> QED BY <1>1, <1>2, <1>7, <2>1, QuietStep DEF tables
<1>8. Handled(r) => /\ UNCHANGED <<producer, conn, open, writes, ledger, effects>>
                    /\ faults' \in 0 .. MaxFaults
  BY <1>1 DEF Handled
<1>9. CASE MarkDone(r)
  <2>1. Key[j] \in ledger
    BY <1>1, <1>9 DEF MarkDone, OnceInv, Processed
  <2>2. CASE InTable(j)
    BY <1>6, <1>9, <2>1, <2>2 DEF MarkDone
  <2>3. CASE ~InTable(j)
    BY <1>7, <1>8, <1>9, <2>3 DEF MarkDone
  <2> QED BY <2>2, <2>3
<1>10. CASE Requeue(r)
  <2>1. CASE InTable(j) /\ row[j].attempts < MaxAttempts
    BY <1>6, <1>10, <2>1 DEF Requeue
  <2>2. CASE ~(InTable(j) /\ row[j].attempts < MaxAttempts)
    BY <1>7, <1>8, <1>10, <2>2 DEF Requeue
  <2> QED BY <2>1, <2>2
<1>11. CASE DeadLetter(r)
  <2>1. CASE InTable(j)
    BY <1>6, <1>11, <2>1 DEF DeadLetter
  <2>2. CASE ~InTable(j)
    BY <1>7, <1>8, <1>11, <2>2 DEF DeadLetter
  <2> QED BY <2>1, <2>2
<1>12. CASE Classify(r)
  BY <1>7, <1>8, <1>12 DEF Classify
<1>13. CASE Abandon(r)
  BY <1>1, <1>7, <1>13 DEF Abandon, qvars
<1> QED BY <1>9, <1>10, <1>11, <1>12, <1>13 DEF Settle

-----------------------------------------------------------------------------
(* A commit, by its client or of an orphan.                                *)
LEMMA Commits ==
  ASSUME OnceInv, NEW r \in Runs, UNCHANGED qvars, Commit(r) \/ CommitOrphan(r)
  PROVE  /\ OnceInv'
         /\ effects[KeyOf[r]] = 0 /\ r[1] \in Enqueued
         /\ effects' = [effects EXCEPT ![KeyOf[r]] = 1]
<1>1. pc \in [Runs -> Points] /\ RunOK(r)
  BY DEF OnceInv, Types, TypeOK, HandlerTypeOK, RunsOK
<1>2. CASE Commit(r)
  <2>1. /\ "effect" \in writes[r] /\ Goto(r, "ok") /\ Committed(r)
        /\ conn' \in {conn, conn \ {r}} /\ UNCHANGED faults
        /\ "ok" \in Points \ InProcess /\ "ok" # "idle"
    BY <1>1, <1>2 DEF Commit, RunOK, Points, InProcess
  <2> QED BY <2>1, CommitStep
<1>3. CASE CommitOrphan(r)
  <2>1. "effect" \in writes[r] /\ r \in open
    BY <1>1, <1>3 DEF CommitOrphan, OnceInv, WritesInOrder, Orphaned
  <2>2. /\ pc[r] \in Points \ InProcess /\ pc[r] # "idle" /\ Goto(r, pc[r])
        /\ Committed(r) /\ conn' \in {conn, conn \ {r}} /\ UNCHANGED faults
    BY <1>1, <1>3, <2>1 DEF CommitOrphan, Orphaned, RunOK, Goto
  <2> QED BY <2>1, <2>2, CommitStep
<1> QED BY <1>2, <1>3

(* Every step keeps the invariant.                                         *)
LEMMA OnceStep == OnceInv /\ [Next]_vars => OnceInv'
<1> SUFFICES ASSUME OnceInv, [Next]_vars PROVE OnceInv'
  OBVIOUS
<1>1. CASE (\E j \in Jobs : Enqueue(j)) \/ RollBackBurst
  BY <1>1, ProducerStep
<1>2. CASE CommitBurst
  BY <1>2, BurstStep
<1>3. CASE \E j \in Jobs : Claim(j) \/ Reap(j)
  BY <1>3, ClaimStep, ReapStep
<1>4. CASE \E r \in Runs : HandlerStep(r) /\ UNCHANGED qvars
  BY <1>4, ProcessStep, ErrorStep, Commits DEF HandlerStep, Process
<1>5. CASE \E r \in Runs : Settle(r) \/ Abandon(r)
  BY <1>5, OutcomeStep
<1>6. CASE UNCHANGED vars
  <2>1. UNCHANGED <<row, producer, pc, conn, open, writes, ledger,
                    effects, faults>>
    BY <1>6 DEF vars, hvars
  <2> QED BY <2>1 DEF OnceInv, Types, TypeOK, HandlerTypeOK, RowsOK, BurstOK,
        RunsOK, RunOK, WritesInOrder, Delivered, KeysOK, Processed,
        EffectIffProcessed
<1> QED BY <1>1, <1>2, <1>3, <1>4, <1>5, <1>6 DEF Next

(* A step of the abstract specification, or none.                          *)
LEMMA PromiseStep ==
  ASSUME OnceInv, [Next]_vars PROVE [Promise!Next]_(Promise!vars)
<1> USE DEF Promise!vars
<1>1. CASE CommitBurst
  <2>1. /\ producer \in SUBSET Jobs /\ row \in [Jobs -> Rows]
        /\ effects' = effects /\ producer' = {}
    BY <1>1 DEF OnceInv, Types, TypeOK, CommitBurst, hvars
  <2>2. \A j \in Jobs : row'[j].state = IF j \in producer THEN "ready" ELSE row[j].state
    BY <1>1, <2>1 DEF CommitBurst, Rows
  <2>3. Enqueued' = Enqueued \cup producer
    BY <2>1, <2>2 DEF Enqueued
  <2>4. PICK S \in SUBSET Keys : S = {Key[j] : j \in producer}
    BY <2>1, PipelineAssumption
  <2>5. {Key[j] : j \in Enqueued'} = {Key[j] : j \in Enqueued} \cup S
    BY <2>3, <2>4
  <2>6. Promise!Enqueue(S)
    BY <2>1, <2>5 DEF Promise!Enqueue
  <2> QED BY <2>6 DEF Promise!Next
<1>2. CASE \E r \in Runs : (Commit(r) \/ CommitOrphan(r)) /\ UNCHANGED qvars
  <2>1. PICK r \in Runs : (Commit(r) \/ CommitOrphan(r)) /\ UNCHANGED qvars
    BY <1>2
  <2>2. /\ effects[KeyOf[r]] = 0 /\ r[1] \in Enqueued
        /\ effects' = [effects EXCEPT ![KeyOf[r]] = 1]
    BY <2>1, Commits
  <2>3. KeyOf[r] \in {Key[j] : j \in Enqueued} /\ KeyOf[r] \in Keys
    BY <2>2, RunParts
  <2>4. {Key[j] : j \in Enqueued'} = {Key[j] : j \in Enqueued}
    BY <2>1 DEF qvars, Enqueued
  <2>5. Promise!Apply(KeyOf[r])
    BY <2>2, <2>3, <2>4 DEF Promise!Apply
  <2> QED BY <2>3, <2>5 DEF Promise!Next
<1>3. ASSUME UNCHANGED <<Enqueued, effects>> PROVE UNCHANGED Promise!vars
  BY <1>3
<1>4. ASSUME NEW j \in Jobs, NEW t \in Rows, row' = [row EXCEPT ![j] = t],
             row[j].state # "absent", t.state # "absent", UNCHANGED <<effects, producer>>
      PROVE  UNCHANGED Promise!vars
  <2>1. row \in [Jobs -> Rows]
    BY DEF OnceInv, Types, TypeOK
  <2>2. UNCHANGED Enqueued
    BY <1>4, <2>1 DEF Enqueued
  <2> QED BY <1>3, <1>4, <2>2
<1>5. ASSUME NEW j \in Jobs, NEW s \in {"ready", "done", "dead"},
             row' = [row EXCEPT ![j].state = s],
             row[j].state # "absent", UNCHANGED <<effects, producer>>
      PROVE  UNCHANGED Promise!vars
  <2> DEFINE t == [row[j] EXCEPT !.state = s]
  <2>1. t \in Rows /\ t.state = s /\ row' = [row EXCEPT ![j] = t]
    BY <1>5, NewState
  <2> HIDE DEF t
  <2> QED BY <1>4, <1>5, <2>1
<1>6. ASSUME NEW j \in Jobs, Claim(j) PROVE UNCHANGED Promise!vars
  <2> DEFINE t == [state |-> "running", attempts |-> row[j].attempts + 1]
  <2>1. row[j] \in Rows /\ row[j].attempts < MaxAttempts /\ MaxAttempts \in Nat
    BY <1>6, PipelineAssumption DEF OnceInv, Types, TypeOK, RowsOK, Claim
  <2>2. t \in Rows /\ t.state = "running"
    BY <2>1 DEF Rows
  <2>3. /\ row' = [row EXCEPT ![j] = t] /\ row[j].state # "absent"
        /\ UNCHANGED <<effects, producer>>
    BY <1>6 DEF Claim
  <2> HIDE DEF t
  <2> QED BY <1>4, <2>2, <2>3
<1>7. ASSUME NEW j \in Jobs, Reap(j) PROVE UNCHANGED Promise!vars
  BY <1>5, <1>7 DEF Reap, hvars
<1>8. CASE (\E j \in Jobs : Enqueue(j)) \/ RollBackBurst \/ UNCHANGED vars
  <2>1. UNCHANGED effects
    BY <1>8 DEF Enqueue, RollBackBurst, vars, hvars
  <2>2. UNCHANGED Enqueued
    BY <1>8 DEF Enqueue, RollBackBurst, vars, OnceInv, BurstOK, Enqueued
  <2> QED BY <1>3, <2>1, <2>2
<1>9. ASSUME NEW r \in Runs, HandlerStep(r), UNCHANGED qvars
      PROVE  [Promise!Next]_(Promise!vars)
  <2>1. CASE Commit(r) \/ CommitOrphan(r)
    BY <1>2, <1>9, <2>1
  <2>2. CASE \/ Begin(r) \/ InsertKey(r) \/ RollBack(r) \/ InsertEffect(r)
             \/ AcquireTimeout(r) \/ Fail(r) \/ AbortOrphan(r)
    <3>1. UNCHANGED effects
      BY <2>2 DEF Begin, InsertKey, RollBack, InsertEffect, AcquireTimeout, Fail,
         AbortOrphan, Aborted, tables
    <3>2. UNCHANGED Enqueued
      BY <1>9 DEF qvars, Enqueued
    <3> QED BY <1>3, <3>1, <3>2
  <2> QED BY <1>9, <2>1, <2>2 DEF HandlerStep, Process
<1>10. ASSUME NEW r \in Runs, Settle(r) \/ Abandon(r) PROVE UNCHANGED Promise!vars
  <2>1. r[1] \in Jobs /\ UNCHANGED <<effects, producer>>
    BY <1>10, RunParts
       DEF Settle, MarkDone, Classify, Requeue, DeadLetter, Abandon, Handled, qvars
  <2>2. CASE UNCHANGED row
    BY <1>3, <2>1, <2>2 DEF Enqueued
  <2>3. CASE ~UNCHANGED row
    <3>1. PICK s \in {"ready", "done", "dead"} :
            row' = [row EXCEPT ![r[1]].state = s] /\ InTable(r[1])
      BY <1>10, <2>3
         DEF Settle, MarkDone, Classify, Requeue, DeadLetter, Abandon, qvars
    <3>2. row[r[1]].state # "absent"
      BY <3>1 DEF InTable
    <3> QED BY <1>5, <2>1, <3>1, <3>2
  <2> QED BY <2>2, <2>3
<1> QED BY <1>1, <1>6, <1>7, <1>8, <1>9, <1>10 DEF Next

-----------------------------------------------------------------------------
(* Theorems                                                                *)

LEMMA OnceAlways == Spec => []OnceInv
BY OnceInit, OnceStep, PTL DEF Spec

(* The variables keep their types, and the pool never has more connections *)
(* in use than it was opened with (max_connections).                       *)
THEOREM PipelineTypeCorrect == Spec => []TypeOK
<1>1. OnceInv => TypeOK
  BY DEF OnceInv, Types
<1> QED BY <1>1, OnceAlways, PTL

(* The ledger row and the effect row of an event are committed together,   *)
(* once, whatever deliveries overlap, fail, or lose their connection.      *)
THEOREM EffectWithLedger == Spec => []EffectIffProcessed
<1>1. OnceInv => EffectIffProcessed
  BY DEF OnceInv
<1> QED BY <1>1, OnceAlways, PTL

(* A job that is done had its effect, once, also if it was completed by a  *)
(* delivery that found the event already processed.                        *)
THEOREM DoneIsApplied == Spec => []DoneMeansApplied
<1>1. OnceInv => DoneMeansApplied
  BY PipelineAssumption DEF OnceInv, Processed, EffectIffProcessed, DoneMeansApplied
<1> QED BY <1>1, OnceAlways, PTL

(* At-least-once delivery and the idempotent handler are exactly-once      *)
(* processing: Pipeline implements ExactlyOnce.                            *)
THEOREM ExactlyOnceProcessing == Spec => IsExactlyOnce
<1>1. Init => Promise!Init
  BY DEF Init, HandlerInit, Promise!Init, Enqueued
<1>2. OnceInv /\ [Next]_vars => [Promise!Next]_(Promise!vars)
  BY PromiseStep
<1> QED BY <1>1, <1>2, OnceAlways, PTL DEF Spec, IsExactlyOnce, Promise!Spec
=============================================================================
