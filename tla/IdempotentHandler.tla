------------------------- MODULE IdempotentHandler -------------------------
(***************************************************************************)
(* `process`, the idempotent handler: the insert of the event's key into   *)
(* processed_events and the effect in one transaction, branching on        *)
(* rows_affected().  Any number of runs of it overlap, for the same event  *)
(* too, on a pool with few connections, and each may fail at any point.    *)
(*                                                                         *)
(* A run is one delivery of a job; who delivers it is left to Pipeline.    *)
(* The server's side of a transaction outlives a client that lost its      *)
(* connection: it holds its locks until the server notices, and a COMMIT   *)
(* that was sent may still be executed.                                    *)
(***************************************************************************)
EXTENDS Integers, FiniteSets

CONSTANTS
  Runs,            \* deliveries
  Keys,            \* events: carrier_id:event_id
  KeyOf,           \* KeyOf[r]: the event run r is about
  MaxConnections,  \* connections of the pool
  MaxFaults        \* bound: how many errors there are

ASSUME HandlerAssumption ==
  /\ KeyOf \in [Runs -> Keys]
  /\ MaxConnections \in Nat \ {0}
  /\ MaxFaults \in Nat

VARIABLES
  pc,      \* pc[r]: where run r is
  conn,    \* runs that have a connection of the pool
  open,    \* runs whose transaction is open at the server
  writes,  \* writes[r]: what r's transaction has written
  ledger,  \* keys in processed_events, committed
  effects, \* effects[k]: committed rows of notifications for k
  faults   \* errors so far

hvars == <<pc, conn, open, writes, ledger, effects, faults>>
tables == <<ledger, effects>>

Points == {"idle",       \* not delivered
           "begin",      \* pool.begin()
           "insert",     \* the insert into processed_events
           "duplicate",  \* it affected no row: tx.rollback()
           "effect",     \* the insert into notifications
           "commit",     \* tx.commit()
           "ok",         \* returned Ok(Applied) or Ok(Duplicate)
           "failed",     \* returned Err
           "transient",  \* its error is classified so: requeue
           "permanent",  \* its error is classified so: dead_letter
           "giveup",     \* its requeue updated no row
           "over"}       \* its outcome is recorded, or it is gone

InProcess == {"begin", "insert", "duplicate", "effect", "commit"}

HandlerInit ==
  /\ pc = [r \in Runs |-> "idle"]
  /\ conn = {}
  /\ open = {}
  /\ writes = [r \in Runs |-> {}]
  /\ ledger = {}
  /\ effects = [k \in Keys |-> 0]
  /\ faults = 0

Goto(r, p) == pc' = [pc EXCEPT ![r] = p]

FreeConnection_Ignored == TRUE

FreeConnection == Cardinality(conn) < MaxConnections

(* Transactions with an uncommitted row for the key of r.                  *)
Inserting(r) == {q \in open \ {r} : "key" \in writes[q] /\ KeyOf[q] = KeyOf[r]}

-----------------------------------------------------------------------------
(* process                                                                 *)

Begin(r) ==
  /\ pc[r] = "begin" /\ FreeConnection
  /\ Goto(r, "insert")
  /\ conn' = conn \cup {r}
  /\ open' = open \cup {r}
  /\ UNCHANGED <<writes, tables, faults>>

InsertKey_SeesUncommitted(r) ==
  /\ pc[r] = "insert"
  /\ \/ /\ KeyOf[r] \in ledger \/ Inserting(r) # {}
        /\ Goto(r, "duplicate") /\ UNCHANGED writes
     \/ /\ KeyOf[r] \notin ledger /\ Inserting(r) = {}
        /\ Goto(r, "effect")
        /\ writes' = [writes EXCEPT ![r] = @ \cup {"key"}]
  /\ UNCHANGED <<conn, open, tables, faults>>

InsertKey_NoUniqueKey(r) ==
  /\ pc[r] = "insert"
  /\ \/ KeyOf[r] \in ledger /\ Goto(r, "duplicate") /\ UNCHANGED writes
     \/ /\ KeyOf[r] \notin ledger /\ Goto(r, "effect")
        /\ writes' = [writes EXCEPT ![r] = @ \cup {"key"}]
  /\ UNCHANGED <<conn, open, tables, faults>>

(* INSERT ... ON CONFLICT DO NOTHING, and rows_affected() of it.  It waits *)
(* for a transaction that has inserted the key and is not over.            *)
InsertKey(r) ==
  /\ pc[r] = "insert" /\ Inserting(r) = {}
  /\ \/ KeyOf[r] \in ledger /\ Goto(r, "duplicate") /\ UNCHANGED writes
     \/ /\ KeyOf[r] \notin ledger /\ Goto(r, "effect")
        /\ writes' = [writes EXCEPT ![r] = @ \cup {"key"}]
  /\ UNCHANGED <<conn, open, tables, faults>>

RollBack_KeepsConnection(r) ==
  /\ pc[r] = "duplicate"
  /\ Goto(r, "ok")
  /\ open' = open \ {r}
  /\ UNCHANGED <<conn, writes, tables, faults>>

RollBack(r) ==
  /\ pc[r] = "duplicate"
  /\ Goto(r, "ok")
  /\ open' = open \ {r}
  /\ conn' = conn \ {r}
  /\ UNCHANGED <<writes, tables, faults>>

InsertEffect_OutsideTransaction(r) ==
  /\ pc[r] = "effect"
  /\ Goto(r, "commit")
  /\ effects' = [effects EXCEPT ![KeyOf[r]] = @ + 1]
  /\ UNCHANGED <<conn, open, writes, ledger, faults>>

InsertEffect(r) ==
  /\ pc[r] = "effect"
  /\ Goto(r, "commit")
  /\ writes' = [writes EXCEPT ![r] = @ \cup {"effect"}]
  /\ UNCHANGED <<conn, open, tables, faults>>

(* The server ends r's transaction, with or without its writes.            *)
Committed(r) ==
  /\ ledger' = IF "key" \in writes[r] THEN ledger \cup {KeyOf[r]} ELSE ledger
  /\ effects' = [effects EXCEPT ![KeyOf[r]] = IF "effect" \in writes[r]
                                              THEN @ + 1 ELSE @]
  /\ open' = open \ {r}
  /\ writes' = [writes EXCEPT ![r] = {}]

Aborted(r) ==
  /\ open' = open \ {r}
  /\ writes' = [writes EXCEPT ![r] = {}]
  /\ UNCHANGED tables

Commit(r) ==
  /\ pc[r] = "commit"
  /\ Goto(r, "ok")
  /\ conn' = conn \ {r}
  /\ Committed(r)
  /\ UNCHANGED faults

-----------------------------------------------------------------------------
(* Errors                                                                  *)

(* No connection within the acquire timeout.                               *)
AcquireTimeout(r) ==
  /\ pc[r] = "begin" /\ ~FreeConnection
  /\ faults < MaxFaults /\ faults' = faults + 1
  /\ Goto(r, "failed")
  /\ UNCHANGED <<conn, open, writes, tables>>

(* A statement of r fails and `?` returns: the transaction is dropped and  *)
(* rolled back with its connection in order, or else the connection is     *)
(* lost and the transaction left to the server.  The answer to a COMMIT    *)
(* may be lost as well: "lost" stands in writes for a COMMIT on its way.   *)
Fail(r) ==
  /\ pc[r] \in InProcess \ {"begin"}
  /\ faults < MaxFaults /\ faults' = faults + 1
  /\ Goto(r, "failed")
  /\ conn' = conn \ {r}
  /\ \/ Aborted(r)
     \/ /\ writes' = IF pc[r] = "commit"
                     THEN [writes EXCEPT ![r] = @ \cup {"lost"}] ELSE writes
        /\ UNCHANGED <<open, tables>>

Orphaned(r) == r \in open /\ pc[r] \notin InProcess

AbortOrphan_Never(r) ==
  /\ FALSE
  /\ UNCHANGED hvars

(* The server finds the connection of an orphaned transaction gone ...     *)
AbortOrphan(r) ==
  /\ Orphaned(r)
  /\ Aborted(r)
  /\ UNCHANGED <<pc, conn, faults>>

(* ... or executes the COMMIT it had been sent.                            *)
CommitOrphan(r) ==
  /\ Orphaned(r) /\ "lost" \in writes[r]
  /\ Committed(r)
  /\ UNCHANGED <<pc, conn, faults>>

(* What run r does until process returns, without errors.                  *)
Process(r) ==
  \/ Begin(r)
  \/ InsertKey(r)
  \/ RollBack(r)
  \/ InsertEffect(r)
  \/ Commit(r)

HandlerStep(r) ==
  \/ Process(r)
  \/ AcquireTimeout(r)
  \/ Fail(r)
  \/ AbortOrphan(r)
  \/ CommitOrphan(r)

-----------------------------------------------------------------------------
HandlerTypeOK ==
  /\ pc \in [Runs -> Points]
  /\ conn \subseteq Runs /\ Cardinality(conn) <= MaxConnections
  /\ open \subseteq Runs
  /\ writes \in [Runs -> SUBSET {"key", "effect", "lost"}]
  /\ ledger \subseteq Keys
  /\ effects \in [Keys -> Nat]
  /\ faults \in 0 .. MaxFaults

(* "There is no window where the event is marked processed but the effect  *)
(* did not land, or the reverse": whoever reads the tables, between any    *)
(* two steps of any runs, finds one effect per key of the ledger.          *)
EffectIffProcessed ==
  \A k \in Keys : effects[k] = IF k \in ledger THEN 1 ELSE 0
=============================================================================
