------------------------------ MODULE Pipeline ------------------------------
(***************************************************************************)
(* From the producer's transaction to the effect of the job: a producer    *)
(* that enqueues several jobs in one transaction, the queue with its       *)
(* repeated and overlapping deliveries, and the idempotent handler of each *)
(* delivery with the classification of its error and its outcome.          *)
(*                                                                         *)
(* The queue is what JobQueue shows of it, without its clock: the reaper   *)
(* may take any running row for abandoned, and every statement by which a  *)
(* delivery records its outcome is by id, late ones included.              *)
(***************************************************************************)
EXTENDS IdempotentHandler

CONSTANTS
  Jobs,        \* ids of table jobs
  Key,         \* Key[j]: the event job j is about
  MaxAttempts  \* max_attempts

(* A run is a job on its n-th attempt.                                     *)
ASSUME PipelineAssumption ==
  /\ Key \in [Jobs -> Keys]
  /\ MaxAttempts \in Nat \ {0}
  /\ Runs = Jobs \X (1 .. MaxAttempts)
  /\ \A r \in Runs : KeyOf[r] = Key[r[1]]

VARIABLES
  row,      \* row[j].state, row[j].attempts
  producer  \* jobs inserted by the producer's open transaction

qvars == <<row, producer>>
vars  == <<row, producer, hvars>>

Rows == [state    : {"absent", "ready", "running", "done", "dead"},
         attempts : 0 .. MaxAttempts]

Init ==
  /\ row = [j \in Jobs |-> [state |-> "absent", attempts |-> 0]]
  /\ producer = {}
  /\ HandlerInit

InTable(j) == row[j].state \in {"ready", "running", "done"}

-----------------------------------------------------------------------------
(* The producer                                                            *)

(* enqueue(&mut tx, ..): no one else sees the job yet.                     *)
Enqueue(j) ==
  /\ row[j].state = "absent" /\ j \notin producer
  /\ producer' = producer \cup {j}
  /\ UNCHANGED <<row, hvars>>

(* The whole burst lands ...                                               *)
CommitBurst ==
  /\ producer # {}
  /\ row' = [j \in Jobs |-> IF j \in producer
                            THEN [row[j] EXCEPT !.state = "ready"] ELSE row[j]]
  /\ producer' = {}
  /\ UNCHANGED hvars

(* ... or, after an error or a crash, none of it.                          *)
RollBackBurst ==
  /\ producer # {}
  /\ producer' = {}
  /\ UNCHANGED <<row, hvars>>

-----------------------------------------------------------------------------
(* The queue                                                               *)

(* A claim counts the attempt and delivers the job.                        *)
Claim(j) ==
  /\ row[j].state = "ready"
  /\ row' = [row EXCEPT ![j] = [state |-> "running", attempts |-> @.attempts + 1]]
  /\ Goto(<<j, row[j].attempts + 1>>, "begin")
  /\ UNCHANGED <<producer, conn, open, writes, ledger, effects, faults>>

(* The reaper gives a running row back; its delivery may well go on.       *)
Reap(j) ==
  /\ row[j].state = "running" /\ row[j].attempts < MaxAttempts
  /\ row' = [row EXCEPT ![j].state = "ready"]
  /\ UNCHANGED <<producer, hvars>>

-----------------------------------------------------------------------------
(* The outcome of a delivery.  Each statement takes a connection of the    *)
(* same pool.                                                              *)

Handled(r) == UNCHANGED <<producer, conn, open, writes, ledger, effects, faults>>

(* classify(err): to back off from, or for a human to decide on.           *)
Classify(r) ==
  /\ pc[r] = "failed"
  /\ \E class \in {"transient", "permanent"} : Goto(r, class)
  /\ UNCHANGED row
  /\ Handled(r)

MarkDone(r) ==
  /\ pc[r] = "ok" /\ FreeConnection
  /\ row' = IF InTable(r[1]) THEN [row EXCEPT ![r[1]].state = "done"] ELSE row
  /\ Goto(r, "over")
  /\ Handled(r)

Requeue(r) ==
  /\ pc[r] = "transient" /\ FreeConnection
  /\ \/ /\ InTable(r[1]) /\ row[r[1]].attempts < MaxAttempts
        /\ row' = [row EXCEPT ![r[1]].state = "ready"]
        /\ Goto(r, "over")
     \/ /\ ~(InTable(r[1]) /\ row[r[1]].attempts < MaxAttempts)
        /\ UNCHANGED row
        /\ Goto(r, "giveup")
  /\ Handled(r)

(* At once if the error is permanent; else when requeue updated no row.    *)
DeadLetter(r) ==
  /\ pc[r] \in {"permanent", "giveup"} /\ FreeConnection
  /\ row' = IF InTable(r[1]) THEN [row EXCEPT ![r[1]].state = "dead"] ELSE row
  /\ Goto(r, "over")
  /\ Handled(r)

(* The outcome is not recorded: its statement fails, the handler panics or *)
(* its process dies.                                                       *)
Abandon(r) ==
  /\ pc[r] \in {"ok", "failed", "transient", "permanent", "giveup"}
  /\ faults < MaxFaults /\ faults' = faults + 1
  /\ Goto(r, "over")
  /\ UNCHANGED <<qvars, conn, open, writes, ledger, effects>>

Settle(r) ==
  \/ MarkDone(r)
  \/ Classify(r)
  \/ Requeue(r)
  \/ DeadLetter(r)

Next ==
  \/ \E j \in Jobs : Enqueue(j)
  \/ CommitBurst
  \/ RollBackBurst
  \/ \E j \in Jobs : Claim(j)
  \/ \E j \in Jobs : Reap(j)
  \/ \E r \in Runs : HandlerStep(r) /\ UNCHANGED qvars
  \/ \E r \in Runs : Settle(r)
  \/ \E r \in Runs : Abandon(r)

Spec == Init /\ [][Next]_vars

(* Workers claim what is ready, the reaper comes round, the runtime polls  *)
(* the handlers, the pool serves them in turn, and the server ends a       *)
(* transaction whose client is gone.  No error has to happen.              *)
Fairness ==
  /\ \A j \in Jobs : WF_vars(Claim(j)) /\ WF_vars(Reap(j))
  /\ \A r \in Runs : /\ WF_vars(Process(r) /\ UNCHANGED qvars)
                     /\ WF_vars((AbortOrphan(r) \/ CommitOrphan(r)) /\ UNCHANGED qvars)
                     /\ WF_vars(Settle(r))

FairSpec == Spec /\ Fairness

-----------------------------------------------------------------------------
(* Properties                                                              *)

(* The variables have their types; no more connections than the pool has.  *)
TypeOK ==
  /\ HandlerTypeOK
  /\ row \in [Jobs -> Rows]
  /\ producer \subseteq Jobs

(* "Already processed; nothing to do" is told only of an event whose       *)
(* effect has happened: a job is never completed on the strength of a      *)
(* delivery that later rolled back.                                        *)
DoneMeansApplied ==
  \A j \in Jobs : row[j].state = "done" => effects[Key[j]] = 1

(* Jobs whose transaction is committed.                                    *)
Enqueued == {j \in Jobs \ producer : row[j].state # "absent"}

(* "At-least-once delivery" and an idempotent handler make exactly one     *)
(* effect per event with a committed job.                                  *)
Promise == INSTANCE ExactlyOnce WITH enqueued <- {Key[j] : j \in Enqueued}

IsExactlyOnce == Promise!Spec

(* Every delivery ends, even if the acquire timeout never strikes: with    *)
(* connections held by handlers that wait for a key, keys held by dead     *)
(* clients, and outcomes that need a connection too, no circle of waiting  *)
(* forms and no connection is lost to the pool.                            *)
DeliveriesEnd == \A r \in Runs : (pc[r] = "begin") ~> (pc[r] = "over")

(* With fewer errors than attempts, none of them called permanent, every   *)
(* event with a committed job has its effect, although deliveries wait for *)
(* connections, for each other's keys and for transactions of clients that *)
(* are gone.  One transient error that is called permanent is enough to    *)
(* lose it ("dead-letter a retryable timeout and you drop work").          *)
EventuallyApplied ==
  [](\A r \in Runs : pc[r] # "permanent") =>
    \A j \in Jobs : (row[j].state = "ready") ~> (effects[Key[j]] = 1)
=============================================================================
