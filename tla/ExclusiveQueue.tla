--------------------------- MODULE ExclusiveQueue ---------------------------
(***************************************************************************)
(* What the queue promises when live handlers heartbeat in time: every     *)
(* submitted job is in one place, is handled by one worker at a time, is   *)
(* started at most MaxAttempts times, and once finished or buried stays    *)
(* so.  There are no rows, locks, leases, clocks or statements here;       *)
(* JobQueue is shown to implement this specification.                      *)
(***************************************************************************)
EXTENDS Naturals

CONSTANTS Jobs, Workers, MaxAttempts

VARIABLES
  status,    \* where each job is
  handlers,  \* handlers[j]: the workers that are handling job j
  starts     \* starts[j]: how often j was started; forgotten at its burial

vars == <<status, handlers, starts>>

Init ==
  /\ status = [j \in Jobs |-> "unborn"]
  /\ handlers = [j \in Jobs |-> {}]
  /\ starts = [j \in Jobs |-> 0]

Submit(j) ==
  /\ status[j] = "unborn"
  /\ status' = [status EXCEPT ![j] = "ready"]
  /\ UNCHANGED <<handlers, starts>>

(* Worker w starts the jobs of S: no one handles them, and each has a      *)
(* start left.                                                             *)
Start(w, S) ==
  /\ \A j \in S : /\ status[j] = "ready"
                  /\ handlers[j] = {}
                  /\ starts[j] < MaxAttempts
  /\ status' = [j \in Jobs |-> IF j \in S THEN "running" ELSE status[j]]
  /\ handlers' = [j \in Jobs |-> IF j \in S THEN {w} ELSE handlers[j]]
  /\ starts' = [j \in Jobs |-> IF j \in S THEN starts[j] + 1 ELSE starts[j]]

Handling(j) == status[j] = "running" /\ handlers[j] # {}

Finish(j) ==
  /\ Handling(j)
  /\ status' = [status EXCEPT ![j] = "done"]
  /\ handlers' = [handlers EXCEPT ![j] = {}]
  /\ UNCHANGED starts

GiveBack(j) ==
  /\ Handling(j) /\ starts[j] < MaxAttempts
  /\ status' = [status EXCEPT ![j] = "ready"]
  /\ handlers' = [handlers EXCEPT ![j] = {}]
  /\ UNCHANGED starts

Bury(j) ==
  /\ Handling(j)
  /\ status' = [status EXCEPT ![j] = "dead"]
  /\ handlers' = [handlers EXCEPT ![j] = {}]
  /\ starts' = [starts EXCEPT ![j] = 0]

(* The handlers of the jobs of S vanish, without a trace in the queue.     *)
Lose(S) ==
  /\ \A j \in S : Handling(j)
  /\ handlers' = [j \in Jobs |-> IF j \in S THEN {} ELSE handlers[j]]
  /\ UNCHANGED <<status, starts>>

(* The queue takes back jobs that were lost, never one being handled.      *)
Recover(S) ==
  /\ \A j \in S : /\ status[j] = "running"
                  /\ handlers[j] = {}
                  /\ starts[j] < MaxAttempts
  /\ status' = [j \in Jobs |-> IF j \in S THEN "ready" ELSE status[j]]
  /\ UNCHANGED <<handlers, starts>>

Next ==
  \/ \E j \in Jobs : Submit(j) \/ Finish(j) \/ GiveBack(j) \/ Bury(j)
  \/ \E S \in SUBSET Jobs :
       Lose(S) \/ Recover(S) \/ \E w \in Workers : Start(w, S)

Spec == Init /\ [][Next]_vars
=============================================================================
