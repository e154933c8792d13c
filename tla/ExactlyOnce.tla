----------------------------- MODULE ExactlyOnce -----------------------------
(***************************************************************************)
(* What transactional enqueue and an idempotent handler promise together:  *)
(* an event has its effect only after a transaction that enqueued a job    *)
(* about it is committed, and only once.  There are no deliveries,         *)
(* connections or transactions here; Pipeline is shown to implement this.  *)
(***************************************************************************)
EXTENDS Naturals

CONSTANT Keys   \* events

VARIABLES
  enqueued,  \* events that a committed job is about
  effects    \* effects[k]: how often the effect of k has happened

vars == <<enqueued, effects>>

Init ==
  /\ enqueued = {}
  /\ effects = [k \in Keys |-> 0]

Enqueue(S) ==
  /\ enqueued' = enqueued \cup S
  /\ UNCHANGED effects

Apply(k) ==
  /\ k \in enqueued /\ effects[k] = 0
  /\ effects' = [effects EXCEPT ![k] = 1]
  /\ UNCHANGED enqueued

Next ==
  \/ \E S \in SUBSET Keys : Enqueue(S)
  \/ \E k \in Keys : Apply(k)

Spec == Init /\ [][Next]_vars
=============================================================================
