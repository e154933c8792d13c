---------------------------- MODULE AtomicClaims ----------------------------
(***************************************************************************)
(* What the claim statements are to everyone else: a claim is one step, of *)
(* which there is no trace before it.  It takes rows that are due and no   *)
(* one's, at most its limit of them and of each carrier at most the cap.   *)
(* There are no snapshots, no row locks, no visits and no claims that      *)
(* overlap; SkipLocked is shown to implement this specification, and       *)
(* JobQueue takes a claim to be such a step.                               *)
(***************************************************************************)
EXTENDS Integers, FiniteSets

CONSTANTS Rows, Carrier, Workers, NoWorker, Limit, Cap, MaxClock, MaxReturns

VARIABLES
  rows,    \* the table
  clock,   \* now()
  returns  \* rows given back so far

vars == <<rows, clock, returns>>

Init ==
  /\ rows = [j \in Rows |-> [state |-> "absent", run_at |-> 0,
                             locked_by |-> NoWorker]]
  /\ clock = 0
  /\ returns = 0

Due == {j \in Rows : /\ rows[j].state = "ready" /\ rows[j].run_at <= clock
                     /\ rows[j].locked_by = NoWorker}

Of(S, c) == {j \in S : Carrier[j] = c}

(* Any rows that are due, as long as they are few enough.                  *)
Claim(w) ==
  \E S \in SUBSET Due :
    /\ Cardinality(S) <= Limit[w]
    /\ \A c \in {Carrier[j] : j \in S} : Cardinality(Of(S, c)) <= Cap[w]
    /\ rows' = [j \in Rows |->
                  IF j \in S THEN [rows[j] EXCEPT !.state = "running", !.locked_by = w]
                             ELSE rows[j]]
    /\ UNCHANGED <<clock, returns>>

Insert(j) ==
  /\ rows[j].state = "absent"
  /\ \E run_at \in 0 .. MaxClock :
       rows' = [rows EXCEPT ![j].state = "ready", ![j].run_at = run_at]
  /\ UNCHANGED <<clock, returns>>

(* The outcome of a handler, late or not.                                  *)
End(j) ==
  /\ rows[j].state \in {"ready", "running", "done"}
  /\ \E state \in {"done", "dead"} :
       rows' = [rows EXCEPT ![j].state = state, ![j].locked_by = NoWorker]
  /\ UNCHANGED <<clock, returns>>

(* By the reaper, or for a retry, which is later.                          *)
GiveBack(j) ==
  /\ returns < MaxReturns /\ returns' = returns + 1
  /\ \E run_at \in 0 .. MaxClock + 1 :
       /\ \/ rows[j].state = "running" /\ run_at = rows[j].run_at
          \/ rows[j].state \in {"ready", "running", "done"} /\ run_at = clock + 1
       /\ rows' = [rows EXCEPT ![j] = [state |-> "ready", run_at |-> run_at,
                                       locked_by |-> NoWorker]]
  /\ UNCHANGED clock

Tick ==
  /\ clock < MaxClock
  /\ clock' = clock + 1
  /\ UNCHANGED <<rows, returns>>

Next ==
  \/ \E w \in Workers : Claim(w)
  \/ \E j \in Rows : Insert(j) \/ End(j) \/ GiveBack(j)
  \/ Tick

Spec == Init /\ [][Next]_vars
=============================================================================
