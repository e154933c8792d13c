----------------------------- MODULE SkipLocked -----------------------------
(***************************************************************************)
(* The two claim statements, claim_batch and fair_claim, one row lock at a *)
(* time: several claims overlap, each with the snapshot and the now() of   *)
(* its start, each skipping the rows the others have locked, and meeting   *)
(* rows that changed after its snapshot.  JobQueue takes a claim to be one *)
(* atomic action; this module is where that is checked.                    *)
(*                                                                         *)
(* A claim is a transaction of one statement under READ COMMITTED.  Its    *)
(* locking SELECT visits the rows its snapshot shows as claimable, in the  *)
(* order of run_at; a row changed since is looked at again in its newest   *)
(* version.  Its UPDATE writes rows it has locked.  The statements that    *)
(* end or give back a claim write one row, in one step here, and wait for  *)
(* a row lock.  All rows are of the kinds the workers claim.               *)
(***************************************************************************)
EXTENDS Integers, FiniteSets

CONSTANTS
  Rows,        \* ids of table jobs
  Carrier,     \* Carrier[j] = payload->>'carrier_id', NULL being one of them
  Workers,
  NoWorker,    \* locked_by IS NULL
  Limit,       \* Limit[w]: LIMIT of w's select: n, or batch * 4
  Cap,         \* Cap[w]: per_tenant_cap; claim_batch has none: Limit[w]
  MaxClock,    \* bound: the clock stops there
  MaxReturns,  \* bound: how often rows are given back
  MaxAborts    \* bound: how many claims do not commit

ASSUME ClaimAssumption ==
  /\ NoWorker \notin Workers
  /\ Limit \in [Workers -> Nat \ {0}]
  /\ Cap \in [Workers -> Nat \ {0}]
  /\ {MaxClock, MaxReturns, MaxAborts} \subseteq Nat

VARIABLES
  rows,     \* committed rows; "absent" and "dead" stand for no row
  tx,       \* tx[w]: the claim w is executing
  clock,    \* now()
  returns,  \* rows given back so far
  aborts    \* claims that did not commit so far

vars == <<rows, tx, clock, returns, aborts>>

Row == [state     : {"absent", "ready", "running", "done", "dead"},
        run_at    : 0 .. MaxClock + 1,
        locked_by : Workers \cup {NoWorker}]

(* Some rows and the run_at by which a snapshot orders them.               *)
Visits == UNION {[S -> 0 .. MaxClock + 1] : S \in SUBSET Rows}

(* todo has the rows the select has yet to visit, window those it locked.  *)
Tx == [active : BOOLEAN, now : 0 .. MaxClock, todo : Visits, window : SUBSET Rows]

Idle == [active |-> FALSE, now |-> 0, todo |-> [j \in {} |-> 0], window |-> {}]

Init ==
  /\ rows = [j \in Rows |-> [state |-> "absent", run_at |-> 0,
                             locked_by |-> NoWorker]]
  /\ tx = [w \in Workers |-> Idle]
  /\ clock = 0
  /\ returns = 0
  /\ aborts = 0

Locked(j) == \E w \in Workers : j \in tx[w].window

-----------------------------------------------------------------------------
(* The claim                                                               *)

(* state = 'ready' AND run_at <= now()                                     *)
Claimable(j, now) == rows[j].state = "ready" /\ rows[j].run_at <= now

Begin(w) ==
  /\ ~tx[w].active
  /\ LET seen == {j \in Rows : Claimable(j, clock)}
     IN  tx' = [tx EXCEPT ![w] = [active |-> TRUE, now |-> clock, window |-> {},
                                  todo |-> [j \in seen |-> rows[j].run_at]]]
  /\ UNCHANGED <<rows, clock, returns, aborts>>

Scanning_OneMore(w) == /\ tx[w].active /\ DOMAIN tx[w].todo # {}
                       /\ Cardinality(tx[w].window) <= Limit[w]

Scanning(w) == /\ tx[w].active /\ DOMAIN tx[w].todo # {}
               /\ Cardinality(tx[w].window) < Limit[w]

Takes_NoRecheck(w, j) == ~Locked(j)

Takes_NoSkip(w, j) == Claimable(j, tx[w].now)

(* FOR NO KEY UPDATE SKIP LOCKED: the row is no one's, and its newest      *)
(* version still satisfies the WHERE clause.                               *)
Takes(w, j) == ~Locked(j) /\ Claimable(j, tx[w].now)

LockRow_Revisits(w) ==
  /\ Scanning(w)
  /\ \E j \in DOMAIN tx[w].todo :
       /\ \A i \in DOMAIN tx[w].todo : tx[w].todo[j] <= tx[w].todo[i]
       /\ tx' = [tx EXCEPT ![w].window = IF Takes(w, j) THEN @ \cup {j} ELSE @]
  /\ UNCHANGED <<rows, clock, returns, aborts>>

(* Visit the next row in the order of the snapshot.                        *)
LockRow(w) ==
  /\ Scanning(w)
  /\ \E j \in DOMAIN tx[w].todo :
       /\ \A i \in DOMAIN tx[w].todo : tx[w].todo[j] <= tx[w].todo[i]
       /\ tx' = [tx EXCEPT
            ![w].todo   = [i \in DOMAIN @ \ {j} |-> @[i]],
            ![w].window = IF Takes(w, j) THEN @ \cup {j} ELSE @]
  /\ UNCHANGED <<rows, clock, returns, aborts>>

RowNumbers_Unpartitioned(window) ==
  {rn \in [window -> 1 .. Cardinality(window)] :
     \A i, j \in window : /\ i # j => rn[i] # rn[j]
                          /\ rows[i].run_at < rows[j].run_at => rn[i] < rn[j]}

(* row_number() OVER (PARTITION BY carrier_id ORDER BY run_at): equal      *)
(* run_at are numbered in any order.                                       *)
RowNumbers(window) ==
  {rn \in [window -> 1 .. Cardinality(window)] :
     \A i, j \in window :
       Carrier[i] = Carrier[j] =>
         /\ i # j => rn[i] # rn[j]
         /\ rows[i].run_at < rows[j].run_at => rn[i] < rn[j]
         /\ \A n \in 1 .. rn[i] : \E k \in window :
              Carrier[k] = Carrier[i] /\ rn[k] = n}

Kept_Strict(w, rn) == {j \in tx[w].window : rn[j] < Cap[w]}

Kept(w, rn) == {j \in tx[w].window : rn[j] <= Cap[w]}

(* UPDATE the rows whose number is within the cap, and commit: every lock  *)
(* is released, those of the rows that were not taken included.            *)
Commit(w) ==
  /\ tx[w].active /\ ~Scanning(w)
  /\ \E rn \in RowNumbers(tx[w].window) :
       rows' = [j \in Rows |->
                  IF j \in Kept(w, rn)
                  THEN [rows[j] EXCEPT !.state = "running", !.locked_by = w]
                  ELSE rows[j]]
  /\ tx' = [tx EXCEPT ![w] = Idle]
  /\ UNCHANGED <<clock, returns, aborts>>

(* The connection dies before the commit: the server rolls back.           *)
Abort(w) ==
  /\ tx[w].active /\ aborts < MaxAborts
  /\ tx' = [tx EXCEPT ![w] = Idle]
  /\ aborts' = aborts + 1
  /\ UNCHANGED <<rows, clock, returns>>

-----------------------------------------------------------------------------
(* The other statements, and the clock                                     *)

(* enqueue_at: also with a run_at in the past, as a backfill has.          *)
Insert(j, run_at) ==
  /\ rows[j].state = "absent"
  /\ rows' = [rows EXCEPT ![j].state = "ready", ![j].run_at = run_at]
  /\ UNCHANGED <<tx, clock, returns, aborts>>

(* mark_done and dead_letter, both by id alone: of the worker that has the *)
(* row, or late, when it is anyone's.                                      *)
End(j, state) ==
  /\ rows[j].state \in {"ready", "running", "done"} /\ ~Locked(j)
  /\ rows' = [rows EXCEPT ![j].state = state, ![j].locked_by = NoWorker]
  /\ UNCHANGED <<tx, clock, returns, aborts>>

(* reap gives a running row back as it is.  requeue, by id alone, moves    *)
(* its run_at past now(); late, it may meet a row that is ready or done.   *)
GiveBack(j, run_at) ==
  /\ returns < MaxReturns
  /\ ~Locked(j)
  /\ \/ rows[j].state = "running" /\ run_at = rows[j].run_at
     \/ rows[j].state \in {"ready", "running", "done"} /\ run_at = clock + 1
  /\ rows' = [rows EXCEPT ![j] = [state |-> "ready", run_at |-> run_at,
                                  locked_by |-> NoWorker]]
  /\ returns' = returns + 1
  /\ UNCHANGED <<tx, clock, aborts>>

Tick ==
  /\ clock < MaxClock
  /\ clock' = clock + 1
  /\ UNCHANGED <<rows, tx, returns, aborts>>

Next ==
  \/ \E w \in Workers : Begin(w)
  \/ \E w \in Workers : LockRow(w)
  \/ \E w \in Workers : Commit(w)
  \/ \E w \in Workers : Abort(w)
  \/ \E j \in Rows, run_at \in 0 .. MaxClock : Insert(j, run_at)
  \/ \E j \in Rows, state \in {"done", "dead"} : End(j, state)
  \/ \E j \in Rows, run_at \in 0 .. MaxClock + 1 : GiveBack(j, run_at)
  \/ Tick

Spec == Init /\ [][Next]_vars

(* Every worker polls: it begins a claim again and again, and a claim that *)
(* does not abort reaches its commit, for it waits for no one.             *)
Fairness == \A w \in Workers : WF_vars(Begin(w) \/ LockRow(w) \/ Commit(w))

FairSpec == Spec /\ Fairness

-----------------------------------------------------------------------------
(* Properties                                                              *)

(* The variables have their types; a claim visits no row twice.            *)
TypeOK ==
  /\ rows \in [Rows -> Row]
  /\ tx \in [Workers -> Tx]
  /\ \A w \in Workers : tx[w].window \cap DOMAIN tx[w].todo = {}
  /\ clock \in 0 .. MaxClock
  /\ returns \in 0 .. MaxReturns
  /\ aborts \in 0 .. MaxAborts

(* The rows a commit of w takes.                                           *)
Taken(w) == {j \in Rows : rows'[j].locked_by = w /\ rows[j].locked_by # w}

(* A claim is as good as atomic: though its rows were chosen one by one    *)
(* from an old snapshot, every row it takes is, in the state it commits    *)
(* to, ready and due, and no one's; so no two workers walk away with one   *)
(* row ("a disjoint batch", claim.rs), and a row that was requeued under   *)
(* the claim keeps its backoff.  IsAtomic says this, and more.             *)
ClaimsAreAtomic ==
  [][\A w \in Workers : \A j \in Taken(w) :
       Claimable(j, clock) /\ rows[j].locked_by = NoWorker]_vars

Of(S, c) == {j \in S : Carrier[j] = c}

(* "No single carrier eats more than per_tenant_cap rows of a batch", and  *)
(* no carrier with a row in the window is left out: each gets its oldest   *)
(* rows, up to the cap.                                                    *)
FairShares ==
  [][\A w \in Workers : Taken(w) # {} =>
       \A c \in {Carrier[j] : j \in Rows} :
         LET took == Of(Taken(w), c)
             left == Of(tx[w].window, c) \ took
         IN  /\ Cardinality(took) <= Cap[w]
             /\ left # {} => Cardinality(took) = Cap[w]
             /\ \A i \in took, j \in left : rows[i].run_at <= rows[j].run_at]_vars

(* Row by row, overlapping and from old snapshots, the claims do what one  *)
(* step each would do: take rows that are all due when they commit, within *)
(* the limit and the cap of each carrier, and do nothing else to the       *)
(* table.  Which of the rows of a carrier these are, FairShares says.      *)
Atomic == INSTANCE AtomicClaims

IsAtomic == Atomic!Spec

(* A row that is due does not stay so for ever: not because the windows of *)
(* other claims cover it again and again without taking it, and not        *)
(* because a claim that had locked it died.                                *)
DueRowsClaimed ==
  \A j \in Rows : Claimable(j, clock) ~> ~Claimable(j, clock)
=============================================================================
