------------------------------- MODULE Worker -------------------------------
(***************************************************************************)
(* One call of run_worker: the claim loop with its two biased selects, the *)
(* semaphore that bounds the handlers, and the drain.                      *)
(*                                                                         *)
(* A poll of a biased select is two steps, the token's arm and then the    *)
(* others: the token may fire, on another thread, between them.            *)
(*                                                                         *)
(* Around the loop: producers, other workers, whose claims lock rows they  *)
(* may not keep, and the server, which executes the claim after it was     *)
(* sent and before it is answered.  A claim future that is dropped does    *)
(* not take back a statement that is on its way.  The handlers are the     *)
(* caller's; all that is known is how they may end.                        *)
(***************************************************************************)
EXTENDS Integers, FiniteSets

CONSTANTS
  Jobs,    \* jobs of the kinds this worker claims
  Batch,   \* cfg.batch
  Fanout   \* cfg.fanout_concurrency

ASSUME WorkerAssumption ==
  /\ IsFiniteSet(Jobs)
  /\ Batch \in Nat \ {0}
  /\ Fanout \in Nat

VARIABLES
  pc,             \* where run_worker is
  cancelled,      \* the token is cancelled
  stmt,           \* the claim statement: none, sent, or answered
  permits,        \* available permits of the semaphore
  place,          \* place[j]: where job j is
  ahead,          \* ahead[j]: the claimable rows with an earlier run_at
  locked,         \* claimable rows that claims of other workers have locked
  notifications,  \* NOTIFYs delivered to the listener and not received yet
  unheard,        \* queued jobs whose NOTIFY was lost, or never sent
  passed,         \* rows that the last claim, answered without any, skipped
  late,           \* handlers started since the token was cancelled
  result          \* what run_worker returned

loop == <<pc, stmt, permits, late, result>>   \* what run_worker itself changes
rows == <<place, ahead, locked>>
wake == <<notifications, unheard, passed>>
vars == <<loop, cancelled, rows, wake>>

Places == {"new",        \* not enqueued
           "inserted",   \* inserted by a transaction that has not ended
           "delayed",    \* ready, but run_at is in the future
           "queued",     \* ready and due
           "granted",    \* claimed by the server, the answer on its way
           "batch",      \* in the batch that is being dispatched
           "inflight",   \* its handler runs under a permit
           "ended",      \* completed by its handler, or with another worker
           "stranded"}   \* running in the table, with no one to handle it

At(p) == {j \in Jobs : place[j] = p}

Move(S, p) == [j \in Jobs |-> IF j \in S THEN p ELSE place[j]]

Init ==
  /\ pc = "starting"
  /\ cancelled = FALSE
  /\ stmt = "none"
  /\ permits = Fanout
  /\ place = [j \in Jobs |-> "new"]
  /\ ahead = [j \in Jobs |-> {}]
  /\ locked = {}
  /\ notifications = 0
  /\ unheard = {}
  /\ passed = {}
  /\ late = 0
  /\ result = "none"

-----------------------------------------------------------------------------
(* Producers, other workers, and the signal handler                        *)

(* A job becomes claimable, behind those that are.                         *)
Queued(j) ==
  /\ place' = [place EXCEPT ![j] = "queued"]
  /\ ahead' = [ahead EXCEPT ![j] = At("queued")]
  /\ UNCHANGED locked

(* Jobs stop being claimable.                                              *)
Leave(S) ==
  /\ ahead' = [j \in Jobs |-> IF j \in S THEN {} ELSE ahead[j] \ S]
  /\ unheard' = unheard \ S

(* enqueue_pool opens its transaction, inserts the row and calls           *)
(* notify_ready; neither is seen by anyone else yet.                       *)
Enqueue(j) ==
  /\ place[j] = "new"
  /\ place' = [place EXCEPT ![j] = "inserted"]
  /\ UNCHANGED <<loop, cancelled, ahead, locked, wake>>

(* Its commit makes the row visible and then delivers the NOTIFY to those  *)
(* that LISTEN; it may be lost on its way.                                 *)
CommitEnqueue(j) ==
  /\ place[j] = "inserted"
  /\ Queued(j)
  /\ \/ /\ pc # "starting"
        /\ notifications' = notifications + 1
        /\ UNCHANGED unheard
     \/ unheard' = unheard \cup {j} /\ UNCHANGED notifications
  /\ UNCHANGED <<loop, cancelled, passed>>

(* It fails, or is dropped: no row, and no NOTIFY.                         *)
RollBackEnqueue(j) ==
  /\ place[j] = "inserted"
  /\ place' = [place EXCEPT ![j] = "new"]
  /\ UNCHANGED <<loop, cancelled, ahead, locked, wake>>

EnqueueDelayed(j) ==
  /\ place[j] = "new"
  /\ place' = [place EXCEPT ![j] = "delayed"]
  /\ UNCHANGED <<loop, cancelled, ahead, locked, wake>>

(* run_at passes.  No one sends a NOTIFY.                                  *)
FallsDue(j) ==
  /\ place[j] = "delayed"
  /\ Queued(j)
  /\ unheard' = unheard \cup {j}
  /\ UNCHANGED <<loop, cancelled, notifications, passed>>

(* The claim of another worker locks a row ...                             *)
OtherLocks(j) ==
  /\ place[j] = "queued" /\ j \notin locked
  /\ locked' = locked \cup {j}
  /\ UNCHANGED <<loop, cancelled, place, ahead, wake>>

(* ... and commits with it ...                                             *)
OtherClaims(j) ==
  /\ j \in locked
  /\ locked' = locked \ {j}
  /\ place' = [place EXCEPT ![j] = "ended"]
  /\ Leave({j})
  /\ passed' = passed \ {j}
  /\ UNCHANGED <<loop, cancelled, notifications>>

(* ... or does not keep it, or aborts.  No one sends a NOTIFY.             *)
OtherReleases(j) ==
  /\ j \in locked
  /\ locked' = locked \ {j}
  /\ UNCHANGED <<loop, cancelled, place, ahead, wake>>

(* The listener loses its connection and with it what was delivered.       *)
LoseNotifications ==
  /\ notifications > 0
  /\ notifications' = 0
  /\ unheard' = At("queued")
  /\ UNCHANGED <<loop, cancelled, rows, passed>>

Cancel ==
  /\ ~cancelled
  /\ cancelled' = TRUE
  /\ UNCHANGED <<loop, rows, wake>>

-----------------------------------------------------------------------------
(* run_worker                                                              *)

ReturnError ==
  /\ pc' = "returned" /\ result' = "err"

(* PgListener::connect_with and then LISTEN.  Neither has a timeout, and   *)
(* the token is not looked at.                                             *)
Connect ==
  /\ pc = "starting"
  /\ \/ pc' = "listening" /\ UNCHANGED result
     \/ ReturnError
  /\ UNCHANGED <<cancelled, stmt, permits, late, rows, wake>>

Listen ==
  /\ pc = "listening"
  /\ \/ pc' = "select" /\ UNCHANGED result
     \/ ReturnError
  /\ UNCHANGED <<cancelled, stmt, permits, late, rows, wake>>

(* No one waits for the claim any more.  Its statement may not have left   *)
(* (no connection was free), may still be executed, or may have been.      *)
DropClaim ==
  /\ stmt' \in IF stmt = "sent" THEN {"none", "sent"} ELSE {"none"}
  /\ place' = Move(At("granted"), "stranded")
  /\ passed' = {}

PollToken_Unbiased ==
  /\ pc = "select"
  /\ \/ cancelled /\ pc' = "draining" /\ DropClaim
     \/ pc' = "claim" /\ UNCHANGED <<stmt, place, passed>>
  /\ UNCHANGED <<cancelled, permits, late, ahead, locked, notifications,
                 unheard, result>>

(* A poll of the outer select: the token's arm drops the claim ...         *)
PollToken ==
  /\ pc = "select"
  /\ \/ cancelled /\ pc' = "draining" /\ DropClaim
     \/ ~cancelled /\ pc' = "claim" /\ UNCHANGED <<stmt, place, passed>>
  /\ UNCHANGED <<cancelled, permits, late, ahead, locked, notifications,
                 unheard, result>>

(* ... or is not ready, and the claim's arm is polled: the first time it   *)
(* sends the statement, and until it is answered it is pending.            *)
PollClaim ==
  /\ pc = "claim" /\ stmt # "answered"
  /\ pc' = "select" /\ stmt' = "sent"
  /\ UNCHANGED <<cancelled, permits, late, rows, wake, result>>

Claimable == At("queued") \ locked

(* The first Batch rows by run_at, SKIP LOCKED.                            *)
IsClaim(S) ==
  /\ S \subseteq Claimable
  /\ Cardinality(S) <= Batch
  /\ S # Claimable => Cardinality(S) = Batch
  /\ \A j \in S : ahead[j] \cap Claimable \subseteq S

(* The server executes the claim.  SkipLocked takes its scan apart; here   *)
(* it is one step, at its snapshot, and a row another claim locks while it *)
(* runs was locked before.  If no one waits for the answer any more, the   *)
(* rows are running nonetheless.                                           *)
CommitClaim ==
  /\ stmt = "sent"
  /\ \E S \in SUBSET Claimable :
       /\ IsClaim(S)
       /\ Leave(S)
       /\ IF pc \in {"select", "claim"}
          THEN /\ stmt' = "answered"
               /\ place' = Move(S, "granted")
               /\ passed' = IF S = {} THEN At("queued") ELSE {}
          ELSE /\ stmt' = "none"
               /\ place' = Move(S, "stranded")
               /\ passed' = {}
  /\ UNCHANGED <<pc, cancelled, permits, late, locked, notifications, result>>

ReceiveBatch_ForgetsNotifications ==
  /\ pc = "claim" /\ stmt = "answered"
  /\ place' = Move(At("granted"), "batch")
  /\ pc' = IF At("granted") = {} THEN "wait" ELSE "dispatch"
  /\ notifications' = IF At("granted") = {} THEN 0 ELSE notifications
  /\ stmt' = "none"
  /\ UNCHANGED <<cancelled, permits, late, ahead, locked, unheard, passed,
                 result>>

(* The claim's arm is ready, and the batch is taken in: also if the token  *)
(* fired after its arm was polled.                                         *)
ReceiveBatch ==
  /\ pc = "claim" /\ stmt = "answered"
  /\ place' = Move(At("granted"), "batch")
  /\ pc' = IF At("granted") = {} THEN "wait" ELSE "dispatch"
  /\ stmt' = "none"
  /\ UNCHANGED <<cancelled, permits, late, ahead, locked, wake, result>>

(* `batch?`: the error is returned at once.                                *)
ClaimFails ==
  /\ pc = "claim"
  /\ ReturnError /\ DropClaim
  /\ UNCHANGED <<cancelled, permits, late, ahead, locked, notifications,
                 unheard>>

(* A poll of the inner select: the token's arm ...                         *)
PollTokenIdle ==
  /\ pc = "wait"
  /\ \/ cancelled /\ pc' = "draining" /\ passed' = {}
     \/ ~cancelled /\ pc' = "recv" /\ UNCHANGED passed
  /\ UNCHANGED <<cancelled, stmt, permits, late, rows, notifications, unheard,
                 result>>

(* ... the listener's ...                                                  *)
Notified ==
  /\ pc = "recv" /\ notifications > 0
  /\ pc' = "select"
  /\ notifications' = notifications - 1
  /\ passed' = {}
  /\ UNCHANGED <<cancelled, stmt, permits, late, rows, unheard, result>>

Poll_Never ==
  /\ FALSE
  /\ UNCHANGED vars

(* ... and the poll timer's (or recv returns an error, which is ignored).  *)
Poll ==
  /\ pc = "recv"
  /\ pc' = "select"
  /\ passed' = {}
  /\ UNCHANGED <<cancelled, stmt, permits, late, rows, notifications, unheard,
                 result>>

(* None is ready.                                                          *)
StaysIdle ==
  /\ pc = "recv" /\ notifications = 0
  /\ pc' = "wait"
  /\ UNCHANGED <<cancelled, stmt, permits, late, rows, wake, result>>

Dispatch_StopsOnCancel(j) ==
  /\ pc = "dispatch" /\ place[j] = "batch"
  /\ \/ /\ ~cancelled /\ permits > 0
        /\ permits' = permits - 1
        /\ place' = [place EXCEPT ![j] = "inflight"]
        /\ pc' = IF At("batch") = {j} THEN "select" ELSE "dispatch"
     \/ /\ cancelled
        /\ place' = Move(At("batch"), "stranded")
        /\ pc' = "draining"
        /\ UNCHANGED permits
  /\ UNCHANGED <<cancelled, stmt, late, ahead, locked, wake, result>>

Dispatch_TryAcquire(j) ==
  /\ pc = "dispatch" /\ place[j] = "batch"
  /\ permits' = IF permits > 0 THEN permits - 1 ELSE 0
  /\ place' = [place EXCEPT ![j] = IF permits > 0 THEN "inflight" ELSE "stranded"]
  /\ late' = IF cancelled THEN late + 1 ELSE late
  /\ pc' = IF At("batch") = {j} THEN "select" ELSE "dispatch"
  /\ UNCHANGED <<cancelled, stmt, ahead, locked, wake, result>>

Dispatch_PermitNotMoved(j) ==
  /\ pc = "dispatch" /\ place[j] = "batch"
  /\ permits > 0
  /\ place' = [place EXCEPT ![j] = "inflight"]
  /\ late' = IF cancelled THEN late + 1 ELSE late
  /\ pc' = IF At("batch") = {j} THEN "select" ELSE "dispatch"
  /\ UNCHANGED <<cancelled, stmt, permits, ahead, locked, wake, result>>

(* One turn of `for job in batch`: wait for a permit, then spawn.  The     *)
(* token is not looked at here.                                            *)
Dispatch(j) ==
  /\ pc = "dispatch" /\ place[j] = "batch"
  /\ permits > 0
  /\ permits' = permits - 1
  /\ place' = [place EXCEPT ![j] = "inflight"]
  /\ late' = IF cancelled THEN late + 1 ELSE late
  /\ pc' = IF At("batch") = {j} THEN "select" ELSE "dispatch"
  /\ UNCHANGED <<cancelled, stmt, ahead, locked, wake, result>>

EndHandler_KeepsPermitOnPanic(j) ==
  /\ place[j] = "inflight"
  /\ \E p \in {"ended", "delayed", "stranded"} :
       /\ place' = [place EXCEPT ![j] = p]
       /\ permits' = IF p = "stranded" THEN permits ELSE permits + 1
  /\ UNCHANGED <<pc, cancelled, stmt, late, ahead, locked, wake, result>>

(* A handler ends: it completed the job, put it back with a backoff, or    *)
(* panicked or failed to record the outcome.  The permit drops each time.  *)
EndHandler(j) ==
  /\ place[j] = "inflight"
  /\ place' \in {[place EXCEPT ![j] = p] : p \in {"ended", "delayed", "stranded"}}
  /\ permits' = permits + 1
  /\ UNCHANGED <<pc, cancelled, stmt, late, ahead, locked, wake, result>>

(* acquire_many(total) gets every permit before the grace is over ...      *)
Drained ==
  /\ pc = "draining" /\ permits = Fanout
  /\ pc' = "returned" /\ result' = "ok"
  /\ UNCHANGED <<cancelled, stmt, permits, late, rows, wake>>

GraceExpires_Never ==
  /\ FALSE
  /\ UNCHANGED vars

(* ... or does not.                                                        *)
GraceExpires ==
  /\ pc = "draining"
  /\ pc' = "returned" /\ result' = "ok"
  /\ UNCHANGED <<cancelled, stmt, permits, late, rows, wake>>

(* main returns; the runtime drops the tasks that are still in flight.     *)
Exit ==
  /\ pc = "returned"
  /\ pc' = "exited"
  /\ place' = Move(At("inflight"), "stranded")
  /\ permits' = permits + Cardinality(At("inflight"))
  /\ UNCHANGED <<cancelled, stmt, late, ahead, locked, wake, result>>

-----------------------------------------------------------------------------
(* The rest of the system goes on after run_worker has returned, but       *)
(* nothing the call left behind depends on it any more.                    *)
Environment ==
  /\ pc \notin {"returned", "exited"}
  /\ \/ \E j \in Jobs : Enqueue(j)
     \/ \E j \in Jobs : CommitEnqueue(j)
     \/ \E j \in Jobs : RollBackEnqueue(j)
     \/ \E j \in Jobs : EnqueueDelayed(j)
     \/ \E j \in Jobs : FallsDue(j)
     \/ \E j \in Jobs : OtherLocks(j)
     \/ \E j \in Jobs : OtherClaims(j)
     \/ \E j \in Jobs : OtherReleases(j)
     \/ LoseNotifications
     \/ Cancel

Next ==
  \/ Environment
  \/ Connect
  \/ Listen
  \/ PollToken
  \/ PollClaim
  \/ CommitClaim
  \/ ReceiveBatch
  \/ ClaimFails
  \/ PollTokenIdle
  \/ Notified
  \/ Poll
  \/ StaysIdle
  \/ \E j \in Jobs : Dispatch(j)
  \/ \E j \in Jobs : EndHandler(j)
  \/ Drained
  \/ GraceExpires
  \/ Exit

Spec == Init /\ [][Next]_vars

(* The runtime polls the task of run_worker whenever it can take a step,   *)
(* and timers fire: a sleep that is over is ready at every later poll.     *)
(* Nothing is assumed of the server, the handlers or the producers.        *)
LoopFairness ==
  /\ WF_vars(PollToken)
  /\ WF_vars(PollClaim)
  /\ WF_vars(ReceiveBatch)
  /\ WF_vars(PollTokenIdle)
  /\ SF_vars(Poll)
  /\ WF_vars(\E j \in Jobs : Dispatch(j))
  /\ WF_vars(Drained)
  /\ WF_vars(GraceExpires)

(* The server answers (connecting and LISTEN included), and every handler  *)
(* ends: hypotheses of the properties that need them, and not of the       *)
(* others.                                                                 *)
ServerFairness ==
  /\ WF_vars(Connect)
  /\ WF_vars(Listen)
  /\ WF_vars(CommitClaim)
HandlerFairness == \A j \in Jobs : WF_vars(EndHandler(j))

LoopSpec == Spec /\ LoopFairness

-----------------------------------------------------------------------------
(* Properties                                                              *)

(* The variables have their types.                                         *)
TypeOK ==
  /\ pc \in {"starting", "listening", "select", "claim", "wait", "recv",
             "dispatch", "draining", "returned", "exited"}
  /\ cancelled \in BOOLEAN
  /\ stmt \in {"none", "sent", "answered"}
  /\ permits \in 0 .. Fanout
  /\ place \in [Jobs -> Places]
  /\ ahead \in [Jobs -> SUBSET At("queued")]
  /\ locked \subseteq At("queued")
  /\ notifications \in Nat
  /\ unheard \subseteq At("queued")
  /\ passed \subseteq At("queued")
  /\ late \in Nat
  /\ result \in {"none", "ok", "err"}

(* "The worker cannot push more in-flight calls than the downstream can    *)
(* absorb", and no permit is ever lost, not to a panic either: a semaphore *)
(* that leaked permits would in time stop the worker for good.             *)
PermitsConserved == permits + Cardinality(At("inflight")) = Fanout

(* "Once we hold them all, no task is in flight": a drain that ends before *)
(* its grace leaves nothing for the exit of the process to cut off.        *)
DrainedMeansIdle ==
  [][Drained => At("inflight") = {} /\ At("batch") = {}]_vars

(* "Once the token fires we stop claiming on the next loop turn instead of *)
(* grabbing one more batch".  A token that fires inside a turn, between    *)
(* the polls of the two arms or while a batch is dispatched, still lets    *)
(* that batch in, and no other: the handlers that start after it, with     *)
(* those the batch still holds, are at most one batch.                     *)
OneBatchAfterCancel == late + Cardinality(At("batch")) <= Batch

(* A row this worker claimed is lost only where the code lets go of it:    *)
(* without a cancellation or a claim error, by its own handler or not at   *)
(* all.                                                                    *)
StrandedOnlyByHandler ==
  [][\A j \in Jobs : place[j] # "stranded" /\ place'[j] = "stranded"
       => place[j] = "inflight" \/ cancelled \/ result' = "err"]_vars

(* No wake-up is lost by the code: "an idle worker wakes the moment a      *)
(* producer commits", whenever the insert, the commit and the delivery     *)
(* fall between the claim, its answer and the wait.  It sleeps on a        *)
(* claimable row only if the listener has not had its NOTIFY, or if the    *)
(* claim skipped the row because another one held its lock.                *)
NoSleepOnWork ==
  pc \in {"wait", "recv"} /\ notifications = 0 =>
    At("queued") \subseteq unheard \cup passed

(* NOTIFY is "a latency optimization, never a correctness mechanism": with *)
(* every notification lost, for jobs that fall due without one, and for    *)
(* rows that were skipped, the poll still gets every due job claimed while *)
(* the worker runs, unless other claims hold its lock for ever or again    *)
(* and again.                                                              *)
DueJobsClaimed == ServerFairness /\ HandlerFairness =>
  \A j \in Jobs : <>[](j \notin locked) =>
    ((place[j] = "queued") ~>
       (place[j] # "queued" \/ cancelled \/ pc \in {"returned", "exited"}))

(* "In-flight work finishes": every job taken in with a batch is given to  *)
(* its handler, whenever the cancellation comes.                           *)
BatchIsHandled == HandlerFairness =>
  \A j \in Jobs : (place[j] = "batch") ~> (place[j] = "inflight")

(* A cancelled worker returns once its handlers end, if the server answers *)
(* its LISTEN.                                                             *)
CancelReturns == ServerFairness /\ HandlerFairness =>
  (cancelled ~> (pc = "returned" \/ pc = "exited"))

(* A cancellation that meets the loop at a select, waiting or draining     *)
(* ends it even if no handler ever ends and the server never answers: "a   *)
(* bounded 30 s grace".  Not one that meets it before the loop, in the     *)
(* middle of a batch, or as the claim's arm is polled.                     *)
CancelReturnsAnyway ==
  (cancelled /\ pc \in {"select", "wait", "recv", "draining"}) ~>
    (pc = "returned" \/ pc = "exited")

(* "On SIGTERM the worker stops claiming, drains in-flight work, and       *)
(* bounds the wait to 30 s" (README): however long the handlers take, if   *)
(* the server answers.                                                     *)
DrainIsBounded == ServerFairness =>
  (cancelled ~> (pc = "returned" \/ pc = "exited"))
=============================================================================
