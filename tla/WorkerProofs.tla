---------------------------- MODULE WorkerProofs ----------------------------
(***************************************************************************)
(* Theorems about one call of run_worker, for any jobs and any batch, and  *)
(* any number of permits.                                                  *)
(***************************************************************************)
EXTENDS Worker, FiniteSetTheorems, TLAPS

(* Jobs are on their way from the server only while run_worker waits for   *)
(* them, and in a batch only while it dispatches one.                      *)
PlacesOK ==
  /\ At("granted") # {} => pc \in {"select", "claim"} /\ stmt = "answered"
  /\ At("batch") # {} => pc = "dispatch"

(* A claim that run_worker no longer waits for was dropped by the token or *)
(* by an error.                                                            *)
StatementOK ==
  /\ stmt = "answered" => pc \in {"select", "claim"}
  /\ stmt = "sent" => \/ pc \in {"select", "claim"}
                      \/ /\ pc \in {"draining", "returned", "exited"}
                         /\ cancelled \/ result = "err"
  /\ pc = "draining" => cancelled

(* An answer without rows says that there was nothing to claim but what    *)
(* others had locked, and what has become claimable since it was given has *)
(* a NOTIFY, or never had one.                                             *)
NothingMissed ==
  stmt = "answered" /\ At("granted") = {} /\ notifications = 0 =>
    At("queued") \subseteq unheard \cup passed

(* A claim that is about to be polled was not yet cancelled when the turn  *)
(* began, and its answer is no more than a batch.                          *)
ClaimInTime ==
  /\ pc = "claim" \/ ~cancelled => late = 0
  /\ Cardinality(At("granted")) <= Batch

(* TypeOK needs PermitsConserved, for a permit that is given back;         *)
(* NoSleepOnWork needs what is known of the answer before the wait, and    *)
(* OneBatchAfterCancel that no handler has started late before the batch   *)
(* is taken in.                                                            *)
WorkerInv ==
  /\ TypeOK /\ PermitsConserved
  /\ PlacesOK /\ StatementOK
  /\ NothingMissed /\ NoSleepOnWork
  /\ ClaimInTime /\ OneBatchAfterCancel

(* What holds of the rows whatever place they are in.                      *)
RowsOK ==
  /\ ahead \in [Jobs -> SUBSET At("queued")]
  /\ locked \subseteq At("queued")
  /\ unheard \subseteq At("queued")
  /\ passed \subseteq At("queued")

-----------------------------------------------------------------------------
(* Places                                                                  *)

(* Any set of jobs is finite.                                              *)
LEMMA PlaceFinite ==
  ASSUME NEW p
  PROVE  IsFiniteSet(At(p)) /\ Cardinality(At(p)) \in Nat
<1>1. At(p) \subseteq Jobs
  BY DEF At
<1> QED BY <1>1, WorkerAssumption, FS_Subset, FS_CardinalityType

(* The handlers that run are counted.                                      *)
LEMMA InflightCounted ==
  ASSUME TypeOK, PermitsConserved
  PROVE  /\ IsFiniteSet(At("inflight")) /\ Cardinality(At("inflight")) \in Nat
         /\ permits \in Nat /\ Fanout \in Nat
         /\ permits + Cardinality(At("inflight")) = Fanout
<1>1. permits \in 0 .. Fanout
  BY DEF TypeOK
<1>2. permits + Cardinality(At("inflight")) = Fanout
  BY DEF PermitsConserved
<1> QED BY <1>1, <1>2, PlaceFinite, WorkerAssumption

(* A step of producers, other workers or the listener.  It leaves alone    *)
(* what run_worker has, and a job that becomes claimable has a NOTIFY or   *)
(* is unheard of.                                                          *)
LEMMA OutsideStep ==
  ASSUME WorkerInv, UNCHANGED loop, cancelled' \in BOOLEAN, cancelled => cancelled',
         place' \in [Jobs -> Places], RowsOK',
         At("granted")' = At("granted"), At("batch")' = At("batch"),
         At("inflight")' = At("inflight"),
         notifications' \in Nat,
         notifications' = 0 =>
           \/ At("queued")' \subseteq (unheard \cup passed)'
           \/ /\ notifications = 0
              /\ At("queued") \subseteq unheard \cup passed
                   => At("queued")' \subseteq (unheard \cup passed)'
  PROVE  WorkerInv'
<1> USE DEF WorkerInv, loop
<1>1. TypeOK' /\ PermitsConserved'
  BY DEF TypeOK, PermitsConserved, RowsOK
<1>2. PlacesOK' /\ StatementOK'
  BY DEF PlacesOK, StatementOK
<1>3. NothingMissed' /\ NoSleepOnWork'
  BY DEF NothingMissed, NoSleepOnWork
<1>4. ClaimInTime' /\ OneBatchAfterCancel'
  BY DEF ClaimInTime, OneBatchAfterCancel
<1> QED BY <1>1, <1>2, <1>3, <1>4

(* A set of rows stops being claimable.                                    *)
LEMMA LeaveRows ==
  ASSUME RowsOK, NEW S \in SUBSET At("queued"), Leave(S),
         At("queued")' = At("queued") \ S,
         locked' \subseteq locked \ S, passed' \subseteq At("queued")'
  PROVE  RowsOK'
<1>1. ahead' \in [Jobs -> SUBSET At("queued")']
  <2> SUFFICES ASSUME NEW j \in Jobs
               PROVE  (IF j \in S THEN {} ELSE ahead[j] \ S) \in SUBSET At("queued")'
    BY DEF Leave
  <2>1. ahead[j] \subseteq At("queued")
    BY DEF RowsOK
  <2> QED BY <2>1
<1>2. locked' \subseteq At("queued")' /\ unheard' \subseteq At("queued")'
  BY DEF RowsOK, Leave
<1> QED BY <1>1, <1>2 DEF RowsOK

(* The transaction of an enqueue: insert, commit or roll back.             *)
LEMMA ProducerStep ==
  ASSUME WorkerInv, NEW j \in Jobs,
         \/ Enqueue(j) \/ CommitEnqueue(j) \/ RollBackEnqueue(j)
         \/ EnqueueDelayed(j) \/ FallsDue(j)
  PROVE  WorkerInv'
<1>1. /\ place \in [Jobs -> Places] /\ RowsOK
      /\ notifications \in Nat /\ cancelled \in BOOLEAN
  BY DEF WorkerInv, TypeOK, RowsOK
<1>2. UNCHANGED <<loop, cancelled>>
  BY DEF Enqueue, CommitEnqueue, RollBackEnqueue, EnqueueDelayed, FallsDue
<1>3. place[j] \in {"new", "inserted", "delayed"}
  BY DEF Enqueue, CommitEnqueue, RollBackEnqueue, EnqueueDelayed, FallsDue
<1>4. ASSUME NEW p \in {"new", "inserted", "delayed"},
             place' = [place EXCEPT ![j] = p], UNCHANGED <<ahead, locked, wake>>
      PROVE  WorkerInv'
  <2>1. place' \in [Jobs -> Places]
    BY <1>1, <1>4 DEF Places
  <2>2. /\ At("granted")' = At("granted") /\ At("batch")' = At("batch")
        /\ At("inflight")' = At("inflight") /\ At("queued")' = At("queued")
    BY <1>1, <1>3, <1>4, <2>1 DEF At
  <2>3. UNCHANGED <<notifications, unheard, passed>>
    BY <1>4 DEF wake
  <2>4. RowsOK'
    BY <1>1, <1>4, <2>2, <2>3 DEF RowsOK
  <2> QED BY <1>1, <1>2, <2>1, <2>2, <2>3, <2>4, OutsideStep
<1>5. ASSUME Queued(j), notifications' \in Nat, UNCHANGED passed,
             \/ notifications' = notifications + 1 /\ UNCHANGED unheard
             \/ unheard' = unheard \cup {j} /\ UNCHANGED notifications
      PROVE  WorkerInv'
  <2>1. place' \in [Jobs -> Places]
    BY <1>1, <1>5 DEF Queued, Places
  <2>2. /\ At("granted")' = At("granted") /\ At("batch")' = At("batch")
        /\ At("inflight")' = At("inflight") /\ At("queued")' = At("queued") \cup {j}
    BY <1>1, <1>3, <1>5, <2>1 DEF Queued, At
  <2>3. ahead' \in [Jobs -> SUBSET At("queued")']
    <3>1. ahead' = [ahead EXCEPT ![j] = At("queued")]
      BY <1>5 DEF Queued
    <3> QED BY <1>1, <2>2, <3>1 DEF RowsOK
  <2>4. RowsOK'
    BY <1>1, <1>5, <2>2, <2>3 DEF RowsOK, Queued
  <2>5. notifications' = 0 =>
          /\ notifications = 0
          /\ At("queued") \subseteq unheard \cup passed
               => At("queued")' \subseteq (unheard \cup passed)'
    BY <1>1, <1>5, <2>2
  <2> QED BY <1>1, <1>2, <1>5, <2>1, <2>2, <2>4, <2>5, OutsideStep
<1>6. CASE Enqueue(j) \/ RollBackEnqueue(j) \/ EnqueueDelayed(j)
  BY <1>4, <1>6 DEF Enqueue, RollBackEnqueue, EnqueueDelayed
<1>7. CASE CommitEnqueue(j)
  BY <1>1, <1>5, <1>7 DEF CommitEnqueue
<1>8. CASE FallsDue(j)
  BY <1>1, <1>5, <1>8 DEF FallsDue
<1> QED BY <1>6, <1>7, <1>8

(* Another worker's claim locks a row, takes it or lets go of it,          *)
(* notifications are lost, the token fires.                                *)
LEMMA OthersStep ==
  ASSUME WorkerInv,
         \/ \E j \in Jobs : OtherLocks(j) \/ OtherClaims(j) \/ OtherReleases(j)
         \/ LoseNotifications \/ Cancel
  PROVE  WorkerInv'
<1>1. /\ place \in [Jobs -> Places] /\ RowsOK
      /\ notifications \in Nat /\ cancelled \in BOOLEAN
  BY DEF WorkerInv, TypeOK, RowsOK
<1>2. ASSUME NEW j \in Jobs, OtherClaims(j) PROVE WorkerInv'
  <2>1. /\ j \in At("queued") /\ place' = [place EXCEPT ![j] = "ended"]
        /\ Leave({j}) /\ locked' = locked \ {j} /\ passed' = passed \ {j}
        /\ UNCHANGED <<loop, cancelled, notifications>>
    BY <1>1, <1>2 DEF OtherClaims, RowsOK
  <2>2. place' \in [Jobs -> Places]
    BY <1>1, <2>1 DEF Places
  <2>3. /\ At("granted")' = At("granted") /\ At("batch")' = At("batch")
        /\ At("inflight")' = At("inflight") /\ At("queued")' = At("queued") \ {j}
    BY <1>1, <2>1, <2>2 DEF At
  <2>4. RowsOK'
    <3>1. passed' \subseteq At("queued")'
      BY <1>1, <2>1, <2>3 DEF RowsOK
    <3> QED BY <1>1, <2>1, <2>3, <3>1, LeaveRows
  <2>5. At("queued") \subseteq unheard \cup passed
          => At("queued")' \subseteq (unheard \cup passed)'
    BY <2>1, <2>3 DEF Leave
  <2> QED BY <1>1, <2>1, <2>2, <2>3, <2>4, <2>5, OutsideStep
<1>3. ASSUME NEW j \in Jobs, OtherLocks(j) \/ OtherReleases(j) PROVE WorkerInv'
  <2>1. /\ UNCHANGED <<loop, cancelled, place, ahead, wake>>
        /\ locked' \subseteq At("queued")
    BY <1>1, <1>3 DEF OtherLocks, OtherReleases, RowsOK, At
  <2>2. \A p : At(p)' = At(p)
    BY <2>1 DEF At
  <2>3. RowsOK'
    BY <1>1, <2>1, <2>2 DEF RowsOK, wake
  <2> QED BY <1>1, <2>1, <2>2, <2>3, OutsideStep DEF wake
<1>4. CASE LoseNotifications \/ Cancel
  <2>1. /\ UNCHANGED <<loop, place, ahead, locked, passed>> /\ cancelled' \in BOOLEAN
        /\ cancelled => cancelled'
        /\ notifications' \in Nat /\ unheard' \subseteq At("queued")
        /\ notifications' = 0 => \/ At("queued") = unheard'
                                 \/ UNCHANGED <<notifications, unheard>>
    <3>1. CASE LoseNotifications
      BY <1>1, <3>1 DEF LoseNotifications, rows
    <3>2. CASE Cancel
      BY <1>1, <3>2 DEF Cancel, wake, rows, RowsOK
    <3> QED BY <1>4, <3>1, <3>2
  <2>2. \A p : At(p)' = At(p)
    BY <2>1 DEF At
  <2>3. RowsOK'
    BY <1>1, <2>1, <2>2 DEF RowsOK
  <2>4. notifications' = 0 =>
          \/ At("queued")' \subseteq (unheard \cup passed)'
          \/ /\ notifications = 0
             /\ At("queued") \subseteq unheard \cup passed
                  => At("queued")' \subseteq (unheard \cup passed)'
    BY <2>1, <2>2
  <2> QED BY <1>1, <2>1, <2>2, <2>3, <2>4, OutsideStep
<1> QED BY <1>2, <1>3, <1>4

-----------------------------------------------------------------------------
(* The steps of run_worker and of its claim                                *)

(* The steps that move no job.                                             *)
LEMMA StillStep ==
  ASSUME WorkerInv,
         \/ Connect \/ Listen \/ PollClaim \/ PollTokenIdle \/ Notified \/ Poll
         \/ StaysIdle \/ Drained \/ GraceExpires
         \/ (PollToken /\ ~cancelled)
  PROVE  WorkerInv'
<1> USE DEF rows, wake, ReturnError
<1>1. UNCHANGED <<cancelled, permits, late, place, ahead, locked, unheard>>
  BY DEF Connect, Listen, PollToken, PollClaim, PollTokenIdle, Notified, Poll, StaysIdle,
         Drained, GraceExpires
<1>2. notifications' \in Nat /\ passed' \in {passed, {}}
  BY DEF WorkerInv, TypeOK, Connect, Listen, PollToken, PollClaim, PollTokenIdle,
         Notified, Poll, StaysIdle, Drained, GraceExpires
<1>3. \A p : At(p)' = At(p)
  BY <1>1 DEF At
<1>4. /\ pc' \in {"listening", "select", "claim", "wait", "recv", "draining", "returned"}
      /\ result' \in {"none", "ok", "err"} /\ stmt' \in {"none", "sent", "answered"}
      /\ pc # "dispatch" /\ (pc' = "claim" => ~cancelled)
  BY DEF WorkerInv, TypeOK, Connect, Listen, PollToken, PollClaim, PollTokenIdle,
         Notified, Poll, StaysIdle, Drained, GraceExpires
<1>5. TypeOK' /\ PermitsConserved'
  <2>1. RowsOK'
    BY <1>1, <1>2, <1>3 DEF WorkerInv, TypeOK, RowsOK
  <2> QED BY <1>1, <1>2, <1>3, <1>4, <2>1
          DEF WorkerInv, TypeOK, PermitsConserved, RowsOK
<1>6. ClaimInTime' /\ OneBatchAfterCancel'
  BY <1>1, <1>3, <1>4 DEF WorkerInv, ClaimInTime, OneBatchAfterCancel
<1>7. /\ stmt' = "answered" => /\ stmt = "answered" /\ pc' = "claim"
                               /\ UNCHANGED <<notifications, passed>>
      /\ stmt = "answered" => stmt' = "answered"
  BY <1>4 DEF WorkerInv, StatementOK, Connect, Listen, PollToken, PollClaim,
         PollTokenIdle, Notified, Poll, StaysIdle, Drained, GraceExpires
<1>8. PlacesOK'
  BY <1>3, <1>4, <1>7 DEF WorkerInv, PlacesOK
<1>9. StatementOK'
  BY <1>1, <1>7 DEF WorkerInv, StatementOK, Connect, Listen, PollToken, PollClaim,
         PollTokenIdle, Notified, Poll, StaysIdle, Drained, GraceExpires
<1>10. NothingMissed'
  BY <1>1, <1>3, <1>7 DEF WorkerInv, NothingMissed
<1>11. NoSleepOnWork'
  <2>1. pc' \in {"wait", "recv"} => /\ pc \in {"wait", "recv"}
                                    /\ UNCHANGED <<notifications, passed>>
    BY DEF Connect, Listen, PollToken, PollClaim, PollTokenIdle, Notified, Poll,
           StaysIdle, Drained, GraceExpires
  <2> QED BY <1>1, <1>3, <2>1 DEF WorkerInv, NoSleepOnWork
<1> QED BY <1>5, <1>6, <1>8, <1>9, <1>10, <1>11 DEF WorkerInv

(* The server executes the claim, whoever waits for it.                    *)
LEMMA CommitClaimStep ==
  ASSUME WorkerInv, CommitClaim
  PROVE  WorkerInv'
<1> DEFINE awaited == pc \in {"select", "claim"}
<1>1. place \in [Jobs -> Places] /\ RowsOK /\ stmt = "sent"
  BY DEF WorkerInv, TypeOK, RowsOK, CommitClaim
<1>2. PICK S \in SUBSET Claimable :
        /\ IsClaim(S) /\ Leave(S)
        /\ awaited => /\ stmt' = "answered" /\ place' = Move(S, "granted")
                      /\ passed' = IF S = {} THEN At("queued") ELSE {}
        /\ ~awaited => /\ stmt' = "none" /\ place' = Move(S, "stranded")
                       /\ passed' = {}
  BY DEF CommitClaim
<1>3. UNCHANGED <<pc, cancelled, permits, late, locked, notifications, result>>
  BY DEF CommitClaim
<1>4. S \subseteq At("queued") /\ S \cap locked = {} /\ S \subseteq Jobs
      /\ \A j \in S : place[j] = "queued"
  BY DEF Claimable, At
<1>5. /\ place' \in [Jobs -> Places] /\ At("queued")' = At("queued") \ S
      /\ At("inflight")' = At("inflight") /\ At("batch")' = At("batch")
      /\ awaited => At("granted")' = At("granted") \cup S
      /\ ~awaited => At("granted")' = At("granted")
  <2>1. CASE awaited
    <3>1. place' = Move(S, "granted") /\ place' \in [Jobs -> Places]
      BY <1>1, <1>2, <2>1 DEF Move, Places
    <3> QED BY <1>1, <1>4, <2>1, <3>1 DEF Move, At
  <2>2. CASE ~awaited
    <3>1. place' = Move(S, "stranded") /\ place' \in [Jobs -> Places]
      BY <1>1, <1>2, <2>2 DEF Move, Places
    <3> QED BY <1>1, <1>4, <2>2, <3>1 DEF Move, At
  <2> QED BY <2>1, <2>2
<1>6. At("granted") = {}
  BY <1>1 DEF WorkerInv, PlacesOK
<1>7. TypeOK'
  <2>1. passed' \subseteq At("queued")'
    BY <1>2, <1>5
  <2>2. locked' \subseteq locked \ S
    BY <1>3, <1>4
  <2>3. RowsOK'
    BY <1>1, <1>2, <1>4, <1>5, <2>1, <2>2, LeaveRows
  <2> QED BY <1>2, <1>3, <1>5, <2>3 DEF WorkerInv, TypeOK, RowsOK
<1>8. PermitsConserved'
  BY <1>3, <1>5 DEF WorkerInv, PermitsConserved
<1>9. PlacesOK' /\ StatementOK'
  BY <1>1, <1>2, <1>3, <1>5 DEF WorkerInv, PlacesOK, StatementOK
<1>10. ClaimInTime' /\ OneBatchAfterCancel'
  <2>1. At("granted")' = {} \/ At("granted")' = S
    BY <1>5, <1>6
  <2>2. Cardinality(At("granted")') <= Batch
    BY <1>2, <2>1, FS_EmptySet, WorkerAssumption DEF IsClaim
  <2> QED BY <1>3, <1>5, <2>2 DEF WorkerInv, ClaimInTime, OneBatchAfterCancel
<1>11. NothingMissed'
  <2> SUFFICES ASSUME awaited, At("granted")' = {}
               PROVE  At("queued")' \subseteq passed'
    BY <1>2, <1>3 DEF NothingMissed
  <2>1. S = {}
    BY <1>5
  <2> QED BY <1>2, <1>5, <2>1
<1>12. NoSleepOnWork'
  BY <1>1, <1>3 DEF WorkerInv, StatementOK, NoSleepOnWork
<1> QED BY <1>7, <1>8, <1>9, <1>10, <1>11, <1>12 DEF WorkerInv

(* The answer is taken in, or no longer awaited.                           *)
LEMMA AnswerStep ==
  ASSUME WorkerInv, ReceiveBatch \/ ClaimFails \/ (PollToken /\ cancelled)
  PROVE  WorkerInv'
<1>1. place \in [Jobs -> Places] /\ pc \in {"select", "claim"} /\ At("batch") = {}
  BY DEF WorkerInv, TypeOK, PlacesOK, ReceiveBatch, ClaimFails, PollToken
<1>2. UNCHANGED <<cancelled, permits, late, ahead, locked, notifications, unheard>>
  BY DEF ReceiveBatch, ClaimFails, PollToken, wake
<1>3. PICK p \in {"batch", "stranded"} :
        /\ place' = Move(At("granted"), p)
        /\ p = "batch" <=> ReceiveBatch
  BY <1>1 DEF ReceiveBatch, ClaimFails, PollToken, DropClaim
<1>4. /\ place' \in [Jobs -> Places] /\ At("granted")' = {}
      /\ At("queued")' = At("queued") /\ At("inflight")' = At("inflight")
      /\ p = "batch" => At("batch")' = At("granted")
      /\ p = "stranded" => At("batch")' = {}
  <2>1. place' \in [Jobs -> Places]
    BY <1>1, <1>3 DEF Move, Places
  <2> QED BY <1>1, <1>3, <2>1 DEF Move, At
<1>5. /\ pc' \in {"wait", "dispatch", "returned", "draining"}
      /\ result' \in {"none", "ok", "err"} /\ stmt' \in {"none", "sent"}
      /\ passed' \in {passed, {}}
  BY DEF WorkerInv, TypeOK, DropClaim, ReturnError, ReceiveBatch, ClaimFails, PollToken,
         wake
<1>6. TypeOK' /\ PermitsConserved'
  <2>1. RowsOK'
    BY <1>2, <1>4, <1>5 DEF WorkerInv, TypeOK, RowsOK
  <2> QED BY <1>2, <1>4, <1>5, <2>1 DEF WorkerInv, TypeOK, PermitsConserved, RowsOK
<1>7. ClaimInTime'
  <2>1. Cardinality(At("granted")') <= Batch
    BY <1>4, FS_EmptySet, WorkerAssumption
  <2> QED BY <1>2, <1>5, <2>1 DEF WorkerInv, ClaimInTime
<1>8. CASE ReceiveBatch
  <2>1. /\ pc = "claim" /\ stmt = "answered" /\ stmt' = "none"
        /\ UNCHANGED <<passed, result>>
        /\ pc' = IF At("granted") = {} THEN "wait" ELSE "dispatch"
        /\ At("batch")' = At("granted")
    BY <1>3, <1>4, <1>8 DEF ReceiveBatch, wake
  <2>2. PlacesOK' /\ StatementOK' /\ NothingMissed'
    BY <1>4, <2>1 DEF PlacesOK, StatementOK, NothingMissed
  <2>3. NoSleepOnWork'
    BY <1>2, <1>4, <2>1 DEF WorkerInv, NothingMissed, NoSleepOnWork
  <2>4. OneBatchAfterCancel'
    <3>1. late = 0 /\ Cardinality(At("granted")) <= Batch /\ late' = late
      BY <1>2, <2>1 DEF WorkerInv, ClaimInTime
    <3> QED BY <2>1, <3>1, PlaceFinite DEF OneBatchAfterCancel
  <2> QED BY <1>6, <1>7, <2>2, <2>3, <2>4 DEF WorkerInv
<1>9. CASE ClaimFails \/ (PollToken /\ cancelled)
  <2>1. pc' \in {"draining", "returned"} /\ At("batch")' = {}
    BY <1>1, <1>3, <1>4, <1>9 DEF ReceiveBatch, ClaimFails, PollToken, ReturnError
  <2>2. cancelled' \/ (result' = "err" /\ pc' # "draining")
    BY <1>9 DEF ClaimFails, PollToken, ReturnError
  <2>3. PlacesOK' /\ StatementOK'
    BY <1>4, <1>5, <2>1, <2>2 DEF PlacesOK, StatementOK
  <2>4. NothingMissed' /\ NoSleepOnWork'
    BY <1>5, <2>1 DEF NothingMissed, NoSleepOnWork
  <2>5. OneBatchAfterCancel'
    BY <1>1, <1>2, <2>1 DEF WorkerInv, OneBatchAfterCancel
  <2> QED BY <1>6, <1>7, <2>3, <2>4, <2>5 DEF WorkerInv
<1> QED BY <1>8, <1>9

(* A permit is taken with every handler that is spawned ...                *)
LEMMA DispatchStep ==
  ASSUME WorkerInv, NEW j \in Jobs, Dispatch(j)
  PROVE  WorkerInv'
<1>1. /\ place \in [Jobs -> Places] /\ place[j] = "batch" /\ pc = "dispatch"
      /\ place' = [place EXCEPT ![j] = "inflight"]
      /\ permits' = permits - 1 /\ permits > 0
      /\ late' = IF cancelled THEN late + 1 ELSE late
      /\ UNCHANGED <<cancelled, stmt, ahead, locked, notifications, unheard, passed,
                     result>>
  BY DEF WorkerInv, TypeOK, Dispatch, wake
<1>2. place' \in [Jobs -> Places]
  BY <1>1 DEF Places
<1>3. /\ At("inflight")' = At("inflight") \cup {j} /\ j \notin At("inflight")
      /\ At("batch")' = At("batch") \ {j} /\ j \in At("batch")
      /\ At("granted")' = At("granted") /\ At("queued")' = At("queued")
  BY <1>1, <1>2 DEF At
<1>4. pc' = IF At("batch")' = {} THEN "select" ELSE "dispatch"
  <2>1. At("batch")' = {} <=> At("batch") = {j}
    BY <1>3
  <2> QED BY <2>1 DEF Dispatch
<1>5. /\ Cardinality(At("inflight")') = Cardinality(At("inflight")) + 1
      /\ permits \in Nat /\ Fanout \in Nat /\ Cardinality(At("inflight")) \in Nat
      /\ permits + Cardinality(At("inflight")) = Fanout
  BY <1>3, InflightCounted, FS_AddElement DEF WorkerInv
<1>6. permits' \in 0 .. Fanout /\ permits' + Cardinality(At("inflight")') = Fanout
  BY <1>1, <1>5
<1>7. late' \in Nat /\ OneBatchAfterCancel' /\ ClaimInTime'
  <2>1. /\ Cardinality(At("batch")') = Cardinality(At("batch")) - 1
        /\ Cardinality(At("batch")) \in Nat
    BY <1>3, PlaceFinite, FS_RemoveElement
  <2>2. late \in Nat /\ late + Cardinality(At("batch")) <= Batch /\ Batch \in Nat
    BY WorkerAssumption DEF WorkerInv, TypeOK, OneBatchAfterCancel
  <2>3. late' \in Nat /\ late' + Cardinality(At("batch")') <= Batch
    BY <1>1, <2>1, <2>2
  <2>4. ClaimInTime'
    BY <1>1, <1>3, <1>4 DEF WorkerInv, ClaimInTime
  <2> QED BY <2>3, <2>4 DEF OneBatchAfterCancel
<1>8. TypeOK'
  BY <1>1, <1>2, <1>3, <1>4, <1>6, <1>7 DEF WorkerInv, TypeOK
<1>9. PermitsConserved'
  BY <1>6 DEF PermitsConserved
<1>10. PlacesOK' /\ StatementOK' /\ NothingMissed' /\ NoSleepOnWork'
  BY <1>1, <1>3, <1>4 DEF WorkerInv, PlacesOK, StatementOK, NothingMissed, NoSleepOnWork
<1> QED BY <1>7, <1>8, <1>9, <1>10 DEF WorkerInv

(* ... and given back with every handler that ends ...                     *)
LEMMA EndHandlerStep ==
  ASSUME WorkerInv, NEW j \in Jobs, EndHandler(j)
  PROVE  WorkerInv'
<1>1. /\ place \in [Jobs -> Places] /\ place[j] = "inflight"
      /\ permits' = permits + 1
      /\ UNCHANGED <<pc, cancelled, stmt, late, ahead, locked, notifications, unheard,
                     passed, result>>
  BY DEF WorkerInv, TypeOK, EndHandler, wake
<1>2. PICK p \in {"ended", "delayed", "stranded"} : place' = [place EXCEPT ![j] = p]
  BY DEF EndHandler
<1>3. place' \in [Jobs -> Places]
  BY <1>1, <1>2 DEF Places
<1>4. /\ At("inflight")' = At("inflight") \ {j} /\ j \in At("inflight")
      /\ At("batch")' = At("batch")
      /\ At("granted")' = At("granted") /\ At("queued")' = At("queued")
  BY <1>1, <1>2, <1>3 DEF At
<1>5. /\ IsFiniteSet(At("inflight")') /\ permits \in Nat /\ Fanout \in Nat
      /\ Cardinality(At("inflight")) \in Nat
      /\ permits + Cardinality(At("inflight")) = Fanout
      /\ Cardinality(At("inflight")') = Cardinality(At("inflight")) - 1
  BY <1>4, InflightCounted, FS_RemoveElement DEF WorkerInv
<1>6. Cardinality(At("inflight")') \in Nat
  BY <1>5, FS_CardinalityType
<1>7. permits' \in 0 .. Fanout /\ permits' + Cardinality(At("inflight")') = Fanout
  BY <1>1, <1>5, <1>6
<1>8. TypeOK'
  BY <1>1, <1>3, <1>4, <1>7 DEF WorkerInv, TypeOK
<1>9. PermitsConserved'
  BY <1>7 DEF PermitsConserved
<1>10. PlacesOK' /\ StatementOK' /\ NothingMissed' /\ NoSleepOnWork'
  BY <1>1, <1>4 DEF WorkerInv, PlacesOK, StatementOK, NothingMissed, NoSleepOnWork
<1>11. ClaimInTime' /\ OneBatchAfterCancel'
  BY <1>1, <1>4 DEF WorkerInv, ClaimInTime, OneBatchAfterCancel
<1> QED BY <1>8, <1>9, <1>10, <1>11 DEF WorkerInv

(* ... or cut off.                                                         *)
LEMMA ExitStep ==
  ASSUME WorkerInv, Exit
  PROVE  WorkerInv'
<1>1. /\ place \in [Jobs -> Places] /\ pc = "returned" /\ pc' = "exited"
      /\ place' = Move(At("inflight"), "stranded")
      /\ permits' = permits + Cardinality(At("inflight"))
      /\ UNCHANGED <<cancelled, stmt, late, ahead, locked, notifications, unheard,
                     passed, result>>
  BY DEF WorkerInv, TypeOK, Exit, wake
<1>2. place' \in [Jobs -> Places]
  BY <1>1 DEF Move, Places
<1>3. /\ At("inflight")' = {} /\ At("batch")' = At("batch")
      /\ At("granted")' = At("granted") /\ At("queued")' = At("queued")
  BY <1>1, <1>2 DEF Move, At
<1>4. permits' = Fanout /\ Fanout \in Nat
  BY <1>1, InflightCounted DEF WorkerInv
<1>5. TypeOK'
  BY <1>1, <1>2, <1>3, <1>4 DEF WorkerInv, TypeOK
<1>6. PermitsConserved'
  <2>1. Cardinality(At("inflight")') = 0
    BY <1>3, FS_EmptySet
  <2> QED BY <1>4, <2>1 DEF PermitsConserved
<1>7. PlacesOK' /\ StatementOK' /\ NothingMissed' /\ NoSleepOnWork'
  BY <1>1, <1>3 DEF WorkerInv, PlacesOK, StatementOK, NothingMissed, NoSleepOnWork
<1>8. ClaimInTime' /\ OneBatchAfterCancel'
  BY <1>1, <1>3 DEF WorkerInv, ClaimInTime, OneBatchAfterCancel
<1> QED BY <1>5, <1>6, <1>7, <1>8 DEF WorkerInv

-----------------------------------------------------------------------------
(* The theorems                                                            *)

LEMMA WorkerInit ==
  ASSUME Init
  PROVE  WorkerInv
<1>1. /\ place = [j \in Jobs |-> "new"] /\ ahead = [j \in Jobs |-> {}]
      /\ locked = {} /\ unheard = {} /\ passed = {} /\ late = 0
      /\ pc = "starting" /\ stmt = "none" /\ permits = Fanout /\ result = "none"
      /\ cancelled = FALSE /\ notifications = 0
  BY DEF Init
<1>2. place \in [Jobs -> Places] /\ \A p \in Places \ {"new"} : At(p) = {}
  BY <1>1 DEF At, Places
<1>3. At("queued") = {} /\ At("granted") = {} /\ At("batch") = {} /\ At("inflight") = {}
  BY <1>2 DEF Places
<1>4. TypeOK
  <2>1. permits \in 0 .. Fanout /\ notifications \in Nat
    BY <1>1, WorkerAssumption
  <2> QED BY <1>1, <1>2, <1>3, <2>1 DEF TypeOK
<1>5. PermitsConserved
  BY <1>1, <1>3, FS_EmptySet, WorkerAssumption DEF PermitsConserved
<1>6. PlacesOK /\ StatementOK /\ NothingMissed /\ NoSleepOnWork
  BY <1>1, <1>3 DEF PlacesOK, StatementOK, NothingMissed, NoSleepOnWork
<1>7. ClaimInTime /\ OneBatchAfterCancel
  BY <1>1, <1>3, FS_EmptySet, WorkerAssumption DEF ClaimInTime, OneBatchAfterCancel
<1> QED BY <1>4, <1>5, <1>6, <1>7 DEF WorkerInv

(* The invariant is inductive.                                             *)
LEMMA WorkerStep ==
  ASSUME WorkerInv, [Next]_vars
  PROVE  WorkerInv'
<1>1. CASE Environment
  BY <1>1, ProducerStep, OthersStep DEF Environment
<1>2. CASE \/ Connect \/ Listen \/ PollClaim \/ PollTokenIdle \/ Notified \/ Poll
           \/ StaysIdle \/ Drained \/ GraceExpires
  BY <1>2, StillStep
<1>3. CASE CommitClaim
  BY <1>3, CommitClaimStep
<1>4. CASE ReceiveBatch \/ ClaimFails
  BY <1>4, AnswerStep
<1>5. CASE PollToken
  <2>1. CASE cancelled
    BY <1>5, <2>1, AnswerStep
  <2>2. CASE ~cancelled
    BY <1>5, <2>2, StillStep
  <2> QED BY <2>1, <2>2
<1>6. CASE \E j \in Jobs : Dispatch(j) \/ EndHandler(j)
  BY <1>6, DispatchStep, EndHandlerStep
<1>7. CASE Exit
  BY <1>7, ExitStep
<1>8. CASE UNCHANGED vars
  <2>1. \A p : At(p)' = At(p)
    BY <1>8 DEF vars, rows, At
  <2> QED BY <1>8, <2>1 DEF vars, loop, rows, wake, WorkerInv, TypeOK, PermitsConserved,
          PlacesOK, StatementOK, NothingMissed, NoSleepOnWork, ClaimInTime,
          OneBatchAfterCancel
<1> QED BY <1>1, <1>2, <1>3, <1>4, <1>5, <1>6, <1>7, <1>8 DEF Next

(* It holds throughout.                                                    *)
LEMMA WorkerInvariant == Spec => []WorkerInv
<1>1. Init => WorkerInv
  BY WorkerInit
<1>2. WorkerInv /\ [Next]_vars => WorkerInv'
  BY WorkerStep
<1> QED BY <1>1, <1>2, PTL DEF Spec

(* The variables of a worker have their types, and what is known of the    *)
(* claimable rows is of claimable rows.                                    *)
THEOREM WorkerTyped == Spec => []TypeOK
<1>1. WorkerInv => TypeOK
  BY DEF WorkerInv
<1> QED BY <1>1, WorkerInvariant, PTL

(* No permit of the semaphore is ever lost or made up: those that are free *)
(* and the handlers that run add up to fanout_concurrency, with panics,    *)
(* cancellations and the exit of the process among the steps.              *)
THEOREM PermitsAreConserved == Spec => []PermitsConserved
<1>1. WorkerInv => PermitsConserved
  BY DEF WorkerInv
<1> QED BY <1>1, WorkerInvariant, PTL

(* run_worker sleeps only if every claimable row is one whose NOTIFY it    *)
(* cannot have had, or one that its last claim skipped.                    *)
THEOREM NoWakeUpLost == Spec => []NoSleepOnWork
<1>1. WorkerInv => NoSleepOnWork
  BY DEF WorkerInv
<1> QED BY <1>1, WorkerInvariant, PTL

(* Wherever the token fires, between the polls of two arms included, the   *)
(* handlers that start after it are at most one batch.                     *)
THEOREM LateWorkIsOneBatch == Spec => []OneBatchAfterCancel
<1>1. WorkerInv => OneBatchAfterCancel
  BY DEF WorkerInv
<1> QED BY <1>1, WorkerInvariant, PTL

(* A drain that gets all the permits leaves no job in a handler, and none  *)
(* in a batch.                                                             *)
THEOREM DrainLeavesNothing == Spec => DrainedMeansIdle
<1>1. WorkerInv /\ [Next]_vars => [Drained => At("inflight") = {} /\ At("batch") = {}]_vars
  <2> SUFFICES ASSUME WorkerInv, Drained
               PROVE  At("inflight") = {} /\ At("batch") = {}
    OBVIOUS
  <2>1. At("batch") = {}
    BY DEF WorkerInv, PlacesOK, Drained
  <2>2. Cardinality(At("inflight")) = 0
    BY InflightCounted DEF WorkerInv, Drained
  <2> QED BY <2>1, <2>2, InflightCounted, FS_EmptySet DEF WorkerInv
<1> QED BY <1>1, WorkerInvariant, PTL DEF Spec, DrainedMeansIdle

(* A claimed row is left without a handler only by the handler itself, a   *)
(* cancellation or a claim error.                                          *)
THEOREM RowsAreNotLost == Spec => StrandedOnlyByHandler
<1>1. WorkerInv /\ [Next]_vars
        => [\A j \in Jobs : place[j] # "stranded" /\ place'[j] = "stranded"
              => place[j] = "inflight" \/ cancelled \/ result' = "err"]_vars
  <2> SUFFICES ASSUME WorkerInv, Next, NEW j \in Jobs,
                      place[j] # "stranded", place'[j] = "stranded"
               PROVE  place[j] = "inflight" \/ cancelled \/ result' = "err"
    OBVIOUS
  <2>1. place \in [Jobs -> Places]
    BY DEF WorkerInv, TypeOK
  <2>2. CASE Environment
    <3>1. PICK k \in Jobs : \/ UNCHANGED place
                            \/ place' = [place EXCEPT ![k] = "queued"]
                            \/ place' = [place EXCEPT ![k] = "new"]
                            \/ place' = [place EXCEPT ![k] = "inserted"]
                            \/ place' = [place EXCEPT ![k] = "delayed"]
                            \/ place' = [place EXCEPT ![k] = "ended"]
      BY <2>2 DEF Environment, Enqueue, CommitEnqueue, RollBackEnqueue, EnqueueDelayed,
                  FallsDue, OtherLocks, OtherClaims, OtherReleases, LoseNotifications,
                  Cancel, Queued, rows
    <3> QED BY <2>1, <3>1
  <2>3. CASE CommitClaim
    <3>1. CASE pc \in {"select", "claim"}
      <4>1. \E S : place' = Move(S, "granted")
        BY <2>3, <3>1 DEF CommitClaim
      <4> QED BY <4>1 DEF Move
    <3>2. CASE pc \notin {"select", "claim"}
      BY <2>3, <3>2 DEF WorkerInv, StatementOK, CommitClaim
    <3> QED BY <3>1, <3>2
  <2>4. CASE \E k \in Jobs : Dispatch(k) \/ EndHandler(k)
    BY <2>1, <2>4 DEF Dispatch, EndHandler
  <2>5. CASE ReceiveBatch \/ ClaimFails \/ PollToken
    BY <2>5 DEF ReceiveBatch, ClaimFails, PollToken, ReturnError, Move
  <2>6. CASE Exit
    BY <2>6 DEF Exit, Move, At
  <2>7. CASE \/ Connect \/ Listen \/ PollClaim \/ PollTokenIdle \/ Notified \/ Poll
             \/ StaysIdle \/ Drained \/ GraceExpires
    BY <2>7 DEF Connect, Listen, PollClaim, PollTokenIdle, Notified, Poll, StaysIdle,
                Drained, GraceExpires, rows
  <2> QED BY <2>2, <2>3, <2>4, <2>5, <2>6, <2>7 DEF Next
<1> QED BY <1>1, WorkerInvariant, PTL DEF Spec, StrandedOnlyByHandler
=============================================================================
