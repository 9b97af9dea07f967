--------------------------- MODULE TaskQueueProofs ---------------------------
(***************************************************************************)
(* Proofs about TaskQueue, for every set of rows, requests, results, tick  *)
(* limits and every horizon, with and without crashes.                     *)
(***************************************************************************)
EXTENDS TaskQueue, TLAPS

(* What the locals of tick() say of its phase, and how the tokens relate   *)
(* to the number issued.                                                   *)
TickShape ==
    /\ tick.phase = "executing" => tick.item \in Item /\ tick.token \in 1 .. issued
    /\ tick.phase # "executing" => tick.item = NoItem
    /\ tick.phase = "idle" => tick = IdleTick
    /\ stranded <= issued

(* A row that was never inserted has never been attempted. *)
AbsentIsFresh ==
    \A i \in Item : queue[i].status = "absent" => queue[i].attempt_count = 0

IInv ==
    /\ TypeOK
    /\ TickShape
    /\ LockMatchesStatus
    /\ RunningIsExecuted
    /\ LostOnlyByCancel
    /\ AttemptBudget
    /\ AbsentIsFresh

-----------------------------------------------------------------------------
(* The operators the actions are built from. *)

(* retryDelayMs never asks to wait less than one minute or more than       *)
(* fifteen, whatever the number of the attempt.                            *)
LEMMA RetryDelayRange ==
    ASSUME NEW n \in Nat
    PROVE  RetryDelay(n) \in 1 .. 15
BY DEF RetryDelay, BackoffMinutes

LEMMA MaxAttemptsType ==
    ASSUME NEW h \in Int, h > 0
    PROVE  MaxAttempts(h) \in Nat
BY DEF MaxAttempts

LEMMA NewRowType ==
    ASSUME TypeOK, NEW key \in Keys, NEW priority \in Priorities, NEW max \in Nat,
           NEW derived \in BOOLEAN
    PROVE  /\ NewRow(key, priority, max, derived) \in Row
           /\ NewRow(key, priority, max, derived).status = "queued"
           /\ NewRow(key, priority, max, derived).attempt_count = 0
           /\ NewRow(key, priority, max, derived).run_lock_token = NoToken
           /\ NewRow(key, priority, max, derived).max_attempts = max
<1>1. derived = TRUE \/ derived = FALSE
  BY Zenon
<1> QED
  BY <1>1 DEF NewRow, Row, TypeOK, Statuses, Open, NoToken

(* Both ways of enqueueing insert one new row and touch nothing else. *)
LEMMA EnqueueInserts ==
    ASSUME TypeOK,
           \/ \E request \in Requests : Enqueue(request)
           \/ \E result \in Results : EnqueueFollowups(result)
    PROVE  \E row \in Row :
              /\ Insert(row)
              /\ row.status = "queued"
              /\ row.attempt_count = 0
              /\ row.run_lock_token = NoToken
              /\ row.max_attempts \in Budgets
<1>1. CASE \E request \in Requests : Enqueue(request)
  <2>1. PICK request \in Requests : Enqueue(request)
    BY <1>1
  <2>2. /\ request.key \in Keys
        /\ request.priority \in Priorities
        /\ request.halves \in Int
    BY TaskQueueAssumption DEF Request
  <2>3. MaxAttempts(request.halves) \in Nat
    BY <2>1, <2>2, MaxAttemptsType DEF Enqueue
  <2>4. MaxAttempts(request.halves) \in Budgets
    BY <2>1 DEF Enqueue, Budgets
  <2> DEFINE row ==
        NewRow(request.key, request.priority, MaxAttempts(request.halves), FALSE)
  <2>5. /\ row \in Row
        /\ row.status = "queued" /\ row.attempt_count = 0 /\ row.run_lock_token = NoToken
        /\ row.max_attempts = MaxAttempts(request.halves)
    BY <2>2, <2>3, NewRowType, Zenon
  <2>6. Insert(row)
    BY <2>1 DEF Enqueue
  <2> HIDE DEF row
  <2> QED
    BY <2>4, <2>5, <2>6
<1>2. CASE \E result \in Results : EnqueueFollowups(result)
  <2>1. PICK result \in Results : EnqueueFollowups(result)
    BY <1>2
  <2>2. /\ <<result.mission, "verification_retry", result.text>> \in Keys
        /\ <<result.mission, "planning_followup", result.text>> \in Keys
        /\ "urgent" \in Priorities
        /\ "background" \in Priorities
    BY TaskQueueAssumption DEF Result, Keys, Sources, Priorities
  <2>3. 2 \in Budgets /\ 3 \in Budgets
    BY DEF Budgets
  <2>4. PICK key \in Keys, priority \in Priorities, max \in {2, 3} :
            EnqueueIfMissing(key, priority, max)
    BY <2>1, <2>2 DEF EnqueueFollowups
  <2> DEFINE row == NewRow(key, priority, max, TRUE)
  <2>5. /\ row \in Row
        /\ row.status = "queued" /\ row.attempt_count = 0 /\ row.run_lock_token = NoToken
        /\ row.max_attempts = max
    <3>1. max \in Nat
      OBVIOUS
    <3> QED
      BY <3>1, NewRowType, Zenon
  <2>6. Insert(row)
    BY <2>4 DEF EnqueueIfMissing
  <2> HIDE DEF row
  <2> QED
    BY <2>3, <2>5, <2>6
<1> QED
  BY <1>1, <1>2

-----------------------------------------------------------------------------
(* The inductive invariant. *)

LEMMA InitIInv == Init => IInv
<1> SUFFICES ASSUME Init PROVE IInv
  OBVIOUS
<1>1. NoRow \in Row
  BY DEF NoRow, Row, Statuses, Priorities, NoToken
<1>2. IdleTick \in TickState
  BY DEF IdleTick, TickState, Phases, NoToken
<1>3. \A i \in Item : queue[i] = NoRow
  BY DEF Init
<1>4. TypeOK
  BY <1>1, <1>2 DEF Init, TypeOK
<1>5. TickShape /\ LostOnlyByCancel
  BY DEF Init, TickShape, LostOnlyByCancel, IdleTick
<1>6. LockMatchesStatus /\ RunningIsExecuted /\ AttemptBudget /\ AbsentIsFresh
  BY <1>3 DEF Init, LockMatchesStatus, RunningIsExecuted, AttemptBudget, AbsentIsFresh,
              NoRow, NoToken
<1> QED
  BY <1>4, <1>5, <1>6 DEF IInv

(* Writing one row keeps the lock columns in agreement when the row is     *)
(* released, or when it is running under a token that is new.              *)
LEMMA RowChangeKeepsLocks ==
    ASSUME TypeOK, LockMatchesStatus, NEW i \in Item, NEW row \in Row,
           queue' = [queue EXCEPT ![i] = row],
           \/ row.status # "running" /\ row.run_lock_token = NoToken /\ issued' = issued
           \/ row.status = "running" /\ row.run_lock_token = issued + 1
              /\ issued' = issued + 1
    PROVE  LockMatchesStatus'
<1>1. \A k \in Item : queue'[k] = IF k = i THEN row ELSE queue[k]
  BY DEF TypeOK
<1>2. issued \in Nat /\ \A k \in Item : queue[k].run_lock_token \in Nat
  BY DEF TypeOK, Row
<1>3. ASSUME NEW k \in Item
      PROVE  /\ queue'[k].run_lock_token # NoToken <=> queue'[k].status = "running"
             /\ queue'[k].run_lock_token <= issued'
  BY <1>1, <1>2 DEF LockMatchesStatus, NoToken
<1>4. ASSUME NEW k \in Item, NEW l \in Item, k # l, queue'[k].status = "running"
      PROVE  queue'[k].run_lock_token # queue'[l].run_lock_token
  <2>1. queue[k].run_lock_token <= issued /\ queue[l].run_lock_token <= issued
    BY DEF LockMatchesStatus
  <2>2. CASE l = i
    BY <1>1, <1>2, <1>4, <2>1, <2>2 DEF LockMatchesStatus, NoToken
  <2>3. CASE k = i
    BY <1>1, <1>2, <1>4, <2>1, <2>3 DEF LockMatchesStatus, NoToken
  <2>4. CASE k # i /\ l # i
    BY <1>1, <1>4, <2>4 DEF LockMatchesStatus
  <2> QED
    BY <2>2, <2>3, <2>4
<1> QED
  BY <1>3, <1>4 DEF LockMatchesStatus

(* A new row changes nothing for the rows that exist. *)
LEMMA InsertKeepsIInv ==
    ASSUME IInv, NEW row \in Row, Insert(row), row.status = "queued",
           row.attempt_count = 0, row.run_lock_token = NoToken
    PROVE  IInv'
<1>1. PICK i \in Item : /\ queue[i].status = "absent"
                        /\ queue' = [queue EXCEPT ![i] = row]
  BY DEF Insert
<1>2. UNCHANGED <<tick, emergency_stop, now, issued, stranded>>
  BY DEF Insert
<1>3. TypeOK'
  BY <1>1, <1>2 DEF IInv, TypeOK
<1>4. TickShape'
  BY <1>2 DEF IInv, TickShape
<1>5. LockMatchesStatus'
  BY <1>1, <1>2, RowChangeKeepsLocks DEF IInv
<1>6. RunningIsExecuted'
  BY <1>1, <1>2 DEF IInv, TypeOK, RunningIsExecuted
<1>7. LostOnlyByCancel'
  BY <1>1, <1>2 DEF IInv, TypeOK, TickShape, LostOnlyByCancel
<1>8. AttemptBudget' /\ AbsentIsFresh'
  BY <1>1, <1>2 DEF IInv, TypeOK, AttemptBudget, AbsentIsFresh, Row
<1> QED
  BY <1>3, <1>4, <1>5, <1>6, <1>7, <1>8 DEF IInv

LEMMA CancelKeepsIInv ==
    ASSUME IInv, NEW i \in Item, Cancel(i)
    PROVE  IInv'
<1> DEFINE row == [queue[i] EXCEPT !.status = "cancelled", !.run_lock_token = NoToken]
<1>1. /\ queue' = [queue EXCEPT ![i] = row]
      /\ UNCHANGED <<tick, emergency_stop, now, issued, stranded>>
  BY DEF Cancel
<1>2. /\ row \in Row
      /\ row.status = "cancelled"
      /\ row.run_lock_token = NoToken
      /\ row.attempt_count = queue[i].attempt_count
      /\ row.max_attempts = queue[i].max_attempts
  BY DEF IInv, TypeOK, Row, Statuses, Settled, NoToken
<1> HIDE DEF row
<1>3. TypeOK'
  BY <1>1, <1>2 DEF IInv, TypeOK
<1>4. TickShape'
  BY <1>1 DEF IInv, TickShape
<1>5. LockMatchesStatus'
  BY <1>1, <1>2, RowChangeKeepsLocks DEF IInv
<1>6. RunningIsExecuted'
  BY <1>1, <1>2 DEF IInv, TypeOK, RunningIsExecuted
<1>7. LostOnlyByCancel'
  BY <1>1, <1>2 DEF IInv, TypeOK, TickShape, LostOnlyByCancel
<1>8. AttemptBudget' /\ AbsentIsFresh'
  BY <1>1, <1>2 DEF IInv, TypeOK, AttemptBudget, AbsentIsFresh
<1> QED
  BY <1>3, <1>4, <1>5, <1>6, <1>7, <1>8 DEF IInv

(* A claim happens only while nothing is executed, so that every running   *)
(* row is a stranded one.                                                  *)
LEMMA ClaimKeepsIInv ==
    ASSUME IInv, tick.phase # "executing", NEW i \in Item, NEW left \in Nat,
           Claim(i, left)
    PROVE  IInv'
<1> DEFINE row == [queue[i] EXCEPT !.status = "running",
                                   !.attempt_count = queue[i].attempt_count + 1,
                                   !.run_lock_token = issued + 1]
<1>1. /\ queue[i].status = "queued"
      /\ queue' = [queue EXCEPT ![i] = row]
      /\ tick' = [phase |-> "executing", left |-> left, item |-> i,
                  token |-> issued + 1,
                  attempt_count |-> queue[i].attempt_count + 1,
                  max_attempts |-> queue[i].max_attempts]
      /\ issued' = issued + 1
      /\ UNCHANGED <<emergency_stop, now, stranded>>
  BY DEF Claim, Claimable, Due
<1>2. /\ row \in Row
      /\ row.status = "running"
      /\ row.run_lock_token = issued + 1
      /\ row.attempt_count = queue[i].attempt_count + 1
      /\ row.max_attempts = queue[i].max_attempts
      /\ queue[i].attempt_count \in Nat
      /\ queue[i].max_attempts \in Nat
      /\ issued \in Nat
  <2>1. queue[i] \in Row /\ issued \in Nat
    BY DEF IInv, TypeOK
  <2>2. queue[i].attempt_count + 1 \in Nat /\ issued + 1 \in Nat
    BY <2>1 DEF Row
  <2>3. row \in Row
    BY <2>1, <2>2 DEF Row, Statuses, Open
  <2> QED
    BY <2>1, <2>3 DEF Row
<1> HIDE DEF row
<1>3. TypeOK'
  <2>1. queue' \in [Item -> Row]
    BY <1>1, <1>2 DEF IInv, TypeOK
  <2>2. tick' \in TickState
    BY <1>1, <1>2 DEF TickState, Phases
  <2> QED
    BY <1>1, <2>1, <2>2 DEF IInv, TypeOK
<1>4. TickShape'
  BY <1>1, <1>2 DEF IInv, TypeOK, TickShape
<1>5. LockMatchesStatus'
  BY <1>1, <1>2, RowChangeKeepsLocks DEF IInv
<1>6. RunningIsExecuted'
  BY <1>1, <1>2 DEF IInv, TypeOK, RunningIsExecuted
<1>7. LostOnlyByCancel'
  BY <1>1, <1>2 DEF IInv, TypeOK, LostOnlyByCancel
<1>8. AttemptBudget' /\ AbsentIsFresh'
  BY <1>1, <1>2 DEF IInv, TypeOK, AttemptBudget, AbsentIsFresh
<1> QED
  BY <1>3, <1>4, <1>5, <1>6, <1>7, <1>8 DEF IInv

LEMMA SettleKeepsIInv ==
    ASSUME IInv, NEW status, NEW retryable \in BOOLEAN,
           SettleClaim(status, retryable)
    PROVE  IInv'
<1> DEFINE row == SettledRow(status, retryable)
<1>1. /\ tick.item \in Item
      /\ queue[tick.item].status = "running"
      /\ queue[tick.item].attempt_count = tick.attempt_count
      /\ queue[tick.item].max_attempts = tick.max_attempts
      /\ queue[tick.item] \in Row
      /\ tick.phase = "executing"
  BY DEF SettleClaim, OwnsRow, IInv, TypeOK, TickShape, LostOnlyByCancel
<1>2. now + RetryDelay(tick.attempt_count) \in Nat
  BY <1>1, RetryDelayRange DEF IInv, TypeOK, TickState
<1>3. /\ row \in Row
      /\ row.status \in {"queued", "completed", "failed"}
      /\ row.run_lock_token = NoToken
      /\ row.attempt_count = tick.attempt_count
      /\ row.max_attempts = tick.max_attempts
      /\ row.status = "queued" => tick.attempt_count < tick.max_attempts
  BY <1>1, <1>2 DEF SettledRow, CanRetry, Row, Statuses, Open, Settled, NoToken, IInv, TypeOK
<1>4. /\ queue' = [queue EXCEPT ![tick.item] = row]
      /\ tick' = [IdleTick EXCEPT !.phase = "between", !.left = tick.left]
      /\ UNCHANGED <<emergency_stop, now, issued, stranded>>
  BY DEF SettleClaim
<1> HIDE DEF row
<1>5. TypeOK'
  BY <1>1, <1>3, <1>4 DEF IInv, TypeOK, TickState, IdleTick, Phases, NoToken
<1>6. TickShape'
  BY <1>4 DEF IInv, TickShape, IdleTick
<1>7. LockMatchesStatus'
  BY <1>1, <1>3, <1>4, RowChangeKeepsLocks DEF IInv
<1>8. RunningIsExecuted'
  BY <1>1, <1>3, <1>4 DEF IInv, TypeOK, RunningIsExecuted, Row
<1>9. LostOnlyByCancel'
  BY <1>4 DEF LostOnlyByCancel, IdleTick
<1>10. AttemptBudget' /\ AbsentIsFresh'
  BY <1>1, <1>3, <1>4 DEF IInv, TypeOK, AttemptBudget, AbsentIsFresh, Row
<1> QED
  BY <1>5, <1>6, <1>7, <1>8, <1>9, <1>10 DEF IInv

(* When an execution ends without owning its row, no row is left running   *)
(* but the stranded ones.                                                  *)
LEMMA AbortKeepsIInv == ASSUME IInv, AbortTick PROVE IInv'
<1> USE DEF AbortTick, IInv, TypeOK
<1>1. TypeOK' /\ TickShape' /\ LostOnlyByCancel'
  BY DEF TickState, IdleTick, Phases, NoToken, TickShape, LostOnlyByCancel
<1>2. LockMatchesStatus' /\ AttemptBudget' /\ AbsentIsFresh'
  BY DEF LockMatchesStatus, AttemptBudget, AbsentIsFresh
<1>3. RunningIsExecuted'
  BY DEF RunningIsExecuted, OwnsRow
<1> QED
  BY <1>1, <1>2, <1>3

LEMMA EndKeepsIInv == ASSUME IInv, EndTick PROVE IInv'
<1> USE DEF EndTick, IInv, TypeOK
<1>1. TypeOK' /\ TickShape' /\ LostOnlyByCancel'
  BY DEF TickState, IdleTick, Phases, NoToken, TickShape, LostOnlyByCancel
<1>2. LockMatchesStatus' /\ AttemptBudget' /\ RunningIsExecuted' /\ AbsentIsFresh'
  BY DEF LockMatchesStatus, AttemptBudget, RunningIsExecuted, AbsentIsFresh
<1> QED
  BY <1>1, <1>2

(* A crash strands every token issued before it. *)
LEMMA CrashKeepsIInv == ASSUME IInv, Crash PROVE IInv'
<1> USE DEF Crash, IInv, TypeOK
<1>1. TypeOK' /\ TickShape' /\ LostOnlyByCancel'
  BY DEF TickState, IdleTick, Phases, NoToken, TickShape, LostOnlyByCancel
<1>2. LockMatchesStatus' /\ AttemptBudget' /\ AbsentIsFresh'
  BY DEF LockMatchesStatus, AttemptBudget, AbsentIsFresh
<1>3. RunningIsExecuted'
  BY DEF RunningIsExecuted, LockMatchesStatus, Row
<1> QED
  BY <1>1, <1>2, <1>3

LEMMA OthersKeepIInv ==
    ASSUME IInv, ActivateStop \/ ResumeExecution \/ Advance \/ UNCHANGED vars
    PROVE  IInv'
<1>1. UNCHANGED <<queue, tick, issued, stranded>>
  BY DEF ActivateStop, ResumeExecution, Advance, vars
<1>2. TypeOK'
  <2>1. now' \in Nat
    BY DEF ActivateStop, ResumeExecution, Advance, vars, IInv, TypeOK
  <2>2. emergency_stop' \in BOOLEAN
    <3>1. \/ emergency_stop' = TRUE
          \/ emergency_stop' = FALSE
          \/ emergency_stop' = emergency_stop
      BY Zenon DEF ActivateStop, ResumeExecution, Advance, vars
    <3> QED
      BY <3>1, Zenon DEF IInv, TypeOK
  <2> QED
    BY <1>1, <2>1, <2>2 DEF IInv, TypeOK
<1>3. TickShape' /\ LockMatchesStatus'
  BY <1>1 DEF IInv, TickShape, LockMatchesStatus
<1>4. RunningIsExecuted'
  BY <1>1 DEF IInv, RunningIsExecuted
<1>5. LostOnlyByCancel' /\ AttemptBudget' /\ AbsentIsFresh'
  BY <1>1 DEF IInv, LostOnlyByCancel, AttemptBudget, AbsentIsFresh
<1> QED
  BY <1>2, <1>3, <1>4, <1>5 DEF IInv

LEMMA NextIInv == IInv /\ [Next]_vars => IInv'
<1> SUFFICES ASSUME IInv, [Next]_vars PROVE IInv'
  OBVIOUS
<1>1. CASE \/ \E request \in Requests : Enqueue(request)
           \/ \E result \in Results : EnqueueFollowups(result)
  BY <1>1, EnqueueInserts, InsertKeepsIInv DEF IInv
<1>2. CASE \E i \in Item : Cancel(i)
  BY <1>2, CancelKeepsIInv
<1>3. CASE \E limit \in TickLimits : BeginTick(limit)
  <2>1. PICK limit \in TickLimits, i \in Item : Claim(i, limit - 1) /\ tick.phase = "idle"
    BY <1>3 DEF BeginTick
  <2>2. limit - 1 \in Nat
    BY TaskQueueAssumption
  <2> QED
    BY <2>1, <2>2, ClaimKeepsIInv
<1>4. CASE ContinueTick
  <2>1. PICK i \in Item : Claim(i, tick.left - 1)
    BY <1>4 DEF ContinueTick
  <2>2. tick.left - 1 \in Nat /\ tick.phase = "between"
    BY <1>4 DEF ContinueTick, IInv, TypeOK, TickState
  <2> QED
    BY <2>1, <2>2, ClaimKeepsIInv
<1>5. CASE EndTick
  BY <1>5, EndKeepsIInv
<1>6. CASE Settle
  BY <1>6, SettleKeepsIInv DEF Settle
<1>7. CASE AbortTick
  BY <1>7, AbortKeepsIInv
<1>8. CASE Crash
  BY <1>8, CrashKeepsIInv
<1>9. CASE ActivateStop \/ ResumeExecution \/ Advance \/ UNCHANGED vars
  BY <1>9, OthersKeepIInv
<1> QED
  BY <1>1, <1>2, <1>3, <1>4, <1>5, <1>6, <1>7, <1>8, <1>9 DEF Next

(* The invariant holds in every reachable state. *)
THEOREM Invariance == Spec => []IInv
BY InitIInv, NextIInv, PTL DEF Spec

-----------------------------------------------------------------------------
(* The safety properties of the queue. *)

(* The table and the locals of tick() keep their types.                    *)
THEOREM TypeCorrect == Spec => []TypeOK
<1>1. IInv => TypeOK
  BY DEF IInv
<1> QED
  BY <1>1, Invariance, PTL

(* A row holds a token exactly while it runs, and no two rows the same.    *)
THEOREM LocksAgree == Spec => []LockMatchesStatus
<1>1. IInv => LockMatchesStatus
  BY DEF IInv
<1> QED
  BY <1>1, Invariance, PTL

(* Only a crash leaves a row behind in the running state.                  *)
THEOREM NoRowLeftRunning == Spec => []RunningIsExecuted
<1>1. IInv => RunningIsExecuted
  BY DEF IInv
<1> QED
  BY <1>1, Invariance, PTL

(* An execution loses its row only to the operator's cancel.               *)
THEOREM OnlyCancelTakesARow == Spec => []LostOnlyByCancel
<1>1. IInv => LostOnlyByCancel
  BY DEF IInv
<1> QED
  BY <1>1, Invariance, PTL

(* No row is attempted more often than its budget allows.                  *)
THEOREM AttemptsAreBounded == Spec => []AttemptBudget
<1>1. IInv => AttemptBudget
  BY DEF IInv
<1> QED
  BY <1>1, Invariance, PTL

(* No step changes a completed, failed or cancelled row.                   *)
THEOREM SettledRowsStay == Spec => SettledIsFinal
<1> DEFINE Kept == \A i \in Item : queue[i].status \in Settled => queue'[i] = queue[i]
<1>1. ASSUME IInv, [Next]_vars PROVE Kept
  <2> SUFFICES ASSUME NEW i \in Item, queue[i].status \in Settled
               PROVE  queue'[i] = queue[i]
    OBVIOUS
  <2>0. queue \in [Item -> Row] /\ queue[i].status \notin {"absent", "queued", "running"}
    BY <1>1 DEF IInv, TypeOK, Settled
  <2>1. CASE \/ \E request \in Requests : Enqueue(request)
             \/ \E result \in Results : EnqueueFollowups(result)
    BY <2>0, <2>1, <1>1, EnqueueInserts DEF IInv, Insert
  <2>2. CASE \E j \in Item : Cancel(j)
    BY <2>0, <2>2 DEF Cancel, Open
  <2>3. CASE \E limit \in TickLimits : BeginTick(limit)
    BY <2>0, <2>3 DEF BeginTick, Claim, Claimable, Due
  <2>4. CASE ContinueTick
    BY <2>0, <2>4 DEF ContinueTick, Claim, Claimable, Due
  <2>5. CASE Settle
    BY <2>0, <2>5, <1>1 DEF Settle, SettleClaim, OwnsRow
  <2>6. CASE UNCHANGED queue
    BY <2>6
  <2> QED
    BY <1>1, <2>1, <2>2, <2>3, <2>4, <2>5, <2>6
       DEF Next, EndTick, AbortTick, ActivateStop, ResumeExecution, Advance, Crash, vars
<1>2. IInv /\ [Next]_vars => [Kept]_vars
  BY <1>1
<1> QED
  BY <1>2, Invariance, PTL DEF Spec, SettledIsFinal

(* No row starts while a more urgent one is due.                           *)
THEOREM UrgentFirst == Spec => NoPriorityInversion
<1> DEFINE Ordered ==
      \A i, j \in Item :
          /\ queue[i].status = "queued" /\ queue'[i].status = "running"
          /\ Due(j)
          => PriorityRank(queue[i].priority) <= PriorityRank(queue[j].priority)
<1>1. ASSUME IInv, [Next]_vars, NEW i \in Item, NEW j \in Item,
             queue[i].status = "queued", queue'[i].status = "running", Due(j)
      PROVE  PriorityRank(queue[i].priority) <= PriorityRank(queue[j].priority)
  <2>0. queue \in [Item -> Row]
    BY <1>1 DEF IInv, TypeOK
  <2>1. \E left \in Int, k \in Item : Claim(k, left)
    <3>1. CASE \/ \E request \in Requests : Enqueue(request)
               \/ \E result \in Results : EnqueueFollowups(result)
      BY <1>1, <2>0, <3>1, EnqueueInserts DEF IInv, Insert
    <3>2. CASE \E k \in Item : Cancel(k)
      BY <1>1, <2>0, <3>2 DEF Cancel
    <3>3. CASE \E limit \in TickLimits : BeginTick(limit)
      BY <3>3, TaskQueueAssumption DEF BeginTick
    <3>4. CASE ContinueTick
      BY <1>1, <3>4 DEF ContinueTick, IInv, TypeOK, TickState
    <3>5. CASE Settle
      BY <1>1, <2>0, <3>5 DEF Settle, SettleClaim, OwnsRow
    <3>6. CASE UNCHANGED queue
      BY <1>1, <3>6
    <3> QED
      BY <1>1, <3>1, <3>2, <3>3, <3>4, <3>5, <3>6
         DEF Next, EndTick, AbortTick, ActivateStop, ResumeExecution, Advance, Crash, vars
  <2>2. PICK left \in Int, k \in Item : Claim(k, left)
    BY <2>1
  <2>3. k = i
    BY <1>1, <2>0, <2>2 DEF Claim
  <2>4. ~ Before(j, i)
    BY <1>1, <2>2, <2>3 DEF Claim, Claimable
  <2> QED
    BY <2>4 DEF Before, PriorityRank
<1>2. IInv /\ [Next]_vars => [Ordered]_vars
  BY <1>1
<1> QED
  BY <1>2, Invariance, PTL DEF Spec, NoPriorityInversion

-----------------------------------------------------------------------------
(* Follow-ups. *)

(* A row that opens is new: it was enqueued by an operator, or it is a     *)
(* follow-up without an open duplicate.                                    *)
LEMMA OpeningStep ==
    ASSUME IInv, [Next]_vars, NEW i \in Item,
           queue'[i].status \in Open, queue[i].status \notin Open
    PROVE  /\ \A j \in Item \ {i} : queue'[j] = queue[j]
           /\ \/ ~ queue'[i].derived
              \/ ~ OpenDuplicate(queue'[i].key)
<1>0. queue \in [Item -> Row]
  BY DEF IInv, TypeOK
<1>1. CASE \E request \in Requests : Enqueue(request)
  <2>1. PICK request \in Requests : Enqueue(request)
    BY <1>1
  <2>2. PICK k \in Item : queue' = [queue EXCEPT
            ![k] = NewRow(request.key, request.priority, MaxAttempts(request.halves), FALSE)]
    BY <2>1 DEF Enqueue, Insert
  <2>3. k = i
    BY <1>0, <2>2
  <2> QED
    BY <1>0, <2>2, <2>3 DEF NewRow
<1>2. CASE \E result \in Results : EnqueueFollowups(result)
  <2>1. PICK key, priority, max : EnqueueIfMissing(key, priority, max)
    BY <1>2 DEF EnqueueFollowups
  <2>2. PICK k \in Item : queue' = [queue EXCEPT ![k] = NewRow(key, priority, max, TRUE)]
    BY <2>1 DEF EnqueueIfMissing, Insert
  <2>3. k = i
    BY <1>0, <2>2
  <2> QED
    BY <1>0, <2>1, <2>2, <2>3 DEF NewRow, EnqueueIfMissing
<1>3. ASSUME NEW k \in Item, Cancel(k) PROVE FALSE
  BY <1>0, <1>3 DEF Cancel, Open
<1>4. ASSUME NEW k \in Item, NEW left, Claim(k, left) PROVE FALSE
  BY <1>0, <1>4 DEF Claim, Claimable, Due, Open
<1>5. CASE Settle
  BY <1>0, <1>5 DEF Settle, SettleClaim, OwnsRow, Open
<1>6. CASE UNCHANGED queue
  BY <1>6
<1> QED
  BY <1>1, <1>2, <1>3, <1>4, <1>5, <1>6
     DEF Next, BeginTick, ContinueTick, EndTick, AbortTick, ActivateStop,
         ResumeExecution, Advance, Crash, vars

(* An open row keeps its key and what put it there. *)
LEMMA KeysStay ==
    ASSUME IInv, [Next]_vars, NEW i \in Item, queue[i].status \in Open
    PROVE  queue'[i].key = queue[i].key /\ queue'[i].derived = queue[i].derived
<1>0. queue \in [Item -> Row]
  BY DEF IInv, TypeOK
<1>1. CASE \/ \E request \in Requests : Enqueue(request)
           \/ \E result \in Results : EnqueueFollowups(result)
  BY <1>0, <1>1, EnqueueInserts DEF IInv, Insert, Open
<1>2. CASE \E k \in Item : Cancel(k)
  BY <1>0, <1>2 DEF Cancel, Row
<1>3. ASSUME NEW k \in Item, NEW left, Claim(k, left)
      PROVE  queue'[i].key = queue[i].key /\ queue'[i].derived = queue[i].derived
  BY <1>0, <1>3 DEF Claim, Row
<1>4. CASE Settle
  BY <1>0, <1>4 DEF Settle, SettleClaim, SettledRow, Row
<1>5. CASE UNCHANGED queue
  BY <1>5
<1> QED
  BY <1>1, <1>2, <1>3, <1>4, <1>5
     DEF Next, BeginTick, ContinueTick, EndTick, AbortTick, ActivateStop,
         ResumeExecution, Advance, Crash, vars

(* The same follow-up is never open twice.                                 *)
THEOREM FollowupsAreUnique == Spec => []NoDuplicateFollowups
<1>1. Init => NoDuplicateFollowups
  BY DEF Init, NoRow, NoDuplicateFollowups, Open
<1>2. ASSUME IInv, NoDuplicateFollowups, [Next]_vars
      PROVE  NoDuplicateFollowups'
  <2> SUFFICES ASSUME NEW i \in Item, NEW j \in Item,
                      queue'[i].status \in Open, queue'[i].derived,
                      queue'[j].status \in Open, queue'[j].derived,
                      queue'[i].key = queue'[j].key
               PROVE  i = j
    BY DEF NoDuplicateFollowups
  <2>1. CASE queue[i].status \in Open /\ queue[j].status \in Open
    <3>1. /\ queue'[i].key = queue[i].key /\ queue'[i].derived = queue[i].derived
          /\ queue'[j].key = queue[j].key /\ queue'[j].derived = queue[j].derived
      BY <1>2, <2>1, KeysStay
    <3> QED
      BY <1>2, <2>1, <3>1 DEF NoDuplicateFollowups
  <2>2. CASE queue[i].status \notin Open /\ i # j
    <3>1. queue'[j] = queue[j] /\ ~ OpenDuplicate(queue'[i].key)
      BY <1>2, <2>2, OpeningStep
    <3> QED
      BY <3>1 DEF OpenDuplicate
  <2>3. CASE queue[j].status \notin Open /\ i # j
    <3>1. queue'[i] = queue[i] /\ ~ OpenDuplicate(queue'[j].key)
      BY <1>2, <2>3, OpeningStep
    <3> QED
      BY <3>1 DEF OpenDuplicate
  <2> QED
    BY <2>1, <2>2, <2>3
<1> QED
  BY <1>1, <1>2, Invariance, PTL DEF Spec

-----------------------------------------------------------------------------
(* Refinement. *)

LEMMA InitLedger == Init => Ledger!Init
BY DEF Init, NoRow, IdleTick, Ledger!Init

LEMMA InsertSubmits ==
    ASSUME IInv, NEW row \in Row, Insert(row), row.status = "queued",
           row.attempt_count = 0, row.max_attempts \in Budgets
    PROVE  Ledger!Next
<1>1. PICK i \in Item : queue[i].status = "absent" /\ queue' = [queue EXCEPT ![i] = row]
  BY DEF Insert
<1>2. queue[i].attempt_count = 0 /\ queue \in [Item -> Row]
  BY <1>1 DEF IInv, TypeOK, AbsentIsFresh
<1>3. Ledger!Submit(i)
  BY <1>1, <1>2 DEF Insert, Ledger!Submit
<1> QED
  BY <1>3 DEF Ledger!Next

LEMMA ClaimTakes ==
    ASSUME IInv, tick.phase # "executing", NEW i \in Item, NEW left, Claim(i, left)
    PROVE  Ledger!Next
<1>1. queue[i].status = "queued" /\ queue \in [Item -> Row] /\ tick.item = NoItem
  BY DEF Claim, Claimable, Due, IInv, TypeOK, TickShape
<1>2. queue[i].attempt_count = 0 \/ queue[i].attempt_count < queue[i].max_attempts
  BY <1>1 DEF IInv, AttemptBudget
<1>3. Ledger!Take(i)
  BY <1>1, <1>2 DEF Claim, Row, Ledger!Take
<1> QED
  BY <1>3 DEF Ledger!Next

LEMMA SettleAnswers ==
    ASSUME IInv, NEW status, NEW retryable \in BOOLEAN, SettleClaim(status, retryable)
    PROVE  Ledger!Next
<1>1. /\ tick.item \in Item
      /\ queue \in [Item -> Row]
      /\ queue[tick.item].status = "running"
      /\ queue[tick.item].attempt_count = tick.attempt_count
      /\ queue[tick.item].max_attempts = tick.max_attempts
      /\ tick'.item = NoItem
  BY DEF SettleClaim, OwnsRow, IInv, TypeOK, TickShape, LostOnlyByCancel, IdleTick
<1> DEFINE row == SettledRow(status, retryable)
<1>2. /\ row.attempt_count = tick.attempt_count
      /\ row.max_attempts = tick.max_attempts
      /\ \/ row.status \in {"completed", "failed"}
         \/ row.status = "queued" /\ tick.attempt_count < tick.max_attempts
  BY <1>1 DEF SettledRow, CanRetry, Row
<1>3. queue' = [queue EXCEPT ![tick.item] = row]
  BY DEF SettleClaim
<1> HIDE DEF row
<1>4. PICK i \in Item : i = tick.item
  BY <1>1
<1>5. Ledger!Answer(i)
  BY <1>1, <1>2, <1>3, <1>4 DEF Ledger!Answer
<1> QED
  BY <1>5 DEF Ledger!Next

LEMMA StepLedger == IInv /\ [Next]_vars => [Ledger!Next]_(Ledger!vars)
<1> SUFFICES ASSUME IInv, [Next]_vars PROVE [Ledger!Next]_(Ledger!vars)
  OBVIOUS
<1>1. CASE \/ \E request \in Requests : Enqueue(request)
           \/ \E result \in Results : EnqueueFollowups(result)
  BY <1>1, EnqueueInserts, InsertSubmits DEF IInv
<1>2. CASE \E i \in Item : Cancel(i)
  <2>1. PICK i \in Item : Cancel(i)
    BY <1>2
  <2>2. Ledger!Withdraw(i)
    BY <2>1 DEF Cancel, Open, IInv, TypeOK, Row, Ledger!Withdraw
  <2> QED
    BY <2>2 DEF Ledger!Next
<1>3. CASE \E limit \in TickLimits : BeginTick(limit)
  BY <1>3, ClaimTakes DEF BeginTick
<1>4. CASE ContinueTick
  BY <1>4, ClaimTakes DEF ContinueTick
<1>5. CASE EndTick
  BY <1>5 DEF EndTick, IInv, TickShape, IdleTick, Ledger!vars
<1>6. CASE Settle
  BY <1>6, SettleAnswers DEF Settle
<1>7. CASE AbortTick
  <2>1. tick.item \in Item /\ queue[tick.item].status = "cancelled"
    BY <1>7 DEF AbortTick, OwnsRow, IInv, TickShape, LostOnlyByCancel
  <2>2. \E j \in Item : Ledger!Answer(j)
    BY <1>7, <2>1 DEF AbortTick, IdleTick, Ledger!Answer
  <2> QED
    BY <2>2 DEF Ledger!Next
<1>8. CASE Crash
  <2>1. CASE tick.item = NoItem
    BY <1>8, <2>1 DEF Crash, IdleTick, Ledger!vars
  <2>2. CASE tick.item # NoItem
    BY <1>8, <2>2 DEF Crash, IdleTick, Ledger!Vanish, Ledger!Next
  <2> QED
    BY <2>1, <2>2
<1>9. CASE ActivateStop \/ ResumeExecution \/ Advance \/ UNCHANGED vars
  BY <1>9 DEF ActivateStop, ResumeExecution, Advance, vars, Ledger!vars
<1> QED
  BY <1>1, <1>2, <1>3, <1>4, <1>5, <1>6, <1>7, <1>8, <1>9 DEF Next

(* The queue implements the ledger.                                        *)
THEOREM QueueKeepsLedger == Spec => KeepsLedger
BY InitLedger, StepLedger, Invariance, PTL DEF Spec, KeepsLedger, Ledger!Spec

=============================================================================
