------------------------------ MODULE TaskQueue ------------------------------
(***************************************************************************)
(* The persistent autonomous task queue: AutonomousTaskQueue               *)
(* (src/src/runtime/task-queue.ts) over the rows of task_queue_items       *)
(* (src/src/db/client.ts), gated by the operator's emergency stop          *)
(* (src/src/runtime/safety.ts).                                            *)
(*                                                                         *)
(* The server is one JavaScript event loop and every call of the store is  *)
(* synchronous, so what runs between two awaits is one action.  The only   *)
(* await of a tick is the execution of a claimed item; while it is pending *)
(* the operator may enqueue, cancel, stop or resume, other missions may    *)
(* enqueue follow-ups, time passes, and the process may crash.             *)
(*                                                                         *)
(* One unit of time is one minute, the unit of the retry backoff.          *)
(***************************************************************************)
EXTENDS Integers, Sequences, FiniteSets

CONSTANTS
    Item,        \* row ids: the bound on the rows ever inserted
    Mission,     \* missions that follow-ups may be derived from
    Text,        \* goal texts
    Requests,    \* what the operator may enqueue: a set of Request records
    Results,     \* manager results the control room may hand to the queue
    TickLimits,  \* limits a tick may be called with (3 when it is polled)
    Horizon,     \* the clock stops here unless a queued item waits for it
    CanCrash,    \* whether the process may crash and restart
    NoItem,      \* no row
    NoMission    \* NULL in parent_mission_id

Priorities == {"urgent", "scheduled", "background"}
Sources == {"manual_enqueue", "verification_retry", "planning_followup"}

(* What the search for duplicates compares: parent_mission_id, source and  *)
(* goal.  "manual_enqueue" stands for every source but the two that        *)
(* follow-ups use.                                                         *)
Keys == (Mission \cup {NoMission}) \X Sources \X Text

(* An operator's request.  The caller names any parent mission and source, *)
(* those of a follow-up included, and gives max_attempts as any number; it *)
(* is counted here in halves, the fraction the conversion is about.        *)
Request == [key : Keys, priority : Priorities, halves : Int]

Verdicts == {"verified_complete", "verification_failed", "rejected"}

(* A manager result, as far as the queue looks at it; generated says that  *)
(* the goal has one of the two prefixes the queue gives its own goals.     *)
Result == [mission : Mission, kind : {"chat", "mission"},
           verification : Verdicts \cup {"none"}, retryable : BOOLEAN,
           generated : BOOLEAN, hints : BOOLEAN, text : Text]

ASSUME TaskQueueAssumption ==
    /\ NoItem \notin Item
    /\ NoMission \notin Mission
    /\ Requests \subseteq Request
    /\ Results \subseteq Result
    /\ TickLimits \subseteq Nat \ {0}
    /\ Horizon \in Nat
    /\ CanCrash \in BOOLEAN

VARIABLES
    queue,           \* [Item -> Row]: the table task_queue_items
    tick,            \* the tick in progress: tickActive and the locals of tick()
    emergency_stop,  \* the operator's stop, kept in a file
    now,             \* the clock
    issued,          \* lock tokens created so far: token n is the n-th one
    stranded         \* tokens up to this one were issued before the last crash

vars == <<queue, tick, emergency_stop, now, issued, stranded>>

Open == {"queued", "running"}
Settled == {"completed", "failed", "cancelled"}
Statuses == {"absent"} \cup Open \cup Settled
NoToken == 0

(* derived is no column: it records that the row was inserted as a         *)
(* follow-up, which source and queued_by do not tell, for a caller of the  *)
(* endpoint may give them any value.  Only properties read it.             *)
Row == [status : Statuses, key : Keys \cup {<<>>}, priority : Priorities,
        attempt_count : Nat, max_attempts : Nat, next_attempt_at : Nat,
        created_at : Nat, run_lock_token : Nat, derived : BOOLEAN]

NoRow == [status |-> "absent", key |-> <<>>, priority |-> "background",
          attempt_count |-> 0, max_attempts |-> 0, next_attempt_at |-> 0,
          created_at |-> 0, run_lock_token |-> NoToken, derived |-> FALSE]

Phases == {"idle", "executing", "between"}

(* phase "executing": executeTask is pending for the claimed row; the      *)
(* other fields are the record the claim returned.  "between": the loop    *)
(* of tick() is about to claim again.  left: iterations of the loop left.  *)
TickState == [phase : Phases, left : Nat, item : Item \cup {NoItem},
              token : Nat, attempt_count : Nat, max_attempts : Nat]

IdleTick == [phase |-> "idle", left |-> 0, item |-> NoItem, token |-> NoToken,
             attempt_count |-> 0, max_attempts |-> 0]

(* min(15, 2^max(0, attemptCount - 1)) minutes. *)
BackoffMinutes == <<1, 2, 4, 8, 15>>
RetryDelay(attempt) ==
    BackoffMinutes[IF attempt < 1 THEN 1 ELSE IF attempt > 5 THEN 5 ELSE attempt]

Init ==
    /\ queue = [i \in Item |-> NoRow]
    /\ tick = IdleTick
    /\ emergency_stop = FALSE
    /\ now = 0
    /\ issued = 0
    /\ stranded = 0

-----------------------------------------------------------------------------
(* Inserting rows. *)

NewRow(key, priority, max, derived) ==
    [status |-> "queued", key |-> key, priority |-> priority,
     attempt_count |-> 0, max_attempts |-> max, next_attempt_at |-> now,
     created_at |-> now, run_lock_token |-> NoToken, derived |-> derived]

Insert(row) ==
    /\ \E i \in Item :
          /\ queue[i].status = "absent"
          /\ queue' = [queue EXCEPT ![i] = row]
    /\ UNCHANGED <<tick, emergency_stop, now, issued, stranded>>

(* The number max_attempts of a request is checked to be positive and then *)
(* rounded down.                                                           *)
MaxAttempts(halves) == halves \div 2

(* POST /operator/queue/enqueue: it looks for no duplicate. *)
Enqueue(request) ==
    /\ request.halves > 0
    /\ Insert(NewRow(request.key, request.priority, MaxAttempts(request.halves), FALSE))

(* Mutant: the running row of a follow-up is not seen as a duplicate. *)
OpenDuplicateQueuedOnly(key) ==
    \E i \in Item : queue[i].status = "queued" /\ queue[i].key = key

OpenDuplicate(key) ==
    \E i \in Item : queue[i].status \in Open /\ queue[i].key = key

EnqueueIfMissing(key, priority, max) ==
    /\ ~ OpenDuplicate(key)
    /\ Insert(NewRow(key, priority, max, TRUE))

(* enqueueFollowupsFromResult: called synchronously by the control room    *)
(* once it has stored the run of a mission.                                *)
EnqueueFollowups(result) ==
    /\ result.kind # "chat"
    /\ result.verification # "none"
    /\ ~ result.generated
    /\ \/ /\ result.verification = "verification_failed"
          /\ result.retryable
          /\ EnqueueIfMissing(<<result.mission, "verification_retry", result.text>>,
                              "urgent", 3)
       \/ /\ result.verification = "verified_complete"
          /\ result.hints
          /\ EnqueueIfMissing(<<result.mission, "planning_followup", result.text>>,
                              "background", 2)

(* Mutant: a status the rest of the code does not know. *)
CancelMisspelt(i) ==
    /\ queue[i].status \in Open
    /\ queue' = [queue EXCEPT ![i].status = "canceled",
                              ![i].run_lock_token = NoToken]
    /\ UNCHANGED <<tick, emergency_stop, now, issued, stranded>>

(* Mutant: cancelling a running row puts it back into the queue. *)
CancelReleases(i) ==
    /\ queue[i].status \in Open
    /\ queue' = [queue EXCEPT
          ![i].status = IF @ = "running" THEN "queued" ELSE "cancelled",
          ![i].run_lock_token = NoToken]
    /\ UNCHANGED <<tick, emergency_stop, now, issued, stranded>>

(* cancel: queued and running rows alike; the execution is not told. *)
Cancel(i) ==
    /\ queue[i].status \in Open
    /\ queue' = [queue EXCEPT ![i].status = "cancelled",
                              ![i].run_lock_token = NoToken]
    /\ UNCHANGED <<tick, emergency_stop, now, issued, stranded>>

-----------------------------------------------------------------------------
(* The tick. *)

PriorityRank(priority) ==
    CASE priority = "urgent" -> 0
      [] priority = "scheduled" -> 1
      [] OTHER -> 2

Due(i) == queue[i].status = "queued" /\ queue[i].next_attempt_at <= now

(* Mutant: the oldest due row first, whatever its priority. *)
BeforeByAge(i, j) == queue[i].next_attempt_at < queue[j].next_attempt_at

(* ORDER BY priority, next_attempt_at, created_at; a tie is broken freely. *)
Before(i, j) ==
    LET a == queue[i]
        b == queue[j]
    IN  \/ PriorityRank(a.priority) < PriorityRank(b.priority)
        \/ /\ PriorityRank(a.priority) = PriorityRank(b.priority)
           /\ a.next_attempt_at < b.next_attempt_at
        \/ /\ PriorityRank(a.priority) = PriorityRank(b.priority)
           /\ a.next_attempt_at = b.next_attempt_at
           /\ a.created_at < b.created_at

Claimable(i) == Due(i) /\ \A j \in Item : Due(j) => ~ Before(j, i)

(* claimNextTaskQueueItem, and the start of the execution of its row. *)
Claim(i, left) ==
    /\ Claimable(i)
    /\ queue' = [queue EXCEPT ![i].status = "running",
                              ![i].attempt_count = @ + 1,
                              ![i].run_lock_token = issued + 1]
    /\ tick' = [phase |-> "executing", left |-> left, item |-> i,
                token |-> issued + 1,
                attempt_count |-> queue[i].attempt_count + 1,
                max_attempts |-> queue[i].max_attempts]
    /\ issued' = issued + 1
    /\ UNCHANGED <<emergency_stop, now, stranded>>

(* Mutant: the guard on tickActive is gone. *)
BeginTickOverlapping(limit) ==
    /\ ~ emergency_stop
    /\ \E i \in Item : Claim(i, limit - 1)

(* tick(limit), polled or called by the operator, up to its first await.   *)
(* With nothing due it returns at once and leaves no trace.                *)
BeginTick(limit) ==
    /\ ~ emergency_stop
    /\ tick.phase = "idle"
    /\ \E i \in Item : Claim(i, limit - 1)

(* A further iteration of the loop: the emergency stop is not read again. *)
ContinueTick ==
    /\ tick.phase = "between"
    /\ tick.left > 0
    /\ \E i \in Item : Claim(i, tick.left - 1)

EndTick ==
    /\ tick.phase = "between"
    /\ tick.left = 0 \/ \A i \in Item : ~ Due(i)
    /\ tick' = IdleTick
    /\ UNCHANGED <<queue, emergency_stop, now, issued, stranded>>

(* The compare-and-set of completeTaskQueueItem and failTaskQueueItem. *)
OwnsRow ==
    /\ queue[tick.item].status = "running"
    /\ queue[tick.item].run_lock_token = tick.token

(* Mutant: one attempt too many. *)
CanRetryOffByOne(retryable) == retryable /\ tick.attempt_count <= tick.max_attempts

CanRetry(retryable) == retryable /\ tick.attempt_count < tick.max_attempts

(* Mutant: a failure that is not retried does not release the row. *)
SettledRowUnreleased(status, retryable) ==
    LET row == queue[tick.item]
    IN  IF status = "verified_complete"
        THEN [row EXCEPT !.status = "completed", !.run_lock_token = NoToken]
        ELSE IF CanRetry(retryable)
        THEN [row EXCEPT !.status = "queued", !.run_lock_token = NoToken,
                         !.next_attempt_at = now + RetryDelay(tick.attempt_count)]
        ELSE row

(* What the row becomes when the execution of the tick has ended. *)
SettledRow(status, retryable) ==
    LET row == queue[tick.item]
    IN  IF status = "verified_complete"
        THEN [row EXCEPT !.status = "completed", !.run_lock_token = NoToken]
        ELSE IF CanRetry(retryable)
        THEN [row EXCEPT !.status = "queued", !.run_lock_token = NoToken,
                         !.next_attempt_at = now + RetryDelay(tick.attempt_count)]
        ELSE [row EXCEPT !.status = "failed", !.run_lock_token = NoToken,
                         !.next_attempt_at = now]

(* The execution ends (an exception counts as failed and retryable) and    *)
(* the row is still owned: it is settled or queued again.                  *)
SettleClaim(status, retryable) ==
    /\ tick.phase = "executing"
    /\ OwnsRow
    /\ queue' = [queue EXCEPT ![tick.item] = SettledRow(status, retryable)]
    /\ tick' = [IdleTick EXCEPT !.phase = "between", !.left = tick.left]
    /\ UNCHANGED <<emergency_stop, now, issued, stranded>>

(* The execution ends and the row is no longer owned: executeClaimedItem   *)
(* throws, which aborts the whole tick.                                    *)
AbortTick ==
    /\ tick.phase = "executing"
    /\ ~ OwnsRow
    /\ tick' = IdleTick
    /\ UNCHANGED <<queue, emergency_stop, now, issued, stranded>>

-----------------------------------------------------------------------------
(* The operator's stop, the clock and the process. *)

ActivateStop ==
    /\ emergency_stop' = TRUE
    /\ UNCHANGED <<queue, tick, now, issued, stranded>>

ResumeExecution ==
    /\ emergency_stop' = FALSE
    /\ UNCHANGED <<queue, tick, now, issued, stranded>>

Advance ==
    /\ \/ now < Horizon
       \/ \E i \in Item : queue[i].status = "queued" /\ queue[i].next_attempt_at > now
    /\ now' = now + 1
    /\ UNCHANGED <<queue, tick, emergency_stop, issued, stranded>>

(* The process dies and a new one opens the same database and the same     *)
(* safety file: the rows stay as they are, the tick is gone, and nothing   *)
(* that runs at start-up looks at rows left running.                       *)
Crash ==
    /\ CanCrash
    /\ tick' = IdleTick
    /\ stranded' = issued
    /\ UNCHANGED <<queue, emergency_stop, now, issued>>

Settle ==
    \E status \in Verdicts \cup {"failed"}, retryable \in BOOLEAN :
        SettleClaim(status, retryable)

Next ==
    \/ \E request \in Requests : Enqueue(request)
    \/ \E result \in Results : EnqueueFollowups(result)
    \/ \E i \in Item : Cancel(i)
    \/ \E limit \in TickLimits : BeginTick(limit)
    \/ ContinueTick
    \/ EndTick
    \/ Settle
    \/ AbortTick
    \/ ActivateStop
    \/ ResumeExecution
    \/ Advance
    \/ Crash

Spec == Init /\ [][Next]_vars

(* The poll timer calls tick() for ever, an awaited execution ends, the    *)
(* loop of a tick goes on, and time passes.                                *)
Fairness ==
    /\ WF_vars(\E limit \in TickLimits : BeginTick(limit))
    /\ WF_vars(ContinueTick)
    /\ WF_vars(EndTick)
    /\ WF_vars(Settle)
    /\ WF_vars(AbortTick)
    /\ WF_vars(Advance)

FairSpec == Spec /\ Fairness

-----------------------------------------------------------------------------
(* Types. *)

(* Every variable keeps the shape the rows and the locals of tick() have:  *)
(* see asTaskQueueItemRecord and the locals of tick.                       *)
TypeOK ==
    /\ queue \in [Item -> Row]
    /\ tick \in TickState
    /\ emergency_stop \in BOOLEAN
    /\ now \in Nat
    /\ issued \in Nat
    /\ stranded \in Nat

-----------------------------------------------------------------------------
(* Safety. *)

(* A row holds a lock token exactly while it is running, no two rows hold  *)
(* the same token, and no token is one that was never created: the columns *)
(* that claim, complete, fail and cancel write agree at every step.        *)
LockMatchesStatus ==
    /\ \A i \in Item :
          /\ queue[i].run_lock_token # NoToken <=> queue[i].status = "running"
          /\ queue[i].run_lock_token <= issued
    /\ \A i, j \in Item :
          i # j /\ queue[i].status = "running"
            => queue[i].run_lock_token # queue[j].run_lock_token

(* Every running row is being executed by the tick in progress, unless its *)
(* claim is older than the last crash: no failing, aborted or cancelled    *)
(* execution leaves a row behind in the running state.                     *)
RunningIsExecuted ==
    \A i \in Item :
        queue[i].status = "running" /\ queue[i].run_lock_token > stranded
          => /\ tick.phase = "executing"
             /\ tick.item = i
             /\ tick.token = queue[i].run_lock_token

(* While an item is executed, its row is the one that was claimed, with    *)
(* the attempt the claim counted, or the operator has cancelled it: the    *)
(* compare-and-set that ends an execution can fail for no other reason.    *)
LostOnlyByCancel ==
    tick.phase = "executing" =>
        LET row == queue[tick.item]
        IN  \/ /\ row.status = "running"
               /\ row.run_lock_token = tick.token
               /\ row.attempt_count = tick.attempt_count
               /\ row.max_attempts = tick.max_attempts
            \/ row.status = "cancelled"

(* No row is attempted more often than max_attempts says, and a row that   *)
(* waits for another attempt has one left, however its attempts, crashes   *)
(* and cancellations interleave.  (A max_attempts of 0, which rounding     *)
(* down lets through, still costs one attempt.)                            *)
AttemptBudget ==
    \A i \in Item :
        LET row == queue[i]
        IN  /\ row.attempt_count <= row.max_attempts \/ row.attempt_count = 1
            /\ row.status = "queued" =>
                  row.attempt_count = 0 \/ row.attempt_count < row.max_attempts

(* No follow-up of a mission is open twice, however often its mission ends *)
(* while the first one waits, runs, is retried or survives a crash: the    *)
(* look of enqueueIfMissing at insertion suffices because a settled row    *)
(* never opens again.  It is said of the rows that enqueueIfMissing        *)
(* inserted: an operator's request, which is not looked up, may duplicate  *)
(* any row, that of a follow-up included.                                  *)
NoDuplicateFollowups ==
    \A i, j \in Item :
        /\ queue[i].status \in Open /\ queue[i].derived
        /\ queue[j].status \in Open /\ queue[j].derived
        /\ queue[i].key = queue[j].key
        => i = j

(* Minutes of backoff before the attempt after the n-th. *)
BackoffBefore[n \in Nat] ==
    IF n = 0 THEN 0 ELSE BackoffBefore[n - 1] + RetryDelay(n)

(* The backoffs add up: the attempt numbered n of a row never starts       *)
(* before all the n - 1 earlier delays have passed since it was created.   *)
BackoffElapses ==
    \A i \in Item :
        LET row == queue[i]
        IN  /\ row.status = "running" =>
                  now >= row.created_at + BackoffBefore[row.attempt_count - 1]
            /\ row.status = "queued" =>
                  row.next_attempt_at >= row.created_at + BackoffBefore[row.attempt_count]

-----------------------------------------------------------------------------
(* Action properties. *)

(* What is settled stays settled: no late answer of an execution, no tick  *)
(* and no restart changes a completed, failed or cancelled row, whatever   *)
(* was still in flight when it settled.                                    *)
SettledIsFinal ==
    [][\A i \in Item : queue[i].status \in Settled => queue'[i] = queue[i]]_vars

(* A row starts only when no more urgent one was due at that moment, also  *)
(* in the later iterations of a tick that began before the more urgent     *)
(* one was enqueued.                                                       *)
NoPriorityInversion ==
    [][\A i, j \in Item :
          /\ queue[i].status = "queued" /\ queue'[i].status = "running"
          /\ Due(j)
          => PriorityRank(queue[i].priority) <= PriorityRank(queue[j].priority)]_vars

(* What the operator guide promises of the stop: while it is active no     *)
(* queued item is started.  The loop of a running tick breaks it.          *)
NothingStartsWhileStopped ==
    [][emergency_stop => \A i \in Item :
          queue[i].status = "queued" => queue'[i].status # "running"]_vars

(* What the error message of the enqueue endpoint demands: a row is        *)
(* admitted only with max_attempts > 0.                                    *)
MaxAttemptsPositive ==
    \A i \in Item : queue[i].status # "absent" => queue[i].max_attempts > 0

-----------------------------------------------------------------------------
(* Liveness. *)

(* Unless the operator keeps stopping execution, every queued row is       *)
(* completed, given up after its last attempt, or cancelled, over crashes  *)
(* and restarts, unless it was running when the process died.              *)
EveryItemSettles ==
    <>[](~ emergency_stop) =>
        \A i \in Item :
            queue[i].status = "queued"
                ~> (\/ queue[i].status \in Settled
                    \/ queue[i].status = "running" /\ queue[i].run_lock_token <= stranded)

(* The same of every row.  It holds without crashes only: no restart puts  *)
(* a row back that was running.                                            *)
EveryItemSettlesAfterCrash ==
    <>[](~ emergency_stop) =>
        \A i \in Item : queue[i].status = "queued" ~> queue[i].status \in Settled

-----------------------------------------------------------------------------
(* Refinement. *)

(* Attempts of an operator's request, a planning follow-up and a retry. *)
Budgets == {MaxAttempts(r.halves) : r \in {q \in Requests : q.halves > 0}} \cup {2, 3}

Ledger == INSTANCE JobLedger WITH
    Job <- Item,
    NoJob <- NoItem,
    Budgets <- Budgets,
    state <- [i \in Item |-> queue[i].status],
    starts <- [i \in Item |-> queue[i].attempt_count],
    budget <- [i \in Item |-> queue[i].max_attempts],
    worker <- tick.item

(* The queue keeps the promise of JobLedger: priorities, backoff, lock     *)
(* tokens, the loop of the tick and the stop only choose among its steps,  *)
(* and none of them starts, settles or revives a job behind its back.      *)
KeepsLedger == Ledger!Spec

=============================================================================
