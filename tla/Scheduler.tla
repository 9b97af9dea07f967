------------------------------ MODULE Scheduler ------------------------------
(***************************************************************************)
(* The scheduler of recurring missions: MissionScheduler                   *)
(* (src/src/runtime/scheduler.ts) over the rows of scheduled_missions      *)
(* (src/src/db/client.ts), gated by the operator's emergency stop.         *)
(*                                                                         *)
(* A tick claims a whole batch of due schedules at once and then runs      *)
(* them one after the other; a run-now claims one schedule and runs it     *)
(* beside the tick.  While a run is pending (the only await) the operator  *)
(* may pause, resume and run schedules, stop and resume execution, and     *)
(* the process may crash.                                                  *)
(*                                                                         *)
(* A lock token is a fresh UUID: here any token that no row and no run     *)
(* holds.  One unit of time is one minute; Day is the minutes of a day.    *)
(***************************************************************************)
EXTENDS Integers, Sequences, FiniteSets

CONSTANTS
    Schedule,    \* row ids: the bound on the schedules ever created
    Token,       \* lock tokens
    Cadences,    \* the cadences the operator may ask for
    Outcomes,    \* how a mission run may end
    TickLimits,  \* limits a tick may be called with (3 when it is polled)
    Day,         \* minutes of a day
    Horizon,     \* the clock stops here
    MaxRunNows,  \* how often the operator calls run-now
    CanCrash,    \* whether the process may crash and restart
    NoToken      \* NULL in run_lock_token

Cadence == [kind : {"interval"}, minutes : Nat \ {0}]
             \cup [kind : {"daily"}, minutes : 0 .. Day - 1]

RunStatuses == {"verified_complete", "verification_failed", "rejected", "failed"}

ASSUME SchedulerAssumption ==
    /\ IsFiniteSet(Schedule)
    /\ NoToken \notin Token
    /\ Day \in Nat \ {0}
    /\ Cadences \subseteq Cadence
    /\ Outcomes \subseteq RunStatuses
    /\ TickLimits \subseteq Nat \ {0}
    /\ Horizon \in Nat
    /\ MaxRunNows \in Nat
    /\ CanCrash \in BOOLEAN

VARIABLES
    schedules,       \* [Schedule -> Row]: the table scheduled_missions
    batch,           \* what the tick in progress has claimed and not finished;
                     \* its head is running; empty: no tick is active
    manual,          \* the claims that run-now calls are running
    emergency_stop,  \* the operator's stop, kept in a file
    now,             \* the clock
    run_nows,        \* run-now calls so far
    revoked,         \* history: tokens that a pause took from a run
    orphaned         \* history: tokens of locked rows that nothing runs any more

vars == <<schedules, batch, manual, emergency_stop, now, run_nows, revoked, orphaned>>

NoCadence == [kind |-> "none", minutes |-> 0]

Row == [cadence : Cadences \cup {NoCadence}, paused : BOOLEAN,
        run_lock : BOOLEAN, run_lock_token : Token \cup {NoToken},
        run_count : Nat, success_count : Nat, failure_count : Nat,
        last_status : {"absent", "idle", "running"} \cup RunStatuses,
        next_run_at : Nat, created_at : Nat]

NoRow == [cadence |-> NoCadence, paused |-> FALSE, run_lock |-> FALSE,
          run_lock_token |-> NoToken, run_count |-> 0, success_count |-> 0,
          failure_count |-> 0, last_status |-> "absent", next_run_at |-> 0,
          created_at |-> 0]

(* A schedule that was claimed, and the token that was written with it. *)
Claim == [schedule : Schedule, token : Token]

(* Mutant: at its time of day a daily schedule is due again at once. *)
NextRunAtNotAfter(cadence, t) ==
    IF cadence.kind = "interval"
    THEN t + cadence.minutes
    ELSE LET today == t - (t % Day) + cadence.minutes
         IN  IF today < t THEN today + Day ELSE today

(* The least instant after t at which the cadence runs: for a daily one    *)
(* today's time of day, or tomorrow's when that is not in the future.      *)
NextRunAt(cadence, t) ==
    IF cadence.kind = "interval"
    THEN t + cadence.minutes
    ELSE LET today == t - (t % Day) + cadence.minutes
         IN  IF today <= t THEN today + Day ELSE today

Init ==
    /\ schedules = [s \in Schedule |-> NoRow]
    /\ batch = <<>>
    /\ manual = {}
    /\ emergency_stop = FALSE
    /\ now = 0
    /\ run_nows = 0
    /\ revoked = {}
    /\ orphaned = {}

Exists(s) == schedules[s].last_status # "absent"
Locked(s) == schedules[s].run_lock

InBatch == {batch[n] : n \in DOMAIN batch}
InFlight == InBatch \cup manual
HoldsLock(c) == schedules[c.schedule].run_lock_token = c.token
TokensInUse == {schedules[s].run_lock_token : s \in Schedule}
                 \cup {c.token : c \in InFlight}

-----------------------------------------------------------------------------
(* The operator's calls on a schedule. *)

CreateSchedule(cadence, start_immediately) ==
    /\ \E s \in Schedule :
          /\ ~ Exists(s)
          /\ schedules' = [schedules EXCEPT
                ![s] = [NoRow EXCEPT
                          !.cadence = cadence,
                          !.last_status = "idle",
                          !.next_run_at = IF start_immediately THEN now
                                          ELSE NextRunAt(cadence, now),
                          !.created_at = now]]
    /\ UNCHANGED <<batch, manual, emergency_stop, now, run_nows, revoked, orphaned>>

(* Mutant: the lock of a run in flight is kept. *)
PausedRowLocked(s) == [schedules[s] EXCEPT !.paused = TRUE]

PausedRow(s) ==
    [schedules[s] EXCEPT !.paused = TRUE, !.run_lock = FALSE, !.run_lock_token = NoToken,
                         !.last_status = IF @ = "running" THEN "idle" ELSE @]

(* pauseSchedule: also a run in progress loses its lock, but goes on. *)
Pause(s) ==
    /\ Exists(s)
    /\ schedules' = [schedules EXCEPT ![s] = PausedRow(s)]
    /\ revoked' = revoked \cup {c.token : c \in {d \in InFlight :
                                    d.schedule = s /\ HoldsLock(d)}}
    /\ orphaned' = orphaned \ {schedules[s].run_lock_token}
    /\ UNCHANGED <<batch, manual, emergency_stop, now, run_nows>>

Resume(s) ==
    /\ Exists(s)
    /\ schedules' = [schedules EXCEPT ![s].paused = FALSE]
    /\ UNCHANGED <<batch, manual, emergency_stop, now, run_nows, revoked, orphaned>>

-----------------------------------------------------------------------------
(* Claims. *)

(* The condition of claimScheduleById. *)
Claimable(s) == Exists(s) /\ ~ schedules[s].paused /\ ~ Locked(s)

ClaimedRow(s, token) ==
    [schedules[s] EXCEPT !.run_lock = TRUE, !.run_lock_token = token,
                         !.last_status = "running"]

(* runNow up to its first await: next_run_at is moved before the claim is  *)
(* tried, and stays moved when the schedule is paused or locked and the    *)
(* call throws.                                                            *)
RunNow(s) ==
    /\ ~ emergency_stop
    /\ run_nows < MaxRunNows
    /\ Exists(s)
    /\ run_nows' = run_nows + 1
    /\ \/ /\ Claimable(s)
          /\ \E token \in Token \ TokensInUse :
                /\ schedules' = [schedules EXCEPT
                      ![s] = [ClaimedRow(s, token) EXCEPT !.next_run_at = now]]
                /\ manual' = manual \cup {[schedule |-> s, token |-> token]}
       \/ /\ ~ Claimable(s)
          /\ schedules' = [schedules EXCEPT ![s].next_run_at = now]
          /\ UNCHANGED manual
    /\ UNCHANGED <<batch, emergency_stop, now, revoked, orphaned>>

Due(s) == Claimable(s) /\ schedules[s].next_run_at <= now

(* ORDER BY next_run_at, created_at; a tie is broken freely. *)
Before(r, s) ==
    \/ schedules[r].next_run_at < schedules[s].next_run_at
    \/ /\ schedules[r].next_run_at = schedules[s].next_run_at
       /\ schedules[r].created_at < schedules[s].created_at

(* The first limit due schedules in that order, each under a fresh token. *)
DueBatches(limit) ==
    LET due == {s \in Schedule : Due(s)}
        size == IF Cardinality(due) < limit THEN Cardinality(due) ELSE limit
        picked(claims) == {claims[n].schedule : n \in 1 .. size}
    IN  {claims \in [1 .. size -> [schedule : due, token : Token \ TokensInUse]] :
            /\ \A m, n \in 1 .. size : m < n =>
                  /\ claims[m].schedule # claims[n].schedule
                  /\ claims[m].token # claims[n].token
                  /\ ~ Before(claims[n].schedule, claims[m].schedule)
            /\ \A s \in due \ picked(claims), n \in 1 .. size :
                  ~ Before(s, claims[n].schedule)}

(* claimDueScheduledMissions, and the start of the first run. *)
ClaimBatch(limit) ==
    /\ \E claims \in DueBatches(limit) \ {<<>>} :
          /\ batch' = claims
          /\ schedules' = [s \in Schedule |->
                IF \E n \in DOMAIN claims : claims[n].schedule = s
                THEN ClaimedRow(s, claims[CHOOSE n \in DOMAIN claims :
                                            claims[n].schedule = s].token)
                ELSE schedules[s]]
    /\ UNCHANGED <<manual, emergency_stop, now, run_nows, revoked, orphaned>>

(* Mutant: the guard on tickActive is gone. *)
BeginTickOverlapping(limit) == ~ emergency_stop /\ ClaimBatch(limit)

(* tick(limit), polled or called by the operator, up to its first await.   *)
(* With nothing due it returns at once and leaves no trace.                *)
BeginTick(limit) ==
    /\ ~ emergency_stop
    /\ batch = <<>>
    /\ ClaimBatch(limit)

-----------------------------------------------------------------------------
(* The end of a run. *)

(* Mutant: the token is not compared. *)
OwnsAnyLock(c) == Locked(c.schedule)

(* The compare-and-set of completeScheduledMissionRun. *)
Owns(c) == Locked(c.schedule) /\ schedules[c.schedule].run_lock_token = c.token

FinishedRow(s, status) ==
    [schedules[s] EXCEPT
       !.run_lock = FALSE,
       !.run_lock_token = NoToken,
       !.run_count = @ + 1,
       !.success_count = IF status = "verified_complete" THEN @ + 1 ELSE @,
       !.failure_count = IF status = "verified_complete" THEN @ ELSE @ + 1,
       !.last_status = status,
       !.next_run_at = NextRunAt(schedules[s].cadence, now)]

(* The run of a run-now ends; when its lock is gone the call throws. *)
FinishManualRun(c, status) ==
    /\ c \in manual
    /\ \/ /\ Owns(c)
          /\ schedules' = [schedules EXCEPT ![c.schedule] = FinishedRow(c.schedule, status)]
       \/ /\ ~ Owns(c)
          /\ UNCHANGED schedules
    /\ manual' = manual \ {c}
    /\ revoked' = revoked \ {c.token}
    /\ UNCHANGED <<batch, emergency_stop, now, run_nows, orphaned>>

(* The run at the head of the batch ends, and the next one starts. *)
FinishBatchRun(status) ==
    /\ batch # <<>>
    /\ LET c == Head(batch)
       IN  /\ Owns(c)
           /\ schedules' = [schedules EXCEPT ![c.schedule] = FinishedRow(c.schedule, status)]
    /\ batch' = Tail(batch)
    /\ UNCHANGED <<manual, emergency_stop, now, run_nows, revoked, orphaned>>

(* Mutant: without the finally block tickActive stays set. *)
AbortTickStaysActive ==
    /\ batch # <<>>
    /\ ~ Owns(Head(batch))
    /\ UNCHANGED vars

(* The run at the head of the batch ends without its lock: it throws, and  *)
(* the exception takes the rest of the batch, still locked, with it.       *)
AbortTick ==
    /\ batch # <<>>
    /\ ~ Owns(Head(batch))
    /\ batch' = <<>>
    /\ revoked' = revoked \ {c.token : c \in InBatch}
    /\ orphaned' = orphaned \cup {c.token : c \in {d \in InBatch : HoldsLock(d)}}
    /\ UNCHANGED <<schedules, manual, emergency_stop, now, run_nows>>

-----------------------------------------------------------------------------
(* The operator's stop, the clock and the process. *)

ActivateStop ==
    /\ emergency_stop' = TRUE
    /\ UNCHANGED <<schedules, batch, manual, now, run_nows, revoked, orphaned>>

ResumeExecution ==
    /\ emergency_stop' = FALSE
    /\ UNCHANGED <<schedules, batch, manual, now, run_nows, revoked, orphaned>>

Advance ==
    /\ now < Horizon
    /\ now' = now + 1
    /\ UNCHANGED <<schedules, batch, manual, emergency_stop, run_nows, revoked, orphaned>>

(* The process dies and a new one opens the same database: the runs are    *)
(* gone, the locks are not, and nothing at start-up releases them.         *)
Crash ==
    /\ CanCrash
    /\ batch' = <<>>
    /\ manual' = {}
    /\ revoked' = {}
    /\ orphaned' = {schedules[s].run_lock_token : s \in {r \in Schedule : Locked(r)}}
    /\ UNCHANGED <<schedules, emergency_stop, now, run_nows>>

FinishManual == \E c \in manual, status \in Outcomes : FinishManualRun(c, status)
FinishBatch == \E status \in Outcomes : FinishBatchRun(status)

Next ==
    \/ \E cadence \in Cadences, immediately \in BOOLEAN :
          CreateSchedule(cadence, immediately)
    \/ \E s \in Schedule : Pause(s) \/ Resume(s) \/ RunNow(s)
    \/ \E limit \in TickLimits : BeginTick(limit)
    \/ FinishManual
    \/ FinishBatch
    \/ AbortTick
    \/ ActivateStop
    \/ ResumeExecution
    \/ Advance
    \/ Crash

Spec == Init /\ [][Next]_vars

(* The poll timer calls tick() for ever and every run ends. *)
Fairness ==
    /\ WF_vars(\E limit \in TickLimits : BeginTick(limit))
    /\ WF_vars(FinishManual)
    /\ WF_vars(FinishBatch)
    /\ WF_vars(AbortTick)

FairSpec == Spec /\ Fairness

-----------------------------------------------------------------------------
(* Types. *)

(* The rows and the claims keep the shape of ScheduledMissionRecord.       *)
TypeOK ==
    /\ schedules \in [Schedule -> Row]
    /\ batch \in Seq(Claim)
    /\ manual \subseteq Claim
    /\ emergency_stop \in BOOLEAN
    /\ now \in Nat
    /\ run_nows \in Nat
    /\ revoked \subseteq Token
    /\ orphaned \subseteq Token

-----------------------------------------------------------------------------
(* Safety. *)

(* The columns of a row that claim, pause and completion write agree: a    *)
(* row is locked exactly while it says running, under a token no other row *)
(* holds, and never while it is paused.                                    *)
LocksAgree ==
    /\ \A s \in Schedule :
          /\ Locked(s) <=> schedules[s].run_lock_token # NoToken
          /\ Locked(s) <=> schedules[s].last_status = "running"
          /\ Locked(s) => ~ schedules[s].paused
    /\ \A r, s \in Schedule :
          r # s /\ Locked(r)
            => schedules[r].run_lock_token # schedules[s].run_lock_token

(* A locked schedule is being run, or waits in the batch of the tick in    *)
(* progress, unless an aborted tick or a crash left it behind: no other    *)
(* way of ending a run leaves a lock.                                      *)
LockIsServed ==
    \A s \in Schedule :
        Locked(s) /\ schedules[s].run_lock_token \notin orphaned
          => [schedule |-> s, token |-> schedules[s].run_lock_token] \in InFlight

(* A run in flight still owns its schedule, or the operator has paused the *)
(* schedule since the run was claimed: neither another run of the same     *)
(* schedule nor a late answer of one takes a lock away.                    *)
LostOnlyByPause ==
    \A c \in InFlight : HoldsLock(c) <=> c.token \notin revoked

-----------------------------------------------------------------------------
(* Action properties. *)

(* While a schedule stays paused no run of it is counted or becomes its    *)
(* last status, not even one that was in flight when it was paused.        *)
PausedIsQuiet ==
    [][\A s \in Schedule : schedules[s].paused =>
          /\ schedules'[s].run_count = schedules[s].run_count
          /\ schedules'[s].last_status = schedules[s].last_status]_vars

(* When a run is counted the next one is due strictly later, and for a     *)
(* daily schedule at its time of day within the next day: a tick never     *)
(* claims the schedule it has just finished again in the same minute.      *)
NextRunIsLater ==
    [][\A s \in Schedule :
          schedules'[s].run_count # schedules[s].run_count =>
            LET next == schedules'[s].next_run_at
                cadence == schedules[s].cadence
            IN  /\ next > now
                /\ cadence.kind = "daily" =>
                      next % Day = cadence.minutes /\ next <= now + Day]_vars

(* What the plan calls run-lock and idempotency: a schedule never has two  *)
(* runs in flight.  Pause, resume and run-now during a run break it.       *)
OneRunPerSchedule ==
    \A c, d \in InFlight : c.schedule = d.schedule => c = d

(* What the operator guide promises of the stop: while it is active no run *)
(* starts.  The batch of a tick that was already running breaks it.        *)
NoRunStartsWhileStopped ==
    [][emergency_stop =>
          /\ manual' \subseteq manual
          /\ batch' = batch \/ batch' = <<>>]_vars

-----------------------------------------------------------------------------
(* Liveness. *)

(* The operator leaves the stop off and pauses nothing any more. *)
OperatorRests ==
    /\ <>[](~ emergency_stop)
    /\ <>[][\A s \in Schedule : schedules'[s].paused = schedules[s].paused]_vars

(* A schedule that is due is run, unless it is paused or postponed before: *)
(* it runs at its configured time.  A run that a crash or a tick that      *)
(* broke off left locked is excused.                                       *)
DueSchedulesRun ==
    OperatorRests =>
        \A s \in Schedule :
            (Exists(s) /\ schedules[s].next_run_at <= now)
                ~> (\/ schedules[s].paused
                    \/ schedules[s].next_run_at > now
                    \/ schedules[s].run_lock_token \in orphaned
                    \/ \E c \in InFlight : c.schedule = s)

(* The same of every schedule.  Neither a restart nor a later tick takes a *)
(* stranded lock away, so it holds without crashes and with one run per    *)
(* tick only.                                                              *)
EveryDueScheduleRuns ==
    OperatorRests =>
        \A s \in Schedule :
            (Exists(s) /\ schedules[s].next_run_at <= now)
                ~> (\/ schedules[s].paused
                    \/ schedules[s].next_run_at > now
                    \/ \E c \in InFlight : c.schedule = s)

=============================================================================
