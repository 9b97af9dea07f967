# A formal model of best-brain

TLA+ modules that model the stateful core of best-brain, the TLC
configurations that check them on small instances, and theorems checked by
TLAPS. Paths below are relative to the repository (`src/src/...` is the
TypeScript source, `src/docs`, `src/README.md` and `src/tests` its
documentation and tests).

## The system

best-brain is one Bun process (`server.ts`) that serves HTTP, polls two
schedules of work and runs missions. Its state lives in one SQLite database
and a few JSON files; a second process may serve the brain's operations over
MCP on the same database.

| Component | State | Operations | Hard behaviour |
| --- | --- | --- | --- |
| Task queue (`runtime/task-queue.ts`) | rows of `task_queue_items`, `tickActive` | enqueue, follow-ups, cancel, tick (claim, execute, settle) | a tick awaits whole missions; cancel and stop meanwhile; retries; crashes |
| Scheduler (`runtime/scheduler.ts`) | rows of `scheduled_missions`, `tickActive` | create, pause, resume, run-now, tick | a batch is claimed at once and runs one by one; pause drops locks; crashes |
| Brain: missions and verification (`services/brain.ts`) | `missions`, `verification_runs`, outcome memories | save outcome, start and complete a verification | requests of concurrent manager runs of one mission interleave |
| Brain: memory store (`services/brain.ts`, `policies/*`) | `memory_items`, `memory_contradictions` | learn, curate, stamp, retrieve and maintain | several rows per operation without a transaction |
| Control room (`control-room/service.ts`, `policies/autonomy.ts`) | one JSON file per mission, the autonomy policy | launch, retry, resume, approve, reject, cancel, policy updates | reads a record, awaits a mission, writes the record |
| Operator safety stop (`runtime/safety.ts`) | a JSON file | activate, resume | read by all the rails, each at its own moment |
| Chat (`chat/service.ts`, `manager/reasoner.ts`, `manager/chat-responder.ts`) | the table of background runs; the child process of a call | start, poll, prune; triage and answer by Claude and Codex | programs that hang, are cut off, outlive their timeout; pruning of what is in progress |
| Manager (`manager/*`) | one run: decision, task graph, session | route, compile, dispatch, verify, write to the brain, learn | a refusal that a later decision must not undo; partial failures; three writes in three requests |
| Runtime spine (`runtime/spine.ts`) | session bundle, checkpoint files | record, checkpoint, restore, finalize | two checkpoints of one millisecond share a file; a restore replaces the bundle |
| Worker fabric and adapters (`workers/fabric.ts`, `manager/adapters/*`) | the chain of workers of a task, its attempts; the child process of an attempt | dispatch, retry, fall back; start, read, time out and kill a program | outages and exceptions in any mixture; output from which an adapter must tell work from an outage; a client that leaves; what was done must not be done twice |
| Health monitor, diagnostics | snapshots | poll | reads only |

They meet like this. The queue and the scheduler call the control room to run
a mission (`server.ts` wires them together); the control room creates a
manager, awaits its run, stores the run in the record of the mission and hands
the result to the queue, which may enqueue follow-ups; the manager writes to
the brain over HTTP, in the same process. The HTTP handlers reach every one of
them at any moment between two awaits. JavaScript gives the unit of
atomicity: what runs between two awaits is one action in the models.

What makes each part correct:

* queue: a row is executed only under a lock that exactly one tick holds,
  never more often than its budget; what is settled stays settled; follow-ups
  do not duplicate each other; urgent work goes first; every row settles in the end;
* scheduler: lock columns agree and a lock is always served; a run that lost
  its lock counts nothing; the next run lies in the future; due schedules run;
* missions: the status is the verdict of the latest verification; outcomes and
  stamps belong to the run that earned them; the documented path is followed;
* memory: a title has one open memory; contradictions are on record until they
  are settled; what is active is found and what is closed stays closed; facts
  about the owner are withdrawn only on somebody's word;
* manager: only a warranted mission reaches a worker; nothing ends as completed
  that a worker did not complete or a check failed; the session and the graph
  tell the same story after a restore; every run ends;
* fabric: a task that was carried out is not carried out again, by the same
  worker or another, and nobody is tried more often than its budget; a worker
  that says it failed is believed;
* chat: a run in progress stays in the table; what Claude said in time is heard;
  the page sees every run end;
* control room: no run and no decision of the operator is lost; reviews fit
  the status; automatic approvals follow the policy; stop and override hold.

## Modules

| Module | Models | Role |
| --- | --- | --- |
| `JobLedger` | what the queue promises: jobs are submitted, taken one at a time, answered, withdrawn; starts stay within the budget | abstract specification |
| `TaskQueue` | `AutonomousTaskQueue`, the statements of `db/client.ts` it uses, the conversion of enqueue requests in `http/app.ts`, the stop | component; implements `JobLedger` |
| `TaskQueueProofs` | | theorems about `TaskQueue` |
| `Scheduler` | `MissionScheduler`, its statements in `db/client.ts`, cadence validation, the stop | component |
| `SchedulerProofs` | | theorems about `Scheduler` |
| `MissionVerification` | `saveMissionOutcome`, `startVerification`, `completeVerification`, and the manager runs and clients that call them | component |
| `MissionVerificationProofs` | | theorems about `MissionVerification` |
| `Memory` | `learn`, `saveCuratedMemory`, `retrieve` and the stamp of a verified outcome, the policies of learning and retention, the statements of `db/client.ts` they use | component |
| `MemoryProofs` | | theorems about `Memory` |
| `ControlRoom` | `ControlRoomService`, the autonomy policy, the gates of its HTTP routes, chat and background launches | component |
| `ControlRoomProofs` | | theorems about `ControlRoom` |
| `TaskGraph` | `manager/graph.ts` and the choice of ready tasks in `manager/planner.ts` | operators on the graph of one run |
| `RuntimeSpine` | `runtime/spine.ts` | operators on the bundle of one session and its checkpoint files |
| `WorkerAnswers` | what each adapter may answer, and the chain, the retry and the fallback of `workers/fabric.ts` | operators on one attempt |
| `ManagerRun` | `ManagerRuntime.run`, the intent router, the compiler, the reviewer and `dispatchPrimary` of the fabric | component; composes `TaskGraph`, `RuntimeSpine` and `WorkerAnswers` |
| `ManagerRunProofs` | | theorems about `ManagerRun`, and about the operators of `TaskGraph` and `RuntimeSpine` |
| `WorkerFabric` | `dispatchPrimary` for one task, whose attempts are answered with any outcome of `WorkerAnswers` | abstract specification |
| `WorkerCalls` | the adapters of Claude, Codex, the shell, the browser and mail, their processes (`runtime/process-manager.ts`, `manager/adapters/shared.ts`), and the stream to the client (`http/app.ts`) | component; uses `CliProcess`, implements `WorkerFabric` |
| `WorkerCallsProofs` | | theorems about `WorkerCalls` and its refinement of `WorkerFabric` |
| `CliProcess` | `runCommand`, `runClaudeStreamResult` and the parsers of `manager/adapters/shared.ts` | operators on one call of a program |
| `ChatRuns` | the run table of `chat/service.ts`, the polling of `chat/page.ts`, the calls of `manager/reasoner.ts` and `manager/chat-responder.ts` | component; uses `CliProcess` |
| `ChatRunsProofs` | | theorems about `ChatRuns` and the operators of `CliProcess` it uses |
| `MC*` | | definitions for TLC: request sets, cadences, symmetry |

Operators called `...Misspelt`, `...Unchecked`, `...Stale` and so on, each
under a comment that begins with "Mutant", are not part of a specification.
Each changes one definition the way a plausible bug would; the property that
is listed with it in `PROJECT.json` then fails.

### TaskQueue

`queue` is the table, a function from the ids that are ever used to rows;
`tick` holds `tickActive` and the locals of `tick()` and
`executeClaimedItem()`; `now` counts minutes, the unit of the retry backoff.
Lock tokens are numbered, `issued` is the number given out, and `stranded` the
number given out before the last crash, a history variable that tells a row a
crash left running from one a tick forgot. `BeginTick` is the part of `tick()`
up to the first `await`: the look at the stop and the first claim. `SettleClaim`
is what follows the await of an execution, in the three outcomes complete, fail
and requeue; `AbortTick` is the branch where the compare-and-set on the lock
token fails and the tick throws. `Enqueue` includes the check and the rounding
of `max_attempts`. A key stands for parent mission, source and goal text, which
somebody who enqueues over HTTP names as he likes: `enqueue` looks for no
duplicate. `derived` (history) marks the rows that `enqueueFollowupsFromResult`
put there, of which `NoDuplicateFollowups` speaks.

### Scheduler

`schedules` is the table; `batch` the schedules a tick has claimed and not
finished, head first; `manual` the runs of run-now, which do not belong to a
tick. `ClaimBatch` orders and limits like the SQL statement, leaving ties open.
A claim is a schedule and a token; completing compares the token. `orphaned`
and `revoked` are history: the tokens left behind by an aborted tick or a
crash, and those a pause took away. Time is minutes; the length of the day is a
constant, so that a day of three minutes exercises the daily cadence.

### MissionVerification

`missions`, `outcomes` and `runs` are the tables as far as verification is
concerned; `callers` is where each manager run stands in its sequence of
requests, and where each call of `saveMissionOutcome` stands at its await. An
outcome remembers the verdict that was prepared with it (history). The clock
counts milliseconds because the latest run is chosen by `started_at`: of two
runs that start in one millisecond the one inserted first is taken. A manager
run works for at least a millisecond before it writes. `Public` is the set of
missions that clients other than managers write; what is promised only of
missions that managers alone write is stated of the others.

### Memory

`memories` is the table `memory_items` in the order of insertion, a row's id its
place; `contradictions` is `memory_contradictions`; `now` is a clock of days.
`Learn` and `SaveCuratedMemory` share `Write`, as the two functions of the code
share their sequence: find the merge candidate (`MergeCandidates`), merge when
the content is the same (`Merge`), otherwise supersede the predecessor, insert
the row and settle its contradictions (`Create`). The statements of a write have
no common transaction, so `Create` also ends after any prefix of them; such a
crash happens once until its traces are gone (`Crashed`). `Retrieve` is
`runMaintenance` followed by a read; `Served` is an upper bound on what the read
may select, because relevance and ranking are left out. The `exact_hits` that an answer
cites beside its selection are not bounded by it: `brain.ts:913` looks for the reason
`exact_conflict`, which is recorded as `exact_conflict:<key>` (`brain.ts:818`), and
excludes nothing, so that a memory which was suppressed or blocked may be cited. `StampOutcome` is the
part of `completeVerification` that touches the outcome's memory.

A title stands for title, domain and mission together, which is the key of
merging. Retrieval keeps one row of another key, the type, the slug of the title
and the mission without the domain (`SameEntry`), and entity keys know the slug
alone (`SharesKey`); `SlugOf` and `MissionOf` give slug and mission of a title.
A memory type stands for its subtype; `Keyed` lists the types whose subtype gives all their memories one
entity key, such as `owner_name`. `named` (the request itself said what it
supersedes) and `torn` (a crash cut its write short) are history. `version` stops
at 2, which is read as "merged or stamped since". A request may name an id that
no memory has if `CanMisname` is true. `saveCuratedMemory` could be given any
status; its callers give none, and the model allows active and candidate.

### ControlRoom

`records` is the set of record files; a record exists from the end of the
first run of its mission. `calls` are the launches and reruns in progress, each
with the record it read before it began to wait. `FinishRun` is the
continuation after the manager has answered: `persistRun` with the count of
prior verified runs, the autonomy decision and the new review (`Finish`). Only a
launch over HTTP may ask for a plan (`dry_run` or `no_execute`) and end
`in_progress`; reruns, chat and background launches execute and end with a verdict,
a refusal or a throw. `Decide` is the
synchronous part of `runAction` (the dashboard's override is the cancellation).
Run and decision counts are bounded per mission.

### ManagerRun, TaskGraph, RuntimeSpine

One call of `ManagerRuntime.run`. `request` is what the message and the brain
make of it: how it is routed and triaged, whether it is forced, dry, ambiguous
or thin, which facts are missing, what was found as input, which workers are
selected and preferred. It never changes; how texts are classified is not
modelled. `phase` is the place in `run`, one per stretch between two awaits;
`decision` is the decision as it stands after the heuristic, the triage,
`force_mission`, the ambiguity check and the brief, each of which may rewrite
it (`Decided`, `Triaged`, `Forced`, `BlockedBy`, `BlockedByBrief`, which refuses
with the `BriefFault` it finds). `graph` is the task graph (`TaskGraph`); `bundle` and `files` are the session and its
checkpoint files, named by the millisecond `now` (`RuntimeSpine`); `dispatch`
holds the locals of `dispatchPrimary`: the chain, the place in it, the attempt,
and what was tried. `results` and `verdict` are the locals of `run` that
verification uses; `writes` counts the writes that the brain has accepted.

`RecordDispatch` is the stretch from a worker's answer to the checkpoint; the
restore after a failed verdict is inside `CompleteVerification`, as it is in the
code: no await separates the checkpoint, the restore, the report and the end of
the session. Every request to the brain may fail (`BrainFails`), which throws, and
so does every event to a client that has left (`ObserverFails`). What the workers
answer is `Outcomes` of `WorkerAnswers`, with the checks and artifacts of the answer.

`worker_unavailable` and `provider_unavailable` are one kind, `unavailable`, as
the fabric treats them alike. A graph has at most two work nodes (the selected
worker and one of the playbook's): enough for a first result that a second must
not hide. A task is run as a mission is.

### WorkerCalls, WorkerFabric, WorkerAnswers

`task` is the task of one dispatch: who is asked, whom the playbook prefers,
whether a note is all that is expected, whether the goal has a shell command, and
whether the task itself is about limits. `place`, `attempt` and `stage` are the
locals of `dispatchPrimary` and `answer` its result; they are the variables of
`WorkerFabric`, which says what `ManagerRun` assumes: each attempt is answered with
one of the `Outcomes` of its worker. `WorkerCalls` has the same variables, the
process of the attempt (`child`, as in `CliProcess`), the file for Codex's last
message and the client that follows the run. A program writes up to `MaxMessages`
messages, each with a report (a status, other JSON, prose), whole or cut off,
exits with any code, leaves its streams open or hangs; `Close` is the adapter's
conclusion (`ClaudeAnswer`, `CodexAnswer`, `ShellAnswer`). `KeepsFabric` is the
refinement: the abstract variables are kept as they are, so the mapping is the
identity.

An adapter sends an event before and after its work. When the client of the chat
stream has left, the stream has no `cancel` handler and the event throws: before
the work nothing is started (`StartUnheard`), after it the answer is lost
(`Close`, `Browse`), and to the fabric both are errors of the worker, which it
tries again. That an answer is lost does not make the work be done twice, because
the retry fails before it starts anything: this is what `DoneOnce` is about.

`done` counts attempts that carried the task out: the program's last message says
success and it ended with exit code 0. Codex is assumed not to end well when its
account was refused. `CountsTimeout` also counts a success that a killed process
had reported.

### ChatRuns and CliProcess

`child` is the process of the present call as `CliProcess` describes it: what it
has written, how much of that the parent has seen, whether it has exited, was
killed, and whether something it started holds its streams. Claude's call ends
with a result line, at its timeout or when the streams close, whichever is first;
Codex's only when they close. A line may be whole, whole but without an end of
line, or cut off. The program writes, exits, hangs and leaves processes behind
as it likes.

`runs` is the table, with the age of each entry; `stage` the place of `processRun`
in the manager; `page` what the browser that polls makes of it. Missions are one
stage that reports and ends (`ManagerRun` has their inside). `StartOther` is a
message of somebody else: all it does to this run is prune the table. A pruned
run goes on; its writes are dropped and the page gets a 404 (`lost`).
`spoken` is history: the process of Claude's answer when its call ended.

## Runs

Runs that pass:

| Run | Instance | Shows |
| --- | --- | --- |
| `queue_crash` | 2 rows, a crash at any time, all interleavings, requests of the operator that carry the key of a follow-up, fairness of the poll timer | running rows are executed; budgets; no follow-up beside another of its key; priority order; refinement of `JobLedger`; every row settles that no crash found running |
| `sched_crash` | 2 schedules, interval or daily, a batch of 2, run-now, 3 tokens, crash, fairness of the poll timer | served locks, lost locks, paused schedules stay quiet, the next run is later and at the right time of day; due schedules run that no crash or aborted tick left locked |
| `mission_managers` | 2 concurrent manager runs of one mission that may break off | status and latest verdict agree |
| `mission_mixed` | one manager run at a time on 2 missions, beside a client that writes one of them freely | outcomes are a mission's own; on the mission the client leaves alone no open run is left, stamps are earned |
| `memory_store` | 3 memories of 3 titles, 2 of them of one slug, and 2 contents: owner facts, failure lessons, mission outcomes, notes; a clock of 2 days; a crash inside a write | one open memory per title, contradictions on record, active memories are found but for the four named cases, nothing selected is out of date, closed ones stay closed, owner facts stand |
| `room_overlap` | an HTTP launch or rerun, a background one and a chat message on 1 mission, 3 runs, a decision, policy updates | reviews fit the status, automatic approvals are routine ones, history is kept, a cancellation ends only with a later rerun |
| `manager_run` | every routing and refusal of a message, 1 or 2 tasks, every mixture of outages, exceptions, partial results and verdicts, failures of the brain, checkpoints in the same or the next millisecond | warranted dispatch, no false completion, session and graph agree, one worker per task, restores lose nothing, every run ends |
| `chat_runs` | a message beside any number of others, up to 2 lines of each program, Claude's streams held or not, timeouts of 1 and 2 ticks, a table that forgets after 2 | in-progress runs are kept, Claude is heard, the page sees the end |
| `worker_calls` | every worker as the requested one, with the chains of the playbooks, tasks with and without a command and a note, up to 2 messages of each process, every end of a process, a client that may leave | a reported failure is heard, work is done once, refinement of `WorkerFabric` |

Runs in which a statement of the repository's own documents fails; `findings`
in `PROJECT.json` quotes the statement and names the line:

* `sched_overlap`: pause and resume during a run lead to two runs at a time.
* `room_override`: while a mission is being rerun its record says how the run before
  ended, and the override of the dashboard is refused.
* `worker_repeat`: Codex carries out a task about rate limits; its output mentions
  one, which counts as an outage; the task is carried out again.

Properties that fail in such a run, or in a further instance, are kept where they
do hold as properties of a passing run (`StampIsEarned` for one manager run at a
time in `mission_mixed`), so that it is clear what they depend on.

### Further instances

These configurations are not among the listed runs; they answer narrower
questions and are there to be run by hand.

Counterexamples: `TaskQueueRestart.cfg`, `SchedulerRestart.cfg` (a crash leaves
the row or schedule that ran locked for good: `EveryItemSettlesAfterCrash`,
`EveryDueScheduleRuns`), `SchedulerBatch.cfg` (pausing the run at the head of a batch
locks the rest for good: `EveryDueScheduleRuns`), `TaskQueueStop.cfg`, `SchedulerStop.cfg`
and `ControlRoomChat.cfg` (a tick, a batch and a chat message start missions
after the stop), `ManagerRunFallback.cfg` (the requested worker is unavailable,
the playbook's shell stands before its alternate in the chain and has no command
for the task, and the alternate is never tried: `FallbackIsPreserved`;
`docs/roadmap/plan.md:116` says "preserve fallback behavior to alternate workers
when the primary remains unavailable"), `WorkerCallsTimeout.cfg` (Claude reports
success, hangs and is killed at its timeout; the task is handed to Codex, which does
it again: `DoneOnce`), `ChatRunsHolders.cfg` (Codex is killed at
its timeout or exits, a process it started holds its streams, and the page polls
for ever: `FollowedRunEnds`),
`TaskQueueFraction.cfg` (a `max_attempts` below 1 is rounded to 0 after the
check), `MissionVerificationOverlap.cfg` (two manager runs of one mission, an
operator's retry beside the queue's: they leave the documented path,
`ThroughAwaiting`, and the successful one stamps the outcome of the other,
`StampIsEarned`; `-continue` reports both), `MissionVerificationClient.cfg`
(the status a client sends is not checked, and a completion without checks is
accepted: `VerifiedHasRun`, `VerifiedHasChecks`; `-continue` reports both), `MemoryGate.cfg` (a proposed
procedure becomes active when the same text is learned again, with nobody's
confirmation: `PromotionIsConfirmed`; `docs/roadmap/plan.md:171` calls for a
"user-confirm gate before promotion"), `MemoryLesson.cfg` (a failure lesson that
the user confirmed is hidden from retrieval by a newer unconfirmed one of the
same title: `LessonsAreServed`).

A wider passing instance is `TaskQueueBusy.cfg`: three rows that compete
(`LockMatchesStatus`, `SettledIsFinal`, and `BackoffElapses`: the delays of the
attempts add up).

### Bounds

Rows, schedules, tokens, runs and outcomes are finite sets or counters with a
bound in the guard of the action that creates them; every bound is a constant
of its module. Two rows are enough for what relates rows pairwise (locks,
duplicates); three for the order of claims. Two manager runs and two calls
suffice for a race; a third run of a mission lets the second be overtaken. Three
memories are a predecessor, its successor and one that contradicts or precedes
both; a day is the age at which the instance expires and archives. The
clocks stop at `Horizon`; in `TaskQueue` the clock passes it for as long as a
queued row waits for its backoff, so that liveness is not an artefact of the
bound. `ManagerRun` needs no bound but `Horizon`, the milliseconds in which its
checkpoints fall: its chains and attempts are finite in the code. In `ChatRuns` an
age stops at one more than `Ttl`, after which nothing depends on it; two lines are
a text and a result, two texts, or a text and a line that is cut off; in
`WorkerCalls` two messages are a report and one that takes it back, an error, or one
that is cut off, and its chains and attempts are those of the code. The order of
the constants (no timeout longer than `Ttl`) is that of the defaults of the code,
7 and 30 seconds against 15 minutes, and is an assumption of the module. Deadlock is checked except in the `MissionVerification` runs,
whose counters (outcomes, runs, clock) end every behaviour.

### Fairness

`TaskQueue`, `Scheduler`, `ManagerRun` and `ChatRuns` have liveness properties.
`TaskQueue!Fairness`
is weak fairness of the poll timer's tick, of the loop of a tick that has
begun, of the execution's answer (`executeTask` settles or throws) and of the
clock. `Scheduler!Fairness` is weak fairness of the tick and of the end of each
run. Nothing is assumed of the operator, who may never act: that execution does
not stay stopped, and in `DueSchedulesRun` that schedules are not paused for
ever again, are hypotheses of the properties themselves. Crashes may happen at any
time and any number of times; what they strand is excepted in the properties, and
fairness says nothing of them. `ManagerRun!FairSpec` is weak fairness of a step of the run: workers
and the brain answer, fail or throw. `ChatRuns!Fairness` assumes nothing of the
programs, which may hang: what is killed exits, what was written arrives, timers
fire, requests to the brain and missions end, and the page keeps polling. Its
`Tick` also waits for what is faster than the unit of time: a timer that is due, a
process that was killed (unless its streams are held), and the page's poll of
every half second. None of the fairness is used for safety, but for these
timings: that a call ends by its timeout is what `InProgressIsKept` is about.

## Proofs

Every safety property of a run that passes is also a theorem, for every value of
the constants that satisfies the named assumptions of the modules. The argument
has one form throughout: an inductive invariant `IInv` of named parts, a lemma
that the initial states have it, one lemma for each action (or kind of action),
and temporal reasoning at the end. `IInv` was checked by TLC on an instance before
it was proved. The table says what `IInv` adds to the properties, and why.

| Module | Theorems | What the invariant needs besides |
| --- | --- | --- |
| `TaskQueueProofs` | `TypeCorrect`, `LocksAgree`, `NoRowLeftRunning`, `OnlyCancelTakesARow`, `AttemptsAreBounded`, `SettledRowsStay`, `UrgentFirst`, `FollowupsAreUnique`, `QueueKeepsLedger` | which locals are set in which phase (`TickShape`); an unused id carries no token (`AbsentIsFresh`); a row is lost only to a cancellation, because the code compares the attempt count it read when it claimed, not the one in the row |
| `SchedulerProofs` | `TypeCorrect`, `ColumnsAgree`, `LocksAreServed`, `OnlyPauseRevokes`, `PausedStaysQuiet`, `FinishedRunsAreLater` | claims in flight have tokens of their own (`FlightTokens`); a token names the row it was issued for (`TokenFindsRow`); a token that a pause took belongs to a run in flight, one that an aborted tick or a crash left behind to none (`HistoryShape`); the arithmetic of `NextRunAt` |
| `MissionVerificationProofs` | `TypeCorrect`, `StatusIsProven`, `OutcomesAreOwn`; `StampsAreEarned`, `VerifiedThroughAwaiting`, `OpenRunsHaveOwners` | calls and runs name outcomes and missions that exist (`CallsAreSound`, `RunsAreSound`); a mission's status is that of its latest run also where two runs start in one millisecond |
| `MemoryProofs` | `TypeCorrect`, `ClosedRemains`, `TitlesAreOpenOnce`, `ConflictsOnRecord`, `AnswersAreCurrent`, `SelectionAgrees`; `OwnerFactsAreKept`, `ActiveAnswers` | of two memories of one title the earlier was closed when the later was written, unless a request named a predecessor or a crash lost the successor (`TitlesTakeTurns`); what a memory supersedes is closed (`PredecessorIsClosed`), and what does not merge is superseded by name only; no date lies in the future; the status fits the type |
| `ControlRoomProofs` | `TypeCorrect`, `ReviewsFit`, `ApprovalsAreRoutine`, `NothingIsLost`, `CancellationHolds`; `InterfaceObeysTheStop` | a record has a run; a rerun in progress began with the record's cancellations before it (`RerunsKnowCancellations`); the verified runs of a kind are finitely many, so that counting them means something and one more run makes the count one larger |
| `ManagerRunProofs` | `TypeCorrect`, `WorkIsWarranted`, `CompletedIsDone`, `RecordsAgree`, `TaskHasOneWorker`, `NothingIsLost` | what holds before, during and after the work (`BeforeWork`, `AtWork`, `AtReview`, `AtEnd`), each relating graph, session, results and verdict; who was tried and is to be tried (`OneWorker`) |
| `WorkerCallsProofs` | `TypeCorrect`, `LastWordIsHeard`, `AdaptersImplementFabric`; `CarriedOutOnce` | a process exists while an attempt waits for it (`ChildIsAwaited`); only Codex says more than one thing (`OneMessage`); the file for its last message holds its last report (`FileIsLast`) |
| `ChatRunsProofs` | `TypeCorrect`, `ClaudeIsHeardAlways`; `InProgressNeverPruned` | of every run, what its entry, its stage and its process say of each other |

The theorems after a semicolon have a hypothesis besides the assumptions. Each is
the condition under which the code keeps the promise, and where it matters an
instance shows that the promise fails without it:

* `OneManager`, one manager run at a time, for stamps and the documented path
  (`MissionVerificationOverlap.cfg` has two), and besides that no run breaks off,
  for `OpenRunsHaveOwners`: nothing closes a verification that a failed run left.
  With it the invariant gets a second part: the mission says how far its manager
  has come (`MissionFollowsManager`), and the open run is the latest.
* `OwnerSpeaks`: a confirmed fact about the owner is not ascribed to
  `system_inference`. All callers in the repository keep it; `POST /learn` accepts
  the ascription (`policies/validation.ts:170`) and does not ask for it.
* `OutcomesAreActive`: no mission outcome is written as a candidate, for
  `ActiveAnswers`.
* `Chat = {}` and `Background = {}` for `InterfaceObeysTheStop`: what comes over
  HTTP obeys the stop; a chat message does not (`ControlRoomChat.cfg`).
* `PlainWork`: what a killed process reported is not counted and no task is
  about limits, for `CarriedOutOnce`. `worker_repeat` and `WorkerCallsTimeout.cfg`
  show that both are needed. `worker_calls` checks `DoneOnce` under the same.
* `"codex" \notin Holders`: what Codex starts does not hold its streams, for
  `InProgressNeverPruned`; a call of Codex ends only when they close.

Some arguments are worth a word. How many schedules a tick claims is the
number of those that are due, at most its limit, so `SchedulerAssumption` asks
that the schedules be finite. That a paused schedule stays quiet is not an invariant but follows from
`LocksAgree` for each step: completing compares the token, and a pause has taken
it. `UrgentFirst` and `FollowupsAreUnique` likewise follow from what a step may
do: a row becomes open only by an insertion or a claim (`OpeningStep`), and keys
never change. In `ManagerRun` a restore replaces the whole session, and
`NothingIsLost` says it loses nothing: the latest restorable checkpoint was
written in the same step, and was written last, so that its file holds the session
of that moment even when an earlier checkpoint has the same name. That a task has
one worker rests on the playbooks naming each worker once
(`ManagerRunAssumption`; `playbook.ts:140` collects them in a `Set`).

Two refinements are proved, as steps that map to a step of the abstract
specification or to a stutter. `QueueKeepsLedger` maps queued rows to waiting jobs,
the tick's item to the worker's job and the attempt count to starts.
`AdaptersImplementFabric` keeps the variables of `WorkerFabric` as they are and shows
of every conclusion of an adapter that it is one of the `Outcomes` which
`ManagerRun` assumes; the type of the dispatch is proved of the fabric and carried
over.

Only model-checked: liveness under fairness (`EveryItemSettles`, `DueSchedulesRun`,
`RunEnds`, `FollowedRunEnds`), which is out of reach of the provers, and
`BackoffElapses`, whose bound is a sum defined by recursion. The properties of the
counterexamples are refuted by TLC, and where such a property holds under a
hypothesis it is among the theorems above.

## Abstractions and what is not modelled

* Goals, notes, summaries, evidence and texts are members of small sets, or
  absent where nothing depends on them. What a worker does and says is a choice.
* A limit is looked for in the first and the last 8000 characters of what Codex
  wrote; a model message is inside them. Pages, drafts and mailboxes have no
  contents.
* Two processes on one database: MCP calls interleave with the server as whole
  handlers, not at the level of SQL statements.
* Files are written in one step. A crash inside `writeFileSync` can leave a stop
  file that is read as "not stopped", or a record that cannot be read.
* The `timezone` of a schedule, which `http/app.ts:312` accepts and the code never
  reads; days are of one length, so the hour that summer time adds or drops, which
  the local times of `scheduler.ts:25` do follow, is not modelled.
* What a retrieval selects, ranks and traces: `Memory` bounds it by the filters;
  what else an answer cites (`exact_hits`) is not bounded.
  Embeddings, versions and edges of memories are left out: nothing modelled reads
  them. No code resolves a contradiction once it is on record as unresolved.
* The reuse credit of a verified mission (`incrementMemoryReuse`), the artifact
  registry and mission events are left out: nothing modelled reads them.
* Session events are counted and artifacts besides the report left out. Output
  that arrives after a call has been settled is dropped, as the code drops it. An
  assistant message that Claude marks as final (subtype `message`) is left out:
  its CLI does not write one. Observers are synchronous in the server, so the
  remainder that `flushBuffer` keeps across an await (`shared.ts:374`) is never
  overwritten there; an observer that awaited would repeat or lose lines.
* `stopChildProcess` (`shared.ts:647`): its SIGINT sets `killed`, so the forced
  kill after a second never happens. The server it stops is external.
* Health and diagnostics, onboarding, the offline harnesses and the vendored
  `brain/oracle-core` are not modelled; `PROJECT.json` says why.
  `runtime/health.ts` remembers the fingerprint of every alert for ever, so a
  second outage of the same worker raises none.

## Plan

Modelled first is what runs unattended and loses work when it is wrong: the
queue, the scheduler, then the missions they run, the room that records them and
the memory they learn into, and what a manager run hands to the workers. Their safety
is proved. Next:

1. An abstract specification of what `Memory` promises (a title is unknown,
   proposed, known or retired), of a schedule (due, run, done) and of a verified
   mission, and proofs that the components implement them.
2. `MissionRails`: queue, scheduler and control room composed, with follow-ups
   that retry their parent mission; whether chains of follow-ups end.
3. `SafetyStop`: the state file with partial writes, composed with the rails.
