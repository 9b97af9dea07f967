----------------------------- MODULE ManagerRun -----------------------------
(***************************************************************************)
(* One run of the manager (manager/runtime.ts): the routing decision, the  *)
(* compiled brief with its task graph, the workers that the fabric tries   *)
(* for each task (workers/fabric.ts), the verifier, the writes to the      *)
(* brain and the record that the runtime spine keeps of it all.            *)
(*                                                                         *)
(* A run is one chain of awaits; the actions are the stretches between     *)
(* them.  What the brain, the reasoner, the compiler and the workers       *)
(* answer is a choice; texts, progress events and artifacts are left out.  *)
(***************************************************************************)
EXTENDS RuntimeSpine, WorkerAnswers, FiniteSets

CONSTANTS
    Requests,     \* the requests, with what compiling them finds (Request)
    CanFail,      \* whether a request to the brain may fail
    CanLeave,     \* whether a client that follows the run by a stream may leave
    Horizon       \* the millisecond clock stops here

Request == [
    routed    : {"chat", "chat_memory_update", "mission"},  \* by the heuristic;
                                       \* a task is run as a mission is
    triage    : {None, "chat", "mission"},  \* by the reasoner, if there is one
    force     : BOOLEAN,              \* force_mission
    dry       : BOOLEAN,              \* dry_run or no_execute
    ambiguous : BOOLEAN,
    thin      : BOOLEAN,              \* the brief lacks a field other than a fact
    facts     : SUBSET {"missing", "conflicting"},  \* of the required exact facts
    data      : {"not_required", "selected", "blocked"},  \* the input adapters
    selected  : ManagerWorkers,
    preferred : Seq(ManagerWorkers),  \* by the playbook, besides the verifier
    said      : 0..2,                 \* owner facts in a message to remember
    unclear   : BOOLEAN,              \* such a message needs a question first
    lessons   : 0..2]                 \* what a chat teaches on the side

(* What an adapter returns; proof: its artifacts satisfy the checklist.    *)
Answer == [status : {"success", "needs_retry", "failed"},
           kind   : FailureKinds \cup {None},
           checks : {"none", "passed", "failed"},
           proof  : BOOLEAN]

(* An adapter that was asked for the last time, and what a task came to.   *)
Try == [worker : ManagerWorkers, attempts : 1..MaxAttempts, kind : FailureKinds \cup {None}]

Dispatch == [task : NodeIds, requested : ManagerWorkers, chain : Seq(ManagerWorkers),
             place : Nat, attempt : 1..MaxAttempts, tried : Seq(Try)]

Result == [task : NodeIds, requested : ManagerWorkers, executed : ManagerWorkers,
           answer : Answer, tried : Seq(Try)]

Reasons == {"ambiguous_goal", "policy_rejection", "missing_exact_fact",
            "conflicting_exact_fact", "blocked_input"}

Decision == [kind : {"chat", "mission"}, mode : {"chat", "chat_memory_update", None},
             should_execute : BOOLEAN, blocked : Reasons \cup {None}]

Verdicts == {"verified_complete", "verification_failed"}

ASSUME ManagerRunAssumption ==
    /\ Requests \subseteq Request
    /\ \A r \in Requests :   \* no playbook prefers two workers besides the selected one
          /\ EachOnce(r.preferred)
          /\ Len(FirstOf(r.selected, r.preferred)) <= 2
    /\ Adapters \subseteq ManagerWorkers
    /\ CanFail \in BOOLEAN
    /\ CanLeave \in BOOLEAN
    /\ Horizon \in Nat
    /\ None \notin FailureKinds \cup Reasons \cup Verdicts \cup {"chat", "mission"} \cup Dispatch

VARIABLES
    request,   \* the request of this run
    phase,     \* where the run stands
    decision,  \* kind, chat mode, should_execute and the reason to block
    graph,     \* the mission graph
    bundle,    \* the record of the session, NoBundle for chats
    files,     \* the checkpoint files, by the millisecond in their names
    now,       \* the clock, in milliseconds
    dispatch,  \* the task that the fabric is working on
    results,   \* what the dispatched tasks ended with, in order
    verdict,   \* the verifier's
    writes,    \* actions of brain_writes
    learned    \* owner facts and lessons that a chat saved

vars == <<request, phase, decision, graph, bundle, files, now, dispatch, results,
          verdict, writes, learned>>

NoGraph == <<>>

Init ==
    /\ request \in Requests
    /\ phase = "route"
    /\ decision = [kind |-> "chat", mode |-> None, should_execute |-> FALSE, blocked |-> None]
    /\ graph = NoGraph
    /\ bundle = NoBundle
    /\ files = [t \in 0..Horizon |-> NoBundle]
    /\ now = 0
    /\ dispatch = None
    /\ results = <<>>
    /\ verdict = None
    /\ writes = <<>>
    /\ learned = 0

-----------------------------------------------------------------------------
(* The decision. *)

Decided(kind, mode) ==
    [kind |-> kind, mode |-> mode,
     should_execute |-> kind = "mission" /\ ~ request.dry, blocked |-> None]

(* Mutant: the mode of a chat is taken for its kind.                       *)
HeuristicMode ==
    IF request.routed = "mission" THEN Decided("mission", None)
    ELSE Decided(request.routed, request.routed)

Heuristic ==
    IF request.routed = "mission" THEN Decided("mission", None)
    ELSE Decided("chat", request.routed)

(* The reasoner is not asked in a dry run, and does not turn a message to  *)
(* remember into a mission.                                                *)
Triaged ==
    IF \/ request.dry
       \/ request.triage = None
       \/ request.routed = "chat_memory_update" /\ request.triage # "chat"
    THEN Heuristic
    ELSE Decided(request.triage, IF request.triage = "chat" THEN "chat" ELSE None)

Forced(d) == IF request.force /\ d.kind = "chat" THEN Decided("mission", None) ELSE d

BlockedBy(d, reason) == [d EXCEPT !.should_execute = FALSE, !.blocked = reason]

(* What compiling the brief finds; each check overrides the one before.    *)
BriefFault ==
    IF request.data = "blocked" THEN "blocked_input"
    ELSE IF "conflicting" \in request.facts THEN "conflicting_exact_fact"
    ELSE IF "missing" \in request.facts THEN "missing_exact_fact"
    ELSE IF request.thin THEN "policy_rejection"
    ELSE None

(* Mutant: the checks of the brief decide afresh.                          *)
BlockedByBriefAfresh(d) ==
    IF d.kind = "chat" THEN d
    ELSE IF BriefFault = None THEN Decided("mission", None) ELSE BlockedBy(d, BriefFault)

BlockedByBrief(d) ==
    IF d.kind = "chat" \/ BriefFault = None THEN d ELSE BlockedBy(d, BriefFault)

(* Up to the consultation about failures, with the check for ambiguity.    *)
Route ==
    /\ phase = "route"
    /\ decision' = LET d == Forced(Triaged)
                   IN  IF request.ambiguous /\ d.kind # "chat"
                       THEN BlockedBy(d, "ambiguous_goal") ELSE d
    /\ phase' = "compile"
    /\ UNCHANGED <<request, graph, bundle, files, now, dispatch, results, verdict,
                   writes, learned>>

(* The selected worker first, then those of the playbook. *)
OrderedWorkers == FirstOf(request.selected, request.preferred)

CompiledGraph ==
    IF decision.kind = "chat"
    THEN UpdateTaskStatus(ChatGraph, "context_review", "completed")
    ELSE LET built == UpdateTaskStatus(
                          BuildMissionTaskGraph(OrderedWorkers, request.data # "not_required"),
                          "context_review", "completed")
         IN  CASE request.data = "selected" ->
                    UpdateTaskStatus(built, "data_selection", "completed")
               [] request.data = "blocked" ->
                    UpdateTaskStatus(built, "data_selection", "failed")
               [] OTHER -> built

CompileBrief ==
    /\ phase = "compile"
    /\ graph' = CompiledGraph
    /\ decision' = BlockedByBrief(decision)
    /\ bundle' = IF decision.kind = "chat" THEN NoBundle
                 ELSE RecordEvents(OpenSession, IF request.data = "not_required" THEN 1 ELSE 2)
    /\ phase' = IF decision'.should_execute THEN "plan"
                ELSE IF decision.kind # "chat" THEN "stop"
                ELSE IF decision.mode = "chat_memory_update" THEN "remember"
                ELSE "answer"
    /\ UNCHANGED <<request, files, now, dispatch, results, verdict, writes, learned>>

-----------------------------------------------------------------------------
(* Runs that execute nothing. *)

Return == phase' = "returned"

(* A dry run, or a mission that is blocked. *)
StopBeforeWork ==
    /\ phase = "stop"
    /\ bundle' = Finalize(bundle, IF decision.blocked # None THEN "aborted" ELSE "completed")
    /\ Return
    /\ UNCHANGED <<request, decision, graph, files, now, dispatch, results, verdict,
                   writes, learned>>

(* handleChatMemoryUpdate: one call of learn for each fact. *)
LearnOwnerFact ==
    /\ phase = "remember"
    /\ ~ request.unclear /\ learned < request.said
    /\ learned' = learned + 1
    /\ UNCHANGED <<request, phase, decision, graph, bundle, files, now, dispatch, results,
                   verdict, writes>>

(* Without a fact to save the message is answered as any other. *)
FinishMemoryUpdate ==
    /\ phase = "remember"
    /\ request.unclear \/ learned = request.said
    /\ phase' = IF request.unclear \/ request.said > 0 THEN "returned" ELSE "answer"
    /\ UNCHANGED <<request, decision, graph, bundle, files, now, dispatch, results, verdict,
                   writes, learned>>

(* The answer, then handleChatAutoLearn, which survives a failed call.     *)
AnswerChat ==
    /\ phase = "answer"
    /\ learned' \in learned..(learned + request.lessons)
    /\ Return
    /\ UNCHANGED <<request, decision, graph, bundle, files, now, dispatch, results, verdict,
                   writes>>

-----------------------------------------------------------------------------
(* The worker fabric. *)

(* Of an attempt that failed before the worker could do the task (a shell  *)
(* command is compiled into requests for the shell only) the adapter, or   *)
(* the fabric, has a failed check; of work that did not        *)
(* succeed only whether its checks and artifacts would pass is kept.       *)
AdapterAnswers(worker, requested) ==
    {a \in Answer :
        /\ [status |-> a.status, kind |-> a.kind] \in Outcomes(worker, requested)
        /\ a.kind \notin {"task_failed", None} \/ (worker = "shell" /\ requested # "shell") =>
              a.checks = "failed" /\ ~ a.proof
        /\ a.status # "success" => a.checks = IF a.proof THEN "passed" ELSE "failed"}

DispatchWorker ==
    /\ phase = "plan"
    /\ ReadyExecutionTasks(graph) # {}
    /\ LET task == NextTask(graph)
           requested == graph[task].assigned_worker
       IN  /\ graph' = UpdateTaskStatus(graph, task, "running")
           /\ dispatch' = [task |-> task, requested |-> requested,
                           chain |-> PrimaryWorkerChain(requested, request.preferred), place |-> 1, attempt |-> 1,
                           tried |-> <<>>]
    /\ bundle' = RecordEvents(bundle, 1)
    /\ phase' = "dispatch"
    /\ UNCHANGED <<request, decision, files, now, results, verdict, writes, learned>>

Worker == dispatch.chain[dispatch.place]

(* What a worker that is not tried again leaves behind. *)
Tried(answer) == Append(dispatch.tried, [worker |-> Worker, attempts |-> dispatch.attempt,
                                         kind |-> answer.kind])

TriesAgain(answer) == Retries(Worker, dispatch.attempt, answer)
HandsOn(answer) == FallsBack(dispatch.chain, dispatch.place, dispatch.attempt, answer)

(* The session after a task: the worker's task opened and closed, its      *)
(* process, the checkpoint.                                                *)
RecordDispatch(b, task, requested, worker, status, at) ==
    LET started == StartWorkerTask(b, task, worker)
        noted == RecordEvents(started, IF worker # requested THEN 1 ELSE 0)
        closed == CompleteWorkerTask(RecordCompletedProcess(noted), status)
    IN  CreateCheckpoint(closed, task, TRUE, at)

(* Mutant: the attempts are not counted.                                   *)
RetryWorkerUncounted ==
    /\ phase = "dispatch"
    /\ \E answer \in AdapterAnswers(Worker, dispatch.requested) : TriesAgain(answer)
    /\ phase' = "backoff"
    /\ UNCHANGED <<request, decision, graph, bundle, files, now, dispatch, results, verdict,
                   writes, learned>>

(* An attempt is answered, and after a wait the same worker tries again. *)
RetryWorker ==
    /\ phase = "dispatch"
    /\ \E answer \in AdapterAnswers(Worker, dispatch.requested) : TriesAgain(answer)
    /\ dispatch' = [dispatch EXCEPT !.attempt = @ + 1]
    /\ phase' = "backoff"
    /\ UNCHANGED <<request, decision, graph, bundle, files, now, results, verdict, writes,
                   learned>>

WaitBeforeRetry ==
    /\ phase = "backoff"
    /\ phase' = "dispatch"
    /\ UNCHANGED <<request, decision, graph, bundle, files, now, dispatch, results, verdict,
                   writes, learned>>

FallBack ==
    /\ phase = "dispatch"
    /\ \E answer \in AdapterAnswers(Worker, dispatch.requested) :
          /\ HandsOn(answer)
          /\ dispatch' = [dispatch EXCEPT !.place = @ + 1, !.attempt = 1,
                                          !.tried = Tried(answer)]
    /\ UNCHANGED <<request, phase, decision, graph, bundle, files, now, results, verdict,
                   writes, learned>>

(* The task ends with this answer; only a success lets the next one run.   *)
FinishDispatch ==
    /\ phase = "dispatch"
    /\ \E answer \in AdapterAnswers(Worker, dispatch.requested), at \in now..(now + 1) :
          /\ ~ TriesAgain(answer) /\ ~ HandsOn(answer)
          /\ at \in DOMAIN files
          /\ results' = Append(results, [task |-> dispatch.task, requested |-> dispatch.requested,
                                         executed |-> Worker, answer |-> answer,
                                         tried |-> Tried(answer)])
          /\ graph' = UpdateTaskStatus(graph, dispatch.task,
                          IF answer.status = "success" THEN "completed" ELSE "failed")
          /\ LET saved == RecordDispatch(bundle, dispatch.task, dispatch.requested, Worker,
                                         answer.status, at)
             IN  /\ files' = [files EXCEPT ![at] = saved]
                 /\ bundle' = RecordEvents(SetSessionStatus(saved, "active"), 1)
          /\ now' = at
          /\ phase' = IF answer.status = "success" THEN "plan" ELSE "gate"
    /\ dispatch' = None
    /\ UNCHANGED <<request, decision, verdict, writes, learned>>

(* All tasks are done. *)
EndOfWork ==
    /\ phase = "plan"
    /\ ReadyExecutionTasks(graph) = {} /\ results # <<>>
    /\ phase' = "gate"
    /\ UNCHANGED <<request, decision, graph, bundle, files, now, dispatch, results, verdict,
                   writes, learned>>

-----------------------------------------------------------------------------
(* Verification. *)

(* mergeWorkerResults. *)
Answers == {results[i].answer : i \in DOMAIN results}

(* Mutant: a result that asks for another try is taken for none that       *)
(* failed.                                                                 *)
MergedNotFailed == \A a \in Answers : a.status # "failed"

MergedSuccess == \A a \in Answers : a.status = "success"

(* The checks of all results, one of them without any standing in for its  *)
(* status, and the checklist of the playbook over the merged evidence.     *)
AllChecksPass ==
    /\ \A a \in Answers : a.checks # "failed"
    /\ (\A a \in Answers : a.checks = "none") => MergedSuccess
    /\ \E a \in Answers : a.proof
    /\ (\E a \in Answers : a.checks # "none") \/ request.data = "selected"

BeginVerification ==
    /\ phase = "gate"
    /\ bundle' = StartWorkerTask(bundle, "verification_gate", "verifier")
    /\ phase' = "verify"
    /\ UNCHANGED <<request, decision, graph, files, now, dispatch, results, verdict, writes,
                   learned>>

Review ==
    /\ phase = "verify"
    /\ verdict' = IF MergedSuccess /\ AllChecksPass THEN "verified_complete"
                  ELSE "verification_failed"
    /\ bundle' = RecordEvents(bundle, 1)
    /\ phase' = "save"
    /\ UNCHANGED <<request, decision, graph, files, now, dispatch, results, writes, learned>>

Write(action) == writes' = Append(writes, action)

SaveOutcome ==
    /\ phase = "save"
    /\ Write("save_outcome")
    /\ phase' = "start"
    /\ UNCHANGED <<request, decision, graph, bundle, files, now, dispatch, results, verdict,
                   learned>>

StartVerification ==
    /\ phase = "start"
    /\ Write("start_verification")
    /\ phase' = "complete"
    /\ UNCHANGED <<request, decision, graph, bundle, files, now, dispatch, results, verdict,
                   learned>>

Verified == verdict = "verified_complete"

(* Mutant: the gate is passed whatever the verdict.                        *)
GraphAfterVerdictOpen ==
    UpdateTaskStatus(UpdateTaskStatus(graph, "verification_gate", "completed"),
                     "final_report", "completed")

(* The gate takes the verdict; the report is completed whatever it is. *)
GraphAfterVerdict ==
    LET gated == UpdateTaskStatus(graph, "verification_gate",
                                  IF Verified THEN "completed" ELSE "failed")
    IN  UpdateTaskStatus(gated, "final_report", "completed")

CheckpointVerification(b, at) ==
    CreateCheckpoint(CompleteWorkerTask(b, IF Verified THEN "success" ELSE "needs_retry"),
                     "verification_gate", ~ Verified, at)

RestoredAfter(b, checkpointFiles) ==
    IF Verified \/ LatestRestorableCheckpoints(b) = {} THEN b
    ELSE RestoreCheckpoint(b, checkpointFiles,
                           CHOOSE c \in LatestRestorableCheckpoints(b) : TRUE)

ReportAndFinalize(b, checkpointFiles) ==
    Finalize(RecordFinalReport(RestoredAfter(b, checkpointFiles)),
             IF Verified THEN "completed" ELSE "failed")

(* From the brain's answer to the end of the session, without an await. *)
CompleteVerification ==
    /\ phase = "complete"
    /\ Write("complete_verification")
    /\ graph' = GraphAfterVerdict
    /\ \E at \in now..(now + 1) :
          /\ at \in DOMAIN files
          /\ now' = at
          /\ files' = [files EXCEPT ![at] = CheckpointVerification(bundle, at)]
          /\ bundle' = ReportAndFinalize(CheckpointVerification(bundle, at), files')
    /\ phase' = IF Verified THEN "procedure" ELSE "lesson"
    /\ UNCHANGED <<request, decision, dispatch, results, verdict, learned>>

-----------------------------------------------------------------------------
(* Learning. *)

(* A procedure is proposed once three missions of the kind are verified    *)
(* and none is active, which is a choice here, and likewise a transfer to  *)
(* another domain.                                                         *)
ProposeProcedure ==
    /\ phase = "procedure"
    /\ Write("capture_learning") \/ UNCHANGED writes
    /\ phase' = "transfer"
    /\ UNCHANGED <<request, decision, graph, bundle, files, now, dispatch, results, verdict,
                   learned>>

ProposeTransfer ==
    /\ phase = "transfer"
    /\ Write("capture_learning") \/ UNCHANGED writes
    /\ Return
    /\ UNCHANGED <<request, decision, graph, bundle, files, now, dispatch, results, verdict,
                   learned>>

SaveFailure ==
    /\ phase = "lesson"
    /\ Write("save_failure")
    /\ Return
    /\ UNCHANGED <<request, decision, graph, bundle, files, now, dispatch, results, verdict,
                   learned>>

(* A request to the brain fails and the run throws; a failed answer of a   *)
(* responder or reasoner is the caller's own.                              *)
BrainFails ==
    /\ CanFail
    /\ phase \in {"route", "remember", "answer", "save", "start", "complete", "procedure",
                  "transfer", "lesson"}
    /\ phase = "remember" => ~ request.unclear /\ request.said > 0
    /\ phase' = "thrown"
    /\ UNCHANGED <<request, decision, graph, bundle, files, now, dispatch, results, verdict,
                   writes, learned>>

(* Every stretch sends events; to a client that is gone this throws.  In a *)
(* worker it is the adapter that throws, which the fabric survives.        *)
ObserverFails ==
    /\ CanLeave
    /\ phase \notin {"backoff", "returned", "thrown"}
    /\ phase = "dispatch" => dispatch.tried = <<>> /\ dispatch.attempt = 1
    /\ phase' = "thrown"
    /\ UNCHANGED <<request, decision, graph, bundle, files, now, dispatch, results, verdict,
                   writes, learned>>

Ended == phase \in {"returned", "thrown"}

(* The run is over. *)
Rest == Ended /\ UNCHANGED vars

Step ==
    \/ Route \/ CompileBrief
    \/ StopBeforeWork \/ LearnOwnerFact \/ FinishMemoryUpdate \/ AnswerChat
    \/ DispatchWorker \/ RetryWorker \/ WaitBeforeRetry \/ FallBack \/ FinishDispatch
    \/ EndOfWork
    \/ BeginVerification \/ Review \/ SaveOutcome \/ StartVerification
    \/ CompleteVerification
    \/ ProposeProcedure \/ ProposeTransfer \/ SaveFailure
    \/ BrainFails \/ ObserverFails

Next == Step \/ Rest

Spec == Init /\ [][Next]_vars

(* Every await of a run is bounded: requests, timers and, as far as the    *)
(* process layer keeps its promise, workers.                               *)
FairSpec == Spec /\ WF_vars(Step)

-----------------------------------------------------------------------------
(* Types. *)

Phases == {"route", "compile", "stop", "remember", "answer", "plan", "dispatch", "backoff",
           "gate", "verify", "save", "start", "complete", "procedure", "transfer", "lesson",
           "returned", "thrown"}

(* The locals of ManagerRuntime.run, the bundle of the spine and every     *)
(* checkpoint file have the shape of their types in manager/types.ts,      *)
(* manager/graph.ts and runtime/types.ts.                                  *)
TypeOK ==
    /\ request \in Requests
    /\ phase \in Phases
    /\ decision \in Decision
    /\ DOMAIN graph \subseteq NodeIds
    /\ \A n \in DOMAIN graph : graph[n] \in TaskNode
    /\ bundle \in Bundle \cup {NoBundle}
    /\ files \in [0..Horizon -> Bundle \cup {NoBundle}]
    /\ now \in 0..Horizon
    /\ dispatch \in Dispatch \cup {None}
    /\ results \in Seq(Result)
    /\ verdict \in Verdicts \cup {None}
    /\ writes \in Seq({"save_outcome", "start_verification", "complete_verification",
                       "capture_learning", "save_failure"})
    /\ learned \in 0..2

-----------------------------------------------------------------------------
(* Safety. *)

(* No worker runs for a dry run, an ambiguous goal, an incomplete brief,   *)
(* a required fact that is missing or disputed, a blocked input, or a      *)
(* message to remember that nobody forced into a mission: none of the      *)
(* later decisions of a run undoes the refusal of an earlier one.  And a   *)
(* mission that may execute finds a first task that is ready.              *)
DispatchIsWarranted ==
    /\ dispatch # None \/ results # <<>> =>
          /\ ~ request.dry /\ ~ request.ambiguous /\ ~ request.thin
          /\ request.facts = {} /\ request.data # "blocked"
          /\ request.routed = "chat_memory_update" => request.force
    /\ phase = "plan" /\ results = <<>> => ReadyExecutionTasks(graph) # {}

(* Zero false completes (docs/roadmap/master-plan.md): a session that ends *)
(* as completed after work has every planned task completed, each by a     *)
(* worker that said so, and no check of any of them failed.                *)
NoFalseComplete ==
    bundle # NoBundle /\ bundle.status = "completed" /\ decision.should_execute =>
        /\ \A i \in DOMAIN OrderedWorkers : graph[WorkNodes[i]].status = "completed"
        /\ Len(results) = Len(OrderedWorkers)
        /\ \A i \in DOMAIN results : /\ results[i].answer.status = "success"
                                     /\ results[i].answer.checks # "failed"

(* The two records of a run agree once it has its verdict: the session     *)
(* holds one closed task for each task that was dispatched and one for the *)
(* verifier, each of the outcome that its node in the graph has.  The      *)
(* graph is kept by the manager, the session goes through a restore.  The  *)
(* final report is on record then, and never before the verdict            *)
(* (docs/contracts-freeze.md).                                             *)
SessionAgreesWithGraph ==
    /\ bundle # NoBundle /\ bundle.report => verdict # None
    /\ phase \in {"procedure", "transfer", "lesson"}
       \/ (phase = "returned" /\ results # <<>>) =>
        /\ bundle.report
        /\ Len(bundle.worker_tasks) = Len(results) + 1
        /\ \A t \in DOMAIN bundle.worker_tasks :
              LET task == bundle.worker_tasks[t]
              IN  /\ task.status # "running"
                  /\ task.status = "success" <=> graph[task.task].status = "completed"
                  /\ t <= Len(results) => /\ task.task = results[t].task
                                          /\ task.worker = results[t].executed

(* A task that a worker carried out, with whatever result, or broke off    *)
(* with an exception at last, is handed to no other worker; one that is    *)
(* handed on after an outage had all its attempts, but for Claude's.  No   *)
(* worker gets more than three (plan.md, Step 12), or the task twice.      *)
OneWorkerPerTask ==
    \A i \in DOMAIN results :
        LET tried == results[i].tried
        IN  \A j, k \in DOMAIN tried :
                /\ tried[j].attempts <= 3
                /\ tried[j].worker = tried[k].worker => j = k
                /\ j < Len(tried) =>
                      /\ tried[j].kind \in {"unavailable", "missing_adapter"}
                      /\ tried[j].worker # "claude" /\ tried[j].kind = "unavailable" =>
                            tried[j].attempts = MaxAttempts

(* The restore of a checkpoint loses no task, no checkpoint and no report  *)
(* that was on record before it, also when two checkpoints were written in *)
(* the same millisecond and share a file.                                  *)
RecordsSurviveRestore ==
    [][bundle # NoBundle =>
          /\ bundle'.report \/ ~ bundle.report
          /\ Len(bundle'.checkpoints) >= Len(bundle.checkpoints)
          /\ \A t \in DOMAIN bundle.worker_tasks :
                /\ t \in DOMAIN bundle'.worker_tasks
                /\ bundle.worker_tasks[t].status # "running" =>
                      bundle'.worker_tasks[t] = bundle.worker_tasks[t]]_vars

(* A worker that stays unavailable is replaced by its own alternate        *)
(* (plan.md, Step 12), before the task is given up.  A shell in between,   *)
(* which has no command when another worker was asked for, breaks it.      *)
FallbackIsPreserved ==
    \A i \in DOMAIN results :
        LET workers == {results[i].tried[j].worker : j \in DOMAIN results[i].tried}
            alternates == FallbackOrder(results[i].requested)
        IN  /\ results[i].answer.status = "failed"
            /\ results[i].tried[1].kind = "unavailable"
            => \A a \in DOMAIN alternates : alternates[a] \in workers

-----------------------------------------------------------------------------
(* Liveness. *)

(* Every run returns or throws, whatever the workers and the brain do. *)
RunEnds == <>Ended
=============================================================================
