---------------------------- MODULE RuntimeSpine ----------------------------
(***************************************************************************)
(* The record that one manager run keeps of its session                    *)
(* (runtime/spine.ts): the bundle in memory and the snapshot files of its  *)
(* checkpoints.  A file is named after the session and the millisecond, so *)
(* two checkpoints of one millisecond share it.                            *)
(* Events are counted; artifacts, except the final report, are left out.   *)
(***************************************************************************)
EXTENDS TaskGraph

CONSTANT NoBundle  \* chats open no session; a path nothing was written to

SessionStatuses == {"pending", "active", "checkpointed", "completed", "failed",
                    "aborted"}
WorkerTaskStatuses == {"running", "success", "needs_retry", "failed"}

(* The tasks and the labels of checkpoints are nodes of the graph. *)
WorkerTaskRun == [task : NodeIds, worker : ManagerWorkers \cup {"verifier"},
                  status : WorkerTaskStatuses]
Checkpoint == [label : NodeIds, restore_supported : BOOLEAN, at : Nat]

Bundle == [status : SessionStatuses, worker_tasks : Seq(WorkerTaskRun),
           checkpoints : Seq(Checkpoint), report : BOOLEAN, events : Nat]

ASSUME NoBundleAssumption == NoBundle \notin Bundle

Opened == [status |-> "pending", worker_tasks |-> <<>>, checkpoints |-> <<>>,
           report |-> FALSE, events |-> 0]

SetSessionStatus(b, status) == [b EXCEPT !.status = status]

RecordEvents(b, n) == [b EXCEPT !.events = @ + n]

OpenSession == SetSessionStatus(RecordEvents(Opened, 1), "active")

StartWorkerTask(b, task, worker) ==
    [b EXCEPT !.worker_tasks =
                  Append(@, [task |-> task, worker |-> worker, status |-> "running"]),
              !.events = @ + 1]

(* The task that was started last; it is the one that is completed.        *)
CompleteWorkerTask(b, status) ==
    [b EXCEPT !.worker_tasks[Len(b.worker_tasks)].status = status, !.events = @ + 1]

RecordCompletedProcess(b) == RecordEvents(b, 2)

CreateCheckpoint(b, label, restorable, at) ==
    [b EXCEPT !.checkpoints =
                  Append(@, [label |-> label, restore_supported |-> restorable, at |-> at]),
              !.status = "checkpointed",
              !.events = @ + 1]

(* Mutant: the search is not reversed.                                     *)
EarliestRestorableCheckpoints(b) ==
    {c \in DOMAIN b.checkpoints :
        /\ b.checkpoints[c].restore_supported
        /\ \A d \in DOMAIN b.checkpoints :
               b.checkpoints[d].restore_supported => c <= d}

LatestRestorableCheckpoints(b) ==
    {c \in DOMAIN b.checkpoints :
        /\ b.checkpoints[c].restore_supported
        /\ \A d \in DOMAIN b.checkpoints :
               b.checkpoints[d].restore_supported => d <= c}

(* The whole bundle is replaced by what the file holds.                    *)
RestoreCheckpoint(b, files, c) ==
    RecordEvents(SetSessionStatus(files[b.checkpoints[c].at], "active"), 1)

RecordFinalReport(b) == [b EXCEPT !.report = TRUE, !.events = @ + 1]

Finalize(b, status) == RecordEvents(SetSessionStatus(b, status), 1)

=============================================================================
