---------------------------- MODULE WorkerFabric ----------------------------
(***************************************************************************)
(* What the manager relies on when it gives a task to the fabric: every    *)
(* attempt is answered with one of the outcomes of its worker, or not at   *)
(* all; an outage is tried again and then handed on.  WorkerCalls          *)
(* implements it with the real adapters and their processes.               *)
(***************************************************************************)
EXTENDS WorkerAnswers

CONSTANT Tasks  \* who is asked (requested, preferred), and what WorkerCalls adds

ASSUME WorkerFabricAssumption ==
    \A t \in Tasks : t.preferred \in Seq({"claude", "codex", "shell", "browser", "mail"})
                     /\ EachOnce(t.preferred)

VARIABLES
    task,     \* the task of this dispatch
    place,    \* of the present worker in the chain
    attempt,  \* of this worker
    stage,    \* of dispatchPrimary
    answer    \* what the dispatch ended with

fabric == <<task, place, attempt, stage, answer>>

Chain == PrimaryWorkerChain(task.requested, task.preferred)
Worker == Chain[place]

FabricInit ==
    /\ task \in Tasks
    /\ place = 1
    /\ attempt = 1
    /\ stage = "attempt"
    /\ answer = None

Retry(outcome) ==
    /\ Retries(Worker, attempt, outcome)
    /\ attempt' = attempt + 1
    /\ stage' = "backoff"
    /\ UNCHANGED <<task, place, answer>>

FallBack(outcome) ==
    /\ FallsBack(Chain, place, attempt, outcome)
    /\ place' = place + 1
    /\ attempt' = 1
    /\ UNCHANGED <<task, stage, answer>>

Finish(outcome) ==
    /\ ~ Retries(Worker, attempt, outcome)
    /\ ~ FallsBack(Chain, place, attempt, outcome)
    /\ answer' = outcome
    /\ stage' = "done"
    /\ UNCHANGED <<task, place, attempt>>

(* The adapter's promise is kept, with this outcome. *)
Answered(outcome) ==
    /\ stage = "attempt"
    /\ Retry(outcome) \/ FallBack(outcome) \/ Finish(outcome)

WaitBeforeRetry ==
    /\ stage = "backoff"
    /\ stage' = "attempt"
    /\ UNCHANGED <<task, place, attempt, answer>>

FabricNext ==
    \/ \E outcome \in Outcomes(Worker, task.requested) : Answered(outcome)
    \/ WaitBeforeRetry

FabricSpec == FabricInit /\ [][FabricNext]_fabric

=============================================================================
