--------------------------- MODULE WorkerAnswers ----------------------------
(***************************************************************************)
(* What the adapters of the workers may answer (manager/adapters), and     *)
(* what the worker fabric makes of an answer (workers/fabric.ts): the      *)
(* chain of workers of a task, the retry and the fallback.                 *)
(***************************************************************************)
EXTENDS Naturals, Sequences

CONSTANTS
    Adapters,  \* the workers that have an adapter
    None       \* no kind of failure

MaxAttempts == 3  \* MAX_PRIMARY_RETRY_ATTEMPTS

(* unavailable: worker_unavailable and provider_unavailable, which nothing *)
(* tells apart.                                                            *)
FailureKinds == {"missing_adapter", "unavailable", "runtime_error", "task_failed"}

FallbackOrder(worker) ==
    CASE worker = "codex" -> <<"claude">>
      [] worker = "claude" -> <<"codex">>
      [] OTHER -> <<>>

(* No worker is preferred twice: the lists are made from sets. *)
EachOnce(workers) == \A i, j \in DOMAIN workers : workers[i] = workers[j] => i = j

(* Such a list without one of its workers: the ones before it stay where   *)
(* they are, the ones behind it move up.                                   *)
Without(workers, worker) ==
    IF \A i \in DOMAIN workers : workers[i] # worker THEN workers
    ELSE [i \in 1..(Len(workers) - 1) |->
             IF \A j \in 1..i : workers[j] # worker THEN workers[i] ELSE workers[i + 1]]

(* A worker, and the others that are preferred. *)
FirstOf(worker, preferred) == <<worker>> \o Without(preferred, worker)

(* The requested worker, those of the playbook and its own fallback, each  *)
(* worker once.                                                            *)
PrimaryWorkerChain(requested, preferred) ==
    LET first == FirstOf(requested, preferred)
        fallback == FallbackOrder(requested)
    IN  IF \E i \in DOMAIN first, j \in DOMAIN fallback : first[i] = fallback[j]
        THEN first ELSE first \o fallback

Failed(kind) == [status |-> "failed", kind |-> kind]

(* A report of the worker itself. *)
Reported(status) ==
    [status |-> status, kind |-> IF status = "failed" THEN "task_failed" ELSE None]

AnyReport == {Reported(status) : status \in {"success", "needs_retry", "failed"}}

(* The mail worker refuses to send. *)
SendBlocked == [status |-> "needs_retry", kind |-> "task_failed"]

(* A shell command is compiled into requests for the shell only. *)
Outcomes(worker, requested) ==
    IF worker \notin Adapters THEN {Failed("missing_adapter")}
    ELSE
    CASE worker = "shell" -> IF requested # "shell" THEN {Failed("task_failed")}
                             ELSE AnyReport \cup {Failed("runtime_error")}
      [] worker = "browser" -> {Reported("success"), Failed("task_failed"), Failed("runtime_error")}
      [] worker = "mail" -> {Reported("success"), SendBlocked, Failed("runtime_error")}
      [] OTHER -> AnyReport \cup {Failed("unavailable"), Failed("runtime_error")}

CanRetryOnSameWorker(worker, outcome) ==
    /\ outcome.status = "failed"
    /\ \/ outcome.kind = "runtime_error"
       \/ outcome.kind = "unavailable" /\ worker # "claude"

(* Mutant: any failure is passed on to the next worker.                    *)
CanFallbackAlways(outcome) == outcome.status = "failed"

CanFallback(outcome) ==
    outcome.status = "failed" /\ outcome.kind \in {"missing_adapter", "unavailable"}

Retries(worker, attempt, outcome) ==
    CanRetryOnSameWorker(worker, outcome) /\ attempt < MaxAttempts

FallsBack(chain, place, attempt, outcome) ==
    /\ ~ Retries(chain[place], attempt, outcome)
    /\ CanFallback(outcome)
    /\ place < Len(chain)

=============================================================================
