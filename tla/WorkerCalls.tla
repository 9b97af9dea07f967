---------------------------- MODULE WorkerCalls -----------------------------
(***************************************************************************)
(* One task in the worker fabric with the adapters of the repository       *)
(* (manager/adapters/claude-cli.ts, codex-cli.ts, shell-cli.ts, browser.ts,*)
(* mail.ts): the processes that the command line workers are, what they    *)
(* write, how they end, and what the adapter concludes from it.            *)
(*                                                                         *)
(* All of them wait for the streams of the process to close.  Claude       *)
(* writes its one result on stdout, Codex a stream of messages and the     *)
(* last of them into a file, the shell the output of the command.  What a  *)
(* message says is its report: a status in the JSON that was asked for,    *)
(* other JSON, or prose.  A message may also contain the words by which    *)
(* the adapters recognise that an account has hit its limit; that Codex's  *)
(* are looked for in the first and the last 8000 characters only is left   *)
(* out.                                                                    *)
(*                                                                         *)
(* Before and after its work an adapter sends an event to whoever follows  *)
(* the run.  Of a client of /chat/api/message/stream that has gone away    *)
(* this throws (http/app.ts), inside the adapter.                          *)
(***************************************************************************)
EXTENDS WorkerFabric, FiniteSets

INSTANCE CliProcess

CONSTANTS
    MaxMessages,   \* of one process
    CountsTimeout  \* whether a report that a killed process wrote counts as work done

Statuses == {"success", "needs_retry", "failed"}
Reports == Statuses \cup {"other", "prose"}

(* Whatever a process may write, and the processes.                        *)
AnyMessage ==
    [kind : {"error", "result", "text"}, form : {"ended", "cut"},
     report : Reports, limit : BOOLEAN]

Process ==
    [exited : BOOLEAN, code : {0, 1, None}, killed : BOOLEAN, held : BOOLEAN,
     out : Seq(AnyMessage), seen : Nat, left : Nat, timedOut : BOOLEAN]

ASSUME WorkerCallsAssumption ==
    /\ MaxMessages \in Nat
    /\ CountsTimeout \in BOOLEAN
    /\ None \notin FailureKinds \cup Reports \cup {"nothing"} /\ None \notin Process
    /\ None \notin [status : Statuses, kind : FailureKinds \cup {None}]   \* an answer
    /\ \A t \in Tasks :
          /\ t.noteOnly \in BOOLEAN   \* nothing but a note is expected
          /\ t.command \in BOOLEAN    \* a shell command was found in the goal
          /\ t.mentions \in BOOLEAN   \* the task itself is about limits

VARIABLES
    child,  \* the process of the present call, None between calls
    file,   \* Codex's last message: not written, empty ("nothing") or its report
    client, \* who follows the run: listens, or is gone
    spoke,  \* history: the last message of the process that was waited for last,
            \* if no worker without a process has answered since
    done    \* history: the attempts that carried the task out

vars == <<fabric, child, file, client, spoke, done>>

Init ==
    /\ FabricInit
    /\ child = None
    /\ file = None
    /\ client = "listens"
    /\ spoke = "nothing"
    /\ done = 0

-----------------------------------------------------------------------------
(* What a process says. *)

(* Where the messages that are no errors are in the output. *)
Said(c) == {i \in DOMAIN c.out : c.out[i].kind # "error"}

(* The report of the last message that came whole. *)
LastReport(c) ==
    LET whole == {i \in Said(c) : c.out[i].form = "ended"}
    IN  IF whole = {} THEN "nothing" ELSE c.out[Last(whole)].report

(* Output as a whole: it parses if it is one message that came whole. *)
OutputReport(c) ==
    CASE Said(c) = {} -> "nothing"
      [] \E i \in Said(c) : Said(c) = {i} /\ c.out[i].form = "ended" -> LastReport(c)
      [] OTHER -> "prose"

(* detectClaudeProviderIssue and detectCodexProviderIssue look for words   *)
(* in all that was written, errors and results alike.                      *)
LimitSeen(c) == \E i \in DOMAIN c.out : c.out[i].limit

ErrorMessages == [kind : {"error"}, form : {"ended"}, report : {"prose"}, limit : BOOLEAN]

(* Only a task about limits is answered in words that mention one. *)
Messages ==
    ErrorMessages
    \cup [kind : {IF Worker = "claude" THEN "result" ELSE "text"}, form : {"ended", "cut"},
          report : Reports, limit : {FALSE, task.mentions}]

-----------------------------------------------------------------------------
(* What the adapters conclude. *)

(* buildFreeformFallback: any text will do for a note. *)
Freeform(report) ==
    IF task.noteOnly /\ report # "nothing" THEN Reported("success") ELSE Reported("failed")

(* Claude: JSON without a known status counts as failed.                   *)
ClaudeResult(report) ==
    CASE report \in Statuses -> Reported(report)
      [] report = "other" -> Reported("failed")
      [] OTHER -> Freeform(report)

ClaudeAnswer(c) ==
    IF c.code = 0 THEN ClaudeResult(OutputReport(c))
    ELSE IF LimitSeen(c) \/ c.timedOut \/ c.out = <<>> THEN Failed("unavailable")
    ELSE Failed("task_failed")

(* Mutant: the first message of the stream is taken for the last.          *)
PreferredReportEarly(c) ==
    IF Said(c) # {} /\ c.out[First(Said(c))].form = "ended" THEN c.out[First(Said(c))].report
    ELSE IF file # None THEN file ELSE "nothing"

(* The file, or else the output as it is; of an output without a last      *)
(* message the last one in the stream.                                     *)
PreferredReport(c) ==
    CASE file \notin {None, "nothing"} -> file
      [] file = "nothing" /\ LastReport(c) # "nothing" -> LastReport(c)
      [] OTHER -> IF c.out = <<>> THEN "nothing" ELSE "prose"

CodexAnswer(c) ==
    IF LimitSeen(c) THEN Failed("unavailable")
    ELSE IF PreferredReport(c) \in Statuses THEN Reported(PreferredReport(c))
    ELSE IF c.code = 0 THEN Freeform(PreferredReport(c))
    ELSE Failed("task_failed")

(* Mutant: a command that takes too long counts as an outage.              *)
ShellAnswerUnavailable(c) ==
    IF CommandSucceeded(c)
    THEN CASE OutputReport(c) \in Statuses -> Reported(OutputReport(c))
           [] OutputReport(c) = "other" -> Reported("failed")
           [] OTHER -> Reported("success")
    ELSE Failed(IF c.timedOut THEN "unavailable" ELSE "task_failed")

(* A command need not report anything. *)
ShellAnswer(c) ==
    IF CommandSucceeded(c)
    THEN CASE OutputReport(c) \in Statuses -> Reported(OutputReport(c))
           [] OutputReport(c) = "other" -> Reported("failed")
           [] OTHER -> Reported("success")
    ELSE Failed("task_failed")

AnswerOf(c) ==
    CASE Worker = "claude" -> ClaudeAnswer(c)
      [] Worker = "codex" -> CodexAnswer(c)
      [] Worker = "shell" -> ShellAnswer(c)

-----------------------------------------------------------------------------
(* The calls. *)

HasCommand == Worker = "shell" => task.requested = "shell" /\ task.command
NeedsProcess == Worker \in Adapters \cap {"claude", "codex", "shell"} /\ HasCommand

(* A worker that is asked, and starts with an event. *)
Starts == stage = "attempt" /\ child = None /\ Worker \in Adapters /\ HasCommand

(* The event of the start cannot be delivered, and nothing is started. *)
StartUnheard ==
    /\ Starts /\ client = "gone"
    /\ Answered(Failed("runtime_error"))
    /\ UNCHANGED <<child, file, client, spoke, done>>

(* Mutant: the event of the start is sent without waiting for it.          *)
SpawnUnasked ==
    /\ Starts /\ NeedsProcess
    /\ child' = Spawned(0)
    /\ file' = None
    /\ UNCHANGED <<fabric, client, spoke, done>>

Spawn ==
    /\ Starts /\ client = "listens"
    /\ NeedsProcess
    /\ child' = Spawned(0)
    /\ file' = None
    /\ UNCHANGED <<fabric, client, spoke, done>>

(* Of a program that is missing the adapters of Claude and Codex say so;   *)
(* any other error, and the shell's, is thrown.                            *)
SpawnFails ==
    /\ Starts /\ client = "listens"
    /\ NeedsProcess
    /\ \E kind \in {"runtime_error"} \cup IF Worker = "shell" THEN {} ELSE {"unavailable"} :
          Answered(Failed(kind))
    /\ UNCHANGED <<child, file, client, spoke, done>>

(* No adapter, or a shell without a command. *)
NotAsked ==
    /\ Worker \notin Adapters \/ ~ HasCommand
    /\ Answered(Failed(IF Worker \notin Adapters THEN "missing_adapter" ELSE "task_failed"))
    /\ UNCHANGED <<child, file, client, spoke, done>>

(* The manager's own workers.  Mail is read and drafted from files at      *)
(* once; the browser waits for its page, and the client may leave then.    *)
Browse ==
    /\ Starts /\ client = "listens" /\ Worker = "browser"
    /\ \E fetched \in BOOLEAN :
          /\ client' \in {"listens", "gone"}
          /\ Answered(IF client' = "gone" THEN Failed("runtime_error")
                      ELSE IF fetched THEN Reported("success") ELSE Failed("task_failed"))
          /\ done' = IF fetched THEN done + 1 ELSE done
    /\ spoke' = "nothing"
    /\ UNCHANGED <<child, file>>

HandleMail ==
    /\ Starts /\ client = "listens" /\ Worker = "mail"
    /\ \E outcome \in {Reported("success"), SendBlocked, Failed("runtime_error")} :
          /\ Answered(outcome)
          /\ done' = IF outcome = Reported("success") THEN done + 1 ELSE done
    /\ spoke' = "nothing"
    /\ UNCHANGED <<child, file, client>>

Leave ==
    /\ stage # "done" /\ client = "listens"
    /\ client' = "gone"
    /\ UNCHANGED <<fabric, child, file, spoke, done>>

Running == child # None

(* Only Codex says more than one thing, until its last message is written. *)
Speak ==
    /\ Running /\ CanWrite(child) /\ Len(child.out) < MaxMessages
    /\ \E message \in Messages :
          /\ message.kind # "error" /\ Said(child) # {} => Worker = "codex" /\ file = None
          /\ child' = Sees(Writes(child, message))
    /\ UNCHANGED <<fabric, file, client, spoke, done>>

WriteLastMessage ==
    /\ Running /\ CanWrite(child)
    /\ Worker = "codex" /\ file = None
    /\ file' = LastReport(child)
    /\ UNCHANGED <<fabric, child, client, spoke, done>>

(* An account at its limit. *)
Refused == \E i \in DOMAIN child.out : child.out[i].kind = "error" /\ child.out[i].limit

(* Codex ends well only with its last message written, and not when it was *)
(* refused.                                                                *)
Exit ==
    /\ Running /\ ~ child.exited
    /\ \E code \in ExitCodes(child), held \in BOOLEAN :
          /\ code = 0 /\ Worker = "codex" => file # None /\ ~ Refused
          /\ child' = Exits(child, code, held)
    /\ done' = IF /\ LastReport(child) = "success"
                  /\ child'.code = 0 \/ (CountsTimeout /\ child.killed)
               THEN done + 1 ELSE done
    /\ UNCHANGED <<fabric, file, client, spoke>>

(* The last process that holds the streams is gone. *)
Release ==
    /\ Running /\ child.held
    /\ child' = [child EXCEPT !.held = FALSE]
    /\ UNCHANGED <<fabric, file, client, spoke, done>>

Timeout ==
    /\ Running /\ Expired(child)
    /\ child' = TimesOut(child)
    /\ UNCHANGED <<fabric, file, client, spoke, done>>

(* What the adapter concludes is lost if its event cannot be delivered. *)
Close ==
    /\ Running /\ Closed(child)
    /\ Answered(IF client = "gone" THEN Failed("runtime_error") ELSE AnswerOf(child))
    /\ spoke' = LastReport(child)
    /\ child' = None
    /\ UNCHANGED <<file, client, done>>

Backoff == WaitBeforeRetry /\ UNCHANGED <<child, file, client, spoke, done>>

Rest == stage = "done" /\ UNCHANGED vars

Next ==
    \/ NotAsked \/ StartUnheard \/ Spawn \/ SpawnFails \/ Browse \/ HandleMail
    \/ Leave \/ Speak \/ WriteLastMessage \/ Exit \/ Release \/ Timeout \/ Close
    \/ Backoff \/ Rest

Spec == Init /\ [][Next]_vars

-----------------------------------------------------------------------------
(* Types. *)

(* A process exactly while an attempt waits for one, and answers of the    *)
(* shape of WorkerExecutionResult.                                         *)
TypeOK ==
    /\ task \in Tasks /\ place \in DOMAIN Chain /\ attempt \in 1..MaxAttempts
    /\ stage \in {"attempt", "backoff", "done"}
    /\ answer # None => answer.status \in Statuses /\ answer.kind \in FailureKinds \cup {None}
    /\ stage = "done" <=> answer # None
    /\ Running => child \in Process /\ stage = "attempt" /\ NeedsProcess
    /\ client \in {"listens", "gone"}
    /\ file \in Reports \cup {"nothing", None}
    /\ spoke \in Reports \cup {"nothing"}
    /\ done \in Nat

-----------------------------------------------------------------------------
(* Safety. *)

(* The adapters keep the fabric's contract: whatever a program writes,     *)
(* however it ends, and when it cannot be started, the attempt is answered *)
(* by one of the outcomes that ManagerRun assumes of that worker.          *)
KeepsFabric == FabricSpec

(* A worker whose last word was that it failed, or that the task is to be  *)
(* tried again, is not taken for a success, whatever it had said before    *)
(* and whatever its exit code.                                             *)
FailureIsHeard ==
    stage = "done" /\ answer.status = "success" => spoke \notin {"failed", "needs_retry"}

(* A task is carried out once: an attempt that did it, said so and ended   *)
(* well is not followed by one that does it again, as plan.md (Step 12)    *)
(* has a worker retried and replaced when it is unavailable only.  Also    *)
(* when its answer is lost with the client that followed the run: each     *)
(* retry then fails before it starts anything.                             *)
DoneOnce == done <= 1

=============================================================================
