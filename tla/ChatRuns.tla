------------------------------ MODULE ChatRuns ------------------------------
(***************************************************************************)
(* Chat messages that are processed in the background (chat/service.ts):   *)
(* the table of runs that the page polls (chat/page.ts), its pruning, and  *)
(* for each run the calls of Claude and Codex that triage and answer it    *)
(* (manager/reasoner.ts, manager/chat-responder.ts).                       *)
(*                                                                         *)
(* Time is kept as the age of each entry and the time left for each call.  *)
(* Timers fire when they are due, what is killed is gone before the next   *)
(* tick, the page polls more often than that, and between two calls a run  *)
(* is silent for at most Quiet ticks: requests to the brain answer or      *)
(* fail, and a mission reports what its workers do (ManagerRun).           *)
(***************************************************************************)
EXTENDS CliProcess, FiniteSets

CONSTANTS
    Run,            \* ids of runs
    TriageTimeout,  \* for a call that triages
    AnswerTimeout,  \* for a call that answers
    Quiet,          \* bounds the silence outside of calls
    Ttl,            \* entries that are older are pruned: runTtlMs
    MaxLines,       \* bounds the lines of a call
    Holders,        \* programs whose own children may hold their streams
    Absent          \* no entry

ASSUME ChatRunsAssumption ==
    /\ {TriageTimeout, AnswerTimeout, Quiet, Ttl} \subseteq Nat \ {0}
    /\ TriageTimeout <= Ttl /\ AnswerTimeout <= Ttl /\ Quiet <= Ttl
    /\ MaxLines \in Nat
    /\ Holders \subseteq {"claude", "codex"}

Calls == [triage_claude |-> [cli |-> "claude", timeout |-> TriageTimeout],
          triage_codex  |-> [cli |-> "codex",  timeout |-> TriageTimeout],
          answer_claude |-> [cli |-> "claude", timeout |-> AnswerTimeout],
          answer_codex  |-> [cli |-> "codex",  timeout |-> AnswerTimeout]]

Stages == {"idle", "brain", "routed", "mission", "over"} \cup DOMAIN Calls

VARIABLES
    runs,    \* the table: status, age since updated_at, final_answer
    stage,   \* where processRun stands
    child,   \* the process of the present call
    brain,   \* whether the goal needs the tools of the brain, so no Codex
    spoken,  \* history: the process of Claude's answer when its call ended
    page     \* what the page does about the run

vars == <<runs, stage, child, brain, spoken, page>>

Init ==
    /\ runs = [r \in Run |-> Absent]
    /\ stage = [r \in Run |-> "idle"]
    /\ child = [r \in Run |-> None]
    /\ brain \in [Run -> BOOLEAN]
    /\ spoken = [r \in Run |-> None]
    /\ page = [r \in Run |-> "idle"]

Ended == {"completed", "failed"}

(* final_answer: who answered, and with which line. *)
Answer(by, line) == [by |-> by, line |-> line]

FinalAnswer == [by : {"manager", "memory", "claude", "codex"}, line : Nat \cup {None}]

ChatRunSnapshot ==
    [status : {"running"} \cup Ended, age : 0..(Ttl + 1), answer : FinalAnswer \cup {None}]

Spoken == [process : Child, said : Nat \cup {None}]

ASSUME NullAssumption ==
    /\ None \notin Nat \cup Child \cup FinalAnswer \cup Spoken
    /\ Absent \notin ChatRunSnapshot

Template == Answer("manager", None)  \* or what the triage answered

Recalled == Answer("memory", None)

-----------------------------------------------------------------------------
(* The table. *)

(* pruneRuns looks at the age only, not at the status. *)
Pruned(table) ==
    [r \in Run |-> IF table[r] # Absent /\ table[r].age > Ttl THEN Absent ELSE table[r]]

(* Writes to an entry that was pruned are dropped. *)
Updated(r, status, answer) ==
    IF runs[r] = Absent THEN runs
    ELSE [runs EXCEPT ![r] = [status |-> status, age |-> 0, answer |-> answer]]

(* A trace event. *)
Reported(r) == Updated(r, "running", None)

StartRun(r) ==
    /\ stage[r] = "idle"
    /\ runs' = [Pruned(runs) EXCEPT ![r] = [status |-> "running", age |-> 0, answer |-> None]]
    /\ stage' = [stage EXCEPT ![r] = "brain"]
    /\ page' = [page EXCEPT ![r] = "following"]
    /\ UNCHANGED <<child, brain, spoken>>

(* A run outside of Run starts. *)
StartOther ==
    /\ runs' = Pruned(runs)
    /\ UNCHANGED <<stage, child, brain, spoken, page>>

Complete(r, answer) ==
    /\ runs' = Updated(r, "completed", answer)
    /\ stage' = [stage EXCEPT ![r] = "over"]
    /\ child' = [child EXCEPT ![r] = None]

Fail(r) ==
    /\ runs' = Updated(r, "failed", None)
    /\ stage' = [stage EXCEPT ![r] = "over"]
    /\ child' = [child EXCEPT ![r] = None]

(* GET /chat/api/runs/:id, every half second. *)
Poll(r) ==
    /\ page[r] = "following"
    /\ page' = [page EXCEPT ![r] = IF runs[r] = Absent THEN "lost"
                                   ELSE IF runs[r].status \in Ended THEN "answered" ELSE @]
    /\ UNCHANGED <<runs, stage, child, brain, spoken>>

-----------------------------------------------------------------------------
(* The manager. *)

(* Mutant: nothing is reported before the call.                            *)
CallSilently(r, call) ==
    /\ stage' = [stage EXCEPT ![r] = call]
    /\ child' = [child EXCEPT ![r] = Spawned(Calls[call].timeout)]
    /\ UNCHANGED runs

(* An event, and the program is started. *)
Call(r, call) ==
    /\ stage' = [stage EXCEPT ![r] = call]
    /\ child' = [child EXCEPT ![r] = Spawned(Calls[call].timeout)]
    /\ runs' = Reported(r)

(* A request to the brain failed, or a mission threw. *)
ManagerFails(r) ==
    /\ stage[r] \in {"brain", "routed", "mission"}
    /\ Fail(r)
    /\ UNCHANGED <<brain, spoken, page>>

Route(r) ==
    /\ runs' = Reported(r)
    /\ stage' = [stage EXCEPT ![r] = "routed"]
    /\ child' = [child EXCEPT ![r] = None]

(* A dry run is not triaged. *)
BeginTriage(r) ==
    /\ stage[r] = "brain"
    /\ Call(r, "triage_claude") \/ Route(r)
    /\ UNCHANGED <<brain, spoken, page>>

(* The decision, by whichever triage could be parsed or by the heuristic.  *)
(* Some chats need no call: what the triage answered, and facts to save.   *)
Decide(r) ==
    /\ stage[r] = "routed"
    /\ \/ Call(r, "answer_claude")
       \/ Complete(r, Template)
       \/ /\ stage' = [stage EXCEPT ![r] = "mission"]
          /\ runs' = Reported(r)
          /\ UNCHANGED child
    /\ UNCHANGED <<brain, spoken, page>>

MissionReports(r) ==
    /\ stage[r] = "mission"
    /\ runs' = Reported(r)
    /\ UNCHANGED <<stage, child, brain, spoken, page>>

MissionEnds(r) ==
    /\ stage[r] = "mission"
    /\ Complete(r, Template)
    /\ UNCHANGED <<brain, spoken, page>>

(* LocalCliManagerReasoner: Codex triages what Claude did not. *)
ContinueTriage(r, said) ==
    /\ \/ said # None /\ Route(r)
       \/ IF stage[r] = "triage_claude" THEN Call(r, "triage_codex") ELSE Route(r)
    /\ UNCHANGED spoken

(* Once the responder has answered the manager asks the brain for what the *)
(* owner told it, which replaces an answer that is of no use, and teaches  *)
(* the brain; either may fail.                                             *)
EndChat(r, answer) == Complete(r, answer) \/ Complete(r, Recalled) \/ Fail(r)

(* LocalCliChatResponder: an answer is contaminated if it talks about the  *)
(* project unasked.  Without an answer there is a template.                *)
ContinueClaude(r, c, said) ==
    /\ spoken' = [spoken EXCEPT ![r] = [process |-> c, said |-> said]]
    /\ \/ said # None /\ EndChat(r, Answer("claude", said))
       \/ IF ~ brain[r] THEN Call(r, "answer_codex")
          ELSE EndChat(r, IF said = None THEN Template ELSE Answer("claude", said))

ContinueCodex(r, said) ==
    LET claude == spoken[r].said
    IN  /\ \/ said # None /\ EndChat(r, Answer("codex", said))
           \/ EndChat(r, IF claude # None THEN Answer("claude", claude)
                          ELSE IF said # None THEN Answer("codex", said) ELSE Template)
        /\ UNCHANGED spoken

(* The call has ended with what the program said, or without. *)
Continue(r, c, said) ==
    CASE stage[r] \in {"triage_claude", "triage_codex"} -> ContinueTriage(r, said)
      [] stage[r] = "answer_claude" -> ContinueClaude(r, c, said)
      [] stage[r] = "answer_codex" -> ContinueCodex(r, said)

-----------------------------------------------------------------------------
(* The program and what its parent does about it. *)

Calling(r) == child[r] # None
Claude(r) == Calling(r) /\ Calls[stage[r]].cli = "claude"

(* The program cannot be started: without one the call says nothing,       *)
(* any other error fails the run.                                          *)
SpawnFails(r) ==
    /\ Calling(r) /\ child[r] = Spawned(Calls[stage[r]].timeout)
    /\ Continue(r, child[r], None) \/ (Fail(r) /\ UNCHANGED spoken)
    /\ UNCHANGED <<brain, page>>

WriteLine(r) ==
    /\ Calling(r) /\ CanWrite(child[r]) /\ Len(child[r].out) < MaxLines
    /\ \E line \in Line : child' = [child EXCEPT ![r] = Writes(@, line)]
    /\ UNCHANGED <<runs, stage, brain, spoken, page>>

Exit(r) ==
    /\ Calling(r) /\ ~ child[r].exited
    /\ \E code \in ExitCodes(child[r]), held \in BOOLEAN :
          /\ held => Calls[stage[r]].cli \in Holders
          /\ child' = [child EXCEPT ![r] = Exits(@, code, held)]
    /\ UNCHANGED <<runs, stage, brain, spoken, page>>

(* The last process that holds the streams is gone. *)
Release(r) ==
    /\ Calling(r) /\ child[r].held
    /\ child' = [child EXCEPT ![r].held = FALSE]
    /\ UNCHANGED <<runs, stage, brain, spoken, page>>

(* A line arrives.  Only answers are reported line by line. *)
Data(r) ==
    /\ Calling(r) /\ Unseen(child[r])
    /\ LET c == Sees(child[r])
       IN  IF Claude(r) /\ ResultArrives(c)
           THEN Continue(r, ForceKill(c), ExtractClaudeStreamAnswer(c))
           ELSE /\ child' = [child EXCEPT ![r] = c]
                /\ runs' = IF stage[r] \in {"answer_claude", "answer_codex"}
                           THEN Reported(r) ELSE runs
                /\ UNCHANGED <<stage, spoken>>
    /\ UNCHANGED <<brain, page>>

(* Mutant: the call waits for the streams, as runCommand does.             *)
TimeoutWaiting(r) ==
    /\ Calling(r) /\ Expired(child[r])
    /\ child' = [child EXCEPT ![r] = TimesOut(@)]
    /\ UNCHANGED <<runs, stage, spoken>>
    /\ UNCHANGED <<brain, page>>

(* Claude's call ends with what came so far, Codex's only has it killed. *)
Timeout(r) ==
    /\ Calling(r) /\ Expired(child[r])
    /\ LET c == TimesOut(child[r])
       IN  IF Claude(r) THEN Continue(r, c, ExtractClaudeStreamAnswer(c))
           ELSE /\ child' = [child EXCEPT ![r] = c]
                /\ UNCHANGED <<runs, stage, spoken>>
    /\ UNCHANGED <<brain, page>>

(* What runCodex makes of the output: the last message or all of it. *)
CodexSaid(c) ==
    IF ~ CommandSucceeded(c) THEN None
    ELSE IF ExtractCodexStreamMessage(c) # None THEN ExtractCodexStreamMessage(c)
    ELSE IF c.seen > 0 THEN c.seen ELSE None

Close(r) ==
    /\ Calling(r) /\ Closed(child[r])
    /\ Continue(r, child[r], IF Claude(r) THEN ExtractClaudeStreamAnswer(child[r])
                             ELSE CodexSaid(child[r]))
    /\ UNCHANGED <<brain, page>>

(* Timers are on time, a process is gone and its streams are closed by the *)
(* tick after its timeout, unless they are held, and the page has polled.  *)
Tick ==
    /\ \A r \in Run : /\ Calling(r) => ~ Expired(child[r])
                      /\ Calling(r) /\ child[r].timedOut => child[r].exited /\ child[r].held
                      /\ page[r] = "following" /\ runs[r] # Absent => runs[r].status \notin Ended
                      /\ stage[r] \in {"brain", "routed", "mission"} /\ runs[r] # Absent =>
                            runs[r].age < Quiet
    /\ runs' = [r \in Run |->
                   IF runs[r] = Absent THEN Absent
                   ELSE [runs[r] EXCEPT !.age = IF @ > Ttl THEN @ ELSE @ + 1]]
    /\ child' = [r \in Run |->
                    IF Calling(r) /\ child[r].left > 0
                    THEN [child[r] EXCEPT !.left = @ - 1] ELSE child[r]]
    /\ UNCHANGED <<stage, brain, spoken, page>>

Next ==
    \/ Tick
    \/ StartOther
    \/ \E r \in Run :
          \/ StartRun(r) \/ Poll(r)
          \/ BeginTriage(r) \/ Decide(r) \/ MissionReports(r) \/ MissionEnds(r)
          \/ ManagerFails(r)
          \/ SpawnFails(r) \/ WriteLine(r) \/ Exit(r) \/ Release(r)
          \/ Data(r) \/ Timeout(r) \/ Close(r)

Spec == Init /\ [][Next]_vars

(* Nothing is assumed of the programs: they may hang.  What is killed      *)
(* exits, what was written arrives, timers fire, requests and missions     *)
(* end, and the page keeps polling.                                        *)
Fairness ==
    /\ WF_vars(Tick)
    /\ \A r \in Run :
          /\ WF_vars(Poll(r))
          /\ WF_vars(BeginTriage(r)) /\ WF_vars(Decide(r)) /\ WF_vars(MissionEnds(r))
          /\ WF_vars(Calling(r) /\ child[r].killed /\ Exit(r))
          /\ WF_vars(Data(r)) /\ WF_vars(Timeout(r)) /\ WF_vars(Close(r))

FairSpec == Spec /\ Fairness

-----------------------------------------------------------------------------
(* Types. *)

(* A process exactly while a call is in progress.                          *)
TypeOK ==
    /\ runs \in [Run -> ChatRunSnapshot \cup {Absent}]
    /\ stage \in [Run -> Stages]
    /\ child \in [Run -> Child \cup {None}]
    /\ \A r \in Run : /\ Calling(r) <=> stage[r] \in DOMAIN Calls
                      /\ Calling(r) => child[r].seen <= Len(child[r].out)
    /\ brain \in [Run -> BOOLEAN]
    /\ spoken \in [Run -> Spoken \cup {None}]
    /\ page \in [Run -> {"idle", "following", "answered", "lost"}]

-----------------------------------------------------------------------------
(* Safety. *)

(* The pruning of the table, which looks at nothing but the age, never     *)
(* drops a run that is still in progress: whatever its programs do, they   *)
(* end or are ended before the entry is too old.                           *)
InProgressIsKept ==
    \A r \in Run : stage[r] \notin {"idle", "over"} => runs[r] # Absent

(* What Claude said before its call ended is not lost: the template is the *)
(* answer only if no line could be parsed, and if Claude is the one that   *)
(* answers, it is with its first result, or else with its last text.       *)
ClaudeIsHeard ==
    \A r \in Run :
        runs[r] # Absent /\ runs[r].status = "completed" /\ spoken[r] # None =>
            LET c == spoken[r].process
                results == Parsed(c, "result")
                texts == Parsed(c, "text")
            IN  /\ results \cup texts # {} => runs[r].answer # Template
                /\ \A i \in 1..Len(c.out) :
                      runs[r].answer = Answer("claude", i) =>
                          /\ i \in results => \A j \in results : i <= j
                          /\ i \in texts => results = {} /\ \A j \in texts : j <= i
                          /\ i \in results \cup texts

-----------------------------------------------------------------------------
(* Liveness. *)

(* The page that follows a run sees its end, also if Claude hangs, or dies *)
(* and leaves processes behind that hold its streams.                      *)
FollowedRunEnds ==
    \A r \in Run : page[r] = "following" ~> page[r] = "answered"
=============================================================================
