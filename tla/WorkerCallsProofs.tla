------------------------- MODULE WorkerCallsProofs --------------------------
(***************************************************************************)
(* Proofs about WorkerCalls, for every chain of workers and any number of  *)
(* messages of each process: the adapters implement the fabric's contract, *)
(* the last word of a process is heard, and, where no output mentions a    *)
(* limit by accident, a task is carried out once.                          *)
(***************************************************************************)
EXTENDS WorkerCalls, WellFoundedInduction, TLAPS

(* There is a process while an attempt waits for one.                      *)
ChildIsAwaited ==
    Running => child \in Process /\ stage = "attempt" /\ NeedsProcess

(* Only Codex says more than one thing.                                    *)
OneMessage ==
    Running /\ Worker # "codex" =>
        \A i, j \in Said(child) : i = j

(* Codex writes nothing more than errors after its last message, and does  *)
(* not end well without it.                                                *)
FileIsLast ==
    /\ file \in Reports \cup {"nothing", None}
    /\ Running /\ Worker = "codex" =>
           /\ file \notin {None, "nothing"} => file = LastReport(child)
           /\ child.exited /\ child.code = 0 => file # None

IInv == task \in Tasks /\ ChildIsAwaited /\ OneMessage /\ FileIsLast /\ FailureIsHeard

-----------------------------------------------------------------------------
(* Places.                                                                 *)

LEMMA MaximumExists ==
    ASSUME NEW n \in Nat, NEW S \in SUBSET (1..n), S # {}
    PROVE  \E i \in S : \A j \in S : i >= j
<1> DEFINE T == {n - i : i \in S}
           LessThan == {ss \in Nat \X Nat : ss[1] < ss[2]}
<1>1. T \subseteq Nat
  <2>1. \A i \in 1..n : n - i \in Nat
    OBVIOUS
  <2> QED BY <2>1
<1>2. T # {}
  OBVIOUS
<1>3. IsWellFoundedOn(LessThan, Nat)
  BY NatLessThanWellFounded DEF OpToRel
<1>4. \E x \in T : \A y \in T : <<y, x>> \notin LessThan
  <2> HIDE DEF T, LessThan
  <2> QED BY <1>1, <1>2, <1>3, WFMin
<1>5. PICK i \in S : \A y \in T : <<y, n - i>> \notin LessThan
  BY <1>4
<1>6. ASSUME NEW j \in S PROVE i >= j
  <2>1. n - j \in T /\ n - j \in Nat /\ n - i \in Nat
    BY <1>1
  <2>2. ~ (n - j < n - i)
    <3>1. <<n - j, n - i>> \notin LessThan
      BY <1>5, <2>1
    <3> HIDE DEF T
    <3> QED BY <2>1, <3>1
  <2> QED BY <2>2
<1> QED BY <1>6

LEMMA LastIsThere ==
    ASSUME NEW n \in Nat, NEW S \in SUBSET (1..n), S # {}
    PROVE  Last(S) \in S
BY MaximumExists DEF Last

(* The messages that came whole.                                           *)
Whole(c) == {i \in Said(c) : c.out[i].form = "ended"}

LEMMA WholeIsSaid ==
    ASSUME NEW c \in Process
    PROVE  /\ DOMAIN c.out = 1..Len(c.out)
           /\ Len(c.out) \in Nat
           /\ \A i \in DOMAIN c.out : c.out[i] \in AnyMessage
           /\ Said(c) \subseteq 1..Len(c.out)
           /\ Whole(c) \subseteq Said(c)
           /\ Whole(c) # {} => Last(Whole(c)) \in Whole(c)
<1>1. c.out \in Seq(AnyMessage)
  BY DEF Process
<1>2. /\ DOMAIN c.out = 1..Len(c.out) /\ Len(c.out) \in Nat
      /\ \A i \in DOMAIN c.out : c.out[i] \in AnyMessage
  BY <1>1
<1>3. Said(c) \subseteq 1..Len(c.out) /\ Whole(c) \subseteq Said(c)
  BY <1>2 DEF Said, Whole
<1> QED BY <1>2, <1>3, LastIsThere

LEMMA LastReportType ==
    ASSUME NEW c \in Process
    PROVE  /\ LastReport(c) \in Reports \cup {"nothing"}
           /\ LastReport(c) = "nothing" <=> Whole(c) = {}
           /\ Whole(c) # {} => LastReport(c) = c.out[Last(Whole(c))].report
<1>1. LastReport(c) = IF Whole(c) = {} THEN "nothing" ELSE c.out[Last(Whole(c))].report
  BY DEF LastReport, Whole
<1>2. "nothing" \notin Reports
  BY DEF Reports, Statuses
<1>3. Whole(c) # {} => c.out[Last(Whole(c))].report \in Reports
  BY WholeIsSaid DEF AnyMessage
<1> QED BY <1>1, <1>2, <1>3

(* What a process has said changes by its output only.                     *)
LEMMA SameOutput ==
    ASSUME NEW c \in Process, NEW d \in Process, d.out = c.out
    PROVE  Said(d) = Said(c) /\ Whole(d) = Whole(c) /\ LastReport(d) = LastReport(c)
BY DEF Said, Whole, LastReport

LEMMA WriteType ==
    ASSUME NEW c \in Process, NEW m \in AnyMessage
    PROVE  /\ Sees(Writes(c, m)) \in Process
           /\ Sees(Writes(c, m)).out = Append(c.out, m)
           /\ Sees(Writes(c, m)).exited = c.exited
           /\ Sees(Writes(c, m)).code = c.code
<1> DEFINE out == Append(c.out, m)
<1>1. c.out \in Seq(AnyMessage) /\ c.seen \in Nat
  BY DEF Process
<1>2. out \in Seq(AnyMessage) /\ c.seen + 1 \in Nat
  BY <1>1
<1>3. Sees(Writes(c, m)) = [c EXCEPT !.out = out, !.seen = c.seen + 1]
  BY DEF Sees, Writes, Process
<1> HIDE DEF out
<1>4. /\ Sees(Writes(c, m)) \in Process
      /\ Sees(Writes(c, m)).out = out
      /\ Sees(Writes(c, m)).exited = c.exited
      /\ Sees(Writes(c, m)).code = c.code
  BY <1>2, <1>3 DEF Process
<1> QED BY <1>4 DEF out

LEMMA WriteSaid ==
    ASSUME NEW c \in Process, NEW d \in Process, NEW m \in AnyMessage,
           d.out = Append(c.out, m)
    PROVE  /\ m.kind = "error" => Said(d) = Said(c) /\ LastReport(d) = LastReport(c)
           /\ Said(c) = {} => \A i, j \in Said(d) : i = j
<1> DEFINE n == Len(c.out)
<1>1. c.out \in Seq(AnyMessage)
  BY DEF Process
<1>2. /\ n \in Nat
      /\ DOMAIN c.out = 1..n /\ DOMAIN d.out = 1..(n + 1)
      /\ \A i \in 1..n : d.out[i] = c.out[i]
      /\ d.out[n + 1] = m
  BY <1>1
<1>3. /\ \A i \in 1..n : i \in Said(d) <=> i \in Said(c)
      /\ n + 1 \in Said(d) <=> m.kind # "error"
      /\ Said(c) \subseteq 1..n
      /\ Said(d) \subseteq 1..(n + 1)
  BY <1>2 DEF Said
<1>4. CASE m.kind = "error"
  <2>1. Said(d) = Said(c)
    <3>1. \A i \in 1..(n + 1) : i \in Said(d) <=> i \in Said(c)
      <4>1. \A i \in 1..(n + 1) : i \in 1..n \/ i = n + 1
        BY <1>2
      <4> QED BY <4>1, <1>2, <1>3, <1>4
    <3>2. Said(c) \subseteq 1..(n + 1)
      BY <1>2, <1>3
    <3> QED BY <1>3, <3>1, <3>2
  <2>2. Whole(d) = Whole(c)
    BY <1>2, <1>3, <2>1 DEF Whole
  <2>3. Whole(c) # {} => Last(Whole(c)) \in 1..n
    BY <1>3, WholeIsSaid
  <2>4. LastReport(d) = LastReport(c)
    BY <1>2, <2>2, <2>3, LastReportType
  <2> QED BY <1>4, <2>1, <2>4
<1>5. CASE m.kind # "error"
  <2>1. Said(c) = {} => Said(d) \subseteq {n + 1}
    BY <1>2, <1>3
  <2> QED BY <1>5, <2>1
<1>6. Said(c) = {} => \A i, j \in Said(d) : i = j
  BY <1>2, <1>3
<1> QED BY <1>4, <1>5, <1>6

-----------------------------------------------------------------------------
(* Answers.                                                                *)

LEMMA OutputIsLast ==
    ASSUME NEW c \in Process, \A i, j \in Said(c) : i = j
    PROVE  /\ LastReport(c) # "nothing" => OutputReport(c) = LastReport(c)
           /\ LastReport(c) = "nothing" => OutputReport(c) \in {"nothing", "prose"}
<1>1. CASE Said(c) = {}
  <2>1. LastReport(c) = "nothing"
    BY <1>1, WholeIsSaid, LastReportType
  <2> QED BY <1>1, <2>1 DEF OutputReport
<1>2. CASE \E i \in Said(c) : Said(c) = {i} /\ c.out[i].form = "ended"
  <2>1. Said(c) # {} /\ Whole(c) # {}
    BY <1>2 DEF Whole
  <2>2. OutputReport(c) = LastReport(c)
    BY <1>2, <2>1 DEF OutputReport
  <2> QED BY <2>1, <2>2, LastReportType
<1>3. CASE Said(c) # {} /\ ~ \E i \in Said(c) : Said(c) = {i} /\ c.out[i].form = "ended"
  <2>1. Whole(c) = {}
    BY <1>3 DEF Whole
  <2>2. OutputReport(c) = "prose"
    BY <1>3 DEF OutputReport
  <2> QED BY <2>1, <2>2, LastReportType
<1> QED BY <1>1, <1>2, <1>3

(* The next attempt, the next worker or the end of the dispatch.           *)
LEMMA AnsweredSteps ==
    ASSUME NEW outcome, Answered(outcome)
    PROVE  /\ stage = "attempt" /\ task' = task
           /\ stage' = "done" => answer' = outcome
           /\ outcome.status # "failed" \/ outcome.kind = "task_failed" => stage' = "done"
BY DEF Answered, Retry, FallBack, Finish, Retries, FallsBack, CanRetryOnSameWorker,
       CanFallback

LEMMA SameWorker ==
    ASSUME task' = task, place' = place
    PROVE  Worker' = Worker /\ (NeedsProcess' <=> NeedsProcess)
<1>1. Worker' = Worker
  BY DEF Worker, Chain
<1> QED BY <1>1 DEF NeedsProcess, HasCommand

(* What a process that has ended leads to.                                 *)
LEMMA AnswerIsAllowed ==
    ASSUME IInv, Running, child.exited
    PROVE  /\ AnswerOf(child) \in Outcomes(Worker, task.requested)
           /\ Failed("runtime_error") \in Outcomes(Worker, task.requested)
           /\ AnswerOf(child).status = "success" =>
                  LastReport(child) \notin {"failed", "needs_retry"}
<1>1. /\ child \in Process /\ Worker \in Adapters
      /\ Worker \in {"claude", "codex", "shell"}
      /\ Worker = "shell" => task.requested = "shell"
      /\ task.noteOnly \in BOOLEAN
  BY WorkerCallsAssumption DEF IInv, ChildIsAwaited, NeedsProcess, HasCommand
<1>2. Failed("task_failed") = Reported("failed")
  BY DEF Failed, Reported
<1>3. \A report : Freeform(report) \in {Reported("success"), Reported("failed")}
                  /\ (report = "nothing" => Freeform(report) = Reported("failed"))
  BY DEF Freeform
<1>4. /\ Reported("success").status = "success"
      /\ Reported("failed").status = "failed"
      /\ Reported("needs_retry").status = "needs_retry"
      /\ \A kind : Failed(kind).status = "failed"
  BY DEF Reported, Failed
<1>5. LastReport(child) \in Reports \cup {"nothing"}
  BY <1>1, LastReportType
<1>6. CASE Worker = "claude"
  <2>1. \A i, j \in Said(child) : i = j
    BY <1>6 DEF IInv, OneMessage
  <2>2. AnswerOf(child) = ClaudeAnswer(child)
    BY <1>6 DEF AnswerOf
  <2>3. Outcomes(Worker, task.requested) =
            AnyReport \cup {Failed("unavailable"), Failed("runtime_error")}
    BY <1>1, <1>6 DEF Outcomes
  <2>4. CASE child.code = 0
    <3>1. ClaudeAnswer(child) = ClaudeResult(OutputReport(child))
      BY <2>4 DEF ClaudeAnswer
    <3>2. /\ OutputReport(child) \in Reports \cup {"nothing"}
          /\ OutputReport(child) # "prose" => OutputReport(child) = LastReport(child)
          /\ OutputReport(child) = "prose" => LastReport(child) \in {"prose", "nothing"}
      BY <1>1, <1>5, <2>1, OutputIsLast DEF Reports
    <3>3. CASE OutputReport(child) \in Statuses
      <4>1. ClaudeAnswer(child) = Reported(LastReport(child)) /\ LastReport(child) \in Statuses
        BY <3>1, <3>2, <3>3 DEF ClaudeResult, Statuses
      <4> QED BY <1>4, <2>2, <2>3, <4>1 DEF AnyReport, Statuses
    <3>4. CASE OutputReport(child) = "other"
      <4>1. ClaudeAnswer(child) = Reported("failed")
        BY <3>1, <3>4 DEF ClaudeResult, Statuses
      <4> QED BY <1>4, <2>2, <2>3, <4>1 DEF AnyReport
    <3>5. CASE OutputReport(child) \in {"prose", "nothing"}
      <4>1. ClaudeAnswer(child) = Freeform(OutputReport(child))
        BY <3>1, <3>5 DEF ClaudeResult, Statuses
      <4>2. LastReport(child) \in {"prose", "nothing"}
        BY <3>2, <3>5
      <4> QED BY <1>3, <1>4, <2>2, <2>3, <4>1, <4>2 DEF AnyReport
    <3> QED BY <3>2, <3>3, <3>4, <3>5 DEF Reports
  <2>5. CASE child.code # 0
    <3>1. ClaudeAnswer(child) \in {Failed("unavailable"), Failed("task_failed")}
      BY <2>5 DEF ClaudeAnswer
    <3> QED BY <1>2, <1>4, <2>2, <2>3, <3>1 DEF AnyReport
  <2> QED BY <2>3, <2>4, <2>5
<1>7. CASE Worker = "shell"
  <2>1. \A i, j \in Said(child) : i = j
    BY <1>7 DEF IInv, OneMessage
  <2>2. AnswerOf(child) = ShellAnswer(child)
    BY <1>7 DEF AnswerOf
  <2>3. Outcomes(Worker, task.requested) = AnyReport \cup {Failed("runtime_error")}
    BY <1>1, <1>7 DEF Outcomes
  <2>4. /\ OutputReport(child) \in Reports \cup {"nothing"}
        /\ OutputReport(child) # "prose" => OutputReport(child) = LastReport(child)
        /\ OutputReport(child) = "prose" => LastReport(child) \in {"prose", "nothing"}
    BY <1>1, <1>5, <2>1, OutputIsLast DEF Reports
  <2>5. CASE ~ CommandSucceeded(child)
    <3>1. ShellAnswer(child) = Reported("failed")
      BY <1>2, <2>5 DEF ShellAnswer
    <3> QED BY <1>4, <2>2, <2>3, <3>1 DEF AnyReport
  <2>6. CASE CommandSucceeded(child) /\ OutputReport(child) \in Statuses
    <3>1. ShellAnswer(child) = Reported(LastReport(child)) /\ LastReport(child) \in Statuses
      BY <2>4, <2>6 DEF ShellAnswer, Statuses
    <3> QED BY <1>4, <2>2, <2>3, <3>1 DEF AnyReport, Statuses
  <2>7. CASE CommandSucceeded(child) /\ OutputReport(child) \notin Statuses
    <3>1. /\ ShellAnswer(child) \in {Reported("failed"), Reported("success")}
          /\ LastReport(child) \notin {"failed", "needs_retry"}
      BY <1>5, <2>4, <2>7 DEF ShellAnswer, Statuses, Reports
    <3> QED BY <1>4, <2>2, <2>3, <3>1 DEF AnyReport
  <2> QED BY <2>5, <2>6, <2>7
<1>8. CASE Worker = "codex"
  <2>1. /\ file \in Reports \cup {"nothing", None}
        /\ file \notin {None, "nothing"} => file = LastReport(child)
        /\ child.code = 0 => file # None
    BY <1>8 DEF IInv, FileIsLast
  <2>2. AnswerOf(child) = CodexAnswer(child)
    BY <1>8 DEF AnswerOf
  <2>3. Outcomes(Worker, task.requested) =
            AnyReport \cup {Failed("unavailable"), Failed("runtime_error")}
    BY <1>1, <1>8 DEF Outcomes
  <2>4. /\ PreferredReport(child) \in Reports \cup {"nothing"}
        /\ PreferredReport(child) \in Statuses \/ child.code = 0 =>
               \/ PreferredReport(child) = LastReport(child)
               \/ LastReport(child) = "nothing" /\ PreferredReport(child) \in {"prose", "nothing"}
    <3>1. CASE file = None
      <4>1. file # "nothing" /\ PreferredReport(child) \in {"prose", "nothing"}
        BY <3>1, WorkerCallsAssumption DEF PreferredReport
      <4> QED BY <2>1, <3>1, <4>1 DEF Reports, Statuses
    <3>2. CASE file \notin {None, "nothing"}
      <4>1. PreferredReport(child) = file
        BY <3>2 DEF PreferredReport
      <4> QED BY <2>1, <3>2, <4>1
    <3>3. CASE file = "nothing" /\ file # None /\ LastReport(child) # "nothing"
      <4>1. PreferredReport(child) = LastReport(child)
        BY <3>3 DEF PreferredReport
      <4> QED BY <1>5, <4>1
    <3>4. CASE file = "nothing" /\ file # None /\ LastReport(child) = "nothing"
      <4>1. PreferredReport(child) \in {"prose", "nothing"}
        BY <3>4 DEF PreferredReport
      <4> QED BY <3>4, <4>1 DEF Reports, Statuses
    <3> QED BY <3>1, <3>2, <3>3, <3>4
  <2>5. CASE LimitSeen(child)
    BY <1>4, <2>2, <2>3, <2>5 DEF CodexAnswer
  <2>6. CASE ~ LimitSeen(child) /\ PreferredReport(child) \in Statuses
    <3>1. CodexAnswer(child) = Reported(LastReport(child)) /\ LastReport(child) \in Statuses
      BY <2>4, <2>6 DEF CodexAnswer, Statuses
    <3> QED BY <1>4, <2>2, <2>3, <3>1 DEF AnyReport, Statuses
  <2>7. CASE /\ ~ LimitSeen(child) /\ PreferredReport(child) \notin Statuses
             /\ child.code = 0
    <3>1. /\ CodexAnswer(child) \in {Reported("failed"), Reported("success")}
          /\ LastReport(child) \notin {"failed", "needs_retry"}
      BY <1>3, <2>4, <2>7 DEF CodexAnswer, Statuses
    <3> QED BY <1>4, <2>2, <2>3, <3>1 DEF AnyReport
  <2>8. CASE /\ ~ LimitSeen(child) /\ PreferredReport(child) \notin Statuses
             /\ child.code # 0
    <3>1. CodexAnswer(child) = Reported("failed")
      BY <1>2, <2>8 DEF CodexAnswer
    <3> QED BY <1>4, <2>2, <2>3, <3>1 DEF AnyReport
  <2> QED BY <2>5, <2>6, <2>7, <2>8
<1> QED BY <1>1, <1>6, <1>7, <1>8

-----------------------------------------------------------------------------
(* The invariant.                                                          *)

(* A process runs only for the attempt that waits for it, and the last     *)
(* thing it said is what its answer rests on.                              *)
THEOREM Invariance == Spec => []IInv
<1>1. Init => IInv
  <2> SUFFICES ASSUME Init PROVE IInv
    OBVIOUS
  <2>1. task \in Tasks /\ ~ Running /\ stage = "attempt" /\ file = None
    BY DEF Init, FabricInit, Running
  <2> QED BY <2>1 DEF IInv, ChildIsAwaited, OneMessage, FileIsLast, FailureIsHeard
<1>2. IInv /\ [Next]_vars => IInv'
  <2> SUFFICES ASSUME IInv, [Next]_vars PROVE IInv'
    OBVIOUS
  <2> USE DEF IInv
  <2>1. ASSUME UNCHANGED fabric, UNCHANGED <<child, file, spoke>> PROVE IInv'
    <3>1. Worker' = Worker /\ (NeedsProcess' <=> NeedsProcess)
      BY <2>1, SameWorker DEF fabric
    <3>2. LastReport(child)' = LastReport(child) /\ Said(child)' = Said(child)
      BY <2>1 DEF LastReport, Said
    <3> QED BY <2>1, <3>1, <3>2
        DEF fabric, ChildIsAwaited, OneMessage, FileIsLast, FailureIsHeard, Running
  <2>2. ASSUME NEW outcome, Answered(outcome), outcome.status # "success",
               child' = child, ~ Running, UNCHANGED file
        PROVE  IInv'
    <3>1. /\ stage = "attempt" /\ task' = task
          /\ stage' = "done" => answer' = outcome
      BY <2>2, AnsweredSteps
    <3>2. ~ Running' /\ FailureIsHeard'
      BY <2>2, <3>1 DEF Running, FailureIsHeard
    <3> QED BY <2>2, <3>1, <3>2 DEF ChildIsAwaited, OneMessage, FileIsLast
  <2>3. ASSUME NEW outcome, Answered(outcome), spoke' = "nothing",
               child' = child, ~ Running, UNCHANGED file
        PROVE  IInv'
    <3>1. task' = task
      BY <2>3, AnsweredSteps
    <3>2. ~ Running' /\ FailureIsHeard'
      BY <2>3 DEF Running, FailureIsHeard
    <3> QED BY <2>3, <3>1, <3>2 DEF ChildIsAwaited, OneMessage, FileIsLast
  (* The process of an attempt goes on.                                    *)
  <2>4. ASSUME UNCHANGED fabric, Running, child' \in Process,
               \A i, j \in Said(child') : Worker # "codex" => i = j, FileIsLast'
        PROVE  IInv'
    <3>1. Worker' = Worker /\ (NeedsProcess' <=> NeedsProcess)
      BY <2>4, SameWorker DEF fabric
    <3>2. Said(child)' = Said(child')
      BY DEF Said
    <3>3. FailureIsHeard'
      BY <2>4 DEF FailureIsHeard, ChildIsAwaited, fabric
    <3> QED BY <2>4, <3>1, <3>2, <3>3
        DEF fabric, ChildIsAwaited, OneMessage, Running
  <2>5. ASSUME UNCHANGED <<fabric, file>>, Running, child' \in Process,
               child'.out = child.out,
               child'.exited = child.exited /\ child'.code = child.code
        PROVE  IInv'
    <3>1. Worker' = Worker
      BY <2>5, SameWorker DEF fabric
    <3>2. Said(child') = Said(child) /\ LastReport(child') = LastReport(child)
      BY <2>5, SameOutput DEF ChildIsAwaited
    <3>3. LastReport(child)' = LastReport(child')
      BY DEF LastReport, Said
    <3>4. FileIsLast'
      BY <2>5, <3>1, <3>2, <3>3 DEF FileIsLast, Running
    <3> QED BY <2>4, <2>5, <3>2, <3>4 DEF OneMessage
  <2>6. \A kind : Failed(kind).status # "success"
    BY DEF Failed
  <2>7. CASE NotAsked
    <3>1. ~ Running
      BY <2>7 DEF NotAsked, ChildIsAwaited, NeedsProcess
    <3> QED BY <2>2, <2>6, <2>7, <3>1 DEF NotAsked
  <2>8. CASE StartUnheard
    BY <2>2, <2>6, <2>8 DEF StartUnheard, Starts, Running
  <2>9. CASE Spawn
    <3>1. Spawned(0) \in Process /\ Spawned(0).out = <<>> /\ ~ Spawned(0).exited
      BY DEF Spawned, Process
    <3>2. Said(Spawned(0)) = {}
      BY <3>1 DEF Said
    <3>3. /\ child' = Spawned(0) /\ file' = None /\ stage' = "attempt" /\ NeedsProcess
          /\ UNCHANGED <<fabric, spoke>>
      BY <2>9 DEF Spawn, Starts, fabric
    <3>4. Said(child)' = {}
      BY <3>2, <3>3 DEF Said
    <3>5. NeedsProcess'
      BY <3>3, SameWorker DEF fabric
    <3>6. ChildIsAwaited' /\ OneMessage' /\ FileIsLast'
      BY <3>1, <3>3, <3>4, <3>5 DEF ChildIsAwaited, OneMessage, FileIsLast
    <3> QED BY <3>3, <3>6 DEF FailureIsHeard, fabric
  <2>10. CASE SpawnFails
    BY <2>2, <2>6, <2>10 DEF SpawnFails, Starts, Running
  <2>11. CASE Browse
    BY <2>3, <2>11 DEF Browse, Starts, Running
  <2>12. CASE HandleMail
    BY <2>3, <2>12 DEF HandleMail, Starts, Running
  <2>13. CASE Leave
    BY <2>1, <2>13 DEF Leave
  <2>14. CASE Speak
    <3>1. PICK message \in Messages :
              /\ message.kind # "error" /\ Said(child) # {} => Worker = "codex" /\ file = None
              /\ child' = Sees(Writes(child, message))
      BY <2>14 DEF Speak
    <3>2. message \in AnyMessage
      <4>1. task.mentions \in BOOLEAN
        BY WorkerCallsAssumption
      <4> QED BY <4>1 DEF Messages, ErrorMessages, AnyMessage, Reports
    <3>3. child \in Process /\ Running /\ ~ child.exited
      BY <2>14 DEF Speak, ChildIsAwaited, CanWrite
    <3>4. /\ child' \in Process /\ child'.out = Append(child.out, message)
          /\ child'.exited = child.exited
      BY <3>1, <3>2, <3>3, WriteType
    <3>5. /\ message.kind = "error" =>
                 Said(child') = Said(child) /\ LastReport(child') = LastReport(child)
          /\ Said(child) = {} => \A i, j \in Said(child') : i = j
      BY <3>2, <3>3, <3>4, WriteSaid
    <3>6. UNCHANGED <<fabric, file>> /\ Worker' = Worker
      BY <2>14, SameWorker DEF Speak, fabric
    <3>7. LastReport(child)' = LastReport(child')
      BY DEF LastReport, Said
    <3>8. FileIsLast'
      <4>1. ASSUME Worker = "codex", file \notin {None, "nothing"}
            PROVE  file = LastReport(child')
        <5>1. file = LastReport(child) /\ LastReport(child) # "nothing"
          BY <3>3, <4>1 DEF FileIsLast
        <5>2. Said(child) # {}
          BY <3>3, <5>1, LastReportType, WholeIsSaid
        <5> QED BY <3>1, <3>5, <4>1, <5>1, <5>2
      <4> QED BY <3>3, <3>4, <3>6, <3>7, <4>1 DEF FileIsLast
    <3>9. \A i, j \in Said(child') : Worker # "codex" => i = j
      <4>1. ASSUME Worker # "codex", Said(child) # {}
            PROVE  Said(child') = Said(child) /\ \A i, j \in Said(child) : i = j
        BY <3>1, <3>3, <3>5, <4>1 DEF OneMessage
      <4> QED BY <3>5, <4>1
    <3> QED BY <2>4, <3>3, <3>4, <3>6, <3>8, <3>9
  <2>15. CASE WriteLastMessage
    <3>1. /\ UNCHANGED <<fabric, child>> /\ file' = LastReport(child) /\ Running
          /\ child \in Process /\ ~ child.exited /\ Worker = "codex"
      BY <2>15 DEF WriteLastMessage, ChildIsAwaited, CanWrite
    <3>2. LastReport(child)' = LastReport(child)
      BY <3>1 DEF LastReport, Said
    <3>3. FileIsLast'
      BY <3>1, <3>2, LastReportType DEF FileIsLast
    <3> QED BY <2>4, <3>1, <3>3
  <2>16. CASE Exit
    <3>1. PICK code \in ExitCodes(child), held \in BOOLEAN :
              /\ code = 0 /\ Worker = "codex" => file # None /\ ~ Refused
              /\ child' = Exits(child, code, held)
      BY <2>16 DEF Exit
    <3>2. UNCHANGED <<fabric, file>> /\ Running /\ child \in Process
      BY <2>16 DEF Exit, ChildIsAwaited
    <3>3. /\ child' \in Process /\ child'.out = child.out /\ child'.code = code
      BY <3>1, <3>2 DEF Process, Exits, ExitCodes
    <3>4. Said(child') = Said(child) /\ LastReport(child') = LastReport(child)
      BY <3>2, <3>3, SameOutput
    <3>5. LastReport(child)' = LastReport(child') /\ Worker' = Worker
      BY <3>2, SameWorker DEF LastReport, Said, fabric
    <3>6. FileIsLast'
      BY <3>1, <3>2, <3>3, <3>4, <3>5 DEF FileIsLast
    <3> QED BY <2>4, <3>2, <3>3, <3>4, <3>6 DEF OneMessage
  <2>17. CASE Release
    <3>1. UNCHANGED <<fabric, file>> /\ Running /\ child \in Process
      BY <2>17 DEF Release, ChildIsAwaited
    <3>2. /\ child' \in Process /\ child'.out = child.out
          /\ child'.exited = child.exited /\ child'.code = child.code
      BY <2>17, <3>1 DEF Process, Release
    <3> QED BY <2>5, <3>1, <3>2
  <2>18. CASE Timeout
    <3>1. UNCHANGED <<fabric, file>> /\ Running /\ child \in Process
      BY <2>18 DEF Timeout, ChildIsAwaited
    <3>2. /\ child' \in Process /\ child'.out = child.out
          /\ child'.exited = child.exited /\ child'.code = child.code
      BY <2>18, <3>1 DEF Process, Timeout, TimesOut, ForceKill
    <3> QED BY <2>5, <3>1, <3>2
  <2>19. CASE Close
    <3>1. PICK outcome \in {Failed("runtime_error"), AnswerOf(child)} :
              Answered(outcome)
      BY <2>19 DEF Close
    <3>2. /\ Running /\ child.exited /\ spoke' = LastReport(child) /\ child' = None
          /\ UNCHANGED file
      BY <2>19 DEF Close, Closed
    <3>3. outcome.status = "success" => spoke' \notin {"failed", "needs_retry"}
      BY <2>6, <3>1, <3>2, AnswerIsAllowed
    <3>4. task' = task /\ (stage' = "done" => answer' = outcome)
      BY <3>1, AnsweredSteps
    <3>5. FailureIsHeard' /\ ~ Running'
      BY <3>2, <3>3, <3>4 DEF FailureIsHeard, Running
    <3> QED BY <3>2, <3>4, <3>5 DEF ChildIsAwaited, OneMessage, FileIsLast
  <2>20. CASE Backoff
    <3>1. /\ UNCHANGED <<task, child, file, spoke>> /\ stage = "backoff" /\ stage' = "attempt"
      BY <2>20 DEF Backoff, WaitBeforeRetry
    <3>2. ~ Running /\ ~ Running'
      BY <3>1 DEF ChildIsAwaited, Running
    <3> QED BY <3>1, <3>2 DEF ChildIsAwaited, OneMessage, FileIsLast, FailureIsHeard
  <2>21. CASE UNCHANGED vars
    BY <2>1, <2>21 DEF vars
  <2> QED BY <2>7, <2>8, <2>9, <2>10, <2>11, <2>12, <2>13, <2>14, <2>15, <2>16, <2>17,
             <2>18, <2>19, <2>20, <2>21 DEF Next, Rest
<1> QED BY <1>1, <1>2, PTL DEF Spec

(* A worker whose last word was that it failed, or that the task is to be  *)
(* tried again, is not taken for a success.                                *)
THEOREM LastWordIsHeard == Spec => []FailureIsHeard
<1>1. IInv => FailureIsHeard
  BY DEF IInv
<1> QED BY <1>1, Invariance, PTL

-----------------------------------------------------------------------------
(* The adapters keep the fabric's contract: whatever a program writes, and *)
(* however it ends, the attempt is answered by one of the outcomes that    *)
(* ManagerRun assumes of its worker.                                       *)

LEMMA FabricStep ==
    ASSUME IInv, [Next]_vars
    PROVE  [FabricNext]_fabric
<1> USE DEF IInv
<1>1. ASSUME NEW outcome \in Outcomes(Worker, task.requested), Answered(outcome)
      PROVE  FabricNext
  BY <1>1 DEF FabricNext
<1>2. CASE NotAsked
  <2>1. ASSUME Worker \notin Adapters
        PROVE  Failed("missing_adapter") \in Outcomes(Worker, task.requested)
    BY <2>1 DEF Outcomes
  <2>2. ASSUME Worker \in Adapters, ~ HasCommand
        PROVE  Failed("task_failed") \in Outcomes(Worker, task.requested)
    <3>1. Worker = "shell" /\ Failed("task_failed") \in AnyReport
      BY <2>2 DEF HasCommand, AnyReport, Failed, Reported
    <3> QED BY <2>2, <3>1 DEF Outcomes
  <2> QED BY <1>1, <1>2, <2>1, <2>2 DEF NotAsked
<1>3. ASSUME Starts PROVE Failed("runtime_error") \in Outcomes(Worker, task.requested)
  <2>1. Worker \in Adapters /\ (Worker = "shell" => task.requested = "shell")
    BY <1>3 DEF Starts, HasCommand
  <2> QED BY <2>1 DEF Outcomes
<1>4. CASE StartUnheard
  BY <1>1, <1>3, <1>4 DEF StartUnheard
<1>5. CASE SpawnFails
  <2>1. ASSUME Worker # "shell"
        PROVE  Failed("unavailable") \in Outcomes(Worker, task.requested)
    <3>1. Worker \in Adapters /\ Worker \in {"claude", "codex"}
      BY <1>5, <2>1 DEF SpawnFails, NeedsProcess
    <3> QED BY <3>1 DEF Outcomes
  <2> QED BY <1>1, <1>3, <1>5, <2>1 DEF SpawnFails
<1>6. CASE Browse
  <2>1. {Reported("success"), Failed("task_failed"), Failed("runtime_error")}
            \subseteq Outcomes(Worker, task.requested)
    BY <1>6 DEF Browse, Starts, Outcomes
  <2> QED BY <1>1, <1>6, <2>1 DEF Browse
<1>7. CASE HandleMail
  <2>1. {Reported("success"), SendBlocked, Failed("runtime_error")}
            \subseteq Outcomes(Worker, task.requested)
    BY <1>7 DEF HandleMail, Starts, Outcomes
  <2> QED BY <1>1, <1>7, <2>1 DEF HandleMail
<1>8. CASE Close
  <2>1. Running /\ child.exited
    BY <1>8 DEF Close, Closed
  <2> QED BY <1>1, <1>8, <2>1, AnswerIsAllowed DEF Close
<1>9. CASE Backoff
  BY <1>9 DEF Backoff, FabricNext
<1>10. CASE Spawn \/ Leave \/ Speak \/ WriteLastMessage \/ Exit \/ Release \/ Timeout
  BY <1>10 DEF Spawn, Leave, Speak, WriteLastMessage, Exit, Release, Timeout
<1>11. CASE Rest \/ UNCHANGED vars
  BY <1>11 DEF Rest, vars
<1> QED BY <1>2, <1>4, <1>5, <1>6, <1>7, <1>8, <1>9, <1>10, <1>11 DEF Next

(* Every step of an adapter and its process is a step of the fabric that   *)
(* answers an attempt with one of the outcomes of its worker, or none.     *)
THEOREM AdaptersImplementFabric == Spec => KeepsFabric
<1>1. Init => FabricInit
  BY DEF Init
<1>2. IInv /\ [Next]_vars => [FabricNext]_fabric
  BY FabricStep
<1> QED BY <1>1, <1>2, Invariance, PTL DEF Spec, KeepsFabric, FabricSpec

-----------------------------------------------------------------------------
(* The locals of dispatchPrimary, by way of the fabric's contract.         *)

Answers == [status : Statuses, kind : FailureKinds \cup {None}]

FabricTypes ==
    /\ place \in DOMAIN Chain /\ attempt \in 1..MaxAttempts
    /\ stage \in {"attempt", "backoff", "done"}
    /\ answer \in Answers \cup {None}
    /\ stage = "done" <=> answer # None

(* There is always somebody to ask first.                                  *)
LEMMA ChainIsSequence ==
    ASSUME task \in Tasks
    PROVE  /\ Len(Chain) \in Nat /\ Len(Chain) >= 1
           /\ DOMAIN Chain = 1..Len(Chain)
<1> DEFINE S == {"claude", "codex", "shell", "browser", "mail", task.requested}
           rest == Without(task.preferred, task.requested)
           first == FirstOf(task.requested, task.preferred)
           fallback == FallbackOrder(task.requested)
<1>1. task.preferred \in Seq(S)
  <2>1. task.preferred \in Seq({"claude", "codex", "shell", "browser", "mail"})
    BY WorkerFabricAssumption
  <2> QED BY <2>1
<1> DEFINE n == Len(task.preferred)
<1>2. n \in Nat /\ \A i \in 1..n : task.preferred[i] \in S
  BY <1>1
<1>3. rest \in Seq(S)
  <2>1. CASE \A i \in DOMAIN task.preferred : task.preferred[i] # task.requested
    BY <1>1, <2>1 DEF Without
  <2>2. CASE \E i \in DOMAIN task.preferred : task.preferred[i] = task.requested
    <3>1. rest = [i \in 1..(n - 1) |->
                     IF \A j \in 1..i : task.preferred[j] # task.requested
                     THEN task.preferred[i] ELSE task.preferred[i + 1]]
      BY <2>2 DEF Without
    <3>2. n - 1 \in Nat
      BY <1>1, <1>2, <2>2
    <3>3. \A i \in 1..(n - 1) : i \in 1..n /\ i + 1 \in 1..n
      BY <1>2, <3>2
    <3> HIDE DEF rest, n, S
    <3>4. \A i \in 1..(n - 1) : rest[i] \in S
      BY <1>2, <3>1, <3>3
    <3> QED BY <3>1, <3>2, <3>4
  <2> QED BY <2>1, <2>2
<1>4. first = <<task.requested>> \o rest /\ task.requested \in S
  BY DEF FirstOf
<1>5. fallback = <<>> \/ (\E w \in S : fallback = <<w>>)
  BY DEF FallbackOrder
<1>6. Chain = first \/ Chain = first \o fallback
  BY DEF Chain, PrimaryWorkerChain
<1> HIDE DEF S, rest, first, fallback
<1>7. first \in Seq(S) /\ Len(first) >= 1
  BY <1>3, <1>4
<1>8. first \o fallback \in Seq(S) /\ Len(first \o fallback) >= 1
  <2>1. CASE fallback = <<>>
    <3>1. first \o <<>> = first
      BY <1>7
    <3> QED BY <1>7, <2>1, <3>1
  <2>2. CASE \E w \in S : fallback = <<w>>
    <3>1. PICK w \in S : fallback = <<w>>
      BY <2>2
    <3>2. first \o <<w>> = Append(first, w)
      BY <1>7
    <3> QED BY <1>7, <3>1, <3>2
  <2> QED BY <1>5, <2>1, <2>2
<1>9. Chain \in Seq(S) /\ Len(Chain) >= 1
  BY <1>6, <1>7, <1>8
<1> QED BY <1>9

LEMMA OutcomesAreAnswers ==
    ASSUME NEW worker, NEW requested
    PROVE  Outcomes(worker, requested) \subseteq Answers
<1>1. AnyReport \subseteq Answers
  BY DEF AnyReport, Reported, Answers, Statuses, FailureKinds
<1>2. \A kind \in FailureKinds : Failed(kind) \in Answers
  BY DEF Failed, Answers, Statuses
<1>3. Reported("success") \in Answers /\ SendBlocked \in Answers
  BY DEF Reported, SendBlocked, Answers, Statuses, FailureKinds
<1>4. {"missing_adapter", "unavailable", "runtime_error", "task_failed"} \subseteq FailureKinds
  BY DEF FailureKinds
<1> QED BY <1>1, <1>2, <1>3, <1>4 DEF Outcomes

LEMMA FabricTypesStep ==
    ASSUME task \in Tasks, FabricTypes, [FabricNext]_fabric
    PROVE  FabricTypes'
<1>1. /\ Len(Chain) \in Nat /\ DOMAIN Chain = 1..Len(Chain)
  BY ChainIsSequence
<1>2. UNCHANGED task => Chain' = Chain
  BY DEF Chain
<1> USE DEF FabricTypes
<1>3. CASE UNCHANGED fabric
  BY <1>2, <1>3 DEF fabric
<1>4. CASE WaitBeforeRetry
  BY <1>2, <1>4 DEF WaitBeforeRetry
<1>5. ASSUME NEW outcome \in Outcomes(Worker, task.requested), Answered(outcome)
      PROVE  FabricTypes'
  <2>1. outcome \in Answers /\ outcome # None
    BY OutcomesAreAnswers, WorkerCallsAssumption DEF Answers
  <2>2. stage = "attempt"
    BY <1>5 DEF Answered
  <2>3. CASE Retry(outcome)
    BY <1>2, <2>2, <2>3 DEF Retry, Retries, MaxAttempts
  <2>4. CASE FallBack(outcome)
    BY <1>1, <1>2, <2>2, <2>4 DEF FallBack, FallsBack, MaxAttempts
  <2>5. CASE Finish(outcome)
    BY <1>2, <2>1, <2>5 DEF Finish
  <2> QED BY <1>5, <2>3, <2>4, <2>5 DEF Answered
<1> QED BY <1>3, <1>4, <1>5 DEF FabricNext

Records ==
    /\ client \in {"listens", "gone"}
    /\ spoke \in Reports \cup {"nothing"}
    /\ done \in Nat

LEMMA RecordsStep ==
    ASSUME IInv, Records, [Next]_vars
    PROVE  Records'
<1> USE DEF Records
<1>1. CASE Close
  <2>1. child \in Process
    BY <1>1 DEF Close, IInv, ChildIsAwaited
  <2> QED BY <1>1, <2>1, LastReportType DEF Close
<1>2. CASE NotAsked \/ StartUnheard \/ Spawn \/ SpawnFails \/ Leave \/ Speak
           \/ WriteLastMessage \/ Release \/ Timeout \/ Backoff
  BY <1>2 DEF NotAsked, StartUnheard, Spawn, SpawnFails, Leave, Speak, WriteLastMessage,
              Release, Timeout, Backoff
<1>3. CASE Browse
  BY <1>3 DEF Browse
<1>4. CASE HandleMail
  BY <1>4 DEF HandleMail
<1>5. CASE Exit
  BY <1>5 DEF Exit
<1>6. CASE Rest \/ UNCHANGED vars
  BY <1>6 DEF Rest, vars
<1> QED BY <1>1, <1>2, <1>3, <1>4, <1>5, <1>6 DEF Next

(* The dispatch stays at a worker of its chain and within its attempts, it *)
(* is done exactly when it has an answer, and there is a process only      *)
(* while an attempt of a worker with a process is waited for.              *)
THEOREM TypeCorrect == Spec => []TypeOK
<1> DEFINE Inv == FabricTypes /\ Records
<1>1. Init => Inv
  <2> SUFFICES ASSUME Init PROVE Inv
    OBVIOUS
  <2>1. /\ task \in Tasks /\ place = 1 /\ attempt = 1 /\ stage = "attempt" /\ answer = None
        /\ client = "listens" /\ spoke = "nothing" /\ done = 0
    BY DEF Init, FabricInit
  <2>2. 1 \in DOMAIN Chain
    BY <2>1, ChainIsSequence
  <2> QED BY <2>1, <2>2 DEF FabricTypes, Records, MaxAttempts
<1>2. IInv /\ Inv /\ [Next]_vars => Inv'
  BY FabricStep, FabricTypesStep, RecordsStep DEF IInv
<1>3. IInv /\ Inv => TypeOK
  BY DEF IInv, FabricTypes, Records, TypeOK, ChildIsAwaited, FileIsLast, Answers
<1> QED BY <1>1, <1>2, <1>3, Invariance, PTL DEF Spec

-----------------------------------------------------------------------------
(* A task is carried out once, unless an output mentions a limit that is   *)
(* not one, or what a killed process had reported counts as done; the runs *)
(* show that either is enough to have a task carried out twice.            *)

PlainWork == ~ CountsTimeout /\ \A t \in Tasks : ~ t.mentions

(* Only an error mentions a limit.                                         *)
LimitsAreErrors ==
    Running => \A i \in DOMAIN child.out :
                  child.out[i].limit => child.out[i].kind = "error"

(* A process that has ended well and says so.                              *)
CarriedOut ==
    /\ Running /\ child.exited /\ child.code = 0
    /\ LastReport(child) = "success"
    /\ Worker = "codex" => file # None /\ ~ Refused

(* Where the task has been carried out, nothing is started any more.       *)
OnceInv ==
    /\ LimitsAreErrors
    /\ done # 0 =>
           /\ done = 1
           /\ stage = "done" \/ CarriedOut \/ (client = "gone" /\ ~ Running)

(* An attempt that carried the task out is the last one, also when its     *)
(* time was up in between.                                                 *)
LEMMA CarriedOutIsFinal ==
    ASSUME IInv, LimitsAreErrors, CarriedOut
    PROVE  AnswerOf(child) \in {Reported("success"), Failed("task_failed")}
<1>1. /\ child \in Process /\ Worker \in {"claude", "codex", "shell"}
      /\ LastReport(child) = "success" /\ child.code = 0
  BY DEF IInv, ChildIsAwaited, NeedsProcess, CarriedOut
<1>2. CASE Worker # "codex"
  <2>1. OutputReport(child) = "success"
    BY <1>1, <1>2, OutputIsLast DEF IInv, OneMessage, CarriedOut
  <2>2. CASE Worker = "claude"
    <3>1. AnswerOf(child) = ClaudeResult("success")
      BY <1>1, <2>1, <2>2 DEF AnswerOf, ClaudeAnswer
    <3> QED BY <3>1 DEF ClaudeResult, Statuses
  <2>3. CASE Worker = "shell"
    <3>1. AnswerOf(child) = ShellAnswer(child)
      BY <2>3 DEF AnswerOf
    <3> QED BY <2>1, <3>1 DEF ShellAnswer, Statuses
  <2> QED BY <1>1, <1>2, <2>2, <2>3
<1>3. CASE Worker = "codex"
  <2>1. ~ LimitSeen(child)
    BY <1>3 DEF CarriedOut, Refused, LimitsAreErrors, LimitSeen
  <2>2. file \in {"nothing", "success"} /\ file # None
    BY <1>1, <1>3 DEF IInv, FileIsLast, CarriedOut
  <2>3. PreferredReport(child) = "success"
    BY <1>1, <2>2 DEF PreferredReport
  <2>4. AnswerOf(child) = CodexAnswer(child)
    BY <1>3 DEF AnswerOf
  <2> QED BY <2>1, <2>3, <2>4 DEF CodexAnswer, Statuses
<1> QED BY <1>2, <1>3

(* An attempt that did the work and said so is the last one of the task,   *)
(* also when a client leaves, a timer fires or a program exits meanwhile.  *)
THEOREM CarriedOutOnce == ASSUME PlainWork PROVE Spec => []DoneOnce
<1>1. Init => OnceInv
  BY DEF Init, OnceInv, LimitsAreErrors, Running
<1>2. IInv /\ OnceInv /\ [Next]_vars => OnceInv'
  <2> SUFFICES ASSUME IInv, OnceInv, [Next]_vars PROVE OnceInv'
    OBVIOUS
  <2> USE DEF OnceInv
  <2>1. ~ CountsTimeout /\ task \in Tasks /\ ~ task.mentions
    BY DEF PlainWork, IInv
  <2>2. /\ Running => stage = "attempt" /\ child \in Process /\ NeedsProcess
    BY DEF IInv, ChildIsAwaited
  <2>3. ASSUME NEW outcome, Answered(outcome), ~ Running, ~ Running', UNCHANGED <<client, done>>
        PROVE  OnceInv'
    <3>1. stage = "attempt"
      BY <2>3, AnsweredSteps
    <3> QED BY <2>3, <3>1 DEF CarriedOut, LimitsAreErrors
  <2>4. CASE NotAsked
    BY <2>2, <2>3, <2>4 DEF NotAsked, NeedsProcess, Running
  <2>5. CASE StartUnheard \/ SpawnFails
    BY <2>3, <2>5 DEF StartUnheard, SpawnFails, Starts, Running
  <2>6. CASE Spawn
    <3>1. done = 0 /\ done' = 0 /\ child' = Spawned(0)
      BY <2>6 DEF Spawn, Starts, CarriedOut, Running
    <3>2. DOMAIN child'.out = {}
      BY <3>1 DEF Spawned
    <3> QED BY <3>1, <3>2 DEF LimitsAreErrors
  <2>7. CASE Browse
    <3>1. /\ done = 0 /\ stage = "attempt" /\ ~ Running /\ ~ Running'
      BY <2>7 DEF Browse, Starts, CarriedOut, Running
    <3>2. PICK fetched \in BOOLEAN :
              /\ client' \in {"listens", "gone"}
              /\ Answered(IF client' = "gone" THEN Failed("runtime_error")
                          ELSE IF fetched THEN Reported("success") ELSE Failed("task_failed"))
              /\ done' = IF fetched THEN done + 1 ELSE done
      BY <2>7 DEF Browse
    <3>3. ASSUME done' # 0, client' # "gone" PROVE stage' = "done"
      <4>1. Answered(Reported("success"))
        BY <3>1, <3>2, <3>3
      <4> QED BY <4>1, AnsweredSteps DEF Reported
    <3>4. done' \in {0, 1}
      BY <3>1, <3>2
    <3> QED BY <3>1, <3>3, <3>4 DEF LimitsAreErrors
  <2>8. CASE HandleMail
    <3>1. /\ done = 0 /\ stage = "attempt" /\ ~ Running /\ ~ Running'
      BY <2>8 DEF HandleMail, Starts, CarriedOut, Running
    <3>2. PICK outcome : /\ Answered(outcome)
                         /\ done' = IF outcome = Reported("success") THEN done + 1 ELSE done
      BY <2>8 DEF HandleMail
    <3>3. ASSUME done' # 0 PROVE stage' = "done"
      <4>1. Answered(Reported("success"))
        BY <3>1, <3>2, <3>3
      <4> QED BY <4>1, AnsweredSteps DEF Reported
    <3>4. done' \in {0, 1}
      BY <3>1, <3>2
    <3> QED BY <3>1, <3>3, <3>4 DEF LimitsAreErrors
  (* Whoever follows the run may leave at any time.                        *)
  <2>9. CASE Leave
    <3>1. UNCHANGED <<fabric, child, file, done>> /\ client' = "gone" /\ Worker' = Worker
      BY <2>9, SameWorker DEF Leave, fabric
    <3>2. LastReport(child)' = LastReport(child)
      BY <3>1 DEF LastReport, Said
    <3> QED BY <3>1, <3>2 DEF fabric, CarriedOut, LimitsAreErrors, Running, Refused
  (* Before the process has ended nothing is done.                         *)
  <2>10. CASE Speak
    <3>1. PICK message \in Messages : child' = Sees(Writes(child, message))
      BY <2>10 DEF Speak
    <3>2. Running /\ child \in Process /\ ~ child.exited /\ stage = "attempt" /\ done' = done
      BY <2>2, <2>10 DEF Speak, CanWrite
    <3>3. message \in AnyMessage /\ (message.limit => message.kind = "error")
      <4>1. {FALSE, task.mentions} = {FALSE}
        <5>1. task.mentions \in BOOLEAN
          BY <2>1, WorkerCallsAssumption
        <5> QED BY <2>1, <5>1
      <4>2. CASE message \in ErrorMessages
        BY <4>2 DEF ErrorMessages, AnyMessage, Reports
      <4>3. CASE message \in [kind : {IF Worker = "claude" THEN "result" ELSE "text"},
                              form : {"ended", "cut"}, report : Reports, limit : {FALSE}]
        BY <4>3 DEF AnyMessage
      <4> QED BY <4>1, <4>2, <4>3 DEF Messages
    <3>4. child'.out = Append(child.out, message) /\ child.out \in Seq(AnyMessage)
      BY <3>1, <3>2, <3>3, WriteType DEF Process
    <3>5. \A i \in DOMAIN child'.out :
              \/ i \in DOMAIN child.out /\ child'.out[i] = child.out[i]
              \/ child'.out[i] = message
      BY <3>4
    <3>6. LimitsAreErrors'
      BY <3>2, <3>3, <3>5 DEF LimitsAreErrors
    <3>7. done = 0
      BY <3>2 DEF CarriedOut
    <3> QED BY <3>2, <3>6, <3>7
  <2>11. CASE WriteLastMessage
    <3>1. /\ Running /\ ~ child.exited /\ stage = "attempt" /\ UNCHANGED <<child, done>>
      BY <2>2, <2>11 DEF WriteLastMessage, CanWrite
    <3>2. done = 0
      BY <3>1 DEF CarriedOut
    <3> QED BY <3>1, <3>2 DEF LimitsAreErrors, Running
  <2>12. CASE Exit
    <3>1. PICK code \in ExitCodes(child), held \in BOOLEAN :
              /\ code = 0 /\ Worker = "codex" => file # None /\ ~ Refused
              /\ child' = Exits(child, code, held)
      BY <2>12 DEF Exit
    <3>2. /\ UNCHANGED <<fabric, file, client>> /\ Running /\ child \in Process
          /\ ~ child.exited /\ stage = "attempt"
      BY <2>2, <2>12 DEF Exit
    <3>3. /\ child' \in Process /\ child'.out = child.out /\ child'.code = code
          /\ child'.exited
      BY <3>1, <3>2 DEF Process, Exits, ExitCodes
    <3>4. done = 0
      BY <3>2 DEF CarriedOut
    <3>5. LastReport(child)' = LastReport(child) /\ Worker' = Worker /\ (Refused' <=> Refused)
      BY <3>2, <3>3, SameWorker DEF LastReport, Said, fabric, Refused
    <3>6. done' = IF LastReport(child) = "success" /\ child'.code = 0 THEN 1 ELSE 0
      BY <2>1, <2>12, <3>4 DEF Exit
    <3>7. LimitsAreErrors'
      BY <3>2, <3>3 DEF LimitsAreErrors
    <3>8. Running'
      BY <3>3, WorkerCallsAssumption DEF Running
    <3>9. done' # 0 => CarriedOut'
      BY <3>1, <3>2, <3>3, <3>5, <3>6, <3>8 DEF CarriedOut
    <3> QED BY <3>6, <3>7, <3>9
  <2>13. CASE Release \/ Timeout
    <3>1. /\ UNCHANGED <<fabric, file, client, done>> /\ Running /\ child \in Process
          /\ stage = "attempt"
      BY <2>2, <2>13 DEF Release, Timeout
    <3>2. /\ child' \in Process /\ child'.out = child.out
          /\ child'.exited = child.exited /\ child'.code = child.code
      BY <2>13, <3>1 DEF Process, Release, Timeout, TimesOut, ForceKill
    <3>3. LastReport(child)' = LastReport(child) /\ Worker' = Worker /\ (Refused' <=> Refused)
      BY <3>1, <3>2, SameWorker DEF LastReport, Said, fabric, Refused
    <3>4. LimitsAreErrors'
      BY <3>1, <3>2 DEF LimitsAreErrors
    <3>5. Running'
      BY <3>2, WorkerCallsAssumption DEF Running
    <3> QED BY <3>1, <3>2, <3>3, <3>4, <3>5 DEF CarriedOut
  <2>14. CASE Close
    <3>1. /\ Running /\ stage = "attempt" /\ ~ Running' /\ UNCHANGED <<client, done>>
      BY <2>2, <2>14 DEF Close, Running
    <3>2. ASSUME done # 0, client # "gone" PROVE stage' = "done"
      <4>1. CarriedOut
        BY <3>1, <3>2
      <4>2. Answered(AnswerOf(child))
        BY <2>14, <3>2 DEF Close
      <4>3. AnswerOf(child).status # "failed" \/ AnswerOf(child).kind = "task_failed"
        BY <4>1, CarriedOutIsFinal DEF Reported, Failed
      <4> QED BY <4>2, <4>3, AnsweredSteps
    <3> QED BY <3>1, <3>2 DEF LimitsAreErrors
  <2>15. CASE Backoff
    <3>1. /\ stage = "backoff" /\ UNCHANGED <<child, client, done>>
      BY <2>15 DEF Backoff, WaitBeforeRetry
    <3>2. ~ Running /\ ~ Running'
      BY <2>2, <3>1 DEF Running
    <3> QED BY <3>1, <3>2 DEF CarriedOut, LimitsAreErrors
  <2>16. CASE UNCHANGED vars
    <3>1. Worker' = Worker /\ LastReport(child)' = LastReport(child) /\ (Refused' <=> Refused)
      BY <2>16, SameWorker DEF vars, fabric, LastReport, Said, Refused
    <3> QED BY <2>16, <3>1 DEF vars, fabric, CarriedOut, LimitsAreErrors, Running
  <2> QED BY <2>4, <2>5, <2>6, <2>7, <2>8, <2>9, <2>10, <2>11, <2>12, <2>13, <2>14,
             <2>15, <2>16 DEF Next, Rest
<1>3. OnceInv => DoneOnce
  BY DEF OnceInv, DoneOnce
<1> QED BY <1>1, <1>2, <1>3, Invariance, PTL DEF Spec

=============================================================================
