---------------------------- MODULE ChatRunsProofs -----------------------------
(***************************************************************************)
(* Proofs about ChatRuns, for any number of messages and lines and for any *)
(* timeouts.  That a run in progress is never pruned is proved provided    *)
(* what Codex starts itself does not hold its streams.                     *)
(***************************************************************************)
EXTENDS ChatRuns, WellFoundedInduction, TLAPS

(* What holds of one run: its entry, its stage, its process and what       *)
(* Claude had said.                                                        *)
TypedRow(e, s, c, v) ==
    /\ e \in ChatRunSnapshot \cup {Absent}
    /\ s \in Stages
    /\ c \in Child \cup {None}
    /\ c # None <=> s \in DOMAIN Calls
    /\ c # None => c.seen <= Len(c.out)
    /\ v \in Spoken \cup {None}

(* The answer honours what Claude said: v.                                 *)
Honours(answer, v) ==
    v # None => \/ answer.by \in {"codex", "memory"}
                \/ answer = IF v.said = None THEN Template ELSE Answer("claude", v.said)

(* Claude's answer is asked for once, and kept as it can be parsed.        *)
HeardRow(e, s, v) ==
    /\ v # None => /\ s \in {"answer_codex", "over"}
                   /\ v.said = ExtractClaudeStreamAnswer(v.process)
    /\ s = "answer_codex" => v # None
    /\ e # Absent /\ e.status = "completed" => Honours(e.answer, v)

(* An entry is younger than what its run may still wait for.               *)
KeptRow(e, s, c) ==
    /\ s \in {"brain", "routed", "mission"} => e # Absent /\ e.age <= Quiet
    /\ c # None => /\ e # Absent /\ e.age + c.left <= Calls[s].timeout
                   /\ c.held => Calls[s].cli \in Holders
                   /\ c.timedOut => Calls[s].cli = "codex"

Tables ==
    /\ runs \in [Run -> ChatRunSnapshot \cup {Absent}]
    /\ stage \in [Run -> Stages]
    /\ child \in [Run -> Child \cup {None}]
    /\ brain \in [Run -> BOOLEAN]
    /\ spoken \in [Run -> Spoken \cup {None}]
    /\ page \in [Run -> {"idle", "following", "answered", "lost"}]

IInv ==
    /\ Tables
    /\ \A r \in Run : TypedRow(runs[r], stage[r], child[r], spoken[r])
    /\ \A r \in Run : HeardRow(runs[r], stage[r], spoken[r])

Kept == \A r \in Run : KeptRow(runs[r], stage[r], child[r])

-----------------------------------------------------------------------------
(* Numbers.                                                                *)

LEMMA MinimumExists ==
    ASSUME NEW S \in SUBSET Nat, S # {}
    PROVE  \E i \in S : \A j \in S : i <= j
<1> DEFINE LessThan == {ss \in Nat \X Nat : ss[1] < ss[2]}
<1>1. IsWellFoundedOn(LessThan, Nat)
  BY NatLessThanWellFounded DEF OpToRel
<1>2. PICK i \in S : \A j \in S : <<j, i>> \notin LessThan
  <2> HIDE DEF LessThan
  <2> QED BY <1>1, WFMin
<1>3. \A j \in S : ~ (j < i)
  BY <1>2
<1> QED BY <1>3

LEMMA MaximumExists ==
    ASSUME NEW n \in Nat, NEW S \in SUBSET (0..n), S # {}
    PROVE  \E i \in S : \A j \in S : i >= j
<1> DEFINE T == {n - i : i \in S}
<1>1. T \in SUBSET Nat /\ T # {}
  <2>1. \A i \in 0..n : n - i \in Nat
    OBVIOUS
  <2> QED BY <2>1
<1>2. PICK least \in T : \A x \in T : least <= x
  <2> HIDE DEF T
  <2> QED BY <1>1, MinimumExists
<1>3. PICK i \in S : least = n - i
  BY <1>2
<1>4. ASSUME NEW j \in S PROVE i >= j
  <2>1. n - i <= n - j
    BY <1>2, <1>3
  <2> QED BY <2>1
<1> QED BY <1>4

LEMMA FirstAndLast ==
    ASSUME NEW n \in Nat, NEW places \in SUBSET (1..n), places # {}
    PROVE  /\ First(places) \in places /\ \A j \in places : First(places) <= j
           /\ Last(places) \in places /\ \A j \in places : j <= Last(places)
           /\ First(places) \in Nat /\ Last(places) \in Nat
<1>1. \E i \in places : \A j \in places : i <= j
  <2>1. places \in SUBSET Nat
    OBVIOUS
  <2> QED BY <2>1, MinimumExists
<1>2. \E i \in places : \A j \in places : i >= j
  <2>1. places \in SUBSET (0..n)
    OBVIOUS
  <2> QED BY <2>1, MaximumExists
<1>3. First(places) \in places /\ \A j \in places : First(places) <= j
  BY <1>1 DEF First
<1>4. Last(places) \in places /\ \A j \in places : Last(places) >= j
  BY <1>2 DEF Last
<1>5. \A i \in places : i \in Nat
  OBVIOUS
<1> HIDE DEF First, Last
<1>6. \A j \in places : j <= Last(places)
  BY <1>4, <1>5
<1> QED BY <1>3, <1>4, <1>5, <1>6

-----------------------------------------------------------------------------
(* Calls and what is read from them.                                       *)

LEMMA CallFacts ==
    /\ DOMAIN Calls = {"triage_claude", "triage_codex", "answer_claude", "answer_codex"}
    /\ \A s \in DOMAIN Calls :
           /\ s \in Stages
           /\ Calls[s].cli \in {"claude", "codex"}
           /\ Calls[s].cli = "claude" <=> s \in {"triage_claude", "answer_claude"}
           /\ Calls[s].timeout \in Nat /\ Calls[s].timeout <= Ttl
BY ChatRunsAssumption DEF Calls, Stages

LEMMA SpawnedChild ==
    ASSUME NEW timeout \in Nat
    PROVE  LET c == Spawned(timeout)
           IN  /\ c \in Child /\ c # None /\ c.left = timeout
               /\ c.seen = 0 /\ c.seen <= Len(c.out)
               /\ c.held = FALSE /\ c.timedOut = FALSE
               /\ ExtractClaudeStreamAnswer(c) = None
<1> DEFINE c == Spawned(timeout)
<1>1. c \in Child /\ c.left = timeout /\ c.seen = 0 /\ c.out = <<>>
      /\ c.held = FALSE /\ c.timedOut = FALSE
  BY DEF Spawned, Child
<1>2. Parsed(c, "result") = {} /\ Parsed(c, "text") = {}
  BY <1>1 DEF Parsed
<1>3. ExtractClaudeStreamAnswer(c) = None
  BY <1>2 DEF ExtractClaudeStreamAnswer
<1> HIDE DEF c
<1>4. c # None /\ c.seen <= Len(c.out)
  BY <1>1, NullAssumption
<1> QED BY <1>1, <1>3, <1>4 DEF c

LEMMA ParsedPlaces ==
    ASSUME NEW c \in Child, NEW kind
    PROVE  Parsed(c, kind) \in SUBSET (1..c.seen) /\ c.seen \in Nat
BY DEF Parsed, Child

(* What Claude said: its first result, or else its last text.              *)
LEMMA Extracted ==
    ASSUME NEW c \in Child
    PROVE  LET said == ExtractClaudeStreamAnswer(c)
               results == Parsed(c, "result")
               texts == Parsed(c, "text")
           IN  /\ said \in Nat \cup {None}
               /\ said = None <=> results \cup texts = {}
               /\ results # {} => said \in results /\ \A j \in results : said <= j
               /\ results = {} /\ texts # {} => said \in texts /\ \A j \in texts : j <= said
<1> DEFINE results == Parsed(c, "result")
           texts == Parsed(c, "text")
<1>1. c.seen \in Nat /\ results \in SUBSET (1..c.seen) /\ texts \in SUBSET (1..c.seen)
  BY ParsedPlaces
<1>2. None \notin Nat
  BY NullAssumption
<1> HIDE DEF results, texts
<1>3. ASSUME results # {}
      PROVE  /\ First(results) \in results /\ \A j \in results : First(results) <= j
             /\ First(results) \in Nat
  BY <1>1, <1>3, FirstAndLast
<1>4. ASSUME texts # {}
      PROVE  /\ Last(texts) \in texts /\ \A j \in texts : j <= Last(texts)
             /\ Last(texts) \in Nat
  BY <1>1, <1>4, FirstAndLast
<1>5. ExtractClaudeStreamAnswer(c) = IF results # {} THEN First(results)
                                     ELSE IF texts # {} THEN Last(texts) ELSE None
  BY DEF ExtractClaudeStreamAnswer, results, texts
<1> HIDE DEF First, Last
<1>6. LET said == ExtractClaudeStreamAnswer(c)
      IN  /\ said \in Nat \cup {None}
          /\ said = None <=> results \cup texts = {}
          /\ results # {} => said \in results /\ \A j \in results : said <= j
          /\ results = {} /\ texts # {} => said \in texts /\ \A j \in texts : j <= said
  BY <1>2, <1>3, <1>4, <1>5
<1> QED BY <1>6 DEF results, texts

LEMMA CodexSaidType ==
    ASSUME NEW c \in Child
    PROVE  CodexSaid(c) \in Nat \cup {None}
<1> DEFINE texts == Parsed(c, "text")
<1>1. c.seen \in Nat /\ texts \in SUBSET (1..c.seen)
  BY ParsedPlaces
<1> HIDE DEF texts
<1>2. ASSUME texts # {} PROVE Last(texts) \in Nat
  BY <1>1, <1>2, FirstAndLast
<1>3. ExtractCodexStreamMessage(c) \in Nat \cup {None}
  BY <1>2 DEF ExtractCodexStreamMessage, texts
<1> QED BY <1>1, <1>3 DEF CodexSaid

-----------------------------------------------------------------------------
(* What becomes of a run.                                                  *)

UpdatedRow(e, status, answer) ==
    IF e = Absent THEN Absent ELSE [status |-> status, age |-> 0, answer |-> answer]

LEMMA UpdatedRowType ==
    ASSUME NEW e \in ChatRunSnapshot \cup {Absent}, NEW status \in {"running"} \cup Ended,
           NEW answer \in FinalAnswer \cup {None}
    PROVE  LET n == UpdatedRow(e, status, answer)
           IN  /\ n \in ChatRunSnapshot \cup {Absent}
               /\ n = Absent <=> e = Absent
               /\ n # Absent => n.status = status /\ n.age = 0 /\ n.answer = answer
<1>1. Ttl \in Nat
  BY ChatRunsAssumption
<1>2. CASE e = Absent
  BY <1>2 DEF UpdatedRow
<1>3. CASE e # Absent
  <2> DEFINE n == UpdatedRow(e, status, answer)
  <2>1. n = [status |-> status, age |-> 0, answer |-> answer]
    BY <1>3 DEF UpdatedRow
  <2> HIDE DEF n
  <2>2. n \in ChatRunSnapshot /\ n.status = status /\ n.age = 0 /\ n.answer = answer
    BY <1>1, <2>1 DEF ChatRunSnapshot
  <2>3. n # Absent
    BY <2>2, NullAssumption
  <2> QED BY <1>3, <2>2, <2>3 DEF n
<1> QED BY <1>2, <1>3

(* A run that is called for.                                               *)
LEMMA CallRow ==
    ASSUME NEW e \in ChatRunSnapshot \cup {Absent}, NEW s \in DOMAIN Calls,
           NEW v \in Spoken \cup {None}, s = "answer_codex" <=> v # None,
           v # None => v.said = ExtractClaudeStreamAnswer(v.process)
    PROVE  LET n == UpdatedRow(e, "running", None)
               c == Spawned(Calls[s].timeout)
           IN  TypedRow(n, s, c, v) /\ HeardRow(n, s, v) /\ (e # Absent => KeptRow(n, s, c))
<1> DEFINE n == UpdatedRow(e, "running", None)
           c == Spawned(Calls[s].timeout)
<1>1. /\ n \in ChatRunSnapshot \cup {Absent} /\ (n = Absent <=> e = Absent)
      /\ n # Absent => n.status = "running" /\ n.age = 0
  BY UpdatedRowType
<1>2. /\ s \in Stages /\ Calls[s].timeout \in Nat
      /\ s \notin {"idle", "brain", "routed", "mission", "over"}
  BY CallFacts
<1>3. /\ c \in Child /\ c # None /\ c.left = Calls[s].timeout
      /\ c.seen <= Len(c.out)
      /\ c.held = FALSE /\ c.timedOut = FALSE
  BY <1>2, SpawnedChild
<1> HIDE DEF n, c
<1>4. TypedRow(n, s, c, v)
  BY <1>1, <1>2, <1>3 DEF TypedRow
<1>5. HeardRow(n, s, v)
  BY <1>1 DEF HeardRow
<1>6. e # Absent => KeptRow(n, s, c)
  BY <1>1, <1>2, <1>3 DEF KeptRow
<1> QED BY <1>4, <1>5, <1>6 DEF n, c

(* A run that waits for the manager.                                       *)
LEMMA OutsideRow ==
    ASSUME NEW e \in ChatRunSnapshot \cup {Absent}, NEW s \in {"routed", "mission"}
    PROVE  LET n == UpdatedRow(e, "running", None)
           IN  TypedRow(n, s, None, None) /\ HeardRow(n, s, None)
               /\ (e # Absent => KeptRow(n, s, None))
<1> DEFINE n == UpdatedRow(e, "running", None)
<1>1. /\ n \in ChatRunSnapshot \cup {Absent} /\ (n = Absent <=> e = Absent)
      /\ n # Absent => n.status = "running" /\ n.age = 0
  BY UpdatedRowType
<1>2. s \in Stages /\ s \notin DOMAIN Calls /\ 0 <= Quiet
  BY CallFacts, ChatRunsAssumption DEF Stages
<1> HIDE DEF n
<1>3. TypedRow(n, s, None, None) /\ HeardRow(n, s, None) /\ (e # Absent => KeptRow(n, s, None))
  BY <1>1, <1>2 DEF TypedRow, HeardRow, KeptRow
<1> QED BY <1>3 DEF n

(* A run that has ended.                                                   *)
LEMMA OverRow ==
    ASSUME NEW e \in ChatRunSnapshot \cup {Absent}, NEW status \in Ended,
           NEW answer \in FinalAnswer \cup {None}, NEW v \in Spoken \cup {None},
           v # None => v.said = ExtractClaudeStreamAnswer(v.process),
           status = "completed" => Honours(answer, v)
    PROVE  LET n == UpdatedRow(e, status, answer)
           IN  TypedRow(n, "over", None, v) /\ HeardRow(n, "over", v) /\ KeptRow(n, "over", None)
<1> DEFINE n == UpdatedRow(e, status, answer)
<1>1. /\ n \in ChatRunSnapshot \cup {Absent}
      /\ (n # Absent => n.status = status /\ n.answer = answer)
  <2>1. status \in {"running"} \cup Ended
    OBVIOUS
  <2> QED BY <2>1, UpdatedRowType
<1>2. "over" \in Stages /\ "over" \notin DOMAIN Calls
  BY CallFacts DEF Stages
<1> HIDE DEF n
<1>3. TypedRow(n, "over", None, v) /\ HeardRow(n, "over", v) /\ KeptRow(n, "over", None)
  BY <1>1, <1>2 DEF TypedRow, HeardRow, KeptRow
<1> QED BY <1>3 DEF n

-----------------------------------------------------------------------------
(* A step of one run.                                                      *)

RunStep(r, e, s, c, v) ==
    /\ runs' = [runs EXCEPT ![r] = e]
    /\ stage' = [stage EXCEPT ![r] = s]
    /\ child' = [child EXCEPT ![r] = c]
    /\ spoken' = [spoken EXCEPT ![r] = v]

Good(r, e, s, c, v) ==
    /\ TypedRow(e, s, c, v)
    /\ HeardRow(e, s, v)
    /\ KeptRow(runs[r], stage[r], child[r]) => KeptRow(e, s, c)

Proceeds(r) == \E e, s, c, v : RunStep(r, e, s, c, v) /\ Good(r, e, s, c, v)

Waiting == {"brain", "routed", "mission"} \cup DOMAIN Calls

LEMMA RowFacts ==
    ASSUME IInv, NEW r \in Run
    PROVE  /\ TypedRow(runs[r], stage[r], child[r], spoken[r])
           /\ HeardRow(runs[r], stage[r], spoken[r])
           /\ Calling(r) <=> stage[r] \in DOMAIN Calls
           /\ runs[r] \in ChatRunSnapshot \cup {Absent}
           /\ spoken[r] \in Spoken \cup {None}
           /\ spoken[r] # None => spoken[r].said = ExtractClaudeStreamAnswer(spoken[r].process)
           /\ Calling(r) => child[r] \in Child
           /\ stage[r] \in Waiting /\ KeptRow(runs[r], stage[r], child[r]) => runs[r] # Absent
BY DEF IInv, TypedRow, HeardRow, KeptRow, Calling, Waiting

LEMMA UpdatedTable ==
    ASSUME IInv, NEW r \in Run, NEW status, NEW answer
    PROVE  Updated(r, status, answer) = [runs EXCEPT ![r] = UpdatedRow(runs[r], status, answer)]
BY DEF Updated, UpdatedRow, IInv, Tables

LEMMA Called ==
    ASSUME IInv, NEW r \in Run, stage[r] \in Waiting, NEW call \in DOMAIN Calls, Call(r, call),
           NEW v \in Spoken \cup {None}, spoken' = [spoken EXCEPT ![r] = v],
           call = "answer_codex" <=> v # None,
           v # None => v.said = ExtractClaudeStreamAnswer(v.process)
    PROVE  Proceeds(r)
<1> DEFINE e == UpdatedRow(runs[r], "running", None)
           c == Spawned(Calls[call].timeout)
<1>1. RunStep(r, e, call, c, v)
  BY UpdatedTable DEF Call, Reported, RunStep
<1>2. Good(r, e, call, c, v)
  BY RowFacts, CallRow DEF Good
<1> QED BY <1>1, <1>2 DEF Proceeds

LEMMA Routed ==
    ASSUME IInv, NEW r \in Run, stage[r] \in Waiting, spoken[r] = None, UNCHANGED spoken,
           NEW s \in {"routed", "mission"}, runs' = Reported(r),
           stage' = [stage EXCEPT ![r] = s], child' = [child EXCEPT ![r] = None]
    PROVE  Proceeds(r)
<1> DEFINE e == UpdatedRow(runs[r], "running", None)
<1>1. RunStep(r, e, s, None, None)
  BY UpdatedTable DEF Reported, RunStep, IInv, Tables
<1>2. Good(r, e, s, None, None)
  BY RowFacts, OutsideRow DEF Good
<1> QED BY <1>1, <1>2 DEF Proceeds

LEMMA Finished ==
    ASSUME IInv, NEW r \in Run, NEW v \in Spoken \cup {None}, spoken' = [spoken EXCEPT ![r] = v],
           v # None => v.said = ExtractClaudeStreamAnswer(v.process),
           \/ Fail(r)
           \/ \E answer \in FinalAnswer : Complete(r, answer) /\ Honours(answer, v)
    PROVE  Proceeds(r)
<1>1. ASSUME NEW status \in Ended, NEW answer \in FinalAnswer \cup {None},
             status = "completed" => Honours(answer, v),
             runs' = Updated(r, status, answer),
             stage' = [stage EXCEPT ![r] = "over"], child' = [child EXCEPT ![r] = None]
      PROVE  Proceeds(r)
  <2> DEFINE e == UpdatedRow(runs[r], status, answer)
  <2>1. RunStep(r, e, "over", None, v)
    BY <1>1, UpdatedTable DEF RunStep
  <2>2. Good(r, e, "over", None, v)
    BY <1>1, RowFacts, OverRow DEF Good
  <2> QED BY <2>1, <2>2 DEF Proceeds
<1>2. CASE Fail(r)
  <2>1. "failed" \in Ended /\ "failed" # "completed"
    BY DEF Ended
  <2> QED BY <1>1, <1>2, <2>1 DEF Fail
<1>3. CASE \E answer \in FinalAnswer : Complete(r, answer) /\ Honours(answer, v)
  <2>1. "completed" \in Ended
    BY DEF Ended
  <2> QED BY <1>1, <1>3, <2>1 DEF Complete
<1> QED BY <1>2, <1>3

LEMMA Answers ==
    /\ Template \in FinalAnswer /\ Recalled \in FinalAnswer
    /\ \A by \in {"claude", "codex"} : \A line \in Nat : Answer(by, line) \in FinalAnswer
    /\ \A v : Honours(Recalled, v)
    /\ \A v, line : Honours(Answer("codex", line), v)
    /\ \A v : v.said = None => Honours(Template, v)
    /\ \A v : v.said # None => Honours(Answer("claude", v.said), v)
    /\ \A answer : Honours(answer, None)
BY DEF Template, Recalled, Answer, FinalAnswer, Honours

(* The end of a chat, with an answer that honours what Claude said.        *)
LEMMA ChatEnded ==
    ASSUME IInv, NEW r \in Run, NEW v \in Spoken \cup {None}, spoken' = [spoken EXCEPT ![r] = v],
           v # None => v.said = ExtractClaudeStreamAnswer(v.process),
           NEW answer \in FinalAnswer, Honours(answer, v), EndChat(r, answer)
    PROVE  Proceeds(r)
<1>1. \/ Fail(r)
      \/ \E final \in FinalAnswer : Complete(r, final) /\ Honours(final, v)
  BY Answers DEF EndChat
<1> QED BY <1>1, Finished

LEMMA SpokenSame ==
    ASSUME IInv, NEW r \in Run, UNCHANGED spoken
    PROVE  spoken' = [spoken EXCEPT ![r] = spoken[r]]
BY DEF IInv, Tables

LEMMA ManagerStep ==
    ASSUME IInv, NEW r \in Run,
           ManagerFails(r) \/ BeginTriage(r) \/ Decide(r) \/ MissionReports(r) \/ MissionEnds(r)
    PROVE  Proceeds(r)
<1>1. /\ stage[r] \in {"brain", "routed", "mission"} /\ stage[r] \in Waiting
      /\ UNCHANGED spoken
  BY DEF ManagerFails, BeginTriage, Decide, MissionReports, MissionEnds, Waiting
<1>2. spoken[r] = None /\ spoken' = [spoken EXCEPT ![r] = None]
  BY <1>1, RowFacts, SpokenSame DEF HeardRow
<1>3. child[r] = None /\ child = [child EXCEPT ![r] = None]
      /\ stage = [stage EXCEPT ![r] = stage[r]]
  BY <1>1, RowFacts, CallFacts DEF TypedRow, IInv, Tables
<1>4. CASE ManagerFails(r)
  BY <1>2, <1>4, Finished DEF ManagerFails
<1>5. CASE BeginTriage(r)
  <2>1. "triage_claude" \in DOMAIN Calls
    BY CallFacts
  <2>2. CASE Call(r, "triage_claude")
    BY <1>1, <1>2, <2>1, <2>2, Called
  <2>3. CASE Route(r)
    BY <1>1, <1>2, <2>3, Routed DEF Route
  <2> QED BY <1>5, <2>2, <2>3 DEF BeginTriage
<1>6. CASE Decide(r)
  <2>1. "answer_claude" \in DOMAIN Calls
    BY CallFacts
  <2>2. CASE Call(r, "answer_claude")
    BY <1>1, <1>2, <2>1, <2>2, Called
  <2>3. CASE Complete(r, Template)
    BY <1>2, <2>3, Answers, Finished
  <2>4. CASE /\ stage' = [stage EXCEPT ![r] = "mission"]
             /\ runs' = Reported(r)
             /\ UNCHANGED child
    BY <1>1, <1>2, <1>3, <2>4, Routed
  <2> QED BY <1>6, <2>2, <2>3, <2>4 DEF Decide
<1>7. CASE MissionReports(r)
  BY <1>1, <1>2, <1>3, <1>7, Routed DEF MissionReports
<1>8. CASE MissionEnds(r)
  BY <1>2, <1>8, Answers, Finished DEF MissionEnds
<1> QED BY <1>4, <1>5, <1>6, <1>7, <1>8

(* The end of a call.                                                      *)
LEMMA ContinueStep ==
    ASSUME IInv, NEW r \in Run, Calling(r), NEW c \in Child, NEW said \in Nat \cup {None},
           Claude(r) => said = ExtractClaudeStreamAnswer(c), Continue(r, c, said)
    PROVE  Proceeds(r)
<1>1. /\ stage[r] \in {"triage_claude", "triage_codex", "answer_claude", "answer_codex"}
      /\ stage[r] \in Waiting
  BY RowFacts, CallFacts DEF Waiting
<1>2. CASE stage[r] \in {"triage_claude", "triage_codex"}
  <2>1. ContinueTriage(r, said) /\ spoken[r] = None
    BY <1>2, RowFacts DEF Continue, HeardRow
  <2>2. UNCHANGED spoken /\ spoken' = [spoken EXCEPT ![r] = None]
    BY <2>1, SpokenSame DEF ContinueTriage
  <2>3. CASE Route(r)
    BY <1>1, <2>1, <2>2, <2>3, Routed DEF Route
  <2>4. CASE Call(r, "triage_codex")
    <3>1. "triage_codex" \in DOMAIN Calls
      BY CallFacts
    <3> QED BY <1>1, <2>2, <2>4, <3>1, Called
  <2> QED BY <2>1, <2>3, <2>4 DEF ContinueTriage
<1>3. CASE stage[r] = "answer_claude"
  <2> DEFINE v == [process |-> c, said |-> said]
  <2>1. Claude(r) /\ said = ExtractClaudeStreamAnswer(c)
    BY <1>3, CallFacts DEF Claude
  <2>2. ContinueClaude(r, c, said)
    BY <1>3 DEF Continue
  <2>3. /\ v \in Spoken /\ v # None /\ v.said = said
        /\ v.said = ExtractClaudeStreamAnswer(v.process)
        /\ spoken' = [spoken EXCEPT ![r] = v]
    BY <2>1, <2>2, NullAssumption DEF Spoken, ContinueClaude
  <2>4. \/ Call(r, "answer_codex")
        \/ said # None /\ EndChat(r, Answer("claude", said))
        \/ said = None /\ EndChat(r, Template)
    BY <2>2 DEF ContinueClaude
  <2> HIDE DEF v
  <2>5. CASE Call(r, "answer_codex")
    <3>1. "answer_codex" \in DOMAIN Calls
      BY CallFacts
    <3> QED BY <1>1, <2>3, <2>5, <3>1, Called
  <2>6. CASE said # None /\ EndChat(r, Answer("claude", said))
    <3>1. Answer("claude", said) \in FinalAnswer /\ Honours(Answer("claude", said), v)
      BY <2>3, <2>6, Answers
    <3> QED BY <2>3, <2>6, <3>1, ChatEnded
  <2>7. CASE said = None /\ EndChat(r, Template)
    <3>1. Template \in FinalAnswer /\ Honours(Template, v)
      BY <2>3, <2>7, Answers
    <3> QED BY <2>3, <2>7, <3>1, ChatEnded
  <2> QED BY <2>4, <2>5, <2>6, <2>7
<1>4. CASE stage[r] = "answer_codex"
  <2> DEFINE v == spoken[r]
  <2>1. ContinueCodex(r, said)
    BY <1>4 DEF Continue
  <2>2. /\ v \in Spoken /\ v # None /\ v.said \in Nat \cup {None}
        /\ v.said = ExtractClaudeStreamAnswer(v.process)
        /\ spoken' = [spoken EXCEPT ![r] = v]
    BY <1>4, <2>1, RowFacts, SpokenSame DEF HeardRow, Spoken, ContinueCodex
  <2>3. \/ said # None /\ EndChat(r, Answer("codex", said))
        \/ v.said # None /\ EndChat(r, Answer("claude", v.said))
        \/ v.said = None /\ EndChat(r, Template)
    BY <2>1 DEF ContinueCodex
  <2> HIDE DEF v
  <2>4. CASE said # None /\ EndChat(r, Answer("codex", said))
    <3>1. Answer("codex", said) \in FinalAnswer /\ Honours(Answer("codex", said), v)
      BY <2>4, Answers
    <3> QED BY <2>2, <2>4, <3>1, ChatEnded
  <2>5. CASE v.said # None /\ EndChat(r, Answer("claude", v.said))
    <3>1. Answer("claude", v.said) \in FinalAnswer /\ Honours(Answer("claude", v.said), v)
      BY <2>2, <2>5, Answers
    <3> QED BY <2>2, <2>5, <3>1, ChatEnded
  <2>6. CASE v.said = None /\ EndChat(r, Template)
    <3>1. Template \in FinalAnswer /\ Honours(Template, v)
      BY <2>6, Answers
    <3> QED BY <2>2, <2>6, <3>1, ChatEnded
  <2> QED BY <2>3, <2>4, <2>5, <2>6
<1> QED BY <1>1, <1>2, <1>3, <1>4

-----------------------------------------------------------------------------
(* The program and what its parent does about it.                          *)

(* The process changes, and perhaps an event is reported.                  *)
LEMMA ChildStep ==
    ASSUME IInv, NEW r \in Run, Calling(r), NEW c \in Child, c.seen <= Len(c.out),
           c.left = child[r].left,
           c.held => child[r].held \/ Calls[stage[r]].cli \in Holders,
           c.timedOut => child[r].timedOut \/ Calls[stage[r]].cli = "codex",
           child' = [child EXCEPT ![r] = c], UNCHANGED <<stage, spoken>>,
           runs' = runs \/ runs' = Reported(r)
    PROVE  Proceeds(r)
<1> DEFINE reported == UpdatedRow(runs[r], "running", None)
<1>1. /\ TypedRow(runs[r], stage[r], child[r], spoken[r])
      /\ HeardRow(runs[r], stage[r], spoken[r])
      /\ runs[r] \in ChatRunSnapshot \cup {Absent} /\ child[r] \in Child
  BY RowFacts
<1>2. c # None /\ child[r] # None /\ c.left \in Nat
  BY NullAssumption DEF Calling, Child
<1>3. \E e : /\ e = runs[r] \/ e = reported
             /\ RunStep(r, e, stage[r], c, spoken[r])
  <2>1. stage' = [stage EXCEPT ![r] = stage[r]] /\ spoken' = [spoken EXCEPT ![r] = spoken[r]]
    BY DEF IInv, Tables
  <2>2. CASE runs' = runs
    <3>1. runs' = [runs EXCEPT ![r] = runs[r]]
      BY <2>2 DEF IInv, Tables
    <3> QED BY <2>1, <3>1 DEF RunStep
  <2>3. CASE runs' = Reported(r)
    <3>1. runs' = [runs EXCEPT ![r] = reported]
      BY <2>3, UpdatedTable DEF Reported
    <3> QED BY <2>1, <3>1 DEF RunStep
  <2> QED BY <2>2, <2>3
<1>4. /\ reported \in ChatRunSnapshot \cup {Absent} /\ (reported = Absent <=> runs[r] = Absent)
      /\ reported # Absent => reported.status = "running" /\ reported.age = 0
  <2>1. ASSUME NEW e \in ChatRunSnapshot \cup {Absent}
        PROVE  LET n == UpdatedRow(e, "running", None)
               IN  /\ n \in ChatRunSnapshot \cup {Absent} /\ (n = Absent <=> e = Absent)
                   /\ n # Absent => n.status = "running" /\ n.age = 0
    BY UpdatedRowType
  <2> QED BY <1>1, <2>1
<1> HIDE DEF reported
<1>5. runs[r] # Absent => runs[r].age \in Nat
  BY <1>1, ChatRunsAssumption DEF ChatRunSnapshot
<1>6. stage[r] \notin {"brain", "routed", "mission"} /\ Calls[stage[r]].timeout \in Nat
  BY RowFacts, CallFacts
<1>7. ASSUME NEW e, e = runs[r] \/ e = reported
      PROVE  Good(r, e, stage[r], c, spoken[r])
  <2>1. TypedRow(e, stage[r], c, spoken[r])
    BY <1>1, <1>2, <1>4, <1>7 DEF TypedRow
  <2>2. HeardRow(e, stage[r], spoken[r])
    BY <1>1, <1>4, <1>7 DEF HeardRow
  <2>3. ASSUME KeptRow(runs[r], stage[r], child[r])
        PROVE  KeptRow(e, stage[r], c)
    <3>1. /\ runs[r] # Absent /\ runs[r].age + child[r].left <= Calls[stage[r]].timeout
          /\ child[r].held => Calls[stage[r]].cli \in Holders
          /\ child[r].timedOut => Calls[stage[r]].cli = "codex"
      BY <1>2, <2>3 DEF KeptRow
    <3>2. e # Absent /\ e.age + c.left <= Calls[stage[r]].timeout
      BY <1>2, <1>4, <1>5, <1>6, <1>7, <3>1
    <3> QED BY <1>6, <3>1, <3>2 DEF KeptRow
  <2> QED BY <2>1, <2>2, <2>3 DEF Good
<1> QED BY <1>3, <1>7 DEF Proceeds

LEMMA ChildTypes ==
    ASSUME NEW c \in Child
    PROVE  /\ \A line \in Line :
                 /\ Writes(c, line) \in Child /\ Writes(c, line).left = c.left
                 /\ Writes(c, line).held = c.held /\ Writes(c, line).timedOut = c.timedOut
                 /\ Writes(c, line).seen = c.seen
                 /\ Len(Writes(c, line).out) = Len(c.out) + 1
           /\ ForceKill(c) \in Child /\ ForceKill(c).left = c.left
           /\ ForceKill(c).held = c.held /\ ForceKill(c).timedOut = c.timedOut
           /\ ForceKill(c).seen = c.seen /\ ForceKill(c).out = c.out
           /\ Unseen(c) => /\ Sees(c) \in Child /\ Sees(c).left = c.left
                           /\ Sees(c).held = c.held /\ Sees(c).timedOut = c.timedOut
                           /\ Sees(c).seen <= Len(Sees(c).out)
<1>1. ASSUME NEW line \in Line
      PROVE  /\ Writes(c, line) \in Child /\ Writes(c, line).left = c.left
             /\ Writes(c, line).held = c.held /\ Writes(c, line).timedOut = c.timedOut
             /\ Writes(c, line).seen = c.seen
             /\ Len(Writes(c, line).out) = Len(c.out) + 1
  <2>1. Append(c.out, line) \in Seq(Line) /\ Len(Append(c.out, line)) = Len(c.out) + 1
    BY DEF Child
  <2> QED BY <2>1 DEF Writes, Child
<1>2. /\ ForceKill(c) \in Child /\ ForceKill(c).left = c.left
      /\ ForceKill(c).held = c.held /\ ForceKill(c).timedOut = c.timedOut
      /\ ForceKill(c).seen = c.seen /\ ForceKill(c).out = c.out
  BY DEF ForceKill, Child
<1>3. ASSUME Unseen(c)
      PROVE  /\ Sees(c) \in Child /\ Sees(c).left = c.left
             /\ Sees(c).held = c.held /\ Sees(c).timedOut = c.timedOut
             /\ Sees(c).seen <= Len(Sees(c).out)
  <2>1. c.seen \in Nat /\ Len(c.out) \in Nat /\ c.seen < Len(c.out) /\ c.seen + 1 \in Nat
    BY <1>3 DEF Unseen, Child
  <2> QED BY <2>1 DEF Sees, Child
<1> QED BY <1>1, <1>2, <1>3

LEMMA TimesOutChild ==
    ASSUME NEW c \in Child
    PROVE  /\ TimesOut(c) \in Child /\ TimesOut(c).left = c.left
           /\ TimesOut(c).held = c.held
           /\ TimesOut(c).seen = c.seen /\ TimesOut(c).out = c.out
<1> DEFINE late == [c EXCEPT !.timedOut = TRUE]
<1>1. /\ late \in Child /\ late.left = c.left /\ late.held = c.held
      /\ late.seen = c.seen /\ late.out = c.out
  BY DEF Child
<1> HIDE DEF late
<1>2. /\ ForceKill(late) \in Child /\ ForceKill(late).left = c.left
      /\ ForceKill(late).held = c.held
      /\ ForceKill(late).seen = c.seen /\ ForceKill(late).out = c.out
  BY <1>1, ChildTypes
<1> QED BY <1>2 DEF TimesOut, late

LEMMA ProgramStep ==
    ASSUME IInv, NEW r \in Run,
           SpawnFails(r) \/ WriteLine(r) \/ Exit(r) \/ Release(r)
    PROVE  Proceeds(r)
<1> DEFINE c == child[r]
<1>1. Calling(r) /\ c \in Child /\ stage[r] \in DOMAIN Calls /\ c.seen <= Len(c.out)
      /\ Calls[stage[r]].timeout \in Nat /\ Len(c.out) \in Nat /\ c.seen \in Nat
  <2>1. Calling(r)
    BY DEF SpawnFails, WriteLine, Exit, Release
  <2>2. c \in Child /\ stage[r] \in DOMAIN Calls
    BY <2>1, RowFacts
  <2>3. c.seen <= Len(c.out)
    BY <2>1, RowFacts DEF TypedRow, Calling
  <2>4. Len(c.out) \in Nat /\ c.seen \in Nat
    BY <2>2 DEF Child
  <2> QED BY <2>1, <2>2, <2>3, <2>4, CallFacts
<1>2. CASE SpawnFails(r)
  <2>1. ExtractClaudeStreamAnswer(c) = None
    BY <1>1, <1>2, SpawnedChild DEF SpawnFails
  <2>2. CASE Continue(r, c, None)
    BY <1>1, <2>1, <2>2, ContinueStep
  <2>3. CASE Fail(r) /\ UNCHANGED spoken
    BY <2>3, RowFacts, SpokenSame, Finished
  <2> QED BY <1>2, <2>2, <2>3 DEF SpawnFails
<1>3. CASE WriteLine(r)
  <2>1. PICK line \in Line : child' = [child EXCEPT ![r] = Writes(c, line)]
    BY <1>3 DEF WriteLine
  <2>2. /\ Writes(c, line) \in Child /\ Writes(c, line).left = c.left
        /\ Writes(c, line).held = c.held /\ Writes(c, line).timedOut = c.timedOut
        /\ Writes(c, line).seen <= Len(Writes(c, line).out)
    <3> HIDE DEF c
    <3>1. /\ Writes(c, line) \in Child /\ Writes(c, line).left = c.left
          /\ Writes(c, line).held = c.held /\ Writes(c, line).timedOut = c.timedOut
          /\ Writes(c, line).seen = c.seen
          /\ Len(Writes(c, line).out) = Len(c.out) + 1
      BY <1>1, ChildTypes
    <3> DEFINE n == Len(Writes(c, line).out)
    <3>2. n = Len(c.out) + 1
      BY <3>1
    <3> HIDE DEF n
    <3>3. c.seen <= n
      BY <1>1, <3>2
    <3> QED BY <3>1, <3>3 DEF n
  <2> QED BY <1>1, <1>3, <2>1, <2>2, ChildStep DEF WriteLine
<1>4. CASE Exit(r)
  <2>1. PICK code \in ExitCodes(c), held \in BOOLEAN :
            /\ held => Calls[stage[r]].cli \in Holders
            /\ child' = [child EXCEPT ![r] = Exits(c, code, held)]
    BY <1>4 DEF Exit
  <2>2. /\ Exits(c, code, held) \in Child /\ Exits(c, code, held).left = c.left
        /\ Exits(c, code, held).held = held /\ Exits(c, code, held).timedOut = c.timedOut
        /\ Exits(c, code, held).seen = c.seen /\ Exits(c, code, held).out = c.out
    BY <1>1 DEF Exits, ExitCodes, Child
  <2> QED BY <1>1, <1>4, <2>1, <2>2, ChildStep DEF Exit
<1>5. CASE Release(r)
  <2> DEFINE n == [c EXCEPT !.held = FALSE]
  <2>1. child' = [child EXCEPT ![r] = n]
    BY <1>5 DEF Release
  <2>2. /\ n \in Child /\ n.left = c.left /\ n.held = FALSE /\ n.timedOut = c.timedOut
        /\ n.seen = c.seen /\ n.out = c.out
    BY <1>1 DEF Child
  <2> HIDE DEF n
  <2> QED BY <1>1, <1>5, <2>1, <2>2, ChildStep DEF Release
<1> QED BY <1>2, <1>3, <1>4, <1>5

LEMMA ParentStep ==
    ASSUME IInv, NEW r \in Run, Data(r) \/ Timeout(r) \/ Close(r)
    PROVE  Proceeds(r)
<1> DEFINE c == child[r]
<1>1. Calling(r) /\ c \in Child /\ stage[r] \in DOMAIN Calls /\ c.seen <= Len(c.out)
  BY RowFacts DEF Data, Timeout, Close, TypedRow, Calling
<1>2. CASE Data(r)
  <2> DEFINE n == Sees(c)
  <2>1. /\ n \in Child /\ n.left = c.left /\ n.held = c.held /\ n.timedOut = c.timedOut
        /\ n.seen <= Len(n.out)
    BY <1>1, <1>2, ChildTypes DEF Data
  <2>2. \/ Claude(r) /\ Continue(r, ForceKill(n), ExtractClaudeStreamAnswer(n))
        \/ /\ child' = [child EXCEPT ![r] = n] /\ UNCHANGED <<stage, spoken>>
           /\ runs' = runs \/ runs' = Reported(r)
    BY <1>2 DEF Data
  <2> HIDE DEF n
  <2>3. CASE Claude(r) /\ Continue(r, ForceKill(n), ExtractClaudeStreamAnswer(n))
    <3>1. ForceKill(n) \in Child /\ ForceKill(n).seen = n.seen /\ ForceKill(n).out = n.out
      BY <2>1, ChildTypes
    <3>2. ExtractClaudeStreamAnswer(n) = ExtractClaudeStreamAnswer(ForceKill(n))
      BY <3>1 DEF ExtractClaudeStreamAnswer, Parsed
    <3>3. ExtractClaudeStreamAnswer(n) \in Nat \cup {None}
      BY <2>1, Extracted
    <3> QED BY <1>1, <2>3, <3>1, <3>2, <3>3, ContinueStep
  <2>4. CASE /\ child' = [child EXCEPT ![r] = n] /\ UNCHANGED <<stage, spoken>>
             /\ runs' = runs \/ runs' = Reported(r)
    BY <1>1, <2>1, <2>4, ChildStep
  <2> QED BY <2>2, <2>3, <2>4
<1>3. CASE Timeout(r)
  <2> DEFINE n == TimesOut(c)
  <2>1. /\ n \in Child /\ n.left = c.left /\ n.held = c.held
        /\ n.seen = c.seen /\ n.out = c.out
    BY <1>1, TimesOutChild
  <2>2. \/ Claude(r) /\ Continue(r, n, ExtractClaudeStreamAnswer(n))
        \/ /\ ~ Claude(r) /\ child' = [child EXCEPT ![r] = n]
           /\ UNCHANGED <<runs, stage, spoken>>
    BY <1>3 DEF Timeout
  <2> HIDE DEF n
  <2>3. CASE Claude(r) /\ Continue(r, n, ExtractClaudeStreamAnswer(n))
    BY <1>1, <2>1, <2>3, Extracted, ContinueStep
  <2>4. CASE /\ ~ Claude(r) /\ child' = [child EXCEPT ![r] = n]
             /\ UNCHANGED <<runs, stage, spoken>>
    <3>1. Calls[stage[r]].cli = "codex"
      BY <1>1, <2>4, CallFacts DEF Claude
    <3> QED BY <1>1, <2>1, <2>4, <3>1, ChildStep
  <2> QED BY <2>2, <2>3, <2>4
<1>4. CASE Close(r)
  <2>1. CASE Claude(r)
    <3>1. Continue(r, c, ExtractClaudeStreamAnswer(c))
      BY <1>4, <2>1 DEF Close
    <3> QED BY <1>1, <3>1, Extracted, ContinueStep
  <2>2. CASE ~ Claude(r)
    <3>1. Continue(r, c, CodexSaid(c))
      BY <1>4, <2>2 DEF Close
    <3> QED BY <1>1, <2>2, <3>1, CodexSaidType, ContinueStep
  <2> QED BY <2>1, <2>2
<1> QED BY <1>2, <1>3, <1>4

-----------------------------------------------------------------------------
(* Every step.                                                             *)

(* What a step keeps of one run.                                           *)
RowKept(r) ==
    /\ TypedRow(runs'[r], stage'[r], child'[r], spoken'[r])
    /\ HeardRow(runs'[r], stage'[r], spoken'[r])
    /\ KeptRow(runs[r], stage[r], child[r]) => KeptRow(runs'[r], stage'[r], child'[r])

LEMMA ProceedsKeeps ==
    ASSUME IInv, NEW r \in Run, Proceeds(r), UNCHANGED <<brain, page>>
    PROVE  Tables' /\ \A q \in Run : RowKept(q)
<1>1. PICK e, s, c, v : RunStep(r, e, s, c, v) /\ Good(r, e, s, c, v)
  BY DEF Proceeds
<1>2. Tables'
  BY <1>1 DEF RunStep, Good, TypedRow, IInv, Tables
<1>3. ASSUME NEW q \in Run PROVE RowKept(q)
  <2>1. CASE q = r
    <3>1. runs'[q] = e /\ stage'[q] = s /\ child'[q] = c /\ spoken'[q] = v
      BY <1>1, <2>1 DEF RunStep, IInv, Tables
    <3> QED BY <1>1, <2>1, <3>1 DEF Good, RowKept
  <2>2. CASE q # r
    <3>1. /\ runs'[q] = runs[q] /\ stage'[q] = stage[q]
          /\ child'[q] = child[q] /\ spoken'[q] = spoken[q]
      BY <1>1, <2>2 DEF RunStep, IInv, Tables
    <3> QED BY <3>1, RowFacts DEF RowKept
  <2> QED BY <2>1, <2>2
<1> QED BY <1>2, <1>3

(* Pruning drops no entry that is young enough.                            *)
LEMMA PrunedRow ==
    ASSUME IInv, NEW r \in Run
    PROVE  /\ Pruned(runs)[r] \in {runs[r], Absent}
           /\ TypedRow(Pruned(runs)[r], stage[r], child[r], spoken[r])
           /\ HeardRow(Pruned(runs)[r], stage[r], spoken[r])
           /\ KeptRow(runs[r], stage[r], child[r]) =>
                  KeptRow(Pruned(runs)[r], stage[r], child[r])
<1> DEFINE e == Pruned(runs)[r]
<1>1. e = IF runs[r] # Absent /\ runs[r].age > Ttl THEN Absent ELSE runs[r]
  BY DEF Pruned
<1>2. /\ TypedRow(runs[r], stage[r], child[r], spoken[r])
      /\ HeardRow(runs[r], stage[r], spoken[r])
      /\ runs[r] \in ChatRunSnapshot \cup {Absent}
  BY RowFacts
<1> HIDE DEF e
<1>3. TypedRow(e, stage[r], child[r], spoken[r]) /\ HeardRow(e, stage[r], spoken[r])
  BY <1>1, <1>2 DEF TypedRow, HeardRow
<1>4. ASSUME KeptRow(runs[r], stage[r], child[r]) PROVE KeptRow(e, stage[r], child[r])
  <2>1. CASE e = runs[r]
    BY <1>4, <2>1
  <2>2. CASE e # runs[r]
    <3>1. runs[r] # Absent /\ runs[r].age > Ttl /\ runs[r].age \in Nat
      BY <1>1, <1>2, <2>2 DEF ChatRunSnapshot
    <3>2. stage[r] \notin {"brain", "routed", "mission"}
      BY <1>4, <3>1, ChatRunsAssumption DEF KeptRow
    <3>3. child[r] = None
      <4>1. SUFFICES ASSUME child[r] # None PROVE FALSE
        OBVIOUS
      <4>2. stage[r] \in DOMAIN Calls /\ child[r] \in Child
        BY <1>2, <4>1 DEF TypedRow
      <4>3. child[r].left \in Nat
        BY <4>2 DEF Child
      <4>4. runs[r].age + child[r].left <= Calls[stage[r]].timeout
        BY <1>4, <4>1 DEF KeptRow
      <4>5. Calls[stage[r]].timeout \in Nat /\ Calls[stage[r]].timeout <= Ttl
        BY <4>2, CallFacts
      <4> QED BY <3>1, <4>3, <4>4, <4>5, ChatRunsAssumption
    <3> QED BY <3>2, <3>3 DEF KeptRow
  <2> QED BY <2>1, <2>2
<1>5. e \in {runs[r], Absent}
  BY <1>1
<1> QED BY <1>3, <1>4, <1>5 DEF e

LEMMA StartOtherKeeps ==
    ASSUME IInv, StartOther
    PROVE  Tables' /\ \A q \in Run : RowKept(q)
<1>1. /\ runs' = Pruned(runs) /\ stage' = stage /\ child' = child
      /\ spoken' = spoken /\ brain' = brain /\ page' = page
  BY DEF StartOther
<1>2. \A q \in Run : Pruned(runs)[q] \in ChatRunSnapshot \cup {Absent}
  BY PrunedRow DEF TypedRow
<1>3. Pruned(runs) \in [Run -> ChatRunSnapshot \cup {Absent}]
  <2>1. Pruned(runs) = [q \in Run |-> Pruned(runs)[q]]
    BY DEF Pruned
  <2> QED BY <1>2, <2>1
<1>4. Tables'
  BY <1>1, <1>3 DEF IInv, Tables
<1>5. \A q \in Run : RowKept(q)
  BY <1>1, PrunedRow DEF RowKept
<1> QED BY <1>4, <1>5

LEMMA StartRunKeeps ==
    ASSUME IInv, NEW r \in Run, StartRun(r)
    PROVE  Tables' /\ \A q \in Run : RowKept(q)
<1> DEFINE e == [status |-> "running", age |-> 0, answer |-> None]
           table == Pruned(runs)
<1>1. /\ stage[r] = "idle"
      /\ runs' = [table EXCEPT ![r] = e]
      /\ stage' = [stage EXCEPT ![r] = "brain"]
      /\ page' = [page EXCEPT ![r] = "following"]
      /\ child' = child /\ brain' = brain /\ spoken' = spoken
  BY DEF StartRun
<1>2. /\ e \in ChatRunSnapshot /\ e.status = "running" /\ e.age = 0 /\ e # Absent
      /\ 0 <= Quiet
  BY ChatRunsAssumption, NullAssumption DEF ChatRunSnapshot
<1>3. table \in [Run -> ChatRunSnapshot \cup {Absent}]
  <2>1. \A q \in Run : table[q] \in ChatRunSnapshot \cup {Absent}
    BY PrunedRow DEF TypedRow
  <2>2. table = [q \in Run |-> table[q]]
    BY DEF Pruned
  <2> QED BY <2>1, <2>2
<1>4. child[r] = None /\ spoken[r] = None
  <2>1. "idle" \notin DOMAIN Calls
    BY CallFacts
  <2> QED BY <1>1, <2>1, RowFacts DEF TypedRow, HeardRow
<1>5. "brain" \in Stages /\ "brain" \notin DOMAIN Calls
  BY CallFacts DEF Stages
<1> HIDE DEF e, table
<1>6. Tables'
  BY <1>1, <1>2, <1>3, <1>5 DEF IInv, Tables
<1>7. ASSUME NEW q \in Run PROVE RowKept(q)
  <2>1. CASE q = r
    <3>1. runs'[q] = e /\ stage'[q] = "brain" /\ child'[q] = None /\ spoken'[q] = None
      BY <1>1, <1>3, <1>4, <2>1 DEF IInv, Tables
    <3>2. /\ TypedRow(e, "brain", None, None) /\ HeardRow(e, "brain", None)
          /\ KeptRow(e, "brain", None)
      BY <1>2, <1>5 DEF TypedRow, HeardRow, KeptRow
    <3> QED BY <3>1, <3>2 DEF RowKept
  <2>2. CASE q # r
    <3>1. /\ runs'[q] = table[q] /\ stage'[q] = stage[q]
          /\ child'[q] = child[q] /\ spoken'[q] = spoken[q]
      BY <1>1, <1>3, <2>2 DEF IInv, Tables
    <3> QED BY <3>1, PrunedRow DEF RowKept, table
  <2> QED BY <2>1, <2>2
<1> QED BY <1>6, <1>7

LEMMA PollKeeps ==
    ASSUME IInv, NEW r \in Run, Poll(r)
    PROVE  Tables' /\ \A q \in Run : RowKept(q)
<1>1. /\ UNCHANGED <<runs, stage, child, brain, spoken>>
      /\ page[r] = "following"
      /\ page' = [page EXCEPT ![r] = page'[r]]
      /\ page'[r] \in {"lost", "answered", "following"}
  BY DEF Poll, IInv, Tables
<1>2. Tables'
  BY <1>1 DEF IInv, Tables
<1> QED BY <1>1, <1>2, RowFacts DEF RowKept

(* Time goes by: a program of which nothing is left but what holds its     *)
(* streams is not waited for, or it is one that may be held.               *)
LEMMA TickKeeps ==
    ASSUME IInv, Tick
    PROVE  /\ Tables'
           /\ \A q \in Run : /\ TypedRow(runs'[q], stage'[q], child'[q], spoken'[q])
                             /\ HeardRow(runs'[q], stage'[q], spoken'[q])
           /\ Kept /\ "codex" \notin Holders => Kept'
<1> DEFINE Older(e) == IF e = Absent THEN Absent
                       ELSE [e EXCEPT !.age = IF @ > Ttl THEN @ ELSE @ + 1]
           Later(c) == IF c # None /\ c.left > 0 THEN [c EXCEPT !.left = @ - 1] ELSE c
<1>1. /\ runs' = [q \in Run |-> Older(runs[q])]
      /\ child' = [q \in Run |-> Later(child[q])]
      /\ stage' = stage /\ brain' = brain /\ spoken' = spoken /\ page' = page
  BY DEF Tick, Calling
<1>2. Ttl \in Nat
  BY ChatRunsAssumption
<1>3. ASSUME NEW e \in ChatRunSnapshot
      PROVE  /\ Older(e) \in ChatRunSnapshot /\ Older(e) # Absent
             /\ Older(e).status = e.status /\ Older(e).answer = e.answer
             /\ e.age \in Nat /\ (e.age <= Ttl => Older(e).age = e.age + 1)
  <2>1. e # Absent
    BY NullAssumption
  <2> DEFINE age == IF e.age > Ttl THEN e.age ELSE e.age + 1
  <2>2. Older(e) = [e EXCEPT !.age = age]
    BY <2>1
  <2>3. age \in 0..(Ttl + 1) /\ e.age \in Nat /\ (e.age <= Ttl => age = e.age + 1)
    BY <1>2 DEF ChatRunSnapshot
  <2> HIDE DEF age, Older
  <2>4. /\ Older(e) \in ChatRunSnapshot /\ Older(e).age = age
        /\ Older(e).status = e.status /\ Older(e).answer = e.answer
    BY <2>2, <2>3 DEF ChatRunSnapshot
  <2> QED BY <2>3, <2>4, NullAssumption
<1>4. ASSUME NEW c \in Child
      PROVE  /\ Later(c) \in Child /\ Later(c) # None
             /\ Later(c).seen = c.seen /\ Later(c).out = c.out
             /\ Later(c).held = c.held /\ Later(c).timedOut = c.timedOut
             /\ c.left \in Nat /\ (c.left > 0 => Later(c).left = c.left - 1)
  <2>1. c # None /\ c.left \in Nat
    BY NullAssumption DEF Child
  <2>2. CASE c.left > 0
    <3>1. Later(c) = [c EXCEPT !.left = c.left - 1] /\ c.left - 1 \in Nat
      BY <2>1, <2>2
    <3> HIDE DEF Later
    <3>2. /\ Later(c) \in Child /\ Later(c).left = c.left - 1
          /\ Later(c).seen = c.seen /\ Later(c).out = c.out
          /\ Later(c).held = c.held /\ Later(c).timedOut = c.timedOut
      BY <3>1 DEF Child
    <3> QED BY <2>1, <3>2, NullAssumption
  <2>3. CASE ~ (c.left > 0)
    <3>1. Later(c) = c
      BY <2>3
    <3> HIDE DEF Later
    <3> QED BY <2>1, <2>3, <3>1
  <2> QED BY <2>2, <2>3
<1>5. Older(Absent) = Absent /\ Later(None) = None
  OBVIOUS
<1> HIDE DEF Older, Later
<1>6. ASSUME NEW q \in Run
      PROVE  /\ runs'[q] = Older(runs[q]) /\ stage'[q] = stage[q]
             /\ child'[q] = Later(child[q]) /\ spoken'[q] = spoken[q]
  BY <1>1
<1>7. ASSUME NEW q \in Run
      PROVE  /\ TypedRow(Older(runs[q]), stage[q], Later(child[q]), spoken[q])
             /\ HeardRow(Older(runs[q]), stage[q], spoken[q])
  <2>1. /\ TypedRow(runs[q], stage[q], child[q], spoken[q])
        /\ HeardRow(runs[q], stage[q], spoken[q])
        /\ runs[q] \in ChatRunSnapshot \cup {Absent}
        /\ child[q] \in Child \cup {None}
    BY RowFacts DEF TypedRow
  <2>2. /\ Older(runs[q]) \in ChatRunSnapshot \cup {Absent}
        /\ Older(runs[q]) # Absent => /\ runs[q] # Absent
                                      /\ Older(runs[q]).status = runs[q].status
                                      /\ Older(runs[q]).answer = runs[q].answer
    BY <1>3, <1>5, <2>1
  <2>3. /\ Later(child[q]) \in Child \cup {None}
        /\ Later(child[q]) = None <=> child[q] = None
        /\ child[q] # None => /\ Later(child[q]).seen = child[q].seen
                              /\ Later(child[q]).out = child[q].out
    BY <1>4, <1>5, <2>1
  <2>4. TypedRow(Older(runs[q]), stage[q], Later(child[q]), spoken[q])
    BY <2>1, <2>2, <2>3 DEF TypedRow
  <2>5. HeardRow(Older(runs[q]), stage[q], spoken[q])
    BY <2>1, <2>2 DEF HeardRow
  <2> QED BY <2>4, <2>5
<1>8. Tables'
  <2>1. /\ \A q \in Run : Older(runs[q]) \in ChatRunSnapshot \cup {Absent}
        /\ \A q \in Run : Later(child[q]) \in Child \cup {None}
    BY <1>7 DEF TypedRow
  <2> QED BY <1>1, <2>1 DEF IInv, Tables
<1>9. ASSUME NEW q \in Run, KeptRow(runs[q], stage[q], child[q]), "codex" \notin Holders
      PROVE  KeptRow(Older(runs[q]), stage[q], Later(child[q]))
  <2>1. runs[q] \in ChatRunSnapshot \cup {Absent} /\ child[q] \in Child \cup {None}
    BY RowFacts DEF TypedRow
  <2>2. ASSUME stage[q] \in {"brain", "routed", "mission"}
        PROVE  Older(runs[q]) # Absent /\ Older(runs[q]).age <= Quiet
    <3>1. runs[q] # Absent /\ runs[q].age < Quiet
      BY <1>9, <2>2 DEF KeptRow, Tick
    <3>2. runs[q].age \in Nat /\ Older(runs[q]) # Absent
          /\ (runs[q].age <= Ttl => Older(runs[q]).age = runs[q].age + 1)
      BY <1>3, <2>1, <3>1
    <3> QED BY <3>1, <3>2, ChatRunsAssumption
  <2>3. ASSUME child[q] # None
        PROVE  /\ Older(runs[q]) # Absent
               /\ Older(runs[q]).age + Later(child[q]).left <= Calls[stage[q]].timeout
               /\ Later(child[q]).held => Calls[stage[q]].cli \in Holders
               /\ Later(child[q]).timedOut => Calls[stage[q]].cli = "codex"
    <3>1. /\ runs[q] # Absent /\ runs[q].age + child[q].left <= Calls[stage[q]].timeout
          /\ child[q].held => Calls[stage[q]].cli \in Holders
          /\ child[q].timedOut => Calls[stage[q]].cli = "codex"
      BY <1>9, <2>3 DEF KeptRow
    <3>2. child[q].left # 0 /\ ~ child[q].timedOut
      <4>1. /\ ~ Expired(child[q])
            /\ child[q].timedOut => child[q].exited /\ child[q].held
        BY <2>3 DEF Tick, Calling
      <4> QED BY <1>9, <3>1, <4>1 DEF Expired
    <3>3. /\ child[q].left \in Nat /\ child[q].left > 0
          /\ Later(child[q]).left = child[q].left - 1
          /\ Later(child[q]).held = child[q].held
          /\ Later(child[q]).timedOut = child[q].timedOut
      <4>1. child[q] \in Child
        BY <2>1, <2>3
      <4>2. child[q].left \in Nat
        BY <1>4, <4>1
      <4>3. child[q].left > 0
        BY <3>2, <4>2
      <4> QED BY <1>4, <4>1, <4>3
    <3>4. /\ runs[q].age \in Nat /\ Older(runs[q]) # Absent
          /\ (runs[q].age <= Ttl => Older(runs[q]).age = runs[q].age + 1)
      BY <1>3, <2>1, <3>1
    <3>5. Calls[stage[q]].timeout \in Nat /\ Calls[stage[q]].timeout <= Ttl
      BY <2>3, RowFacts, CallFacts DEF Calling
    <3> HIDE DEF Expired
    <3>6. runs[q].age <= Ttl
      BY <1>2, <3>1, <3>3, <3>4, <3>5
    <3>7. Older(runs[q]).age + Later(child[q]).left <= Calls[stage[q]].timeout
      BY <3>1, <3>3, <3>4, <3>5, <3>6
    <3> QED BY <3>1, <3>3, <3>4, <3>7
  <2>4. Later(child[q]) # None => child[q] # None
    BY <1>5
  <2> QED BY <2>2, <2>3, <2>4 DEF KeptRow
<1>10. ASSUME Kept, "codex" \notin Holders PROVE Kept'
  <2>1. \A q \in Run : KeptRow(Older(runs[q]), stage[q], Later(child[q]))
    BY <1>9, <1>10 DEF Kept
  <2>2. \A q \in Run : KeptRow(runs'[q], stage'[q], child'[q])
    BY <1>6, <2>1
  <2> QED BY <2>2 DEF Kept
<1>11. \A q \in Run : /\ TypedRow(runs'[q], stage'[q], child'[q], spoken'[q])
                      /\ HeardRow(runs'[q], stage'[q], spoken'[q])
  BY <1>6, <1>7
<1> QED BY <1>8, <1>10, <1>11

LEMMA StepKeeps ==
    ASSUME IInv, [Next]_vars
    PROVE  IInv' /\ (Kept /\ "codex" \notin Holders => Kept')
<1>1. ASSUME Tables', \A q \in Run : RowKept(q)
      PROVE  IInv' /\ (Kept => Kept')
  BY <1>1 DEF RowKept, IInv, Kept
<1>2. CASE Tick
  BY <1>2, TickKeeps DEF IInv
<1>3. CASE StartOther
  BY <1>1, <1>3, StartOtherKeeps
<1>4. ASSUME NEW r \in Run, Proceeds(r), UNCHANGED <<brain, page>>
      PROVE  IInv' /\ (Kept => Kept')
  BY <1>1, <1>4, ProceedsKeeps
<1>5. ASSUME NEW r \in Run,
             BeginTriage(r) \/ Decide(r) \/ MissionReports(r) \/ MissionEnds(r) \/ ManagerFails(r)
      PROVE  IInv' /\ (Kept => Kept')
  <2>1. UNCHANGED <<brain, page>>
    BY <1>5 DEF BeginTriage, Decide, MissionReports, MissionEnds, ManagerFails
  <2> QED BY <1>4, <1>5, <2>1, ManagerStep
<1>6. ASSUME NEW r \in Run, SpawnFails(r) \/ WriteLine(r) \/ Exit(r) \/ Release(r)
      PROVE  IInv' /\ (Kept => Kept')
  <2>1. UNCHANGED <<brain, page>>
    BY <1>6 DEF SpawnFails, WriteLine, Exit, Release
  <2> QED BY <1>4, <1>6, <2>1, ProgramStep
<1>7. ASSUME NEW r \in Run, Data(r) \/ Timeout(r) \/ Close(r)
      PROVE  IInv' /\ (Kept => Kept')
  <2>1. UNCHANGED <<brain, page>>
    BY <1>7 DEF Data, Timeout, Close
  <2> QED BY <1>4, <1>7, <2>1, ParentStep
<1>8. ASSUME NEW r \in Run, StartRun(r) PROVE IInv' /\ (Kept => Kept')
  BY <1>1, <1>8, StartRunKeeps
<1>9. ASSUME NEW r \in Run, Poll(r) PROVE IInv' /\ (Kept => Kept')
  BY <1>1, <1>9, PollKeeps
<1>10. CASE UNCHANGED vars
  BY <1>10 DEF vars, IInv, Tables, Kept
<1> QED BY <1>2, <1>3, <1>5, <1>6, <1>7, <1>8, <1>9, <1>10 DEF Next

LEMMA Starts == Init => IInv /\ Kept
<1> SUFFICES ASSUME Init PROVE IInv /\ Kept
  OBVIOUS
<1>1. "idle" \in Stages /\ "idle" \notin DOMAIN Calls
  BY CallFacts DEF Stages
<1>2. Tables
  BY <1>1 DEF Init, Tables
<1>3. ASSUME NEW r \in Run
      PROVE  /\ runs[r] = Absent /\ stage[r] = "idle"
             /\ child[r] = None /\ spoken[r] = None
  BY DEF Init
<1>4. /\ TypedRow(Absent, "idle", None, None) /\ HeardRow(Absent, "idle", None)
      /\ KeptRow(Absent, "idle", None)
  BY <1>1 DEF TypedRow, HeardRow, KeptRow
<1> QED BY <1>2, <1>3, <1>4 DEF IInv, Kept

-----------------------------------------------------------------------------
(* Theorems.                                                               *)

(* What is known of every entry, stage, process and answer, whatever the   *)
(* programs do, holds always.                                              *)
THEOREM Invariance == Spec => []IInv
<1>1. Init => IInv
  BY Starts
<1>2. IInv /\ [Next]_vars => IInv'
  BY StepKeeps
<1> QED BY <1>1, <1>2, PTL DEF Spec

(* The tables have their types, and a run has a process exactly while one  *)
(* of its calls is in progress (chat/service.ts, manager/reasoner.ts and   *)
(* chat-responder.ts).                                                     *)
THEOREM TypeCorrect == Spec => []TypeOK
<1>1. IInv => TypeOK
  BY DEF IInv, Tables, TypedRow, TypeOK, Calling
<1> QED BY <1>1, Invariance, PTL

(* What Claude said before its call ended is what the run completes with,  *)
(* unless Codex or the memory answers: the template never hides it, and it *)
(* is the first result or else the last text.                              *)
THEOREM ClaudeIsHeardAlways == Spec => []ClaudeIsHeard
<1>1. ASSUME IInv PROVE ClaudeIsHeard
  <2> SUFFICES ASSUME NEW r \in Run, runs[r] # Absent, runs[r].status = "completed",
                      spoken[r] # None
               PROVE  LET c == spoken[r].process
                          results == Parsed(c, "result")
                          texts == Parsed(c, "text")
                      IN  /\ results \cup texts # {} => runs[r].answer # Template
                          /\ \A i \in 1..Len(c.out) :
                                runs[r].answer = Answer("claude", i) =>
                                    /\ i \in results => \A j \in results : i <= j
                                    /\ i \in texts => results = {} /\ \A j \in texts : j <= i
                                    /\ i \in results \cup texts
    BY DEF ClaudeIsHeard
  <2> DEFINE c == spoken[r].process
             results == Parsed(c, "result")
             texts == Parsed(c, "text")
             answer == runs[r].answer
  <2>1. /\ Honours(answer, spoken[r])
        /\ spoken[r] \in Spoken /\ spoken[r].said = ExtractClaudeStreamAnswer(c)
    BY <1>1, RowFacts DEF HeardRow
  <2>2. c \in Child
    BY <2>1 DEF Spoken
  <2> DEFINE said == ExtractClaudeStreamAnswer(c)
  <2>3. results \cap texts = {}
    BY DEF Parsed
  <2>4. \/ answer.by \in {"codex", "memory"}
        \/ said = None /\ answer = Template
        \/ said # None /\ answer = Answer("claude", said)
    BY <2>1 DEF Honours
  <2> HIDE DEF c
  <2>5. /\ said = None <=> results \cup texts = {}
        /\ results # {} => said \in results /\ \A j \in results : said <= j
        /\ results = {} /\ texts # {} => said \in texts /\ \A j \in texts : j <= said
    BY <2>2, Extracted
  <2> HIDE DEF said, results, texts, answer
  <2>6. results \cup texts # {} => answer # Template
    BY <2>4, <2>5 DEF Template, Answer
  <2>7. ASSUME NEW i, answer = Answer("claude", i)
        PROVE  said = i /\ said # None
    BY <2>4, <2>7 DEF Template, Answer
  <2>8. ASSUME NEW i, answer = Answer("claude", i)
        PROVE  /\ i \in results => \A j \in results : i <= j
               /\ i \in texts => results = {} /\ \A j \in texts : j <= i
               /\ i \in results \cup texts
    BY <2>3, <2>5, <2>7, <2>8
  <2> QED BY <2>6, <2>8 DEF c, results, texts, answer
<1> QED BY <1>1, Invariance, PTL

(* pruneRuns never drops a run that is in progress, if what Codex starts   *)
(* itself does not hold its streams: its entry is younger than the time    *)
(* its call has left, or than the silence of the manager, is short of Ttl. *)
THEOREM InProgressNeverPruned ==
    ASSUME "codex" \notin Holders
    PROVE  Spec => []InProgressIsKept
<1>1. Init => IInv /\ Kept
  BY Starts
<1>2. IInv /\ Kept /\ [Next]_vars => IInv' /\ Kept'
  BY StepKeeps
<1>3. ASSUME IInv, Kept PROVE InProgressIsKept
  <2>1. ASSUME NEW r \in Run, stage[r] \notin {"idle", "over"} PROVE runs[r] # Absent
    <3>1. stage[r] \in Waiting
      BY <1>3, <2>1 DEF IInv, Tables, Stages, Waiting
    <3> QED BY <1>3, <3>1, RowFacts DEF Kept
  <2> QED BY <2>1 DEF InProgressIsKept
<1> QED BY <1>1, <1>2, <1>3, PTL DEF Spec

=============================================================================
