----------------------------- MODULE CliProcess -----------------------------
(***************************************************************************)
(* One call of a command line program: the child process and what its      *)
(* parent has seen of it (manager/adapters/shared.ts).  Claude is called   *)
(* through runClaudeStreamResult, which ends with the first result line,   *)
(* at its timeout or when the streams close; Codex through runCommand,     *)
(* which ends only when the streams close.                                 *)
(*                                                                         *)
(* Streams close when the process is gone and nobody else holds them; a    *)
(* process that Claude or Codex started itself may outlive it.  A line     *)
(* that is cut off does not parse.  That Claude marks an assistant message *)
(* as final (subtype message) before its result is left out: its CLI does  *)
(* not.                                                                    *)
(***************************************************************************)
EXTENDS Naturals, Sequences

CONSTANT None  \* no exit code, no line

Line == [kind : {"text", "result"}, form : {"ended", "unended", "cut"}]

Child == [exited : BOOLEAN, code : {0, 1, None}, killed : BOOLEAN, held : BOOLEAN,
          out : Seq(Line), seen : Nat, left : Nat, timedOut : BOOLEAN]

Spawned(timeout) ==
    [exited |-> FALSE, code |-> None, killed |-> FALSE, held |-> FALSE,
     out |-> <<>>, seen |-> 0, left |-> timeout, timedOut |-> FALSE]

Writes(c, line) == [c EXCEPT !.out = Append(@, line)]

(* A line that is not ended is the last one. *)
CanWrite(c) ==
    /\ ~ c.exited /\ ~ c.killed
    /\ c.out # <<>> => c.out[Len(c.out)].form = "ended"

Exits(c, code, held) == [c EXCEPT !.exited = TRUE, !.code = code, !.held = held]

(* A process that was killed has no exit code. *)
ExitCodes(c) == IF c.killed THEN {None} ELSE {0, 1}

Unseen(c) == c.seen < Len(c.out)

Sees(c) == [c EXCEPT !.seen = @ + 1]

Closed(c) == c.exited /\ ~ c.held /\ ~ Unseen(c)

ForceKill(c) ==
    IF c.killed \/ c.code # None THEN c ELSE [c EXCEPT !.killed = TRUE]

Expired(c) == c.left = 0 /\ ~ c.timedOut

TimesOut(c) == ForceKill([c EXCEPT !.timedOut = TRUE])

(* Places of the lines of a kind that the parent has and can parse. *)
Parsed(c, kind) == {i \in 1..c.seen : c.out[i].kind = kind /\ c.out[i].form # "cut"}

First(places) == CHOOSE i \in places : \A j \in places : i <= j
Last(places) == CHOOSE i \in places : \A j \in places : i >= j

(* Mutant: only a result counts, what came before it is lost.              *)
ExtractResultOnly(c) ==
    IF Parsed(c, "result") # {} THEN First(Parsed(c, "result")) ELSE None

(* The place of the first result, or else of the last text. *)
ExtractClaudeStreamAnswer(c) ==
    IF Parsed(c, "result") # {} THEN First(Parsed(c, "result"))
    ELSE IF Parsed(c, "text") # {} THEN Last(Parsed(c, "text")) ELSE None

(* A result line in the stream ends the call at once. *)
ResultArrives(c) == c.out[c.seen].kind = "result" /\ c.out[c.seen].form = "ended"

(* What Codex said counts only if it ended well and in time. *)
CommandSucceeded(c) == c.code = 0 /\ ~ c.timedOut

(* The last message, or else the output as it is. *)
ExtractCodexStreamMessage(c) ==
    IF Parsed(c, "text") # {} THEN Last(Parsed(c, "text")) ELSE None

=============================================================================
