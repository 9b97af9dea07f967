----------------------------- MODULE MemoryProofs ------------------------------
(***************************************************************************)
(* Proofs about Memory, for any number of memories, any lifetimes, any     *)
(* requests, and with and without crashes.  Two theorems assume something  *)
(* of the requests that every caller in the repository keeps but the HTTP  *)
(* interface does not ask for.                                             *)
(***************************************************************************)
EXTENDS Memory, WellFoundedInduction, TLAPS

Requests == LearnRequests \cup CuratedInputs

(* Nothing is dated later than now.                                        *)
UpdatedInPast == \A i \in DOMAIN memories : memories[i].updated_at <= now

(* Being superseded is a status; others belong to a type.                  *)
Fits(m) ==
    /\ m.status = "superseded" <=> m.superseded_by # NoMemory
    /\ m.status = "archived" => m.memory_type = "MissionMemory"
    /\ m.status = "expired" => m.memory_type = "WorkingMemory"

StatusFits == \A i \in DOMAIN memories : Fits(memories[i])

(* What a memory supersedes is superseded, though not always by it.        *)
PredecessorIsClosed ==
    \A j \in DOMAIN memories :
        /\ memories[j].supersedes \in DOMAIN memories \cup {Unknown, NoMemory}
        /\ \A i \in DOMAIN memories :
               memories[j].supersedes = i => memories[i].status = "superseded"

NamedIn(table, i) ==
    \E k \in DOMAIN table :
        table[k].named /\ (table[k].supersedes = i \/ SameTitle(table[k], table[i]))

(* A request named a predecessor, or a crash lost the successor.           *)
Disturbed(table, i) == NamedIn(table, i) \/ table[i].superseded_by = Unknown

(* Of two memories of a title that merges the earlier one was closed when  *)
(* the later one was written, and has not been touched since.              *)
ClosedInTurn(table, i, j) ==
    \/ Disturbed(table, i)
    \/ ~ Open(table[i]) /\ table[i].updated_at <= table[j].updated_at

TitlesTakeTurns ==
    \A i, j \in DOMAIN memories :
        i < j /\ SameTitle(memories[i], memories[j]) /\ AllowsAutoMerge(memories[i].memory_type)
        => ClosedInTurn(memories, i, j)

(* What does not merge is superseded by name only.                         *)
SupersededByName ==
    \A i \in DOMAIN memories :
        memories[i].status = "superseded" /\ ~ AllowsAutoMerge(memories[i].memory_type)
        => Disturbed(memories, i)

IInv ==
    /\ TypeOK
    /\ UpdatedInPast
    /\ StatusFits
    /\ PredecessorIsClosed
    /\ TitlesTakeTurns
    /\ SupersededByName
    /\ ConflictsAreRecorded

-----------------------------------------------------------------------------
(* Numbers and sequences.                                                  *)

LEMMA MaximumExists ==
    ASSUME NEW n \in Nat, NEW S \in SUBSET (0..n), S # {}
    PROVE  \E i \in S : \A j \in S : j <= i
<1> DEFINE T == {n - i : i \in S}
           LessThan == {ss \in Nat \X Nat : ss[1] < ss[2]}
<1>1. T \subseteq Nat
  <2>1. \A i \in 0..n : n - i \in Nat
    OBVIOUS
  <2> QED BY <2>1
<1>2. T # {}
  OBVIOUS
<1>3. IsWellFoundedOn(LessThan, Nat)
  BY NatLessThanWellFounded DEF OpToRel
<1>4. \E x \in T : \A y \in T : <<y, x>> \notin LessThan
  <2> HIDE DEF T, LessThan
  <2> QED BY <1>1, <1>2, <1>3, WFMin
<1>5. PICK i \in S : \A y \in T : <<y, n - i>> \notin LessThan
  BY <1>4
<1>6. ASSUME NEW j \in S PROVE j <= i
  <2>1. n - j \in T /\ n - j \in Nat /\ n - i \in Nat
    BY <1>1
  <2>2. ~ (n - j < n - i)
    <3>1. <<n - j, n - i>> \notin LessThan
      BY <1>5, <2>1
    <3> HIDE DEF T
    <3> QED BY <2>1, <3>1
  <2> QED BY <2>2
<1> QED BY <1>6

LEMMA TableIsSeq ==
    ASSUME NEW n \in Nat, NEW S, NEW f \in [1..n -> S]
    PROVE  f \in Seq(S) /\ Len(f) = n /\ DOMAIN f = 1..n
OBVIOUS

LEMMA RowType ==
    ASSUME TypeOK
    PROVE  /\ Len(memories) \in Nat
           /\ DOMAIN memories = 1..Len(memories)
           /\ \A i \in DOMAIN memories : memories[i] \in Memory /\ i \in Id
<1>1. memories \in Seq(Memory) /\ Len(memories) <= MaxMemories
  BY DEF TypeOK
<1> QED BY <1>1, MemoryAssumption DEF Id

LEMMA RequestType ==
    ASSUME NEW r \in Requests
    PROVE  /\ r \in MemoryRequest
           /\ r.memory_type \in MemoryTypes /\ r.title \in Title /\ r.content \in Content
           /\ r.confirmed_by_user \in BOOLEAN
           /\ Status(r) \in {"active", "candidate"}
           /\ \A defaults : Verified(r, defaults) \in BOOLEAN
<1>1. r \in MemoryRequest
  BY MemoryAssumption DEF Requests
<1> QED BY <1>1 DEF MemoryRequest, Status, Verified

-----------------------------------------------------------------------------
(* Rows.                                                                   *)

SameIdentity(m, o) ==
    /\ m.memory_type = o.memory_type /\ m.title = o.title /\ m.content = o.content
    /\ m.supersedes = o.supersedes /\ m.created_at = o.created_at
    /\ m.named = o.named /\ m.torn = o.torn

SupersededRow(m, new) ==
    [m EXCEPT !.status = "superseded", !.superseded_by = new, !.updated_at = now]

NewRow(r, verified, old, named, torn) == [NewMemory(r, verified, old, named) EXCEPT !.torn = torn]

LEMMA SupersededRowType ==
    ASSUME NEW m \in Memory, NEW new \in Id \cup {Unknown}, now \in Nat
    PROVE  /\ SupersededRow(m, new) \in Memory
           /\ SameIdentity(SupersededRow(m, new), m)
           /\ SupersededRow(m, new).status = "superseded"
           /\ SupersededRow(m, new).superseded_by = new
           /\ SupersededRow(m, new).updated_at = now
           /\ SupersededRow(m, new).verified = m.verified
           /\ SupersededRow(m, new).version = m.version
           /\ \A other : SupersededRow(SupersededRow(m, other), new) = SupersededRow(m, new)
BY DEF SupersededRow, Memory, MemoryStatuses, SameIdentity

LEMMA TouchedType ==
    ASSUME NEW m \in Memory, NEW status \in MemoryStatuses, NEW verified \in BOOLEAN, now \in Nat
    PROVE  /\ Touched(m, status, verified) \in Memory
           /\ SameIdentity(Touched(m, status, verified), m)
           /\ Touched(m, status, verified).status = status
           /\ Touched(m, status, verified).superseded_by = m.superseded_by
           /\ Touched(m, status, verified).updated_at = now
           /\ Touched(m, status, verified).verified = verified
           /\ Touched(m, status, verified).version = 2
<1> DEFINE judged == [m EXCEPT !.status = status, !.verified = verified]
<1>1. /\ judged \in Memory /\ SameIdentity(judged, m)
      /\ judged.status = status /\ judged.verified = verified
      /\ judged.superseded_by = m.superseded_by
  BY DEF Memory, SameIdentity
<1>2. Touched(m, status, verified) = [judged EXCEPT !.version = 2, !.updated_at = now]
  BY DEF Touched, Memory
<1>3. 2 \in 1..2
  OBVIOUS
<1> HIDE DEF judged
<1> QED BY <1>1, <1>2, <1>3 DEF Memory, SameIdentity

LEMMA MaintainedType ==
    ASSUME NEW m \in Memory, now \in Nat
    PROVE  /\ Maintained(m) \in Memory
           /\ SameIdentity(Maintained(m), m)
           /\ Maintained(m).superseded_by = m.superseded_by
           /\ Maintained(m).verified = m.verified
           /\ Maintained(m).version = m.version
           /\ \/ Maintained(m) = m
              \/ /\ m.status = "active" /\ Maintained(m).updated_at = now
                 /\ \/ Maintained(m).status = "expired" /\ m.memory_type = "WorkingMemory"
                    \/ Maintained(m).status = "archived" /\ m.memory_type = "MissionMemory"
<1>1. CASE Maintained(m) = m
  BY <1>1 DEF SameIdentity
<1>2. CASE Maintained(m) = [m EXCEPT !.status = "expired", !.updated_at = now]
           /\ m.status = "active" /\ m.memory_type = "WorkingMemory"
  BY <1>2 DEF SameIdentity, Memory, MemoryStatuses
<1>3. CASE Maintained(m) = [m EXCEPT !.status = "archived", !.updated_at = now]
           /\ m.status = "active" /\ m.memory_type = "MissionMemory"
  BY <1>3 DEF SameIdentity, Memory, MemoryStatuses
<1> QED BY <1>1, <1>2, <1>3 DEF Maintained

(* What is written in the row of a new memory.                             *)
Entered(row, r, verified, old, named, torn) ==
    /\ row \in Memory
    /\ row.memory_type = r.memory_type /\ row.title = r.title /\ row.content = r.content
    /\ row.status = Status(r) /\ row.verified = verified /\ row.version = 1
    /\ row.supersedes = old /\ row.superseded_by = NoMemory
    /\ row.created_at = now /\ row.updated_at = now
    /\ row.named = named /\ row.torn = torn

LEMMA NewMemoryType ==
    ASSUME NEW r \in Requests, NEW verified \in BOOLEAN, NEW old \in Id \cup {Unknown, NoMemory},
           NEW named \in BOOLEAN, now \in Nat
    PROVE  Entered(NewMemory(r, verified, old, named), r, verified, old, named, FALSE)
<1> DEFINE row == NewMemory(r, verified, old, named)
           status == Status(r)
<1>1. /\ r.memory_type \in MemoryTypes /\ r.title \in Title /\ r.content \in Content
      /\ status \in MemoryStatuses /\ 1 \in 1..2 /\ NoMemory \in Id \cup {Unknown, NoMemory}
  BY RequestType DEF MemoryStatuses
<1>2. row = [memory_type |-> r.memory_type, title |-> r.title, content |-> r.content,
             status |-> status, verified |-> verified, version |-> 1,
             supersedes |-> old, superseded_by |-> NoMemory, created_at |-> now,
             updated_at |-> now, named |-> named, torn |-> FALSE]
  BY DEF NewMemory
<1> HIDE DEF row, status
<1>3. row \in Memory
  BY <1>1, <1>2 DEF Memory
<1>4. /\ row.memory_type = r.memory_type /\ row.title = r.title /\ row.content = r.content
      /\ row.status = status /\ row.verified = verified /\ row.version = 1
      /\ row.supersedes = old /\ row.superseded_by = NoMemory
      /\ row.created_at = now /\ row.updated_at = now
      /\ row.named = named /\ row.torn = FALSE
  BY <1>2
<1> QED BY <1>3, <1>4 DEF row, status, Entered

LEMMA NewRowType ==
    ASSUME NEW r \in Requests, NEW verified \in BOOLEAN, NEW old \in Id \cup {Unknown, NoMemory},
           NEW named \in BOOLEAN, NEW torn \in BOOLEAN, now \in Nat
    PROVE  Entered(NewRow(r, verified, old, named, torn), r, verified, old, named, torn)
<1> DEFINE plain == NewMemory(r, verified, old, named)
           row == [plain EXCEPT !.torn = torn]
<1>1. Entered(plain, r, verified, old, named, FALSE)
  BY NewMemoryType
<1> HIDE DEF plain
<1>2. /\ row \in Memory /\ row.torn = torn
  BY <1>1 DEF Memory, Entered
<1>3. /\ row.memory_type = r.memory_type /\ row.title = r.title /\ row.content = r.content
      /\ row.status = Status(r) /\ row.verified = verified /\ row.version = 1
      /\ row.supersedes = old /\ row.superseded_by = NoMemory
      /\ row.created_at = now /\ row.updated_at = now /\ row.named = named
  BY <1>1 DEF Memory, Entered
<1>4. row = NewRow(r, verified, old, named, torn)
  BY DEF NewRow, plain
<1>5. Entered(row, r, verified, old, named, torn)
  BY <1>2, <1>3 DEF Entered
<1> QED BY <1>4, <1>5

LEMMA WholeRow ==
    ASSUME NEW r \in Requests, NEW verified \in BOOLEAN, NEW old \in Id \cup {Unknown, NoMemory},
           NEW named \in BOOLEAN, now \in Nat
    PROVE  NewRow(r, verified, old, named, FALSE) = NewMemory(r, verified, old, named)
<1> DEFINE plain == NewMemory(r, verified, old, named)
<1>1. Entered(plain, r, verified, old, named, FALSE)
  BY NewMemoryType
<1> HIDE DEF plain
<1>2. [plain EXCEPT !.torn = FALSE] = plain
  BY <1>1 DEF Memory, Entered
<1> QED BY <1>2 DEF plain, NewRow

LEMMA SupersedingRows ==
    ASSUME NEW t \in Seq(Memory), NEW gone, NEW new \in Id \cup {Unknown}, now \in Nat
    PROVE  LET rows == Superseding(t, gone, new)
           IN  /\ rows \in Seq(Memory) /\ Len(rows) = Len(t) /\ DOMAIN rows = DOMAIN t
               /\ \A i \in DOMAIN t :
                      rows[i] = IF i \in gone THEN SupersededRow(t[i], new) ELSE t[i]
<1> DEFINE rows == Superseding(t, gone, new)
<1>1. rows = [i \in DOMAIN t |-> IF i \in gone THEN SupersededRow(t[i], new) ELSE t[i]]
  BY DEF Superseding, SupersededRow
<1>2. \A i \in DOMAIN t : t[i] \in Memory /\ SupersededRow(t[i], new) \in Memory
  BY SupersededRowType
<1> HIDE DEF rows
<1>3. DOMAIN t = 1..Len(t) /\ Len(t) \in Nat
  OBVIOUS
<1>4. rows \in [1..Len(t) -> Memory]
  BY <1>1, <1>2, <1>3
<1> QED BY <1>1, <1>3, <1>4, TableIsSeq DEF rows

LEMMA AppendedRows ==
    ASSUME NEW t \in Seq(Memory), NEW row \in Memory
    PROVE  /\ Append(t, row) \in Seq(Memory)
           /\ Len(Append(t, row)) = Len(t) + 1
           /\ DOMAIN Append(t, row) = 1 .. Len(t) + 1
           /\ DOMAIN t = 1..Len(t)
           /\ \A i \in DOMAIN t : Append(t, row)[i] = t[i]
           /\ Append(t, row)[Len(t) + 1] = row
OBVIOUS

-----------------------------------------------------------------------------
(* What a step does to the table.                                          *)

(* Who writes, and what the write counts as.                               *)
Writes(r, verified) ==
    /\ Accepted(r)
    /\ verified \in {Verified(r, LearnDefaults), Verified(r, CuratedDefaults)}

MergeStep(r, verified, i) ==
    /\ Writes(r, verified)
    /\ Open(memories[i]) /\ SameTitle(memories[i], r) /\ AllowsAutoMerge(r.memory_type)
    /\ memories' = [memories EXCEPT ![i] = Touched(memories[i], Status(r), verified)]
    /\ UNCHANGED <<contradictions, now>>

StampStep(i) ==
    /\ memories[i].memory_type = "MissionMemory"
    /\ memories' = [memories EXCEPT ![i] = Touched(memories[i], memories[i].status, TRUE)]
    /\ UNCHANGED <<contradictions, now>>

(* How a new memory comes to have its predecessor.                         *)
Succeeds(r, old, named) ==
    \/ named /\ old \in DOMAIN memories \cup {Unknown}
    \/ ~ named /\ old \in MergeCandidates(r)
    \/ ~ named /\ old = NoMemory /\ MergeCandidates(r) = {}

(* The predecessor is closed, and the crash comes before the insertion.    *)
LostStep(r, verified, old, named) ==
    /\ Writes(r, verified)
    /\ Succeeds(r, old, named)
    /\ memories' = Superseding(memories, {old}, Unknown)
    /\ UNCHANGED <<contradictions, now>>

Conflicting(r, old) ==
    {i \in DOMAIN memories \ {old} :
        memories[i].status = "active" /\ Contradicts(memories[i], r)}

(* The row is inserted; all conflicts are dealt with unless a crash comes  *)
(* between.                                                                *)
Inserted(rows, r, verified, old, named, torn, handled) ==
    LET new == Len(memories) + 1
    IN  /\ rows \in Seq(Memory)
        /\ Len(rows) = new /\ DOMAIN rows = 1..new
        /\ rows[new] = NewRow(r, verified, old, named, torn)
        /\ \A i \in DOMAIN memories :
               rows[i] = IF i \in handled \cup {old} THEN SupersededRow(memories[i], new)
                                                      ELSE memories[i]

CreateStep(r, verified, old, named, torn, handled) ==
    LET new == Len(memories) + 1
    IN  /\ Writes(r, verified)
        /\ Succeeds(r, old, named)
        /\ new \in Id
        /\ Inserted(memories', r, verified, old, named, torn, handled)
        /\ handled # {} => Resolves(r)
        /\ contradictions \subseteq contradictions'
        /\ contradictions' \subseteq Contradiction
        /\ ~ torn => \A i \in Conflicting(r, old) :
                         IF Resolves(r) THEN i \in handled
                         ELSE [left |-> i, right |-> new, resolved |-> FALSE] \in contradictions'
        /\ UNCHANGED now

Created(r, verified, old, named) ==
    \E torn \in BOOLEAN : \E handled \in SUBSET Conflicting(r, old) :
        CreateStep(r, verified, old, named, torn, handled)

(* A step that inserts nothing and closes nothing by name.                 *)
WriteStep(r, verified) ==
    \/ \E i \in DOMAIN memories : MergeStep(r, verified, i)
    \/ \E old \in DOMAIN memories \cup {Unknown, NoMemory} : \E named \in BOOLEAN :
           LostStep(r, verified, old, named) \/ Created(r, verified, old, named)

LEMMA ConflictingRows ==
    ASSUME TypeOK, NEW r \in Requests, NEW verified \in BOOLEAN, NEW named \in BOOLEAN,
           NEW old \in DOMAIN memories \cup {Unknown, NoMemory},
           Len(memories) + 1 \in Id
    PROVE  LET new == Len(memories) + 1
               saved == Append(Superseding(memories, {old}, new),
                               NewMemory(r, verified, old, named))
           IN  ActiveConflicts(saved, new) = Conflicting(r, old)
<1> DEFINE new == Len(memories) + 1
           closed == Superseding(memories, {old}, new)
           row == NewMemory(r, verified, old, named)
           saved == Append(closed, row)
<1>1. /\ memories \in Seq(Memory) /\ now \in Nat /\ Len(memories) \in Nat
      /\ DOMAIN memories = 1..Len(memories)
      /\ \A i \in DOMAIN memories : memories[i] \in Memory /\ i \in Id
  BY RowType, MemoryAssumption DEF TypeOK
<1>2. old \in Id \cup {Unknown, NoMemory}
  BY <1>1
<1>3. /\ row \in Memory /\ row.memory_type = r.memory_type /\ row.title = r.title
      /\ row.content = r.content
  <2>1. Entered(row, r, verified, old, named, FALSE)
    BY <1>1, <1>2, NewMemoryType
  <2> HIDE DEF row
  <2> QED BY <2>1 DEF Entered
<1>4. /\ closed \in Seq(Memory) /\ Len(closed) = Len(memories) /\ DOMAIN closed = DOMAIN memories
      /\ \A i \in DOMAIN memories :
             closed[i] = IF i = old THEN SupersededRow(memories[i], new) ELSE memories[i]
  <2>1. new \in Id \cup {Unknown}
    OBVIOUS
  <2> HIDE DEF new
  <2> QED BY <1>1, <2>1, SupersedingRows
<1>5. \A i \in DOMAIN memories : SupersededRow(memories[i], new).status = "superseded"
  <2>1. new \in Id \cup {Unknown}
    OBVIOUS
  <2> HIDE DEF new
  <2> QED BY <1>1, <2>1, SupersededRowType
<1> HIDE DEF closed, row
<1>6. /\ DOMAIN saved = 1..new /\ saved[new] = row
      /\ \A i \in DOMAIN memories : saved[i] = closed[i]
  BY <1>1, <1>3, <1>4, AppendedRows
<1> HIDE DEF saved
<1>7. \A i \in DOMAIN memories : Contradicts(memories[i], row) <=> Contradicts(memories[i], r)
  BY <1>3 DEF Contradicts, SharesKey
<1>8. DOMAIN saved \ {new} = DOMAIN memories
  BY <1>1, <1>6
<1>9. \A i \in DOMAIN memories :
          saved[i].status = "active" /\ Contradicts(saved[i], saved[new])
          <=> i # old /\ memories[i].status = "active" /\ Contradicts(memories[i], r)
  BY <1>4, <1>5, <1>6, <1>7
<1>10. ActiveConflicts(saved, new) = Conflicting(r, old)
  <2> HIDE DEF new
  <2> QED BY <1>8, <1>9 DEF ActiveConflicts, Conflicting
<1> QED BY <1>10 DEF saved, closed, row

LEMMA InsertedRows ==
    ASSUME TypeOK, NEW r \in Requests, NEW verified \in BOOLEAN, NEW named \in BOOLEAN,
           NEW old \in DOMAIN memories \cup {Unknown, NoMemory}, NEW torn \in BOOLEAN,
           Len(memories) + 1 \in Id, NEW handled \in SUBSET Conflicting(r, old)
    PROVE  LET new == Len(memories) + 1
               table == Append(Superseding(memories, {old}, new),
                               NewRow(r, verified, old, named, torn))
           IN  /\ Inserted(table, r, verified, old, named, torn, {})
               /\ Inserted(Superseding(table, handled, new), r, verified, old, named, torn, handled)
<1> DEFINE new == Len(memories) + 1
           closed == Superseding(memories, {old}, new)
           row == NewRow(r, verified, old, named, torn)
           table == Append(closed, row)
           result == Superseding(table, handled, new)
<1>1. /\ memories \in Seq(Memory) /\ now \in Nat /\ Len(memories) \in Nat
      /\ DOMAIN memories = 1..Len(memories)
      /\ \A i \in DOMAIN memories : memories[i] \in Memory /\ i \in Id
  BY RowType, MemoryAssumption DEF TypeOK
<1>2. old \in Id \cup {Unknown, NoMemory} /\ new \in Id \cup {Unknown}
  BY <1>1
<1>3. row \in Memory
  <2>1. Entered(row, r, verified, old, named, torn)
    BY <1>1, <1>2, NewRowType
  <2> HIDE DEF row
  <2> QED BY <2>1 DEF Entered
<1>4. /\ closed \in Seq(Memory) /\ Len(closed) = Len(memories) /\ DOMAIN closed = DOMAIN memories
      /\ \A i \in DOMAIN memories :
             closed[i] = IF i = old THEN SupersededRow(memories[i], new) ELSE memories[i]
  <2> HIDE DEF new
  <2> QED BY <1>1, <1>2, SupersedingRows
<1> HIDE DEF closed, row
<1>5. /\ table \in Seq(Memory) /\ Len(table) = new /\ DOMAIN table = 1..new
      /\ table[new] = row
      /\ \A i \in DOMAIN memories : table[i] = closed[i]
  BY <1>1, <1>3, <1>4, AppendedRows
<1> HIDE DEF table
<1>6. /\ result \in Seq(Memory) /\ Len(result) = new /\ DOMAIN result = 1..new
      /\ \A i \in 1..new :
             result[i] = IF i \in handled THEN SupersededRow(table[i], new) ELSE table[i]
  <2> HIDE DEF new
  <2> QED BY <1>1, <1>2, <1>5, SupersedingRows
<1> HIDE DEF result
<1>7. /\ handled \subseteq DOMAIN memories \ {old} /\ new \notin handled
      /\ DOMAIN memories \subseteq 1..new
      /\ new \in 1..new
  BY <1>1 DEF Conflicting
<1>8. Inserted(table, r, verified, old, named, torn, {})
  BY <1>4, <1>5 DEF Inserted, row
<1>9. Inserted(result, r, verified, old, named, torn, handled)
  <2>1. result[new] = row
    BY <1>5, <1>6, <1>7
  <2>2. ASSUME NEW i \in DOMAIN memories
        PROVE  result[i] = IF i \in handled \cup {old} THEN SupersededRow(memories[i], new)
                                                       ELSE memories[i]
    BY <1>4, <1>5, <1>6, <1>7
  <2> QED BY <1>6, <2>1, <2>2 DEF Inserted, row
<1> QED BY <1>8, <1>9 DEF result, table, closed, row

LEMMA CreateCases ==
    ASSUME TypeOK, NEW r \in Requests, NEW verified \in BOOLEAN, NEW named \in BOOLEAN,
           NEW old \in DOMAIN memories \cup {Unknown, NoMemory},
           Writes(r, verified), Succeeds(r, old, named),
           Create(r, verified, old, named), UNCHANGED now
    PROVE  LostStep(r, verified, old, named) \/ Created(r, verified, old, named)
<1> DEFINE new == Len(memories) + 1
           closed == Superseding(memories, {old}, new)
           row == NewMemory(r, verified, old, named)
           saved == Append(closed, row)
           conflicts == ActiveConflicts(saved, new)
           cutRow == NewRow(r, verified, old, named, TRUE)
           cut == Append(closed, cutRow)
           Resolved(rows, handled) == IF Resolves(r) THEN Superseding(rows, handled, new) ELSE rows
<1>1. /\ memories \in Seq(Memory) /\ now \in Nat /\ Len(memories) \in Nat
      /\ DOMAIN memories = 1..Len(memories)
      /\ contradictions \subseteq Contradiction
      /\ \A i \in DOMAIN memories : i \in Id
  BY RowType, MemoryAssumption DEF TypeOK
<1>2. new \in Id
  <2>1. new <= MaxMemories
    BY DEF Create
  <2> QED BY <1>1, <2>1, MemoryAssumption DEF Id
<1>3. conflicts = Conflicting(r, old)
  BY <1>2, ConflictingRows
<1>4. conflicts \subseteq Id
  BY <1>1, <1>3 DEF Conflicting
<1>5. row = NewRow(r, verified, old, named, FALSE)
  BY <1>1, WholeRow
<1>6. \/ /\ memories' = Resolved(saved, conflicts)
         /\ contradictions' = contradictions \cup Recorded(conflicts, new, Resolves(r))
      \/ /\ memories' = Superseding(memories, {old}, Unknown)
         /\ UNCHANGED contradictions
      \/ \E recorded \in SUBSET conflicts :
             /\ contradictions' = contradictions \cup Recorded(recorded, new, Resolves(r))
             /\ \E handled \in SUBSET recorded : memories' = Resolved(cut, handled)
  BY DEF Create, Prefixes, NewRow
<1>7. ASSUME NEW recorded \in SUBSET conflicts,
             contradictions' = contradictions \cup Recorded(recorded, new, Resolves(r))
      PROVE  /\ contradictions \subseteq contradictions'
             /\ contradictions' \subseteq Contradiction
             /\ Resolves(r) \in BOOLEAN
  <2>1. Resolves(r) \in BOOLEAN
    BY DEF Resolves
  <2>2. Recorded(recorded, new, Resolves(r)) \subseteq Contradiction
    <3> HIDE DEF new, conflicts
    <3> QED BY <1>2, <1>4, <2>1 DEF Recorded, Contradiction
  <2> QED BY <1>1, <1>7, <2>1, <2>2
<1>8. CASE /\ memories' = Resolved(saved, conflicts)
           /\ contradictions' = contradictions \cup Recorded(conflicts, new, Resolves(r))
  <2> DEFINE handled == IF Resolves(r) THEN conflicts ELSE {}
  <2>1. handled \in SUBSET Conflicting(r, old)
    BY <1>3
  <2>2. Inserted(memories', r, verified, old, named, FALSE, handled)
    <3>1. Inserted(saved, r, verified, old, named, FALSE, {})
      BY <1>2, <1>5, InsertedRows
    <3>2. Inserted(Superseding(saved, conflicts, new), r, verified, old, named, FALSE, conflicts)
      <4>1. conflicts \in SUBSET Conflicting(r, old)
        BY <1>3
      <4> HIDE DEF conflicts
      <4> QED BY <1>2, <1>5, <4>1, InsertedRows
    <3> HIDE DEF saved, conflicts
    <3>3. CASE Resolves(r)
      BY <1>8, <3>2, <3>3
    <3>4. CASE ~ Resolves(r)
      BY <1>8, <3>1, <3>4
    <3> QED BY <3>3, <3>4
  <2>3. ASSUME NEW i \in Conflicting(r, old)
        PROVE  IF Resolves(r) THEN i \in handled
               ELSE [left |-> i, right |-> new, resolved |-> FALSE] \in contradictions'
    <3>1. CASE Resolves(r)
      BY <1>3, <2>3, <3>1
    <3>2. CASE ~ Resolves(r)
      <4>1. [left |-> i, right |-> new, resolved |-> Resolves(r)]
                = [left |-> i, right |-> new, resolved |-> FALSE]
        BY <3>2 DEF Resolves
      <4>2. i \in conflicts
        BY <1>3
      <4> HIDE DEF conflicts
      <4> QED BY <1>8, <3>2, <4>1, <4>2 DEF Recorded
    <3> QED BY <3>1, <3>2
  <2>4. /\ contradictions \subseteq contradictions'
        /\ contradictions' \subseteq Contradiction
    BY <1>7, <1>8
  <2> HIDE DEF handled
  <2>5. CreateStep(r, verified, old, named, FALSE, handled)
    <3>1. handled # {} => Resolves(r)
      BY DEF handled
    <3> QED BY <1>2, <2>2, <2>3, <2>4, <3>1 DEF CreateStep
  <2> QED BY <2>1, <2>5 DEF Created
<1>9. CASE /\ memories' = Superseding(memories, {old}, Unknown)
           /\ UNCHANGED contradictions
  BY <1>9 DEF LostStep
<1>10. CASE \E recorded \in SUBSET conflicts :
                /\ contradictions' = contradictions \cup Recorded(recorded, new, Resolves(r))
                /\ \E handled \in SUBSET recorded : memories' = Resolved(cut, handled)
  <2>1. PICK recorded \in SUBSET conflicts :
                /\ contradictions' = contradictions \cup Recorded(recorded, new, Resolves(r))
                /\ \E handled \in SUBSET recorded : memories' = Resolved(cut, handled)
    BY <1>10
  <2>2. PICK taken \in SUBSET recorded : memories' = Resolved(cut, taken)
    BY <2>1
  <2> DEFINE handled == IF Resolves(r) THEN taken ELSE {}
  <2>3. taken \in SUBSET Conflicting(r, old)
    BY <1>3
  <2>4. Inserted(memories', r, verified, old, named, TRUE, handled)
    <3>1. Inserted(cut, r, verified, old, named, TRUE, {})
      BY <1>2, <2>3, InsertedRows
    <3>2. Inserted(Superseding(cut, taken, new), r, verified, old, named, TRUE, taken)
      BY <1>2, <2>3, InsertedRows
    <3> HIDE DEF cut
    <3>3. CASE Resolves(r)
      BY <2>2, <3>2, <3>3
    <3>4. CASE ~ Resolves(r)
      BY <2>2, <3>1, <3>4
    <3> QED BY <3>3, <3>4
  <2>5. /\ contradictions \subseteq contradictions'
        /\ contradictions' \subseteq Contradiction
    BY <1>7, <2>1
  <2>6. handled \in SUBSET Conflicting(r, old) /\ (handled # {} => Resolves(r))
    BY <2>3
  <2> HIDE DEF handled
  <2>7. CreateStep(r, verified, old, named, TRUE, handled)
    BY <1>2, <2>4, <2>5, <2>6 DEF CreateStep
  <2> QED BY <2>6, <2>7 DEF Created
<1> QED BY <1>6, <1>8, <1>9, <1>10

LEMMA WriteCases ==
    ASSUME TypeOK, NEW r \in Requests, NEW verified \in BOOLEAN,
           verified \in {Verified(r, LearnDefaults), Verified(r, CuratedDefaults)},
           Write(r, verified)
    PROVE  WriteStep(r, verified)
<1>1. Writes(r, verified) /\ UNCHANGED now
  BY DEF Write, Writes
<1>2. Names \subseteq DOMAIN memories \cup {Unknown}
  BY DEF Names
<1>3. MergeCandidates(r) \subseteq DOMAIN memories
  BY DEF MergeCandidates
<1>4. ASSUME NEW i \in MergeCandidates(r) PROVE Open(memories[i]) /\ SameTitle(memories[i], r)
                                                /\ AllowsAutoMerge(r.memory_type)
  BY <1>4 DEF MergeCandidates
<1>5. \/ \E i \in MergeCandidates(r) : Merge(r, verified, i)
      \/ \E i \in MergeCandidates(r) : Create(r, verified, i, FALSE)
      \/ \E old \in Names : Create(r, verified, old, TRUE)
      \/ MergeCandidates(r) = {} /\ Create(r, verified, NoMemory, FALSE)
  BY DEF Write
<1>6. ASSUME NEW i \in MergeCandidates(r), Merge(r, verified, i)
      PROVE  MergeStep(r, verified, i)
  BY <1>1, <1>4, <1>6 DEF Merge, MergeStep
<1>7. ASSUME NEW old \in DOMAIN memories \cup {Unknown, NoMemory}, NEW named \in BOOLEAN,
             Succeeds(r, old, named), Create(r, verified, old, named)
      PROVE  LostStep(r, verified, old, named) \/ Created(r, verified, old, named)
  BY <1>1, <1>7, CreateCases
<1>8. CASE \E i \in MergeCandidates(r) : Merge(r, verified, i)
  BY <1>3, <1>6, <1>8 DEF WriteStep
<1>9. CASE \E i \in MergeCandidates(r) : Create(r, verified, i, FALSE)
  <2>1. PICK i \in MergeCandidates(r) : Create(r, verified, i, FALSE)
    BY <1>9
  <2>2. Succeeds(r, i, FALSE) /\ i \in DOMAIN memories
    BY <1>3 DEF Succeeds
  <2>3. LostStep(r, verified, i, FALSE) \/ Created(r, verified, i, FALSE)
    BY <1>7, <2>1, <2>2
  <2> QED BY <2>2, <2>3 DEF WriteStep
<1>10. CASE \E old \in Names : Create(r, verified, old, TRUE)
  <2>1. PICK old \in Names : Create(r, verified, old, TRUE)
    BY <1>10
  <2>2. Succeeds(r, old, TRUE) /\ old \in DOMAIN memories \cup {Unknown}
    BY <1>2 DEF Succeeds
  <2>3. LostStep(r, verified, old, TRUE) \/ Created(r, verified, old, TRUE)
    BY <1>7, <2>1, <2>2
  <2> QED BY <2>2, <2>3 DEF WriteStep
<1>11. CASE MergeCandidates(r) = {} /\ Create(r, verified, NoMemory, FALSE)
  <2>1. Succeeds(r, NoMemory, FALSE)
    BY <1>11 DEF Succeeds
  <2>2. LostStep(r, verified, NoMemory, FALSE) \/ Created(r, verified, NoMemory, FALSE)
    BY <1>7, <1>11, <2>1
  <2> QED BY <2>2 DEF WriteStep
<1> QED BY <1>5, <1>8, <1>9, <1>10, <1>11

LEMMA StepCases ==
    ASSUME TypeOK, [Next]_vars
    PROVE  \/ UNCHANGED vars
           \/ Advance
           \/ Retrieve
           \/ \E i \in DOMAIN memories : StampStep(i)
           \/ \E r \in Requests : \E verified \in BOOLEAN : WriteStep(r, verified)
<1>1. CASE Next
  <2>1. ASSUME NEW r \in Requests, NEW verified,
               verified \in {Verified(r, LearnDefaults), Verified(r, CuratedDefaults)},
               Write(r, verified)
        PROVE  \E someone \in BOOLEAN : WriteStep(r, someone)
    <3>1. verified \in BOOLEAN
      BY <2>1, RequestType
    <3>2. WriteStep(r, verified)
      BY <2>1, <3>1, WriteCases
    <3> QED BY <3>1, <3>2
  <2>2. CASE \E r \in LearnRequests : Learn(r)
    BY <2>1, <2>2 DEF Learn, Requests
  <2>3. CASE \E r \in CuratedInputs : SaveCuratedMemory(r)
    BY <2>1, <2>3 DEF SaveCuratedMemory, Requests
  <2>4. CASE \E i \in DOMAIN memories : StampOutcome(i)
    BY <2>4 DEF StampOutcome, StampStep
  <2> QED BY <1>1, <2>2, <2>3, <2>4 DEF Next
<1> QED BY <1>1

LEMMA TouchedRows ==
    ASSUME TypeOK, NEW i \in DOMAIN memories, NEW status \in MemoryStatuses, NEW verified \in BOOLEAN,
           memories' = [memories EXCEPT ![i] = Touched(memories[i], status, verified)]
    PROVE  /\ memories' \in Seq(Memory) /\ Len(memories') = Len(memories)
           /\ DOMAIN memories' = DOMAIN memories
           /\ memories'[i] = Touched(memories[i], status, verified)
           /\ \A j \in DOMAIN memories : j # i => memories'[j] = memories[j]
<1> DEFINE row == Touched(memories[i], status, verified)
<1>1. memories \in Seq(Memory) /\ memories[i] \in Memory /\ now \in Nat
  BY RowType, MemoryAssumption DEF TypeOK
<1>2. row \in Memory
  BY <1>1, TouchedType
<1> HIDE DEF row
<1>3. memories' = [memories EXCEPT ![i] = row]
  BY DEF row
<1> QED BY <1>1, <1>2, <1>3 DEF row

LEMMA RetainedRows ==
    ASSUME TypeOK
    PROVE  /\ Retained \in Seq(Memory) /\ Len(Retained) = Len(memories)
           /\ DOMAIN Retained = DOMAIN memories
           /\ \A i \in DOMAIN memories : Retained[i] = Maintained(memories[i])
<1>1. /\ memories \in Seq(Memory) /\ now \in Nat /\ Len(memories) \in Nat
      /\ DOMAIN memories = 1..Len(memories)
      /\ \A i \in DOMAIN memories : memories[i] \in Memory
  BY RowType, MemoryAssumption DEF TypeOK
<1>2. \A i \in DOMAIN memories : Maintained(memories[i]) \in Memory
  BY <1>1, MaintainedType
<1>3. Retained \in [1..Len(memories) -> Memory]
  BY <1>1, <1>2 DEF Retained
<1> QED BY <1>1, <1>3, TableIsSeq DEF Retained

LEMMA LostRows ==
    ASSUME TypeOK, NEW old, memories' = Superseding(memories, {old}, Unknown)
    PROVE  /\ memories' \in Seq(Memory) /\ Len(memories') = Len(memories)
           /\ DOMAIN memories' = DOMAIN memories
           /\ \A i \in DOMAIN memories :
                  memories'[i] = IF i = old THEN SupersededRow(memories[i], Unknown)
                                 ELSE memories[i]
<1>1. memories \in Seq(Memory) /\ now \in Nat
  BY MemoryAssumption DEF TypeOK
<1> QED BY <1>1, SupersedingRows

-----------------------------------------------------------------------------
(* What a row keeps, whatever the step.                                    *)

RowPersists(m, n) ==
    /\ n \in Memory
    /\ SameIdentity(n, m)
    /\ m.status \notin {"active", "candidate"} => n.status \notin {"active", "candidate"}
    /\ m.status = "superseded" => n.status = "superseded"
    /\ n.status = "active" /\ n.version = 1 => n = m
    /\ Fits(m) => Fits(n)
    /\ n.updated_at \in {m.updated_at, now}

LEMMA RowChanges ==
    ASSUME NEW m \in Memory, now \in Nat
    PROVE  /\ RowPersists(m, m)
           /\ RowPersists(m, Maintained(m))
           /\ \A new \in Id \cup {Unknown} : RowPersists(m, SupersededRow(m, new))
           /\ \A verified \in BOOLEAN : RowPersists(m, Touched(m, m.status, verified))
           /\ \A verified \in BOOLEAN : \A status \in {"active", "candidate"} :
                  Open(m) => RowPersists(m, Touched(m, status, verified))
<1>1. RowPersists(m, m)
  BY DEF RowPersists, SameIdentity
<1>0. NoMemory \notin Id \cup {Unknown}
  BY MemoryAssumption
<1>2. RowPersists(m, Maintained(m))
  <2> DEFINE n == Maintained(m)
  <2>1. /\ n \in Memory /\ SameIdentity(n, m) /\ n.version = m.version
        /\ n.superseded_by = m.superseded_by
        /\ \/ n = m
           \/ /\ m.status = "active" /\ n.updated_at = now
              /\ \/ n.status = "expired" /\ m.memory_type = "WorkingMemory"
                 \/ n.status = "archived" /\ m.memory_type = "MissionMemory"
    BY MaintainedType
  <2> HIDE DEF n
  <2>2. RowPersists(m, n)
    BY <2>1 DEF RowPersists, Fits, SameIdentity
  <2> QED BY <2>2 DEF n
<1>3. ASSUME NEW new \in Id \cup {Unknown} PROVE RowPersists(m, SupersededRow(m, new))
  BY <1>0, SupersededRowType DEF RowPersists, Fits
<1>4. m.status \in MemoryStatuses
  BY DEF Memory
<1>5. ASSUME NEW verified \in BOOLEAN PROVE RowPersists(m, Touched(m, m.status, verified))
  BY <1>4, TouchedType DEF RowPersists, Fits, SameIdentity
<1>6. ASSUME NEW verified \in BOOLEAN, NEW status \in {"active", "candidate"}, Open(m)
      PROVE  RowPersists(m, Touched(m, status, verified))
  <2>1. status \in MemoryStatuses
    BY DEF MemoryStatuses
  <2> QED BY <1>6, <2>1, TouchedType DEF RowPersists, Open, Fits
<1> QED BY <1>1, <1>2, <1>3, <1>5, <1>6

(* Rows are kept in their places, and at most one is added.                *)
TablePersists(rows) ==
    /\ rows \in Seq(Memory)
    /\ Len(rows) <= MaxMemories
    /\ DOMAIN rows = DOMAIN memories \/ DOMAIN rows = 1 .. Len(memories) + 1
    /\ DOMAIN memories \subseteq DOMAIN rows
    /\ \A i \in DOMAIN memories : RowPersists(memories[i], rows[i])
    /\ \A j \in DOMAIN rows \ DOMAIN memories :
           /\ Fits(rows[j]) /\ Open(rows[j]) /\ rows[j].updated_at = now
           /\ rows[j].supersedes \in DOMAIN memories \cup {Unknown, NoMemory}
           /\ \A i \in DOMAIN rows : rows[j].supersedes = i => rows[i].status = "superseded"

LEMMA RowsPersist ==
    ASSUME TypeOK, [Next]_vars
    PROVE  /\ TablePersists(memories')
           /\ contradictions \subseteq contradictions'
           /\ contradictions' \subseteq Contradiction
           /\ now \in Nat /\ now' \in 0..Horizon /\ now <= now'
<1>1. /\ memories \in Seq(Memory) /\ now \in Nat /\ Len(memories) \in Nat
      /\ now \in 0..Horizon /\ Len(memories) <= MaxMemories
      /\ DOMAIN memories = 1..Len(memories)
      /\ contradictions \subseteq Contradiction
      /\ \A i \in DOMAIN memories : memories[i] \in Memory /\ i \in Id
  BY RowType, MemoryAssumption DEF TypeOK
<1>2. ASSUME UNCHANGED <<contradictions, now>>
      PROVE  /\ contradictions \subseteq contradictions'
             /\ contradictions' \subseteq Contradiction
             /\ now \in Nat /\ now' \in 0..Horizon /\ now <= now'
  BY <1>1, <1>2
<1>3. ASSUME UNCHANGED memories PROVE TablePersists(memories')
  BY <1>1, <1>3, RowChanges DEF TablePersists
<1>4. CASE UNCHANGED vars
  BY <1>2, <1>3, <1>4 DEF vars
<1>5. CASE Advance
  BY <1>1, <1>3, <1>5, MemoryAssumption DEF Advance
<1>6. CASE Retrieve
  <2>1. /\ memories' \in Seq(Memory) /\ Len(memories') = Len(memories)
        /\ DOMAIN memories' = DOMAIN memories
        /\ \A i \in DOMAIN memories : memories'[i] = Maintained(memories[i])
    BY <1>6, RetainedRows DEF Retrieve
  <2>2. \A i \in DOMAIN memories : RowPersists(memories[i], memories'[i])
    BY <1>1, <2>1, RowChanges
  <2> QED BY <1>1, <1>2, <1>6, <2>1, <2>2 DEF Retrieve, TablePersists
<1>7. ASSUME NEW i \in DOMAIN memories, StampStep(i)
      PROVE  TablePersists(memories')
  <2> DEFINE row == Touched(memories[i], memories[i].status, TRUE)
  <2>1. memories[i].status \in MemoryStatuses
    BY <1>1 DEF Memory
  <2>2. /\ memories' \in Seq(Memory) /\ Len(memories') = Len(memories)
        /\ DOMAIN memories' = DOMAIN memories
        /\ memories'[i] = row
        /\ \A j \in DOMAIN memories : j # i => memories'[j] = memories[j]
    BY <1>7, <2>1, TouchedRows DEF StampStep
  <2>3. RowPersists(memories[i], row)
    BY <1>1, RowChanges
  <2> HIDE DEF row
  <2>4. \A j \in DOMAIN memories : RowPersists(memories[j], memories'[j])
    BY <1>1, <2>2, <2>3, RowChanges
  <2> QED BY <1>1, <2>2, <2>4 DEF TablePersists
<1>8. ASSUME NEW r \in Requests, NEW verified \in BOOLEAN, NEW i \in DOMAIN memories,
             MergeStep(r, verified, i)
      PROVE  TablePersists(memories')
  <2> DEFINE row == Touched(memories[i], Status(r), verified)
  <2>1. Status(r) \in {"active", "candidate"} /\ Status(r) \in MemoryStatuses
    BY RequestType DEF MemoryStatuses
  <2>2. /\ memories' \in Seq(Memory) /\ Len(memories') = Len(memories)
        /\ DOMAIN memories' = DOMAIN memories
        /\ memories'[i] = row
        /\ \A j \in DOMAIN memories : j # i => memories'[j] = memories[j]
    BY <1>8, <2>1, TouchedRows DEF MergeStep
  <2>3. RowPersists(memories[i], row)
    BY <1>1, <1>8, <2>1, RowChanges DEF MergeStep
  <2> HIDE DEF row
  <2>4. \A j \in DOMAIN memories : RowPersists(memories[j], memories'[j])
    BY <1>1, <2>2, <2>3, RowChanges
  <2> QED BY <1>1, <2>2, <2>4 DEF TablePersists
<1>9. ASSUME NEW r, NEW verified, NEW old, NEW named, LostStep(r, verified, old, named)
      PROVE  TablePersists(memories')
  <2>1. /\ memories' \in Seq(Memory) /\ Len(memories') = Len(memories)
        /\ DOMAIN memories' = DOMAIN memories
        /\ \A i \in DOMAIN memories :
               memories'[i] = IF i = old THEN SupersededRow(memories[i], Unknown)
                              ELSE memories[i]
    BY <1>9, LostRows DEF LostStep
  <2>2. \A i \in DOMAIN memories : RowPersists(memories[i], memories'[i])
    BY <1>1, <2>1, RowChanges
  <2> QED BY <1>1, <2>1, <2>2 DEF TablePersists
<1>10. ASSUME NEW r \in Requests, NEW verified \in BOOLEAN, NEW named \in BOOLEAN,
              NEW old \in DOMAIN memories \cup {Unknown, NoMemory},
              Created(r, verified, old, named)
       PROVE  /\ TablePersists(memories')
              /\ contradictions \subseteq contradictions'
              /\ contradictions' \subseteq Contradiction
              /\ UNCHANGED now
  <2>1. PICK torn \in BOOLEAN, handled \in SUBSET Conflicting(r, old) :
            CreateStep(r, verified, old, named, torn, handled)
    BY <1>10 DEF Created
  <2>2. Len(memories) + 1 \in Id
    BY <2>1 DEF CreateStep
  <2>3. /\ memories' \in Seq(Memory) /\ Len(memories') = Len(memories) + 1
        /\ DOMAIN memories' = 1 .. Len(memories) + 1
        /\ \A i \in DOMAIN memories :
               memories'[i] = IF i \in handled \cup {old}
                              THEN SupersededRow(memories[i], Len(memories) + 1)
                              ELSE memories[i]
    BY <2>1 DEF CreateStep, Inserted
  <2>4. \A i \in DOMAIN memories : RowPersists(memories[i], memories'[i])
    <3> DEFINE new == Len(memories) + 1
    <3>1. \A i \in DOMAIN memories : /\ RowPersists(memories[i], SupersededRow(memories[i], new))
                                     /\ RowPersists(memories[i], memories[i])
      <4>1. new \in Id \cup {Unknown}
        BY <2>2
      <4> HIDE DEF new
      <4> QED BY <1>1, <4>1, RowChanges
    <3> QED BY <2>3, <3>1
  <2>5. Len(memories') <= MaxMemories /\ DOMAIN memories \subseteq DOMAIN memories'
    BY <1>1, <2>2, <2>3, MemoryAssumption DEF Id
  <2>6. PICK new : new = Len(memories) + 1
    OBVIOUS
  <2>7. /\ Fits(memories'[new]) /\ Open(memories'[new]) /\ memories'[new].updated_at = now
        /\ memories'[new].supersedes = old
    <3>1. now \in Nat /\ old \in Id \cup {Unknown, NoMemory}
      BY <1>1
    <3>2. Entered(memories'[new], r, verified, old, named, torn)
      <4>1. Entered(NewRow(r, verified, old, named, torn), r, verified, old, named, torn)
        BY <3>1, NewRowType
      <4> QED BY <2>1, <2>6, <4>1 DEF CreateStep, Inserted
    <3>3. Status(r) \in {"active", "candidate"}
      BY RequestType
    <3> QED BY <3>2, <3>3 DEF Entered, Fits, Open
  <2>8. new \notin DOMAIN memories /\ new # old
        /\ \A j \in DOMAIN memories' \ DOMAIN memories : j = new
    <3>1. \A j \in 1..new : j \notin 1..Len(memories) => j = new
      BY <1>1, <2>6
    <3> QED BY <1>1, <2>2, <2>3, <2>6, <3>1, MemoryAssumption DEF Id, Unknown
  <2>9. old \in DOMAIN memories => memories'[old].status = "superseded"
    <3>1. new \in Id \cup {Unknown}
      BY <2>2, <2>6
    <3> QED BY <1>1, <2>3, <2>6, <3>1, SupersededRowType
  <2>10. \A i \in DOMAIN memories' : i = old => memories'[i].status = "superseded"
    BY <2>8, <2>9
  <2> QED BY <2>1, <2>3, <2>4, <2>5, <2>7, <2>8, <2>10 DEF TablePersists, CreateStep
<1>11. CASE \E i \in DOMAIN memories : StampStep(i)
  BY <1>2, <1>7, <1>11 DEF StampStep
<1>12. ASSUME NEW r \in Requests, NEW verified \in BOOLEAN, WriteStep(r, verified)
       PROVE  /\ TablePersists(memories')
              /\ contradictions \subseteq contradictions'
              /\ contradictions' \subseteq Contradiction
              /\ now \in Nat /\ now' \in 0..Horizon /\ now <= now'
  <2>1. CASE \E i \in DOMAIN memories : MergeStep(r, verified, i)
    BY <1>2, <1>8, <2>1 DEF MergeStep
  <2>2. CASE \E old \in DOMAIN memories \cup {Unknown, NoMemory} : \E named \in BOOLEAN :
                 LostStep(r, verified, old, named)
    BY <1>2, <1>9, <2>2 DEF LostStep
  <2>3. CASE \E old \in DOMAIN memories \cup {Unknown, NoMemory} : \E named \in BOOLEAN :
                 Created(r, verified, old, named)
    BY <1>1, <1>10, <2>3
  <2> QED BY <1>12, <2>1, <2>2, <2>3 DEF WriteStep
<1> QED BY <1>4, <1>5, <1>6, <1>11, <1>12, StepCases

LEMMA TypeStep ==
    ASSUME TypeOK, [Next]_vars
    PROVE  TypeOK'
BY RowsPersist DEF TypeOK, TablePersists


LEMMA PastStep ==
    ASSUME TypeOK, UpdatedInPast, [Next]_vars
    PROVE  UpdatedInPast'
<1>1. /\ TablePersists(memories') /\ now \in Nat /\ now' \in Nat /\ now <= now'
  BY RowsPersist, MemoryAssumption
<1>2. ASSUME NEW i \in DOMAIN memories' PROVE memories'[i].updated_at <= now'
  <2>1. CASE i \in DOMAIN memories
    <3>1. /\ memories'[i].updated_at \in {memories[i].updated_at, now}
          /\ memories[i].updated_at <= now /\ memories[i].updated_at \in Nat
      BY <1>1, <2>1, RowType DEF TablePersists, RowPersists, UpdatedInPast, Memory
    <3> QED BY <1>1, <3>1
  <2>2. CASE i \notin DOMAIN memories
    BY <1>1, <2>2 DEF TablePersists
  <2> QED BY <2>1, <2>2
<1> QED BY <1>2 DEF UpdatedInPast

LEMMA FitsStep ==
    ASSUME TypeOK, StatusFits, [Next]_vars
    PROVE  StatusFits'
BY RowsPersist DEF StatusFits, TablePersists, RowPersists

LEMMA PredecessorStep ==
    ASSUME TypeOK, PredecessorIsClosed, [Next]_vars
    PROVE  PredecessorIsClosed'
<1>1. TablePersists(memories')
  BY RowsPersist
<1>2. ASSUME NEW j \in DOMAIN memories'
      PROVE  memories'[j].supersedes \in DOMAIN memories \cup {Unknown, NoMemory}
  BY <1>1 DEF TablePersists, RowPersists, SameIdentity, PredecessorIsClosed
<1>3. ASSUME NEW i \in DOMAIN memories', NEW j \in DOMAIN memories',
             memories'[j].supersedes = i
      PROVE  memories'[i].status = "superseded"
  <2>1. CASE j \notin DOMAIN memories
    BY <1>1, <1>3, <2>1 DEF TablePersists
  <2>2. CASE j \in DOMAIN memories
    <3>1. memories[j].supersedes = i
      BY <1>1, <1>3, <2>2 DEF TablePersists, RowPersists, SameIdentity
    <3>2. i \in DOMAIN memories
      <4>1. i \in Id
        BY <1>1, MemoryAssumption DEF TablePersists, Id
      <4> QED BY <1>2, <1>3, <4>1, MemoryAssumption DEF Id, Unknown
    <3> QED BY <1>1, <2>2, <3>1, <3>2 DEF TablePersists, RowPersists, PredecessorIsClosed
  <2> QED BY <2>1, <2>2
<1>4. DOMAIN memories \subseteq DOMAIN memories'
  BY <1>1 DEF TablePersists
<1> QED BY <1>2, <1>3, <1>4 DEF PredecessorIsClosed

CreatedAt(new, rows, r, verified, old, named, torn, handled) ==
    /\ new = Len(memories) + 1 /\ new \notin DOMAIN memories
    /\ DOMAIN rows = DOMAIN memories \cup {new}
    /\ \A i \in DOMAIN memories : i < new
    /\ Entered(rows[new], r, verified, old, named, torn)
    /\ \A i \in DOMAIN memories :
           rows[i] = IF i \in handled \cup {old}
                     THEN SupersededRow(memories[i], new) ELSE memories[i]

LEMMA CreatedFacts ==
    ASSUME TypeOK, NEW r \in Requests, NEW verified \in BOOLEAN, NEW named \in BOOLEAN,
           NEW old \in DOMAIN memories \cup {Unknown, NoMemory}, NEW torn \in BOOLEAN,
           NEW handled \in SUBSET Conflicting(r, old),
           CreateStep(r, verified, old, named, torn, handled)
    PROVE  \E new \in Id : CreatedAt(new, memories', r, verified, old, named, torn, handled)
<1>1. /\ now \in Nat /\ Len(memories) \in Nat /\ DOMAIN memories = 1..Len(memories)
      /\ \A i \in DOMAIN memories : memories[i] \in Memory /\ i \in Id
  BY RowType, MemoryAssumption DEF TypeOK
<1>2. PICK new \in Id : new = Len(memories) + 1
  BY DEF CreateStep
<1>3. /\ DOMAIN memories' = 1..new
      /\ memories'[new] = NewRow(r, verified, old, named, torn)
      /\ \A i \in DOMAIN memories :
             memories'[i] = IF i \in handled \cup {old}
                            THEN SupersededRow(memories[i], new) ELSE memories[i]
  BY <1>2 DEF CreateStep, Inserted
<1>4. Entered(memories'[new], r, verified, old, named, torn)
  <2>1. old \in Id \cup {Unknown, NoMemory}
    BY <1>1
  <2>2. Entered(NewRow(r, verified, old, named, torn), r, verified, old, named, torn)
    BY <1>1, <2>1, NewRowType
  <2> QED BY <1>3, <2>2
<1>5. /\ new \notin 1..Len(memories) /\ 1..new = (1..Len(memories)) \cup {new}
      /\ \A i \in 1..Len(memories) : i < new
  BY <1>1, <1>2
<1> QED BY <1>1, <1>2, <1>3, <1>4, <1>5 DEF CreatedAt

(* A closed row of a title that merges is not written again, and no row    *)
(* that is superseded finds another successor; but for names and crashes.  *)
StaysClosed(rows, i) ==
    LET m == memories[i]
        n == rows[i]
    IN  /\ ~ Open(m) /\ AllowsAutoMerge(m.memory_type) => n = m \/ Disturbed(rows, i)
        /\ m.status = "superseded" => n.superseded_by = m.superseded_by \/ Disturbed(rows, i)
        /\ m.status # "superseded" /\ n.status = "superseded" /\ ~ AllowsAutoMerge(m.memory_type)
               => Disturbed(rows, i)

LEMMA ClosedRowsStay ==
    ASSUME TypeOK, StatusFits, [Next]_vars, NEW i \in DOMAIN memories
    PROVE  StaysClosed(memories', i)
<1> DEFINE m == memories[i]
           n == memories'[i]
<1>1. /\ m \in Memory /\ now \in Nat /\ i \in Id /\ Fits(m)
      /\ \A k \in DOMAIN memories : memories[k] \in Memory
  BY RowType, MemoryAssumption DEF TypeOK, StatusFits
<1>2. ASSUME n = m PROVE StaysClosed(memories', i)
  BY <1>2 DEF StaysClosed
<1>3. CASE UNCHANGED vars
  BY <1>2, <1>3 DEF vars
<1>4. CASE Advance
  BY <1>2, <1>4 DEF Advance
<1>5. CASE Retrieve
  <2>1. /\ n.superseded_by = m.superseded_by
        /\ \/ n = m
           \/ m.status = "active" /\ n.status \in {"expired", "archived"}
    <3>1. n = Maintained(m)
      BY <1>5, RetainedRows DEF Retrieve
    <3> QED BY <1>1, <3>1, MaintainedType
  <2> QED BY <1>1, <2>1 DEF StaysClosed, Fits, Open
<1>6. CASE \E k \in DOMAIN memories : StampStep(k)
  <2>1. PICK k \in DOMAIN memories : StampStep(k)
    BY <1>6
  <2>2. memories[k].status \in MemoryStatuses
    BY <1>1 DEF Memory
  <2>3. CASE k # i
    <3>1. n = m
      BY <2>1, <2>2, <2>3, TouchedRows DEF StampStep
    <3> QED BY <1>2, <3>1
  <2>4. CASE k = i
    <3>1. n = Touched(m, m.status, TRUE) /\ m.memory_type = "MissionMemory"
      BY <2>1, <2>2, <2>4, TouchedRows DEF StampStep
    <3>2. n.superseded_by = m.superseded_by /\ n.status = m.status
      <4>1. m \in Memory /\ m.status \in MemoryStatuses /\ TRUE \in BOOLEAN
        BY <1>1, <2>2, <2>4
      <4> HIDE DEF m, n
      <4> QED BY <1>1, <3>1, <4>1, TouchedType
    <3> QED BY <3>1, <3>2 DEF StaysClosed, AllowsAutoMerge
  <2> QED BY <2>3, <2>4
<1>7. ASSUME NEW r \in Requests, NEW verified \in BOOLEAN, NEW k \in DOMAIN memories,
             MergeStep(r, verified, k)
      PROVE  StaysClosed(memories', i)
  <2>1. Status(r) \in {"active", "candidate"} /\ Status(r) \in MemoryStatuses
    BY RequestType DEF MemoryStatuses
  <2>2. CASE k # i
    <3>1. n = m
      BY <1>7, <2>1, <2>2, TouchedRows DEF MergeStep
    <3> QED BY <1>2, <3>1
  <2>3. CASE k = i
    <3>1. n = Touched(m, Status(r), verified) /\ Open(m)
      BY <1>7, <2>1, <2>3, TouchedRows DEF MergeStep
    <3>2. n.status = Status(r)
      BY <1>1, <2>1, <3>1, TouchedType
    <3> QED BY <2>1, <3>1, <3>2 DEF StaysClosed, Open
  <2> QED BY <2>2, <2>3
<1>8. ASSUME NEW r, NEW verified, NEW old, NEW named, LostStep(r, verified, old, named)
      PROVE  StaysClosed(memories', i)
  <2>1. n = IF i = old THEN SupersededRow(m, Unknown) ELSE m
    BY <1>8, LostRows DEF LostStep
  <2>2. CASE i = old
    <3>1. n.superseded_by = Unknown
      BY <1>1, <2>1, <2>2, SupersededRowType
    <3> QED BY <3>1 DEF StaysClosed, Disturbed
  <2> QED BY <1>2, <2>1, <2>2
<1>9. ASSUME NEW r \in Requests, NEW verified \in BOOLEAN, NEW named \in BOOLEAN,
             NEW old \in DOMAIN memories \cup {Unknown, NoMemory},
             Created(r, verified, old, named)
      PROVE  StaysClosed(memories', i)
  <2>1. PICK torn \in BOOLEAN, handled \in SUBSET Conflicting(r, old) :
            CreateStep(r, verified, old, named, torn, handled)
    BY <1>9 DEF Created
  <2>0. PICK new \in Id : CreatedAt(new, memories', r, verified, old, named, torn, handled)
    BY <2>1, CreatedFacts
  <2>2. /\ DOMAIN memories' = DOMAIN memories \cup {new}
        /\ Entered(memories'[new], r, verified, old, named, torn)
        /\ n = IF i \in handled \cup {old} THEN SupersededRow(m, new) ELSE m
    BY <2>0 DEF CreatedAt
  <2>3. CASE i \in handled
    <3>1. m.status = "active" /\ m.memory_type = r.memory_type /\ Resolves(r)
      BY <2>1, <2>3 DEF Conflicting, Contradicts, SharesKey, CreateStep
    <3>2. AllowsAutoMerge(m.memory_type)
      BY <3>1 DEF Resolves, OwnerTypes, AllowsAutoMerge
    <3> QED BY <1>1, <3>1, <3>2 DEF StaysClosed, Open, Fits
  <2>4. CASE i = old /\ named
    <3>1. memories'[new].named /\ memories'[new].supersedes = i
      BY <2>2, <2>4 DEF Entered
    <3>2. Disturbed(memories', i)
      BY <2>2, <3>1 DEF Disturbed, NamedIn
    <3> QED BY <3>2 DEF StaysClosed
  <2>5. CASE i = old /\ ~ named
    <3>1. old \in MergeCandidates(r)
      BY <1>1, <2>1, <2>5, MemoryAssumption DEF CreateStep, Succeeds
    <3>2. Open(m) /\ SameTitle(m, r) /\ AllowsAutoMerge(r.memory_type)
      BY <2>5, <3>1 DEF MergeCandidates
    <3> QED BY <3>2 DEF StaysClosed, SameTitle, Open
  <2> QED BY <1>2, <2>2, <2>3, <2>4, <2>5
<1>10. ASSUME NEW r \in Requests, NEW verified \in BOOLEAN, WriteStep(r, verified)
       PROVE  StaysClosed(memories', i)
  BY <1>7, <1>8, <1>9, <1>10 DEF WriteStep
<1> QED BY <1>3, <1>4, <1>5, <1>6, <1>10, StepCases

LEMMA NamedPersists ==
    ASSUME TypeOK, [Next]_vars, NEW i \in DOMAIN memories, NamedIn(memories, i)
    PROVE  NamedIn(memories', i)
<1>1. TablePersists(memories')
  BY RowsPersist
<1>2. PICK k \in DOMAIN memories :
          /\ memories[k].named
          /\ memories[k].supersedes = i \/ SameTitle(memories[k], memories[i])
  BY DEF NamedIn
<1>3. /\ k \in DOMAIN memories'
      /\ SameIdentity(memories'[k], memories[k]) /\ SameIdentity(memories'[i], memories[i])
  BY <1>1 DEF TablePersists, RowPersists
<1> QED BY <1>2, <1>3 DEF NamedIn, SameIdentity, SameTitle

LEMMA DisturbedPersists ==
    ASSUME TypeOK, StatusFits, [Next]_vars, NEW i \in DOMAIN memories, Disturbed(memories, i)
    PROVE  Disturbed(memories', i)
<1>1. CASE NamedIn(memories, i)
  BY <1>1, NamedPersists DEF Disturbed
<1>2. CASE memories[i].superseded_by = Unknown
  <2>1. memories[i].status = "superseded"
    BY <1>2, MemoryAssumption DEF StatusFits, Fits
  <2>2. memories'[i].superseded_by = memories[i].superseded_by \/ Disturbed(memories', i)
    BY <2>1, ClosedRowsStay DEF StaysClosed
  <2> QED BY <1>2, <2>2 DEF Disturbed
<1> QED BY <1>1, <1>2 DEF Disturbed

(* Two open memories of a title that merges: a request named a predecessor. *)
LEMMA OpenTwice ==
    ASSUME TypeOK, StatusFits, PredecessorIsClosed, TitlesTakeTurns,
           NEW i \in DOMAIN memories, NEW j \in DOMAIN memories, i # j,
           Open(memories[i]), Open(memories[j]), SameTitle(memories[i], memories[j]),
           AllowsAutoMerge(memories[i].memory_type)
    PROVE  \E k \in DOMAIN memories :
               memories[k].named /\ SameTitle(memories[k], memories[i])
<1>1. ASSUME NEW first \in DOMAIN memories, NEW second \in DOMAIN memories, first < second,
             Open(memories[first]), SameTitle(memories[first], memories[second]),
             AllowsAutoMerge(memories[first].memory_type)
      PROVE  \E k \in DOMAIN memories :
                 memories[k].named /\ SameTitle(memories[k], memories[first])
  <2>1. ClosedInTurn(memories, first, second)
    BY <1>1 DEF TitlesTakeTurns
  <2>2. memories[first].status # "superseded" /\ memories[first].superseded_by # Unknown
    BY <1>1, MemoryAssumption DEF Open
  <2>3. NamedIn(memories, first)
    BY <1>1, <2>1, <2>2 DEF ClosedInTurn, Disturbed
  <2>4. PICK k \in DOMAIN memories :
            /\ memories[k].named
            /\ memories[k].supersedes = first \/ SameTitle(memories[k], memories[first])
    BY <2>3 DEF NamedIn
  <2>5. memories[k].supersedes # first
    BY <2>2 DEF PredecessorIsClosed
  <2> QED BY <2>4, <2>5
<1>2. i < j \/ j < i
  BY RowType DEF Id
<1>3. SameTitle(memories[j], memories[i]) /\ AllowsAutoMerge(memories[j].memory_type)
  BY DEF SameTitle
<1>4. \E k \in DOMAIN memories : memories[k].named /\ (\/ SameTitle(memories[k], memories[i])
                                                       \/ SameTitle(memories[k], memories[j]))
  BY <1>1, <1>2, <1>3
<1> QED BY <1>4 DEF SameTitle

(* The query for the memories to merge with finds one, if there is one.    *)
LEMMA MergeableFound ==
    ASSUME TypeOK, UpdatedInPast, NEW r, AllowsAutoMerge(r.memory_type),
           NEW i \in DOMAIN memories, Open(memories[i]), SameTitle(memories[i], r)
    PROVE  MergeCandidates(r) # {}
<1> DEFINE matches == {k \in DOMAIN memories : Open(memories[k]) /\ SameTitle(memories[k], r)}
           dates == {memories[k].updated_at : k \in matches}
<1>1. now \in Nat /\ \A k \in DOMAIN memories : memories[k].updated_at \in 0..now
  BY RowType, MemoryAssumption DEF TypeOK, UpdatedInPast, Memory
<1>2. dates \in SUBSET (0..now) /\ dates # {}
  BY <1>1
<1>3. PICK last \in dates : \A date \in dates : date <= last
  <2> HIDE DEF dates
  <2> QED BY <1>1, <1>2, MaximumExists
<1>4. PICK k \in matches : memories[k].updated_at = last
  BY <1>3
<1>5. \A j \in matches : memories[j].updated_at <= memories[k].updated_at
  BY <1>3, <1>4
<1> QED BY <1>4, <1>5 DEF MergeCandidates

LEMMA InsertedByWrite ==
    ASSUME TypeOK, [Next]_vars, DOMAIN memories' # DOMAIN memories
    PROVE  \E r \in Requests : \E verified \in BOOLEAN :
           \E old \in DOMAIN memories \cup {Unknown, NoMemory} : \E named \in BOOLEAN :
               Created(r, verified, old, named)
<1>1. ASSUME NEW r \in Requests, NEW verified \in BOOLEAN, WriteStep(r, verified)
      PROVE  \E old \in DOMAIN memories \cup {Unknown, NoMemory} : \E named \in BOOLEAN :
                 Created(r, verified, old, named)
  <2>1. CASE \E k \in DOMAIN memories : MergeStep(r, verified, k)
    BY <2>1 DEF MergeStep
  <2>2. CASE \E old \in DOMAIN memories \cup {Unknown, NoMemory} : \E named \in BOOLEAN :
                 LostStep(r, verified, old, named)
    BY <2>2, LostRows DEF LostStep
  <2> QED BY <1>1, <2>1, <2>2 DEF WriteStep
<1>2. ~ (UNCHANGED vars \/ Advance \/ Retrieve \/ \E k \in DOMAIN memories : StampStep(k))
  BY RetainedRows DEF vars, Advance, Retrieve, StampStep
<1> QED BY <1>1, <1>2, StepCases

LEMMA TurnsStep ==
    ASSUME TypeOK, UpdatedInPast, StatusFits, PredecessorIsClosed, TitlesTakeTurns, [Next]_vars
    PROVE  TitlesTakeTurns'
<1>1. /\ TablePersists(memories') /\ now \in Nat /\ now' \in Nat /\ now <= now'
      /\ DOMAIN memories = 1..Len(memories) /\ Len(memories) \in Nat
      /\ \A k \in DOMAIN memories : memories[k] \in Memory
  BY RowsPersist, RowType, MemoryAssumption
<1>2. ASSUME NEW i \in DOMAIN memories', NEW j \in DOMAIN memories', i < j,
             SameTitle(memories'[i], memories'[j]),
             AllowsAutoMerge(memories'[i].memory_type)
      PROVE  ClosedInTurn(memories', i, j)
  <2>1. i \in DOMAIN memories
    BY <1>1, <1>2 DEF TablePersists
  <2> DEFINE m == memories[i]
             n == memories'[i]
  <2>2. /\ m \in Memory /\ n \in Memory /\ SameIdentity(n, m) /\ RowPersists(m, n)
        /\ AllowsAutoMerge(m.memory_type)
        /\ m.updated_at <= now /\ m.updated_at \in Nat
    BY <1>1, <1>2, <2>1 DEF TablePersists, RowPersists, SameIdentity, UpdatedInPast, Memory
  <2>3. ~ Open(m) => n = m \/ Disturbed(memories', i)
    BY <2>1, <2>2, ClosedRowsStay DEF StaysClosed
  <2>4. CASE j \in DOMAIN memories
    <3>1. /\ SameIdentity(memories'[j], memories[j])
          /\ memories'[j].updated_at \in {memories[j].updated_at, now}
          /\ memories[j].updated_at \in Nat /\ memories[j].updated_at <= now
      BY <1>1, <2>4 DEF TablePersists, RowPersists, Memory, UpdatedInPast
    <3>2. ClosedInTurn(memories, i, j)
      BY <1>2, <2>1, <2>2, <2>4, <3>1 DEF TitlesTakeTurns, SameIdentity, SameTitle
    <3>3. CASE Disturbed(memories, i)
      BY <2>1, <3>3, DisturbedPersists DEF ClosedInTurn
    <3>4. CASE ~ Open(m) /\ m.updated_at <= memories[j].updated_at
      <4>1. memories[j].updated_at <= memories'[j].updated_at
        BY <1>1, <3>1
      <4>2. m.updated_at <= memories'[j].updated_at
        BY <1>1, <2>2, <3>1, <3>4, <4>1
      <4> QED BY <2>3, <3>4, <4>2 DEF ClosedInTurn
    <3> QED BY <3>2, <3>3, <3>4 DEF ClosedInTurn
  <2>5. CASE j \notin DOMAIN memories
    <3>1. memories'[j].updated_at = now /\ j = Len(memories) + 1
      BY <1>1, <2>5 DEF TablePersists
    <3>2. CASE ~ Open(m)
      BY <2>2, <2>3, <3>1, <3>2 DEF ClosedInTurn
    <3>3. CASE Open(m)
      <4>1. PICK r \in Requests, verified \in BOOLEAN,
                 old \in DOMAIN memories \cup {Unknown, NoMemory}, named \in BOOLEAN :
                     Created(r, verified, old, named)
        BY <2>5, InsertedByWrite
      <4>2. PICK torn \in BOOLEAN, handled \in SUBSET Conflicting(r, old) :
                CreateStep(r, verified, old, named, torn, handled)
        BY <4>1 DEF Created
      <4>3. PICK new \in Id : CreatedAt(new, memories', r, verified, old, named, torn, handled)
        BY <4>2, CreatedFacts
      <4>4. /\ new = j /\ Entered(memories'[j], r, verified, old, named, torn)
            /\ n = IF i \in handled \cup {old} THEN SupersededRow(m, new) ELSE m
        BY <2>1, <3>1, <4>3 DEF CreatedAt
      <4>5. SameTitle(m, r)
        BY <1>2, <2>2, <4>4 DEF Entered, SameTitle, SameIdentity
      <4>6. CASE named
        BY <1>2, <4>4, <4>6 DEF Entered, ClosedInTurn, Disturbed, NamedIn, SameTitle
      <4>7. CASE ~ named
        <5>1. AllowsAutoMerge(r.memory_type)
          BY <2>2, <4>5 DEF SameTitle
        <5>2. MergeCandidates(r) # {}
          BY <2>1, <3>3, <4>5, <5>1, MergeableFound
        <5>3. old \in MergeCandidates(r)
          BY <4>2, <4>7, <5>2 DEF CreateStep, Succeeds
        <5>4. old \in DOMAIN memories /\ Open(memories[old]) /\ SameTitle(memories[old], r)
          BY <5>3 DEF MergeCandidates
        <5>5. CASE i = old
          <6>1. n.status = "superseded" /\ n.updated_at = now
            BY <1>1, <2>2, <4>4, <5>5, SupersededRowType
          <6> QED BY <1>1, <3>1, <6>1 DEF ClosedInTurn, Open
        <5>6. CASE i # old
          <6>1. PICK k \in DOMAIN memories :
                    memories[k].named /\ SameTitle(memories[k], memories[i])
            BY <2>1, <2>2, <3>3, <4>5, <5>4, <5>6, OpenTwice DEF SameTitle
          <6>2. Disturbed(memories', i)
            BY <2>1, <6>1, DisturbedPersists DEF Disturbed, NamedIn
          <6> QED BY <6>2 DEF ClosedInTurn
        <5> QED BY <5>5, <5>6
      <4> QED BY <4>6, <4>7
    <3> QED BY <3>2, <3>3
  <2> QED BY <2>4, <2>5
<1> QED BY <1>2 DEF TitlesTakeTurns

LEMMA ByNameStep ==
    ASSUME TypeOK, StatusFits, SupersededByName, [Next]_vars
    PROVE  SupersededByName'
<1>1. TablePersists(memories')
  BY RowsPersist
<1>2. ASSUME NEW i \in DOMAIN memories', memories'[i].status = "superseded",
             ~ AllowsAutoMerge(memories'[i].memory_type)
      PROVE  Disturbed(memories', i)
  <2>1. CASE i \in DOMAIN memories
    <3>1. ~ AllowsAutoMerge(memories[i].memory_type)
      BY <1>1, <1>2, <2>1 DEF TablePersists, RowPersists, SameIdentity
    <3>2. CASE memories[i].status = "superseded"
      BY <2>1, <3>1, <3>2, DisturbedPersists DEF SupersededByName
    <3>3. CASE memories[i].status # "superseded"
      BY <1>2, <2>1, <3>1, <3>3, ClosedRowsStay DEF StaysClosed
    <3> QED BY <3>2, <3>3
  <2>2. CASE i \notin DOMAIN memories
    BY <1>1, <1>2, <2>2 DEF TablePersists, Open
  <2> QED BY <2>1, <2>2
<1> QED BY <1>2 DEF SupersededByName

LEMMA ConflictsStep ==
    ASSUME TypeOK, ConflictsAreRecorded, [Next]_vars
    PROVE  ConflictsAreRecorded'
<1>1. TablePersists(memories') /\ contradictions \subseteq contradictions'
  BY RowsPersist
<1>2. ASSUME NEW j \in DOMAIN memories', NEW i \in ActiveConflicts(memories', j), i < j,
             memories'[j].status = "active",
             memories'[i].version = 1, memories'[j].version = 1, ~ memories'[j].torn
      PROVE  /\ memories'[j].memory_type \notin OwnerTypes
             /\ [left |-> i, right |-> j, resolved |-> FALSE] \in contradictions'
  <2>1. i \in DOMAIN memories /\ memories'[i].status = "active"
        /\ Contradicts(memories'[i], memories'[j])
    BY <1>1, <1>2, RowType DEF TablePersists, ActiveConflicts
  <2>2. memories'[i] = memories[i]
    BY <1>1, <1>2, <2>1 DEF TablePersists, RowPersists
  <2>3. CASE j \in DOMAIN memories
    <3>1. memories'[j] = memories[j]
      BY <1>1, <1>2, <2>3 DEF TablePersists, RowPersists
    <3>2. i \in ActiveConflicts(memories, j)
      BY <1>2, <2>1, <2>2, <3>1 DEF ActiveConflicts
    <3> QED BY <1>1, <1>2, <2>2, <2>3, <3>1, <3>2 DEF ConflictsAreRecorded
  <2>4. CASE j \notin DOMAIN memories
    <3>1. PICK r \in Requests, verified \in BOOLEAN,
               old \in DOMAIN memories \cup {Unknown, NoMemory}, named \in BOOLEAN :
                   Created(r, verified, old, named)
      BY <2>4, InsertedByWrite
    <3>2. PICK torn \in BOOLEAN, handled \in SUBSET Conflicting(r, old) :
              CreateStep(r, verified, old, named, torn, handled)
      BY <3>1 DEF Created
    <3>3. PICK new \in Id : CreatedAt(new, memories', r, verified, old, named, torn, handled)
      BY <3>2, CreatedFacts
    <3>4. /\ new = j /\ new = Len(memories) + 1
          /\ Entered(memories'[j], r, verified, old, named, torn)
          /\ memories'[i] = IF i \in handled \cup {old} THEN SupersededRow(memories[i], new)
                                                       ELSE memories[i]
      BY <2>1, <2>4, <3>3 DEF CreatedAt
    <3>5. i \notin handled \cup {old}
      <4>1. memories[i] \in Memory /\ new \in Id \cup {Unknown} /\ now \in Nat
        BY <2>1, RowType, MemoryAssumption DEF TypeOK
      <4>2. SupersededRow(memories[i], new).status = "superseded"
        BY <4>1, SupersededRowType
      <4> QED BY <2>1, <3>4, <4>2
    <3>6. i \in Conflicting(r, old)
      BY <2>1, <2>2, <3>4, <3>5 DEF Conflicting, Contradicts, SharesKey, Entered
    <3>7. ~ torn
      BY <1>2, <3>4 DEF Entered
    <3>8. ~ Resolves(r) /\ [left |-> i, right |-> new, resolved |-> FALSE] \in contradictions'
      BY <3>2, <3>4, <3>5, <3>6, <3>7 DEF CreateStep
    <3>9. r.memory_type \notin OwnerTypes
      BY <3>2, <3>8 DEF CreateStep, Writes, Accepted, Resolves, Confirmed
    <3> QED BY <3>4, <3>8, <3>9 DEF Entered
  <2> QED BY <2>3, <2>4
<1> QED BY <1>2 DEF ConflictsAreRecorded

-----------------------------------------------------------------------------
(* The invariant.                                                          *)

LEMMA Start == Init => IInv
<1> SUFFICES ASSUME Init PROVE IInv
  OBVIOUS
<1>1. memories = <<>> /\ contradictions = {} /\ now = 0 /\ DOMAIN memories = {}
  BY DEF Init
<1>2. TypeOK
  BY <1>1, MemoryAssumption DEF TypeOK
<1> QED
  BY <1>1, <1>2 DEF IInv, UpdatedInPast, StatusFits, PredecessorIsClosed, TitlesTakeTurns,
                    SupersededByName, ConflictsAreRecorded

LEMMA Step == IInv /\ [Next]_vars => IInv'
BY TypeStep, PastStep, FitsStep, PredecessorStep, TurnsStep, ByNameStep, ConflictsStep DEF IInv

(* What is known of every memory, contradiction and write holds always,    *)
(* also after a crash in the middle of a write.                            *)
THEOREM Invariance == Spec => []IInv
<1>1. Init => IInv
  BY Start
<1>2. IInv /\ [Next]_vars => IInv'
  BY Step
<1> QED BY <1>1, <1>2, PTL DEF Spec

(* The tables have the shape that the types of the store declare.          *)
THEOREM TypeCorrect == Spec => []TypeOK
<1>1. IInv => TypeOK
  BY DEF IInv
<1> QED BY <1>1, Invariance, PTL

(* A memory that was superseded, expired or archived is never opened again *)
(* by a merge, a stamp or a write, nor by maintenance.                     *)
THEOREM ClosedRemains == Spec => ClosedStaysClosed
<1>1. IInv /\ [Next]_vars
      => [\A i \in DOMAIN memories :
              memories[i].status \notin {"active", "candidate"}
                  => memories'[i].status \notin {"active", "candidate"}]_vars
  BY RowsPersist DEF IInv, TablePersists, RowPersists
<1> QED BY <1>1, Invariance, PTL DEF ClosedStaysClosed, Spec

(* A title that merges has one open memory, unless a request named the     *)
(* predecessor of one of them.                                             *)
THEOREM TitlesAreOpenOnce == Spec => []OneOpenPerTitle
<1>1. IInv => OneOpenPerTitle
  <2> SUFFICES ASSUME IInv, NEW i \in DOMAIN memories, NEW j \in DOMAIN memories,
                      i < j, SameTitle(memories[i], memories[j]),
                      AllowsAutoMerge(memories[i].memory_type),
                      Open(memories[i]), Open(memories[j])
               PROVE  \E k \in DOMAIN memories :
                          /\ memories[k].named
                          /\ SameTitle(memories[k], memories[j])
                          /\ memories[k].supersedes # i
    BY DEF OneOpenPerTitle
  <2>1. i # j
    BY RowType DEF IInv, Id
  <2>2. PICK k \in DOMAIN memories : memories[k].named /\ SameTitle(memories[k], memories[i])
    BY <2>1, OpenTwice DEF IInv
  <2>3. memories[k].supersedes # i
    BY DEF IInv, PredecessorIsClosed, Open
  <2>4. SameTitle(memories[k], memories[j])
    BY <2>2 DEF SameTitle
  <2> QED BY <2>2, <2>3, <2>4
<1> QED BY <1>1, Invariance, PTL

(* Two active memories that contradict each other are on record for the    *)
(* user, and are not facts about the owner.                                *)
THEOREM ConflictsOnRecord == Spec => []ConflictsAreRecorded
<1>1. IInv => ConflictsAreRecorded
  BY DEF IInv
<1> QED BY <1>1, Invariance, PTL

(* What a retrieval may select is neither superseded nor past its time.    *)
THEOREM AnswersAreCurrent == Spec => []ServedIsCurrent
<1>1. ASSUME IInv, NEW i \in Served(Retained, "balanced")
      PROVE  LET m == Retained[i]
             IN  /\ m.superseded_by = NoMemory
                 /\ m.memory_type = "WorkingMemory" => now < m.created_at + Ttl
                 /\ m.memory_type = "MissionMemory" /\ ArchiveAfter + m.created_at <= now
                        => m.status = "archived"
  <2> DEFINE o == memories[i]
             m == Retained[i]
  <2>1. /\ i \in DOMAIN memories /\ o \in Memory /\ now \in Nat
        /\ m = Maintained(o) /\ ~ Suppressed(m)
    BY <1>1, RowType, RetainedRows, MemoryAssumption DEF IInv, TypeOK, Served
  <2>2. m \in Memory /\ SameIdentity(m, o)
    BY <2>1, MaintainedType
  <2>3. /\ m.superseded_by = NoMemory /\ m.status \in {"active", "archived"}
        /\ m.status = "archived" => m.memory_type = "MissionMemory"
    BY <2>1, <2>2 DEF Suppressed, Memory, MemoryStatuses
  <2>4. m.status = "active" => o.status = "active" /\ m = o
    BY <2>1, MaintainedType
  <2>5. o.created_at \in Nat /\ o.created_at = m.created_at /\ o.memory_type = m.memory_type
        /\ Ttl \in Nat /\ ArchiveAfter \in Nat
    BY <2>1, <2>2, MemoryAssumption DEF Memory, SameIdentity
  <2>6. ASSUME m.status = "active"
        PROVE  /\ m.memory_type = "WorkingMemory" => now < m.created_at + Ttl
               /\ ~ (m.memory_type = "MissionMemory" /\ ArchiveAfter + m.created_at <= now)
    <3>1. ~ (o.memory_type = "WorkingMemory" /\ o.created_at + Ttl <= now)
      BY <2>1, <2>4, <2>6 DEF Maintained, Memory
    <3>2. ~ (o.memory_type = "MissionMemory" /\ o.created_at + ArchiveAfter <= now)
      BY <2>1, <2>4, <2>6 DEF Maintained, Memory
    <3> HIDE DEF m, o
    <3> QED BY <2>1, <2>3, <2>5, <3>1, <3>2
  <2>7. CASE m.status = "archived"
    BY <2>3, <2>7
  <2> QED BY <2>3, <2>6, <2>7
<1>2. IInv => ServedIsCurrent
  BY <1>1 DEF ServedIsCurrent
<1> QED BY <1>2, Invariance, PTL

-----------------------------------------------------------------------------
(* Facts about the owner.                                                  *)

(* No confirmed fact about the owner is ascribed to the system.  Every     *)
(* caller in the repository keeps this; POST /learn does not ask for it    *)
(* (validation.ts:170).                                                    *)
OwnerSpeaks ==
    \A r \in Requests :
        r.memory_type \in OwnerTypes /\ r.confirmed_by_user
            => r.verified_by # "system_inference"

LEMMA OwnerIsVerified ==
    ASSUME OwnerSpeaks, NEW r \in Requests, NEW verified, Writes(r, verified),
           verified \in BOOLEAN, r.memory_type \in OwnerTypes
    PROVE  verified = TRUE
<1>1. r \in MemoryRequest
  BY RequestType
<1> QED BY <1>1 DEF OwnerSpeaks, Writes, Accepted, Verified, Confirmed, MemoryRequest,
                    LearnDefaults, CuratedDefaults, OwnerTypes

(* A fact about the owner is withdrawn by a write that someone vouches for *)
(* or that names it, provided the owner's facts are not ascribed to the    *)
(* system.                                                                 *)
THEOREM OwnerFactsAreKept == ASSUME OwnerSpeaks PROVE Spec => OwnerFactsStand
<1> DEFINE
    Withdrawn(rows, i) ==
        LET by == IF rows[i].superseded_by = NoMemory THEN i ELSE rows[i].superseded_by
        IN  \/ rows[by].verified
            \/ rows[by].named /\ rows[by].supersedes = i
<1>1. ASSUME IInv, [Next]_vars, NEW i \in DOMAIN memories,
             memories[i].memory_type \in OwnerTypes, memories[i].status = "active",
             memories'[i].status # "active", memories'[i].superseded_by # Unknown
      PROVE  Withdrawn(memories', i)
  <2> DEFINE m == memories[i]
             n == memories'[i]
  <2>1. /\ TypeOK /\ StatusFits /\ m \in Memory /\ now \in Nat /\ i \in Id
        /\ NoMemory \notin Id \cup {Unknown} /\ n # m
    BY <1>1, RowType, MemoryAssumption DEF IInv, TypeOK
  <2>2. ~ (UNCHANGED vars \/ Advance)
    BY <2>1 DEF vars, Advance
  <2>3. ~ Retrieve
    <3>1. SUFFICES ASSUME Retrieve PROVE FALSE
      OBVIOUS
    <3>2. n = Maintained(m)
      BY <2>1, <3>1, RetainedRows DEF Retrieve
    <3> QED BY <1>1, <2>1, <3>2, MaintainedType DEF OwnerTypes
  <2>4. ASSUME NEW k \in DOMAIN memories, StampStep(k) PROVE FALSE
    <3>1. memories[k].status \in MemoryStatuses
      BY <2>1, RowType DEF Memory
    <3>2. k # i
      BY <1>1, <2>4 DEF StampStep, OwnerTypes
    <3> QED BY <2>1, <2>4, <3>1, <3>2, TouchedRows DEF StampStep
  <2>5. PICK r \in Requests, verified \in BOOLEAN : WriteStep(r, verified)
    BY <1>1, <2>1, <2>2, <2>3, <2>4, StepCases
  <2>6. CASE \E k \in DOMAIN memories : MergeStep(r, verified, k)
    <3>1. PICK k \in DOMAIN memories : MergeStep(r, verified, k)
      BY <2>6
    <3>2. Status(r) \in MemoryStatuses
      BY RequestType DEF MemoryStatuses
    <3>3. k = i
      BY <2>1, <3>1, <3>2, TouchedRows DEF MergeStep
    <3>4. n = Touched(m, Status(r), verified) /\ Open(m) /\ SameTitle(m, r)
      BY <2>1, <3>1, <3>2, <3>3, TouchedRows DEF MergeStep
    <3>5. n.superseded_by = NoMemory /\ n.verified = verified
      BY <2>1, <3>2, <3>4, TouchedType DEF Open
    <3>6. verified = TRUE
      BY <1>1, <3>1, <3>4, OwnerIsVerified DEF MergeStep, SameTitle
    <3>7. n.superseded_by = NoMemory /\ n.verified = TRUE
      BY <3>5, <3>6
    <3> QED BY <3>7
  <2>7. ASSUME NEW old \in DOMAIN memories \cup {Unknown, NoMemory}, NEW named \in BOOLEAN,
               LostStep(r, verified, old, named)
        PROVE  FALSE
    <3>1. n = SupersededRow(m, Unknown)
      BY <2>1, <2>7, LostRows DEF LostStep
    <3> QED BY <1>1, <2>1, <3>1, SupersededRowType
  <2>8. ASSUME NEW old \in DOMAIN memories \cup {Unknown, NoMemory}, NEW named \in BOOLEAN,
               Created(r, verified, old, named)
        PROVE  Withdrawn(memories', i)
    <3>1. PICK torn \in BOOLEAN, handled \in SUBSET Conflicting(r, old) :
              CreateStep(r, verified, old, named, torn, handled)
      BY <2>8 DEF Created
    <3>2. PICK new \in Id : CreatedAt(new, memories', r, verified, old, named, torn, handled)
      BY <2>1, <3>1, CreatedFacts
    <3>3. /\ Entered(memories'[new], r, verified, old, named, torn)
          /\ n = SupersededRow(m, new) /\ i \in handled \cup {old}
      BY <2>1, <3>2 DEF CreatedAt
    <3>4. n.superseded_by = new /\ new # NoMemory
      BY <2>1, <3>3, SupersededRowType
    <3>5. /\ memories'[new].verified = verified /\ memories'[new].named = named
          /\ memories'[new].supersedes = old
      BY <3>3 DEF Entered
    <3>6. CASE m.memory_type = r.memory_type
      <4>1. verified = TRUE
        BY <1>1, <3>1, <3>6, OwnerIsVerified DEF CreateStep
      <4>2. memories'[new].verified = TRUE
        BY <3>5, <4>1
      <4> QED BY <3>4, <4>2
    <3>7. CASE m.memory_type # r.memory_type
      <4>1. i \notin handled /\ i = old
        BY <3>3, <3>7 DEF Conflicting, Contradicts, SharesKey
      <4>2. old \notin MergeCandidates(r)
        BY <3>7, <4>1 DEF MergeCandidates, SameTitle
      <4>3. named
        BY <2>1, <3>1, <4>1, <4>2 DEF CreateStep, Succeeds
      <4>4. memories'[new].named = TRUE
        BY <3>5, <4>3
      <4> QED BY <3>4, <3>5, <4>1, <4>4
    <3> QED BY <3>6, <3>7
  <2> QED BY <2>5, <2>6, <2>7, <2>8 DEF WriteStep
<1>2. IInv /\ [Next]_vars
      => [\A i \in DOMAIN memories :
              /\ memories[i].memory_type \in OwnerTypes
              /\ memories[i].status = "active"
              /\ memories'[i].status # "active"
              /\ memories'[i].superseded_by # Unknown
              => LET by == IF memories'[i].superseded_by = NoMemory THEN i
                           ELSE memories'[i].superseded_by
                 IN  \/ memories'[by].verified
                     \/ memories'[by].named /\ memories'[by].supersedes = i]_vars
  BY <1>1
<1> QED BY <1>2, Invariance, PTL DEF OwnerFactsStand, Spec

-----------------------------------------------------------------------------
(* What retrieval may select.                                              *)

LEMMA RetainedRow ==
    ASSUME IInv, NEW i \in DOMAIN memories
    PROVE  /\ Retained[i] \in Memory /\ Fits(Retained[i])
           /\ SameIdentity(Retained[i], memories[i])
           /\ Retained[i].superseded_by = memories[i].superseded_by
           /\ Retained[i].version = memories[i].version
           /\ Retained[i].updated_at \in 0..now
           /\ ~ Open(memories[i]) => Retained[i] = memories[i]
           /\ Retained[i].status \in {"active", "candidate", "superseded"}
                  => Retained[i] = memories[i]
<1>1. /\ memories[i] \in Memory /\ now \in Nat /\ Fits(memories[i])
      /\ Retained[i] = Maintained(memories[i])
      /\ memories[i].updated_at <= now /\ memories[i].updated_at \in Nat
  BY RowType, RetainedRows, MemoryAssumption DEF IInv, TypeOK, StatusFits, UpdatedInPast, Memory
<1>2. RowPersists(memories[i], Maintained(memories[i]))
  BY <1>1, RowChanges
<1>3. Maintained(memories[i]).updated_at \in 0..now
  BY <1>1, <1>2 DEF RowPersists
<1> QED BY <1>1, <1>2, <1>3, MaintainedType DEF RowPersists, Open, Fits

(* Every entry has a row that no other row of the entry hides.             *)
LEMMA FirstRow ==
    ASSUME IInv, NEW i \in DOMAIN memories
    PROVE  \E k \in DOMAIN memories :
               /\ SameEntry(Retained[k], Retained[i])
               /\ HiddenBy(Retained, k) = {}
               /\ k # i => k \in HiddenBy(Retained, i)
<1> DEFINE entry == {k \in DOMAIN memories : SameEntry(Retained[k], Retained[i])}
           dates == {Retained[k].updated_at : k \in entry}
<1>1. /\ DOMAIN memories = 1..Len(memories) /\ Len(memories) \in Nat /\ now \in Nat
      /\ DOMAIN Retained = DOMAIN memories
      /\ \A k \in DOMAIN memories : Retained[k].updated_at \in 0..now
  BY RowType, RetainedRow, RetainedRows, MemoryAssumption DEF IInv, TypeOK
<1>2. i \in entry
  BY DEF SameEntry
<1>3. PICK last \in dates : \A date \in dates : date <= last
  <2>1. dates \in SUBSET (0..now) /\ dates # {}
    BY <1>1, <1>2
  <2> HIDE DEF dates
  <2> QED BY <1>1, <2>1, MaximumExists
<1> DEFINE latest == {k \in entry : Retained[k].updated_at = last}
<1>4. PICK k \in latest : \A j \in latest : j <= k
  <2>1. latest \in SUBSET (0..Len(memories)) /\ latest # {}
    BY <1>1, <1>3
  <2> HIDE DEF latest
  <2> QED BY <1>1, <2>1, MaximumExists
<1>5. /\ k \in DOMAIN memories /\ SameEntry(Retained[k], Retained[i])
      /\ Retained[k].updated_at = last
  BY <1>4
<1>6. ASSUME NEW j \in entry
      PROVE  /\ Retained[j].updated_at <= last
             /\ Retained[j].updated_at = last => j <= k
  BY <1>3, <1>4
<1>7. ASSUME NEW j \in HiddenBy(Retained, k) PROVE FALSE
  <2>1. j \in entry /\ Before(Retained, j, k)
    BY <1>1, <1>5 DEF HiddenBy, SameEntry
  <2>2. Retained[j].updated_at \in Nat /\ last \in Nat /\ j \in Nat /\ k \in Nat
    BY <1>1, <1>5, <2>1
  <2> QED BY <1>5, <1>6, <2>1, <2>2 DEF Before
<1>8. ASSUME k # i PROVE k \in HiddenBy(Retained, i)
  <2>1. Retained[i].updated_at \in Nat /\ last \in Nat /\ i \in Nat /\ k \in Nat
    BY <1>1, <1>5
  <2>2. Before(Retained, k, i)
    BY <1>2, <1>5, <1>6, <1>8, <2>1 DEF Before
  <2> QED BY <1>1, <1>5, <2>2 DEF HiddenBy
<1> QED BY <1>5, <1>7, <1>8

(* No outcome of a mission is written as a candidate.  Every caller in the *)
(* repository keeps this; POST /learn does not ask for it.                 *)
OutcomesAreActive ==
    \A r \in Requests :
        r.memory_type = "MissionMemory" => r.status_override # "candidate"

NoOutcomeIsProposed ==
    \A i \in DOMAIN memories :
        memories[i].memory_type = "MissionMemory" => memories[i].status # "candidate"

LEMMA OutcomeStep ==
    ASSUME OutcomesAreActive, TypeOK, NoOutcomeIsProposed, [Next]_vars
    PROVE  NoOutcomeIsProposed'
<1>1. TablePersists(memories')
  BY RowsPersist
<1>2. ASSUME NEW i \in DOMAIN memories', memories'[i].memory_type = "MissionMemory"
      PROVE  memories'[i].status # "candidate"
  <2>1. CASE i \in DOMAIN memories
    <3>1. /\ memories[i].memory_type = "MissionMemory" /\ memories[i].status # "candidate"
          /\ memories[i] \in Memory /\ now \in Nat /\ i \in Id
      BY <1>1, <1>2, <2>1, RowType, MemoryAssumption
         DEF TablePersists, RowPersists, SameIdentity, NoOutcomeIsProposed, TypeOK
    <3>2. CASE memories'[i] = memories[i]
      BY <3>1, <3>2
    <3>3. CASE Retrieve
      <4>1. memories'[i] = Maintained(memories[i])
        BY <2>1, <3>3, RetainedRows DEF Retrieve
      <4> QED BY <3>1, <4>1, MaintainedType
    <3>4. ASSUME NEW k \in DOMAIN memories, StampStep(k) PROVE memories'[i].status # "candidate"
      <4>1. memories[k].status \in MemoryStatuses /\ memories[k] \in Memory /\ TRUE \in BOOLEAN
        BY <2>1, RowType DEF Memory
      <4>2. memories'[i] = memories[i] \/ memories'[i] = Touched(memories[i], memories[i].status, TRUE)
        BY <2>1, <3>4, <4>1, TouchedRows DEF StampStep
      <4>3. memories[i].status \in MemoryStatuses
        BY <3>1 DEF Memory
      <4>4. Touched(memories[i], memories[i].status, TRUE).status = memories[i].status
        <5>1. ASSUME NEW verified \in BOOLEAN
              PROVE  Touched(memories[i], memories[i].status, verified).status = memories[i].status
          BY <3>1, <4>3, TouchedType
        <5> QED BY <5>1
      <4> QED BY <3>1, <4>2, <4>4
    <3>5. ASSUME NEW r \in Requests, NEW verified \in BOOLEAN, NEW k \in DOMAIN memories,
                 MergeStep(r, verified, k)
          PROVE  memories'[i] = memories[i]
      <4>1. Status(r) \in MemoryStatuses
        BY RequestType DEF MemoryStatuses
      <4>2. k # i
        BY <3>1, <3>5 DEF MergeStep, SameTitle, AllowsAutoMerge
      <4> QED BY <2>1, <3>5, <4>1, <4>2, TouchedRows DEF MergeStep
    <3>6. ASSUME NEW r, NEW verified, NEW old, NEW named, LostStep(r, verified, old, named)
          PROVE  memories'[i].status # "candidate"
      <4>1. memories'[i] \in {memories[i], SupersededRow(memories[i], Unknown)}
        BY <2>1, <3>6, LostRows DEF LostStep
      <4>2. SupersededRow(memories[i], Unknown).status = "superseded"
        BY <3>1, SupersededRowType
      <4> QED BY <3>1, <4>1, <4>2
    <3>7. ASSUME NEW r \in Requests, NEW verified \in BOOLEAN, NEW named \in BOOLEAN,
                 NEW old \in DOMAIN memories \cup {Unknown, NoMemory},
                 Created(r, verified, old, named)
          PROVE  memories'[i].status # "candidate"
      <4>1. PICK torn \in BOOLEAN, handled \in SUBSET Conflicting(r, old) :
                CreateStep(r, verified, old, named, torn, handled)
        BY <3>7 DEF Created
      <4>2. PICK new \in Id : CreatedAt(new, memories', r, verified, old, named, torn, handled)
        BY <4>1, CreatedFacts
      <4>3. memories'[i] \in {memories[i], SupersededRow(memories[i], new)}
        BY <2>1, <4>2 DEF CreatedAt
      <4>4. SupersededRow(memories[i], new).status = "superseded"
        BY <3>1, SupersededRowType
      <4> QED BY <3>1, <4>3, <4>4
    <3>8. ASSUME NEW r \in Requests, NEW verified \in BOOLEAN, WriteStep(r, verified)
          PROVE  memories'[i].status # "candidate"
      BY <3>2, <3>5, <3>6, <3>7, <3>8 DEF WriteStep
    <3> QED BY <3>2, <3>3, <3>4, <3>8, StepCases DEF vars, Advance
  <2>2. CASE i \notin DOMAIN memories
    <3>1. PICK r \in Requests, verified \in BOOLEAN,
               old \in DOMAIN memories \cup {Unknown, NoMemory}, named \in BOOLEAN :
                   Created(r, verified, old, named)
      BY <2>2, InsertedByWrite
    <3>2. PICK torn \in BOOLEAN, handled \in SUBSET Conflicting(r, old) :
              CreateStep(r, verified, old, named, torn, handled)
      BY <3>1 DEF Created
    <3>3. PICK new \in Id : CreatedAt(new, memories', r, verified, old, named, torn, handled)
      BY <3>2, CreatedFacts
    <3>4. memories'[i].memory_type = r.memory_type /\ memories'[i].status = Status(r)
      BY <2>2, <3>3 DEF CreatedAt, Entered
    <3> QED BY <1>2, <3>4 DEF OutcomesAreActive, Status
  <2> QED BY <2>1, <2>2
<1> QED BY <1>2 DEF NoOutcomeIsProposed

(* An active memory may be selected for its title, or another one of the   *)
(* title may, but for first rows of another title, unconfirmed lessons,    *)
(* named predecessors and crashes; provided no outcome of a mission is     *)
(* written as a candidate.                                                 *)
THEOREM ActiveAnswers == ASSUME OutcomesAreActive PROVE Spec => []ActiveIsServed
<1>1. ASSUME IInv, NoOutcomeIsProposed, NEW i \in DOMAIN Retained,
             Retained[i].status = "active"
      PROVE  \E k \in DOMAIN Retained :
                /\ SameEntry(Retained[k], Retained[i])
                /\ HiddenBy(Retained, k) = {}
                /\ \/ k \in Served(Retained, "balanced")
                   \/ ~ SameTitle(Retained[k], Retained[i])
                   \/ Excused(Retained, k)
  <2>1. i \in DOMAIN memories /\ DOMAIN Retained = DOMAIN memories
    BY <1>1, RetainedRows DEF IInv
  <2>2. PICK k \in DOMAIN memories :
            /\ SameEntry(Retained[k], Retained[i])
            /\ HiddenBy(Retained, k) = {}
            /\ k # i => k \in HiddenBy(Retained, i)
    BY <1>1, <2>1, FirstRow
  <2> SUFFICES ASSUME SameTitle(Retained[k], Retained[i])
               PROVE  k \in Served(Retained, "balanced") \/ Excused(Retained, k)
    BY <2>1, <2>2
  <2> DEFINE first == Retained[k]
  <2>3. /\ first \in Memory /\ Fits(first) /\ SameIdentity(first, memories[k])
        /\ first.superseded_by = memories[k].superseded_by
        /\ ~ Open(memories[k]) => first = memories[k]
        /\ first.status \in {"active", "candidate", "superseded"} => first = memories[k]
    BY <1>1, RetainedRow
  <2>4. /\ Retained[i] = memories[i] /\ Open(memories[i]) /\ Fits(Retained[i])
    BY <1>1, <2>1, RetainedRow DEF Fits, Open
  <2>5. CASE ~ Suppressed(first)
    BY <2>1, <2>2, <2>5 DEF Served
  <2>6. CASE Suppressed(first)
    <3>1. k # i
      BY <1>1, <2>4, <2>6 DEF Suppressed, Fits
    <3>2. k \in HiddenBy(Retained, i) /\ Before(Retained, k, i)
      BY <2>2, <3>1 DEF HiddenBy
    <3>3. ASSUME Disturbed(memories, k) PROVE Excused(Retained, k)
      <4>1. CASE memories[k].superseded_by = Unknown
        BY <2>3, <4>1 DEF Excused
      <4>2. CASE NamedIn(memories, k)
        <5>1. PICK l \in DOMAIN memories :
                  /\ memories[l].named
                  /\ memories[l].supersedes = k \/ SameTitle(memories[l], memories[k])
          BY <4>2 DEF NamedIn
        <5>2. SameIdentity(Retained[l], memories[l])
          BY <1>1, RetainedRow
        <5> QED BY <2>1, <2>3, <5>1, <5>2 DEF Excused, SameIdentity, SameTitle
      <4> QED BY <3>3, <4>1, <4>2 DEF Disturbed
    <3>4. SameTitle(memories[k], memories[i])
      BY <2>2, <2>3, <2>4 DEF SameTitle, SameIdentity
    <3>5. /\ k \in Nat /\ i \in Nat
          /\ memories[k].updated_at \in Nat /\ memories[i].updated_at \in Nat
      BY <1>1, <2>1, RowType DEF IInv, Memory
    <3>6. CASE AllowsAutoMerge(memories[i].memory_type) /\ i < k
      <4>1. Disturbed(memories, i)
        BY <1>1, <2>1, <2>4, <3>4, <3>6 DEF IInv, TitlesTakeTurns, ClosedInTurn, SameTitle
      <4>2. NamedIn(memories, i)
        BY <2>4, <4>1, MemoryAssumption DEF Disturbed, Open
      <4>3. PICK l \in DOMAIN memories :
                /\ memories[l].named
                /\ memories[l].supersedes = i \/ SameTitle(memories[l], memories[i])
        BY <4>2 DEF NamedIn
      <4>4. memories[l].supersedes # i
        BY <1>1, <2>1, <2>4 DEF IInv, PredecessorIsClosed, Open
      <4>5. NamedIn(memories, k)
        BY <3>4, <4>3, <4>4 DEF NamedIn, SameTitle
      <4> QED BY <3>2, <3>3, <4>5 DEF Disturbed
    <3>7. CASE AllowsAutoMerge(memories[i].memory_type) /\ k < i
      <4>1. ClosedInTurn(memories, k, i)
        BY <1>1, <2>1, <3>4, <3>7 DEF IInv, TitlesTakeTurns, SameTitle
      <4>2. CASE ~ Open(memories[k]) /\ memories[k].updated_at <= memories[i].updated_at
        <5>1. first = memories[k]
          BY <2>3, <4>2
        <5> QED BY <2>4, <3>2, <3>5, <3>7, <4>2, <5>1 DEF Before
      <4> QED BY <3>2, <3>3, <4>1, <4>2 DEF ClosedInTurn
    <3>8. CASE ~ AllowsAutoMerge(memories[i].memory_type)
      <4>1. first.memory_type \in {"MissionMemory", "FailureMemory"}
        BY <2>2, <2>4, <3>8 DEF SameTitle, AllowsAutoMerge
      <4>2. first.status \in {"superseded", "candidate"}
        BY <2>3, <2>6, <4>1 DEF Suppressed, Fits
      <4>3. first = memories[k]
        BY <2>3, <4>2
      <4>4. CASE first.status = "superseded"
        <5>1. Disturbed(memories, k)
          BY <1>1, <2>2, <2>4, <3>8, <4>3, <4>4 DEF IInv, SupersededByName, SameTitle
        <5> QED BY <3>2, <3>3, <5>1
      <4>5. CASE first.status = "candidate"
        <5>1. first.memory_type = "FailureMemory"
          BY <1>1, <4>1, <4>3, <4>5 DEF NoOutcomeIsProposed
        <5> QED BY <3>2, <4>5, <5>1 DEF Excused
      <4> QED BY <4>2, <4>4, <4>5
    <3> QED BY <3>1, <3>5, <3>6, <3>7, <3>8
  <2> QED BY <2>5, <2>6
<1>2. IInv /\ NoOutcomeIsProposed => ActiveIsServed
  BY <1>1 DEF ActiveIsServed
<1>3. Init => NoOutcomeIsProposed
  BY DEF Init, NoOutcomeIsProposed
<1>4. IInv /\ NoOutcomeIsProposed /\ [Next]_vars => NoOutcomeIsProposed'
  BY OutcomeStep DEF IInv
<1> QED BY <1>2, <1>3, <1>4, Invariance, PTL DEF Spec

(* What an exact query selects holds no two active memories that           *)
(* contradict each other, but for merged and torn ones.                    *)
THEOREM SelectionAgrees == Spec => []ExactSelectionAgrees
<1>1. ASSUME IInv, NEW i \in Served(Retained, "blocked_exact"),
             NEW j \in Served(Retained, "blocked_exact"), i < j,
             Retained[i].status = "active", Retained[j].status = "active",
             memories[i].version = 1, memories[j].version = 1, ~ memories[j].torn
      PROVE  ~ Contradicts(memories[i], memories[j])
  <2> SUFFICES ASSUME Contradicts(memories[i], memories[j]) PROVE FALSE
    OBVIOUS
  <2>1. /\ DOMAIN Retained = DOMAIN memories
        /\ i \in DOMAIN memories /\ j \in DOMAIN memories
        /\ i \in Nat /\ j \in Nat
    <3>1. DOMAIN Retained = DOMAIN memories /\ TypeOK
      BY <1>1, RetainedRows DEF IInv
    <3>2. i \in DOMAIN memories /\ j \in DOMAIN memories
      BY <3>1 DEF Served
    <3> QED BY <3>1, <3>2, RowType DEF Id
  <2>2. /\ SameIdentity(Retained[i], memories[i]) /\ SameIdentity(Retained[j], memories[j])
        /\ Retained[i] \in Memory /\ Retained[j] \in Memory
        /\ Retained[i].updated_at \in Nat /\ Retained[j].updated_at \in Nat
    BY <1>1, <2>1, RetainedRow DEF Memory
  <2>3. Retained[i] = memories[i] /\ Retained[j] = memories[j]
    BY <1>1, <2>1, RetainedRow
  <2>4. i \in ActiveConflicts(memories, j)
    BY <1>1, <2>1, <2>3 DEF ActiveConflicts
  <2>5. [left |-> i, right |-> j, resolved |-> FALSE] \in contradictions
    BY <1>1, <2>1, <2>3, <2>4 DEF IInv, ConflictsAreRecorded
  <2>6. Blocked(Retained, i)
    <3>1. SharesKey(Retained[i], Retained[i])
      BY DEF SharesKey
    <3> QED BY <2>5, <3>1 DEF Blocked
  <2> QED BY <2>6 DEF Served
<1>2. ASSUME IInv PROVE ExactSelectionAgrees
  <2> SUFFICES ASSUME NEW i \in Served(Retained, "blocked_exact"),
                      NEW j \in Served(Retained, "blocked_exact"),
                      Retained[i].status = "active", Retained[j].status = "active",
                      memories[i].version = 1, memories[j].version = 1,
                      ~ memories[i].torn, ~ memories[j].torn
               PROVE  ~ Contradicts(memories[i], memories[j])
    BY DEF ExactSelectionAgrees
  <2>1. i \in Nat /\ j \in Nat
    BY <1>2, RetainedRows, RowType DEF Served, IInv, Id
  <2>2. CASE i < j
    BY <1>1, <1>2, <2>2
  <2>3. CASE j < i
    <3>1. ~ Contradicts(memories[j], memories[i])
      BY <1>1, <1>2, <2>3
    <3> QED BY <3>1 DEF Contradicts, SharesKey
  <2>4. CASE i = j
    BY <2>4 DEF Contradicts
  <2> QED BY <2>1, <2>2, <2>3, <2>4
<1>3. IInv => ExactSelectionAgrees
  BY <1>2
<1> QED BY <1>3, Invariance, PTL

=============================================================================
