-------------------------------- MODULE Memory --------------------------------
(***************************************************************************)
(* The memory of the brain: learn, saveCuratedMemory and retrieve of       *)
(* BestBrain (src/src/services/brain.ts) over the rows of memory_items and *)
(* memory_contradictions (src/src/db/client.ts), under the policies of     *)
(* src/src/policies/learning.ts and retention.ts.                          *)
(*                                                                         *)
(* A write never changes the content of a row.  It merges with an open     *)
(* memory of the same title and content, or it becomes a new row that      *)
(* supersedes its predecessor and is compared with the active rows it      *)
(* contradicts.  These are statements of their own, in no transaction: a   *)
(* crash may leave any prefix of them.  Nothing awaits between them, so    *)
(* without a crash a write is one step, and a retrieval, which first       *)
(* expires and archives what is due, is another.                           *)
(*                                                                         *)
(* A title stands for a title in one domain and mission, the key by which  *)
(* writes merge; retrieval and contradictions compare the slug of a title, *)
(* retrieval within one mission, and neither looks at the domain.  A       *)
(* memory type stands for its subtype, and two contents differ when they   *)
(* differ by more than case and blanks.  Other texts and scores are left   *)
(* out: the model bounds what a retrieval may select by what it must not.  *)
(***************************************************************************)
EXTENDS Integers, Sequences, FiniteSets

CONSTANTS
    Title,           \* titles of memories, each in a domain and a mission
    SlugOf,          \* the slug of each title
    MissionOf,       \* the mission of each title, or none
    Content,         \* contents
    LearnRequests,   \* what learn is called with
    CuratedInputs,   \* what saveCuratedMemory is called with
    Keyed,           \* types whose subtype gives every memory one entity key
    Ttl,             \* lifetime of a working memory
    ArchiveAfter,    \* age at which a mission memory is archived
    Horizon,         \* the clock stops here
    MaxMemories,     \* bound on the rows ever written
    CanMisname,      \* whether a request may name an id that no memory has
    CanCrash,        \* whether the process may crash inside a write
    NoMemory         \* NULL in superseded_by and supersedes

MemoryTypes == {"Persona", "Preferences", "Procedures", "DomainMemory", "RepoMemory",
                "MissionMemory", "FailureMemory", "WorkingMemory"}
MemoryStatuses == {"active", "candidate", "superseded", "archived", "expired"}

(* verified_by says who vouches for a memory: someone, only the system, or *)
(* the caller leaves it out.                                               *)
MemoryRequest ==
    [memory_type : MemoryTypes, title : Title, content : Content,
     confirmed_by_user : BOOLEAN, verified_by : {"trusted", "system_inference", "none"},
     status_override : {"active", "candidate", "none"}]

Id == 1 .. MaxMemories
Unknown == 0   \* an id that no memory has

ASSUME MemoryAssumption ==
    /\ DOMAIN SlugOf = Title /\ DOMAIN MissionOf = Title
    /\ LearnRequests \subseteq MemoryRequest
    /\ \A r \in LearnRequests : r.memory_type # "RepoMemory"
    /\ CuratedInputs \subseteq MemoryRequest
    /\ Keyed \subseteq MemoryTypes
    /\ Ttl \in Nat \ {0}
    /\ ArchiveAfter \in Nat \ {0}
    /\ Horizon \in Nat
    /\ MaxMemories \in Nat
    /\ CanMisname \in BOOLEAN
    /\ CanCrash \in BOOLEAN
    /\ NoMemory \notin Id \cup {Unknown}

VARIABLES
    memories,        \* the table memory_items, in the order of insertion
    contradictions,  \* the table memory_contradictions
    now              \* the clock

vars == <<memories, contradictions, now>>

(* version is 2 for every later version, too.  Two fields are history:     *)
(* named, that the request itself said which memory it supersedes (the     *)
(* learning event keeps the request), and torn, that a crash cut the write *)
(* short after its row was inserted.                                       *)
Memory ==
    [memory_type : MemoryTypes, title : Title, content : Content,
     status : MemoryStatuses, verified : BOOLEAN, version : 1 .. 2,
     supersedes : Id \cup {Unknown, NoMemory}, superseded_by : Id \cup {Unknown, NoMemory},
     created_at : Nat, updated_at : Nat, named : BOOLEAN, torn : BOOLEAN]

Contradiction == [left : Id, right : Id, resolved : BOOLEAN]

TypeOK ==
    /\ memories \in Seq(Memory)
    /\ Len(memories) <= MaxMemories
    /\ contradictions \subseteq Contradiction
    /\ now \in 0 .. Horizon

Init ==
    /\ memories = <<>>
    /\ contradictions = {}
    /\ now = 0

-----------------------------------------------------------------------------
(* The policies. *)

OwnerTypes == {"Persona", "Preferences"}

AllowsAutoMerge(type) == type \notin {"MissionMemory", "FailureMemory"}

(* Mutant: a fact about the owner needs no confirmation. *)
AcceptedAny(r) == r.memory_type \in MemoryTypes

Accepted(r) == r.memory_type \in OwnerTypes => r.confirmed_by_user

Confirmed(r) == r.confirmed_by_user \/ r.verified_by = "trusted"

Status(r) ==
    IF r.status_override # "none" THEN r.status_override
    ELSE IF r.memory_type = "FailureMemory" /\ ~Confirmed(r) THEN "candidate"
    ELSE "active"

(* Whether someone other than the system vouches for what r writes:        *)
(* defaults are the types that a confirmed write verifies by itself.       *)
Verified(r, defaults) ==
    \/ r.verified_by = "trusted"
    \/ r.verified_by = "none" /\ Confirmed(r) /\ r.memory_type \in defaults

LearnDefaults == OwnerTypes \cup {"Procedures"}
CuratedDefaults == LearnDefaults \cup {"DomainMemory", "RepoMemory"}

-----------------------------------------------------------------------------
(* A write. *)

Open(m) == m.status \in {"active", "candidate"} /\ m.superseded_by = NoMemory

SameTitle(m, o) == m.memory_type = o.memory_type /\ m.title = o.title

(* Mutant: candidates are passed over. *)
MergeCandidatesActive(r) ==
    IF AllowsAutoMerge(r.memory_type)
    THEN {i \in DOMAIN memories : /\ Open(memories[i]) /\ memories[i].status = "active"
                                  /\ SameTitle(memories[i], r)}
    ELSE {}

(* The open memories that r may merge with or replace; which of those that *)
(* were updated last, the query leaves open.                               *)
MergeCandidates(r) ==
    LET matches == {i \in DOMAIN memories : Open(memories[i]) /\ SameTitle(memories[i], r)}
    IN  IF AllowsAutoMerge(r.memory_type)
        THEN {i \in matches : \A j \in matches : memories[j].updated_at <= memories[i].updated_at}
        ELSE {}

(* The next version of a memory; its age does not start again. *)
Touched(m, status, verified) ==
    [m EXCEPT !.status = status, !.verified = verified, !.version = 2, !.updated_at = now]

Merge(r, verified, i) ==
    /\ memories[i].content = r.content
    /\ memories' = [memories EXCEPT ![i] = Touched(@, Status(r), verified)]
    /\ UNCHANGED contradictions

(* supersedeMemory updates whatever row has the id, and none if none has. *)
Superseding(rows, old, new) ==
    [i \in DOMAIN rows |->
        IF i \in old
        THEN [rows[i] EXCEPT !.status = "superseded", !.superseded_by = new, !.updated_at = now]
        ELSE rows[i]]

NewMemory(r, verified, old, named) ==
    [memory_type |-> r.memory_type, title |-> r.title, content |-> r.content,
     status |-> Status(r), verified |-> verified, version |-> 1,
     supersedes |-> old, superseded_by |-> NoMemory, created_at |-> now,
     updated_at |-> now, named |-> named, torn |-> FALSE]

(* Two memories contradict each other when they say different things under *)
(* one slug, in whatever domain and mission, or under one entity key of    *)
(* their subtype.                                                          *)
SharesKey(m, o) ==
    /\ m.memory_type = o.memory_type
    /\ SlugOf[m.title] = SlugOf[o.title] \/ m.memory_type \in Keyed

Contradicts(m, o) == SharesKey(m, o) /\ m.content # o.content

ActiveConflicts(rows, i) ==
    {j \in DOMAIN rows \ {i} : rows[j].status = "active" /\ Contradicts(rows[j], rows[i])}

(* What a crash may leave handled: conflicts are taken from the one that   *)
(* was updated last to the oldest.                                         *)
Prefixes(rows, conflicts) ==
    {done \in SUBSET conflicts :
        \A i \in done, j \in conflicts \ done : rows[j].updated_at <= rows[i].updated_at}

(* Mutant: only an explicit verified_by resolves a contradiction. *)
ResolvesTrusted(r) == r.verified_by = "trusted" /\ r.memory_type \in OwnerTypes

(* A confirmed fact about the owner supersedes what it contradicts; any    *)
(* other contradiction waits for the user.                                 *)
Resolves(r) == Confirmed(r) /\ r.memory_type \in OwnerTypes

Recorded(conflicts, new, resolved) ==
    {[left |-> i, right |-> new, resolved |-> resolved] : i \in conflicts}

(* The bound on crashes: no second one while the traces of one remain. *)
Crashed == \E i \in DOMAIN memories : memories[i].torn \/ memories[i].superseded_by = Unknown

(* The write of a new memory: the predecessor is superseded, the row       *)
(* inserted, and each conflict recorded and, if it is resolved, superseded. *)
(* A crash before the insertion leaves the predecessor superseded by an id *)
(* that no memory has.                                                     *)
Create(r, verified, old, named) ==
    LET new == Len(memories) + 1
        closed == Superseding(memories, {old}, new)
        row == NewMemory(r, verified, old, named)
        saved == Append(closed, row)
        conflicts == ActiveConflicts(saved, new)
        cut == Append(closed, [row EXCEPT !.torn = TRUE])
        Resolved(rows, handled) == IF Resolves(r) THEN Superseding(rows, handled, new) ELSE rows
    IN  /\ new <= MaxMemories
        /\ \/ /\ memories' = Resolved(saved, conflicts)
              /\ contradictions' = contradictions \cup Recorded(conflicts, new, Resolves(r))
           \/ /\ CanCrash /\ ~Crashed  \* before the row is inserted
              /\ memories' = Superseding(memories, {old}, Unknown)
              /\ UNCHANGED contradictions
           \/ /\ CanCrash /\ ~Crashed  \* between its conflicts, or between the two writes of one
              /\ \E recorded \in Prefixes(saved, conflicts) :
                    /\ contradictions' = contradictions \cup Recorded(recorded, new, Resolves(r))
                    /\ \E handled \in Prefixes(saved, recorded) :
                          /\ Cardinality(recorded \ handled) <= 1
                          /\ recorded # conflicts \/ handled # recorded
                          /\ memories' = Resolved(cut, handled)

(* The ids that a request may name: a row's, whatever its status, or none's. *)
Names == DOMAIN memories \cup (IF CanMisname THEN {Unknown} ELSE {})

Write(r, verified) ==
    /\ Accepted(r)
    /\ LET matches == MergeCandidates(r)
       IN  \/ \E i \in matches : Merge(r, verified, i)
           \/ \E i \in matches : /\ memories[i].content # r.content
                                 /\ \/ Create(r, verified, i, FALSE)
                                    \/ \E old \in Names : Create(r, verified, old, TRUE)
           \/ /\ matches = {}
              /\ \/ Create(r, verified, NoMemory, FALSE)
                 \/ \E old \in Names : Create(r, verified, old, TRUE)
    /\ UNCHANGED now

Learn(r) == Write(r, Verified(r, LearnDefaults))

SaveCuratedMemory(r) == Write(r, Verified(r, CuratedDefaults))

(* Mutant: the memory of a verified outcome becomes active. *)
StampOutcomeActive(i) ==
    /\ memories[i].memory_type = "MissionMemory"
    /\ memories' = [memories EXCEPT ![i] = Touched(@, "active", TRUE)]
    /\ UNCHANGED <<contradictions, now>>

(* A completed verification stamps the memory of the mission's outcome,    *)
(* whatever has become of it since.                                        *)
StampOutcome(i) ==
    /\ memories[i].memory_type = "MissionMemory"
    /\ memories' = [memories EXCEPT ![i] = Touched(@, @.status, TRUE)]
    /\ UNCHANGED <<contradictions, now>>

-----------------------------------------------------------------------------
(* Retrieval. *)

(* Mutant: retention counts from the last update. *)
MaintainedSinceUpdate(m) ==
    IF m.status = "active" /\ m.memory_type = "MissionMemory" /\ m.updated_at + ArchiveAfter <= now
    THEN [m EXCEPT !.status = "archived", !.updated_at = now] ELSE m

(* runMaintenance *)
Maintained(m) ==
    IF m.status = "active" /\ m.memory_type = "WorkingMemory" /\ m.created_at + Ttl <= now
    THEN [m EXCEPT !.status = "expired", !.updated_at = now]
    ELSE IF m.status = "active" /\ m.memory_type = "MissionMemory"
            /\ m.created_at + ArchiveAfter <= now
    THEN [m EXCEPT !.status = "archived", !.updated_at = now]
    ELSE m

Retained == [i \in DOMAIN memories |-> Maintained(memories[i])]

Suppressed(m) ==
    \/ m.status \in {"superseded", "expired", "candidate"}
    \/ m.superseded_by # NoMemory
    \/ m.status = "archived" /\ m.memory_type # "MissionMemory"

(* Mutant: rows of one millisecond are read in the order of insertion. *)
BeforeInserted(rows, j, i) ==
    \/ rows[j].updated_at > rows[i].updated_at
    \/ rows[j].updated_at = rows[i].updated_at /\ j < i

(* listMemories reads the index on updated_at backwards, so that of rows   *)
(* written in one millisecond the later one comes first.                   *)
Before(rows, j, i) ==
    \/ rows[j].updated_at > rows[i].updated_at
    \/ rows[j].updated_at = rows[i].updated_at /\ j > i

(* The key that a retrieval keeps one row of. *)
SameEntry(m, o) ==
    /\ m.memory_type = o.memory_type
    /\ SlugOf[m.title] = SlugOf[o.title]
    /\ MissionOf[m.title] = MissionOf[o.title]

(* Only the first row of an entry may be selected, even if that row itself *)
(* is suppressed.                                                          *)
HiddenBy(rows, i) ==
    {j \in DOMAIN rows : SameEntry(rows[j], rows[i]) /\ Before(rows, j, i)}

(* An exact fact is blocked while any memory with its key, whatever its    *)
(* status, has a contradiction that nobody resolved.                       *)
Blocked(rows, i) ==
    \E c \in contradictions : /\ ~c.resolved
                              /\ \/ SharesKey(rows[c.left], rows[i])
                                 \/ SharesKey(rows[c.right], rows[i])

(* What a retrieval may select, if it is relevant to the query.  The exact *)
(* hits that the answer cites beside its selection are not limited so:     *)
(* they are any rows that match, whatever was excluded (brain.ts:911).     *)
Served(rows, profile) ==
    {i \in DOMAIN rows : /\ ~Suppressed(rows[i])
                         /\ HiddenBy(rows, i) = {}
                         /\ profile = "blocked_exact" => ~Blocked(rows, i)}

Retrieve ==
    /\ memories' = Retained
    /\ UNCHANGED <<contradictions, now>>

Advance ==
    /\ now < Horizon
    /\ now' = now + 1
    /\ UNCHANGED <<memories, contradictions>>

Next ==
    \/ \E r \in LearnRequests : Learn(r)
    \/ \E r \in CuratedInputs : SaveCuratedMemory(r)
    \/ \E i \in DOMAIN memories : StampOutcome(i)
    \/ Retrieve
    \/ Advance

Spec == Init /\ [][Next]_vars

-----------------------------------------------------------------------------
(* Properties. *)

(* A title of a kind that merges has one open memory: findMergeCandidate   *)
(* finds it and the write merges with it or supersedes it.  Only a write   *)
(* that names its predecessor itself passes over the open memory of its    *)
(* own title, and leaves both (brain.ts:476).                              *)
OneOpenPerTitle ==
    \A i, j \in DOMAIN memories :
        /\ i < j
        /\ SameTitle(memories[i], memories[j])
        /\ AllowsAutoMerge(memories[i].memory_type)
        /\ Open(memories[i]) /\ Open(memories[j])
        => \E k \in DOMAIN memories :
               /\ memories[k].named
               /\ SameTitle(memories[k], memories[j])
               /\ memories[k].supersedes # i

(* Two active memories that contradict each other are never both facts     *)
(* about the owner, and their contradiction is on record, unresolved, for  *)
(* the user to settle.  resolveContradictionsForMemory sees to it when the *)
(* later one is written; it does not run when a candidate becomes active   *)
(* by merging (brain.ts:441), nor after a crash.                           *)
ConflictsAreRecorded ==
    \A j \in DOMAIN memories : \A i \in ActiveConflicts(memories, j) :
        /\ i < j
        /\ memories[j].status = "active"
        /\ memories[i].version = 1 /\ memories[j].version = 1
        /\ ~memories[j].torn
        => /\ memories[j].memory_type \notin OwnerTypes
           /\ [left |-> i, right |-> j, resolved |-> FALSE] \in contradictions

(* So what an exact query selects never holds two active memories that     *)
(* contradict each other, but for the same gaps (brain.ts:816).  Archived  *)
(* outcomes may: what contradicts one is not recorded.                     *)
ExactSelectionAgrees ==
    \A i, j \in Served(Retained, "blocked_exact") :
        /\ Retained[i].status = "active" /\ Retained[j].status = "active"
        /\ memories[i].version = 1 /\ memories[j].version = 1
        /\ ~memories[i].torn /\ ~memories[j].torn
        => ~Contradicts(memories[i], memories[j])

(* Why the first row of a title may be left out of an answer.              *)
Excused(rows, j) ==
    \/ rows[j].memory_type = "FailureMemory" /\ rows[j].status = "candidate"
    \/ \E k \in DOMAIN rows :
           rows[k].named /\ (rows[k].supersedes = j \/ SameTitle(rows[k], rows[j]))
    \/ rows[j].superseded_by = Unknown

(* An active memory may be selected for its title, or a later memory of    *)
(* the title may: retrieval keeps the first row of an entry (brain.ts:826) *)
(* even if it then leaves that row out.  There are four exceptions: the    *)
(* first row is of another title, for an entry joins the domains and the   *)
(* spellings that merging keeps apart; it is an unconfirmed failure        *)
(* lesson; a write that named its predecessor reordered the title; or a    *)
(* crash lost its successor.                                               *)
ActiveIsServed ==
    \A i \in DOMAIN Retained :
        Retained[i].status = "active" =>
            \E first \in DOMAIN Retained :
                /\ SameEntry(Retained[first], Retained[i])
                /\ HiddenBy(Retained, first) = {}
                /\ \/ first \in Served(Retained, "balanced")
                   \/ ~SameTitle(Retained[first], Retained[i])
                   \/ Excused(Retained, first)

(* Nothing that a retrieval selects has been superseded or has outlived    *)
(* its retention: maintenance runs before the rows are read, and merging   *)
(* reopens no memory that is due (docs/retention-lifecycle.md).            *)
ServedIsCurrent ==
    \A i \in Served(Retained, "balanced") :
        LET m == Retained[i]
        IN  /\ m.superseded_by = NoMemory
            /\ m.memory_type = "WorkingMemory" => now < m.created_at + Ttl
            /\ m.memory_type = "MissionMemory" /\ ArchiveAfter + m.created_at <= now
                   => m.status = "archived"

(* A memory that is superseded, expired or archived never opens again,     *)
(* whatever is merged with it, stamped or written under its title.         *)
ClosedStaysClosed ==
    [][\A i \in DOMAIN memories :
           memories[i].status \notin {"active", "candidate"}
               => memories'[i].status \notin {"active", "candidate"}]_vars

(* A fact about the owner is withdrawn only by a write that someone vouches *)
(* for, or by one that names it (learning.ts:74), never by what the system *)
(* infers.  A crash that loses the successor loses the evidence, too.      *)
OwnerFactsStand ==
    [][\A i \in DOMAIN memories :
           /\ memories[i].memory_type \in OwnerTypes
           /\ memories[i].status = "active"
           /\ memories'[i].status # "active"
           /\ memories'[i].superseded_by # Unknown
           => LET by == IF memories'[i].superseded_by = NoMemory THEN i
                        ELSE memories'[i].superseded_by
              IN  \/ memories'[by].verified
                  \/ memories'[by].named /\ memories'[by].supersedes = i]_vars

(* What the further instances check, and the code does not keep: a         *)
(* candidate becomes active only when someone vouches for it               *)
(* (docs/roadmap/plan.md:171) ...                                          *)
PromotionIsConfirmed ==
    [][\A i \in DOMAIN memories :
           memories[i].status = "candidate" /\ memories'[i].status = "active"
               => memories'[i].verified]_vars

(* ... and a confirmed lesson, or a newer one of its entry, is selected    *)
(* (docs/roadmap/plan.md:166).                                             *)
LessonsAreServed ==
    \A i \in DOMAIN memories :
        memories[i].memory_type = "FailureMemory" /\ memories[i].status = "active"
            => \E k \in Served(Retained, "balanced") : SameEntry(memories[k], memories[i])

=============================================================================
