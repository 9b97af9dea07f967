------------------------------ MODULE MCMemory ------------------------------
(***************************************************************************)
(* Instances of Memory for TLC.                                            *)
(***************************************************************************)
EXTENDS Memory, TLC

CONSTANTS t1, t2, t3

(* t1 and t2 are one title in two domains, or two spellings of one; t3 is  *)
(* another title.                                                          *)
MCSlugOf == [t \in Title |-> IF t = t3 THEN "another" ELSE "one"]
MCMissionOf == [t \in Title |-> "none"]

Requests(type, titles, confirmed, verified_by, status) ==
    {[memory_type |-> type, title |-> t, content |-> c, confirmed_by_user |-> confirmed,
      verified_by |-> verified_by, status_override |-> status] : t \in titles, c \in Content}

(* Facts about the owner, confirmed or not, failure lessons and mission    *)
(* outcomes; a curated failure lesson is confirmed.                        *)
MCLearnRequests ==
    Requests("Persona", {t1, t2}, TRUE, "none", "none")
        \cup Requests("Persona", {t1}, TRUE, "none", "candidate")
        \cup Requests("Persona", {t1}, FALSE, "none", "none")
        \cup Requests("FailureMemory", {t1}, FALSE, "none", "none")
        \cup Requests("MissionMemory", {t1}, FALSE, "system_inference", "none")
        \cup Requests("WorkingMemory", {t1}, FALSE, "none", "none")

MCCuratedInputs == Requests("FailureMemory", {t1, t3}, TRUE, "trusted", "none")

(* Procedures proposed and written without confirmation, working notes,    *)
(* and curated facts about a repository.                                   *)
NoteRequests ==
    Requests("Procedures", {t1}, FALSE, "none", "candidate")
        \cup Requests("Procedures", {t1}, FALSE, "none", "none")
        \cup Requests("WorkingMemory", {t1}, FALSE, "none", "none")

RepoInputs == Requests("RepoMemory", {t1}, TRUE, "trusted", "none")

ContentSymmetry == Permutations(Content)

=============================================================================
