------------------------- MODULE MissionVerification -------------------------
(***************************************************************************)
(* Missions, their outcomes and their verification runs in the brain       *)
(* (src/src/services/brain.ts over src/src/db/client.ts), and the manager  *)
(* runs that write them (src/src/manager/runtime.ts).                      *)
(*                                                                         *)
(* A manager run saves the outcome of its mission, starts a verification   *)
(* and completes it: three HTTP requests to the brain, so that the         *)
(* requests of two runs of one mission (an operator's retry beside one of  *)
(* the task queue, say) interleave.  Other clients reach the same          *)
(* operations over HTTP and MCP, in any order.  saveMissionOutcome awaits  *)
(* between its reads and its writes; every other handler is one step.      *)
(***************************************************************************)
EXTENDS Integers, Sequences, FiniteSets

CONSTANTS
    Mission,      \* mission ids
    Manager,      \* manager runs that may be in progress at a time
    Client,       \* other callers of the HTTP and MCP interfaces
    Public,       \* the missions that they write, too
    MaxOutcomes,  \* bound on the outcomes ever saved
    MaxRuns,      \* bound on the verification runs ever started
    Horizon,      \* the millisecond clock stops here
    CanFail,      \* whether a manager run may end in the middle
    NoMission     \* no mission

Verdicts == {"verified_complete", "verification_failed", "rejected"}
Statuses == {"draft", "in_progress", "awaiting_verification"} \cup Verdicts

(* What the checks of a verification say: there are none, there are some   *)
(* and all passed, or one did not.                                         *)
CheckResults == {"none", "passed", "failed"}

Caller == Manager \cup Client
NoOutcome == 0

ASSUME MissionVerificationAssumption ==
    /\ NoMission \notin Mission
    /\ Manager \cap Client = {}
    /\ Public \subseteq Mission
    /\ MaxOutcomes \in Nat
    /\ MaxRuns \in Nat
    /\ Horizon \in Nat
    /\ CanFail \in BOOLEAN

VARIABLES
    missions,  \* [Mission -> MissionRow]: the table missions
    outcomes,  \* outcome memories in the order they were saved
    runs,      \* the table verification_runs, in the order of insertion
    callers,   \* [Caller -> the call or the manager run in progress]
    now        \* the clock, in milliseconds

vars == <<missions, outcomes, runs, callers, now>>

MissionRow == [status : Statuses \cup {"absent"}, latest_outcome : Nat]

(* An outcome memory; verdict is history: what the verification prepared   *)
(* together with the outcome says ("none" for a client's).                 *)
Outcome == [mission : Mission, verified_by : {"system_inference", "verifier"},
            verdict : Verdicts \cup {"none"}]

Run == [mission : Mission, status : Verdicts \cup {"running"}, evidence : Nat,
        checks : CheckResults, started_at : Nat]

(* "ended": the next manager run of this caller still has its work to do,  *)
(* which takes a millisecond at least, before it writes.                   *)
Steps == {"idle", "saving", "saved", "started", "ended"}

CallerState == [step : Steps, mission : Mission \cup {NoMission},
                status : Statuses, outcome : Nat, verdict : Verdicts \cup {"none"}]

IdleCaller == [step |-> "idle", mission |-> NoMission, status |-> "in_progress",
               outcome |-> NoOutcome, verdict |-> "none"]

EndedManager == [IdleCaller EXCEPT !.step = "ended"]

Init ==
    /\ missions = [id \in Mission |-> [status |-> "absent", latest_outcome |-> NoOutcome]]
    /\ outcomes = <<>>
    /\ runs = <<>>
    /\ callers = [c \in Caller |-> IdleCaller]
    /\ now = 0

Exists(id) == missions[id].status # "absent"

-----------------------------------------------------------------------------
(* saveMissionOutcome. *)

(* ensureMission and the reopening of a failed mission. *)
EnsuredStatus(id, status) ==
    CASE ~ Exists(id) -> "draft"
      [] missions[id].status = "verification_failed" /\ status = "in_progress" -> "in_progress"
      [] OTHER -> missions[id].status

(* Up to the await of learn, which has inserted the outcome memory by then *)
(* (outcomes are never merged).                                            *)
BeginSave(c, id, status, verdict) ==
    /\ callers[c].step = "idle"
    /\ Len(outcomes) < MaxOutcomes
    /\ missions' = [missions EXCEPT ![id].status = EnsuredStatus(id, status)]
    /\ outcomes' = Append(outcomes, [mission |-> id, verified_by |-> "system_inference",
                                     verdict |-> verdict])
    /\ callers' = [callers EXCEPT ![c] =
          [step |-> "saving", mission |-> id, status |-> status,
           outcome |-> Len(outcomes) + 1, verdict |-> verdict]]
    /\ UNCHANGED <<runs, now>>

(* A call that asks for draft throws once the mission is there. *)
RefuseDraft(c, id) ==
    /\ callers[c].step = "idle"
    /\ missions' = [missions EXCEPT ![id].status = EnsuredStatus(id, "draft")]
    /\ UNCHANGED <<outcomes, runs, callers, now>>

(* After the await: the mission row is written over whatever it says now. *)
EndSave(c) ==
    /\ callers[c].step = "saving"
    /\ missions' = [missions EXCEPT ![callers[c].mission] =
          [status |-> callers[c].status, latest_outcome |-> callers[c].outcome]]
    /\ callers' = [callers EXCEPT ![c] =
          IF c \in Manager THEN [@ EXCEPT !.step = "saved"] ELSE IdleCaller]
    /\ UNCHANGED <<outcomes, runs, now>>

-----------------------------------------------------------------------------
(* Verification. *)

(* Mutant: the mission is not moved to awaiting_verification. *)
StartVerificationInPlace(id) ==
    /\ Exists(id) /\ missions[id].status # "draft"
    /\ Len(runs) < MaxRuns
    /\ runs' = Append(runs, [mission |-> id, status |-> "running", evidence |-> 0,
                             checks |-> "none", started_at |-> now])
    /\ UNCHANGED <<missions, outcomes>>

(* Mutant: drafts may enter too. *)
StartVerificationDraft(id) ==
    /\ Exists(id)
    /\ Len(runs) < MaxRuns
    /\ missions' = [missions EXCEPT ![id].status = "awaiting_verification"]
    /\ runs' = Append(runs, [mission |-> id, status |-> "running", evidence |-> 0,
                             checks |-> "none", started_at |-> now])
    /\ UNCHANGED outcomes

(* startVerification: any mission but a draft may enter, a failed one by   *)
(* way of in_progress, a verified or rejected one too.                     *)
StartVerification(id) ==
    /\ Exists(id) /\ missions[id].status # "draft"
    /\ Len(runs) < MaxRuns
    /\ missions' = [missions EXCEPT ![id].status = "awaiting_verification"]
    /\ runs' = Append(runs, [mission |-> id, status |-> "running", evidence |-> 0,
                             checks |-> "none", started_at |-> now])
    /\ UNCHANGED outcomes

RunsOf(id) == {r \in DOMAIN runs : runs[r].mission = id}

(* Mutant: the oldest run. *)
IsOldest(r, id) ==
    /\ r \in RunsOf(id)
    /\ \A q \in RunsOf(id) :
          \/ runs[q].started_at > runs[r].started_at
          \/ runs[q].started_at = runs[r].started_at /\ q >= r

(* ORDER BY started_at DESC LIMIT 1 over the index on started_at: of two   *)
(* runs started in the same millisecond the one inserted first.            *)
IsLatest(r, id) ==
    /\ r \in RunsOf(id)
    /\ \A q \in RunsOf(id) :
          \/ runs[q].started_at < runs[r].started_at
          \/ runs[q].started_at = runs[r].started_at /\ q >= r

AcceptsVerdict(verdict, evidence, checks) ==
    verdict = "verified_complete" => evidence > 0 /\ checks # "failed"

(* Mutant: whatever the verdict, the outcome is stamped. *)
CompleteVerificationStamping(r, verdict, evidence, checks) ==
    LET id == runs[r].mission
        latest == missions[id].latest_outcome
    IN  /\ AcceptsVerdict(verdict, evidence, checks)
        /\ runs' = [runs EXCEPT ![r].status = verdict, ![r].evidence = evidence,
                                ![r].checks = checks]
        /\ missions' = [missions EXCEPT ![id].status = verdict]
        /\ outcomes' = IF latest # NoOutcome
                       THEN [outcomes EXCEPT ![latest].verified_by = "verifier"]
                       ELSE outcomes

(* completeVerification: the run takes the verdict, whatever it said       *)
(* before, the mission takes it too, and a verified one stamps the latest  *)
(* outcome of the mission.                                                 *)
CompleteVerification(r, verdict, evidence, checks) ==
    LET id == runs[r].mission
        latest == missions[id].latest_outcome
    IN  /\ AcceptsVerdict(verdict, evidence, checks)
        /\ runs' = [runs EXCEPT ![r].status = verdict, ![r].evidence = evidence,
                                ![r].checks = checks]
        /\ missions' = [missions EXCEPT ![id].status = verdict]
        /\ outcomes' = IF verdict = "verified_complete" /\ latest # NoOutcome
                       THEN [outcomes EXCEPT ![latest].verified_by = "verifier"]
                       ELSE outcomes

-----------------------------------------------------------------------------
(* Manager runs.  The verdict is prepared before the outcome is saved; it  *)
(* always comes with evidence and checks.                                  *)

ManagerSave(m, id) ==
    \E verdict \in Verdicts : BeginSave(m, id, "in_progress", verdict)

ManagerStart(m) ==
    /\ callers[m].step = "saved"
    /\ StartVerification(callers[m].mission)
    /\ callers' = [callers EXCEPT ![m].step = "started"]
    /\ UNCHANGED now

(* The run is not named: the latest one of the mission is completed. *)
ManagerComplete(m) ==
    /\ callers[m].step = "started"
    /\ \E r \in DOMAIN runs, checks \in {"passed", "failed"} :
          /\ IsLatest(r, callers[m].mission)
          /\ CompleteVerification(r, callers[m].verdict, 1, checks)
    /\ callers' = [callers EXCEPT ![m] = EndedManager]
    /\ UNCHANGED now

(* The run ends in the middle: a request fails, or the process dies. *)
ManagerFail(m) ==
    /\ CanFail
    /\ callers[m].step \notin {"idle", "ended"}
    /\ callers' = [callers EXCEPT ![m] = EndedManager]
    /\ UNCHANGED <<missions, outcomes, runs, now>>

-----------------------------------------------------------------------------
(* Other clients: every status a mission can have is accepted with an      *)
(* outcome, and any run may be completed by its id or as the latest.       *)

ClientSave(c, id) ==
    \/ \E status \in Statuses \ {"draft"} : BeginSave(c, id, status, "none")
    \/ RefuseDraft(c, id)

ClientStart(id) ==
    /\ StartVerification(id)
    /\ UNCHANGED <<callers, now>>

ClientComplete ==
    /\ \E r \in DOMAIN runs, verdict \in Verdicts, evidence \in {0, 1}, checks \in CheckResults :
          /\ runs[r].mission \in Public
          /\ CompleteVerification(r, verdict, evidence, checks)
    /\ UNCHANGED <<callers, now>>

Advance ==
    /\ now < Horizon
    /\ now' = now + 1
    /\ callers' = [c \in Caller |-> IF callers[c].step = "ended" THEN IdleCaller ELSE callers[c]]
    /\ UNCHANGED <<missions, outcomes, runs>>

Next ==
    \/ \E m \in Manager :
          \/ \E id \in Mission : ManagerSave(m, id)
          \/ ManagerStart(m)
          \/ ManagerComplete(m)
          \/ ManagerFail(m)
    \/ \E c \in Client :
          \/ \E id \in Public : ClientSave(c, id) \/ ClientStart(id)
          \/ ClientComplete
    \/ \E c \in Caller : EndSave(c)
    \/ Advance

Spec == Init /\ [][Next]_vars

-----------------------------------------------------------------------------
(* Types. *)

(* Rows and calls keep the shape of MissionRecord, of the verification     *)
(* runs and of the locals of the handlers.                                 *)
TypeOK ==
    /\ missions \in [Mission -> MissionRow]
    /\ outcomes \in Seq(Outcome)
    /\ runs \in Seq(Run)
    /\ callers \in [Caller -> CallerState]
    /\ now \in Nat

-----------------------------------------------------------------------------
(* Safety. *)

(* A mission that says it is verified, failed or rejected is one whose     *)
(* completion proof, the latest run, says the same; a verified one has     *)
(* evidence and no failed check.  Holds for what managers alone write,      *)
(* however many of their runs interleave and wherever they break off.      *)
StatusMatchesProof ==
    \A id \in Mission \ Public : missions[id].status \in Verdicts =>
        \E r \in DOMAIN runs :
            /\ IsLatest(r, id)
            /\ runs[r].status = missions[id].status
            /\ runs[r].status = "verified_complete" =>
                  runs[r].evidence > 0 /\ runs[r].checks # "failed"

(* The latest outcome of a mission is one of its own, and once a mission   *)
(* has left draft it has one.                                              *)
OutcomeIsOwn ==
    \A id \in Mission :
        LET latest == missions[id].latest_outcome
        IN  /\ latest # NoOutcome => outcomes[latest].mission = id
            /\ missions[id].status \notin {"absent", "draft"} => latest # NoOutcome

(* A run that is open belongs to a manager run that will complete it.      *)
(* Holds while a mission has one manager run at a time that never fails,   *)
(* whatever clients do to other missions meanwhile.                        *)
OpenRunHasOwner ==
    \A r \in DOMAIN runs : runs[r].mission \notin Public /\ runs[r].status = "running" =>
        \E m \in Manager :
            callers[m].step = "started" /\ callers[m].mission = runs[r].mission

(* An outcome memory that carries the verifier's stamp is one whose own    *)
(* verification succeeded.  Two manager runs of one mission break it.      *)
StampIsEarned ==
    \A n \in DOMAIN outcomes :
        outcomes[n].mission \notin Public /\ outcomes[n].verified_by = "verifier"
          => outcomes[n].verdict = "verified_complete"

(* A mission becomes verified_complete only from awaiting_verification.    *)
(* Two manager runs of one mission break it.                               *)
ThroughAwaiting ==
    [][\A id \in Mission \ Public :
          missions'[id].status = "verified_complete" =>
             missions[id].status \in {"awaiting_verification", "verified_complete"}]_vars

(* A verified mission has a verification run.  The status a client sends   *)
(* with an outcome breaks it.                                              *)
VerifiedHasRun ==
    \A id \in Mission :
        missions[id].status = "verified_complete" => RunsOf(id) # {}

(* A verified run has a check that passed.  A completion without any check *)
(* breaks it.                                                              *)
VerifiedHasChecks ==
    \A r \in DOMAIN runs :
        runs[r].status = "verified_complete" => runs[r].checks = "passed"

=============================================================================
