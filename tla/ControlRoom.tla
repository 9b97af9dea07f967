----------------------------- MODULE ControlRoom -----------------------------
(***************************************************************************)
(* The control room (src/src/control-room/service.ts): the stored records  *)
(* of missions, their runs, the operator's decisions about them and the    *)
(* autonomy policy (src/src/policies/autonomy.ts) that may take a decision *)
(* instead.                                                                *)
(*                                                                         *)
(* A record exists from the end of a mission's first run.  A rerun reads   *)
(* it, awaits the manager and reads it again to append the new run; the    *)
(* operator, the chat, the scheduler and the task queue do not wait for    *)
(* one another.  Decisions of the operator are single steps.               *)
(***************************************************************************)
EXTENDS Integers, Sequences, SequencesExt, FiniteSets, FiniteSetsExt

CONSTANTS
    Mission,     \* mission ids
    Kind,        \* mission kinds
    Operator,    \* launches and reruns over HTTP that may be in progress
    Chat,        \* chat messages that may be in progress
    Background,  \* executions of the scheduler and the queue
    Levels,      \* the autonomy levels the operator uses
    Minimums,    \* the values of routine_min_verified_runs the operator uses
    MaxRuns,     \* bound on the runs of one mission
    MaxEvents,   \* bound on the operator's decisions about one mission
    NoMission    \* no mission

AutonomyLevels == {"supervised", "semi_autonomous", "autonomous"}

Call == Operator \cup Chat \cup Background

ASSUME ControlRoomAssumption ==
    /\ NoMission \notin Mission
    /\ Operator \cap Chat = {} /\ Operator \cap Background = {} /\ Chat \cap Background = {}
    /\ Levels \subseteq AutonomyLevels
    /\ Minimums \subseteq Nat
    /\ MaxRuns \in Nat /\ MaxEvents \in Nat

(* What a run ends with: the verdict of its verification, a refusal, or,   *)
(* when it was to be planned only, neither.                                *)
Results == {"verified_complete", "verification_failed", "rejected", "in_progress"}
Reviews == {"pending", "approved", "rejected", "cancelled"}
Decisions == {"approve_verdict", "reject_verdict", "cancel_mission"}
Actions == Decisions \cup {"retry_mission", "resume_mission"}

VARIABLES
    records,         \* [Mission -> MissionRecord \cup {NoRecord}]: the files
    calls,           \* [Call -> CallState]: launches and reruns in progress
    autonomy_policy, \* the policy in force
    emergency_stop   \* the operator's stop

vars == <<records, calls, autonomy_policy, emergency_stop>>

Run == [result : Results, kind : Kind]

(* The part of an autonomy decision that properties speak of; level and    *)
(* minimum are those of the policy that was applied.                       *)
Autonomy == [level : AutonomyLevels, minimum : Nat, auto_approved : BOOLEAN]

MissionRecord == [runs : Seq(Run), operator_events : Seq(Decisions),
                  operator_review : Reviews, status_override : {"none", "rejected"},
                  autonomy : Autonomy]
NoRecord == [runs |-> <<>>]

Policy == [default_level : AutonomyLevels,
           mission_kind_levels : [Kind -> AutonomyLevels \cup {"default"}],
           routine_min_verified_runs : Nat]

(* "admitted": a launch past its first look at the stop; "running": the    *)
(* manager is at work, on a new mission or on a rerun of mission.          *)
CallState == [step : {"idle", "admitted", "running"}, mission : Mission \cup {NoMission},
              record : MissionRecord \cup {NoRecord}]
IdleCall == [step |-> "idle", mission |-> NoMission, record |-> NoRecord]
Launching == [IdleCall EXCEPT !.step = "running"]

Init ==
    /\ records = [id \in Mission |-> NoRecord]
    /\ calls = [c \in Call |-> IdleCall]
    /\ autonomy_policy = [default_level |-> "supervised",
                          mission_kind_levels |-> [k \in Kind |-> "default"],
                          routine_min_verified_runs |-> 2]
    /\ emergency_stop = FALSE

Exists(id) == records[id] # NoRecord

-----------------------------------------------------------------------------
(* Status and allowed actions. *)

(* resolveMissionStatus. *)
Status(record) ==
    IF record.status_override # "none" THEN record.status_override
    ELSE Last(record.runs).result

(* Mutant: a rejected mission can still be judged. *)
AllowedActionsAnyReview(record) ==
    {a \in Actions :
        \/ /\ a = "cancel_mission"
           /\ Status(record) = "in_progress"
        \/ /\ a \in {"retry_mission", "resume_mission"}
           /\ Status(record) \in {"verification_failed", "rejected", "verified_complete"}
        \/ /\ a = "approve_verdict"
           /\ record.operator_review # "approved"
        \/ /\ a = "reject_verdict"
           /\ record.operator_review # "rejected"}

(* Mutant: an approved mission can be cancelled. *)
AllowedActionsCancelAny(record) ==
    {a \in Actions :
        \/ /\ a = "cancel_mission"
        \/ /\ a \in {"retry_mission", "resume_mission"}
           /\ Status(record) \in {"verification_failed", "rejected", "verified_complete"}}

(* buildAllowedActions. *)
AllowedActions(record) ==
    {a \in Actions :
        \/ /\ a = "cancel_mission"
           /\ Status(record) = "in_progress"
        \/ /\ a \in {"retry_mission", "resume_mission"}
           /\ Status(record) \in {"verification_failed", "rejected"}
        \/ /\ a = "retry_mission"
           /\ Status(record) = "verified_complete"
        \/ /\ a = "approve_verdict"
           /\ Status(record) = "verified_complete"
           /\ record.operator_review # "approved"
        \/ /\ a = "reject_verdict"
           /\ Status(record) \in {"verified_complete", "verification_failed"}
           /\ record.operator_review # "rejected"}

Allowed(id, action) == Exists(id) /\ action \in AllowedActions(records[id])

-----------------------------------------------------------------------------
(* Autonomy. *)

VerifiedRuns(record, kind) ==
    {n \in DOMAIN record.runs : record.runs[n] = [result |-> "verified_complete", kind |-> kind]}

(* countPriorVerifiedRunsByKind, over the records as they are stored. *)
PriorVerifiedRuns(kind) ==
    Cardinality(UNION {{id} \X VerifiedRuns(records[id], kind) : id \in Mission})

ConfiguredLevel(kind) ==
    IF autonomy_policy.mission_kind_levels[kind] = "default"
    THEN autonomy_policy.default_level
    ELSE autonomy_policy.mission_kind_levels[kind]

(* Mutant: the run that is being judged counts as a prior one. *)
EvaluateAutonomyInclusive(run) ==
    LET level == ConfiguredLevel(run.kind)
        minimum == autonomy_policy.routine_min_verified_runs
    IN  [level |-> level, minimum |-> minimum,
         auto_approved |->
            /\ run.result = "verified_complete"
            /\ \/ level = "autonomous"
               \/ level = "semi_autonomous" /\ PriorVerifiedRuns(run.kind) + 1 >= minimum]

(* evaluateAutonomyDecision. *)
EvaluateAutonomy(run) ==
    LET level == ConfiguredLevel(run.kind)
        minimum == autonomy_policy.routine_min_verified_runs
    IN  [level |-> level, minimum |-> minimum,
         auto_approved |->
            /\ run.result = "verified_complete"
            /\ \/ level = "autonomous"
               \/ level = "semi_autonomous" /\ PriorVerifiedRuns(run.kind) >= minimum]

(* applyAutonomyPolicyUpdate: what the update leaves out stays. *)
UpdateAutonomyPolicy ==
    /\ \/ \E level \in Levels :
             autonomy_policy' = [autonomy_policy EXCEPT !.default_level = level]
       \/ \E kind \in Kind, level \in Levels :
             autonomy_policy' = [autonomy_policy EXCEPT !.mission_kind_levels[kind] = level]
       \/ \E n \in Minimums :
             autonomy_policy' = [autonomy_policy EXCEPT !.routine_min_verified_runs = n]
    /\ UNCHANGED <<records, calls, emergency_stop>>

-----------------------------------------------------------------------------
(* Launches and reruns. *)

(* Mutant: the record read before the manager ran is written. *)
PersistRunStale(id, stale, run) ==
    LET autonomy == EvaluateAutonomy(run)
        existing == IF stale = NoRecord THEN records[id] ELSE stale
    IN  /\ Len(existing.runs) < MaxRuns
        /\ records' = [records EXCEPT ![id] =
              [runs |-> Append(existing.runs, run),
               operator_events |-> IF existing # NoRecord THEN existing.operator_events ELSE <<>>,
               operator_review |-> IF autonomy.auto_approved THEN "approved" ELSE "pending",
               status_override |-> "none",
               autonomy |-> autonomy]]

(* The end of a run: persistRun reads the record again, appends the run,   *)
(* and starts a new review, approved when autonomy says so.                *)
PersistRun(id, stale, run) ==
    LET autonomy == EvaluateAutonomy(run)
        existing == records[id]
    IN  /\ Len(existing.runs) < MaxRuns
        /\ records' = [records EXCEPT ![id] =
              [runs |-> Append(existing.runs, run),
               operator_events |-> IF Exists(id) THEN existing.operator_events ELSE <<>>,
               operator_review |-> IF autonomy.auto_approved THEN "approved" ELSE "pending",
               status_override |-> "none",
               autonomy |-> autonomy]]

(* POST /control-room/api/launch looks at the stop, awaits the body and    *)
(* the diagnostics of the workers, and looks again.                        *)
RequestLaunch(c) ==
    /\ calls[c].step = "idle"
    /\ ~ emergency_stop
    /\ calls' = [calls EXCEPT ![c].step = "admitted"]
    /\ UNCHANGED <<records, autonomy_policy, emergency_stop>>

(* Mutant: no second look. *)
AdmitLaunchUnchecked(c) ==
    /\ calls[c].step = "admitted"
    /\ calls' = [calls EXCEPT ![c] = Launching]
    /\ UNCHANGED <<records, autonomy_policy, emergency_stop>>

AdmitLaunch(c) ==
    /\ calls[c].step = "admitted"
    /\ calls' = [calls EXCEPT ![c] = IF emergency_stop THEN IdleCall ELSE Launching]
    /\ UNCHANGED <<records, autonomy_policy, emergency_stop>>

BeginRerun(c, id, action) ==
    /\ calls[c].step = "idle"
    /\ Allowed(id, action)
    /\ calls' = [calls EXCEPT ![c] =
          [step |-> "running", mission |-> id, record |-> records[id]]]
    /\ UNCHANGED <<records, autonomy_policy, emergency_stop>>

(* POST /control-room/api/missions/:id/actions with a rerun. *)
RequestRerun(c, id) ==
    /\ ~ emergency_stop
    /\ \E action \in {"retry_mission", "resume_mission"} : BeginRerun(c, id, action)

(* A chat message starts a mission of its own, without a look at the stop. *)
ChatMission(c) ==
    /\ calls[c].step = "idle"
    /\ calls' = [calls EXCEPT ![c] = Launching]
    /\ UNCHANGED <<records, autonomy_policy, emergency_stop>>

(* A scheduled mission launches; an item of the queue retries its parent   *)
(* or, when that is refused, launches.  The stop was read by their ticks.  *)
BackgroundMission(c) ==
    /\ calls[c].step = "idle"
    /\ calls' = [calls EXCEPT ![c] = Launching]
    /\ UNCHANGED <<records, autonomy_policy, emergency_stop>>

BackgroundRetry(c, id) == BeginRerun(c, id, "retry_mission")

Finish(c, run) ==
    /\ calls[c].step = "running"
    /\ \E id \in Mission :
          /\ IF calls[c].mission = NoMission THEN ~ Exists(id) ELSE id = calls[c].mission
          /\ PersistRun(id, calls[c].record, run)
    /\ calls' = [calls EXCEPT ![c] = IdleCall]
    /\ UNCHANGED <<autonomy_policy, emergency_stop>>

(* Mutant: a rerun repeats the request of the launch, which may have asked *)
(* for a plan only.                                                        *)
FinishRunRepeatingLaunch(c) ==
    \E run \in Run :
        /\ run.result = "in_progress" => c \in Operator
        /\ Finish(c, run)

(* A run has no verdict and no refusal only if it was a plan: dry_run or   *)
(* no_execute.  Only a launch over HTTP may ask for that; the chat, the    *)
(* scheduler and the queue do not, and a rerun sets both to false.         *)
FinishRun(c) ==
    \E run \in Run :
        /\ run.result = "in_progress" => c \in Operator /\ calls[c].mission = NoMission
        /\ Finish(c, run)

(* The manager throws; an item of the queue then launches by its goal. *)
FailRun(c) ==
    /\ calls[c].step = "running"
    /\ calls' = [calls EXCEPT ![c] =
          IF c \in Background /\ calls[c].mission # NoMission THEN Launching ELSE IdleCall]
    /\ UNCHANGED <<records, autonomy_policy, emergency_stop>>

-----------------------------------------------------------------------------
(* The operator. *)

ReviewAfter(action) ==
    CASE action = "approve_verdict" -> "approved"
      [] action = "reject_verdict" -> "rejected"
      [] action = "cancel_mission" -> "cancelled"

(* Decisions of runAction, and the override of the dashboard, which is a   *)
(* cancellation.                                                           *)
Decide(id, action) ==
    /\ Allowed(id, action)
    /\ Len(records[id].operator_events) < MaxEvents
    /\ records' = [records EXCEPT
          ![id].operator_events = Append(@, action),
          ![id].operator_review = ReviewAfter(action),
          ![id].status_override = IF action = "cancel_mission" THEN "rejected" ELSE @]
    /\ UNCHANGED <<calls, autonomy_policy, emergency_stop>>

ActivateStop ==
    /\ ~ emergency_stop
    /\ emergency_stop' = TRUE
    /\ UNCHANGED <<records, calls, autonomy_policy>>

ResumeExecution ==
    /\ emergency_stop
    /\ emergency_stop' = FALSE
    /\ UNCHANGED <<records, calls, autonomy_policy>>

(* The process dies and starts again: the files are what is left. *)
Restart ==
    /\ calls # [c \in Call |-> IdleCall]
    /\ calls' = [c \in Call |-> IdleCall]
    /\ UNCHANGED <<records, autonomy_policy, emergency_stop>>

Next ==
    \/ \E c \in Operator : RequestLaunch(c) \/ AdmitLaunch(c) \/ \E id \in Mission : RequestRerun(c, id)
    \/ \E c \in Chat : ChatMission(c)
    \/ \E c \in Background : BackgroundMission(c) \/ \E id \in Mission : BackgroundRetry(c, id)
    \/ \E c \in Call : FinishRun(c) \/ FailRun(c)
    \/ \E id \in Mission, action \in Decisions : Decide(id, action)
    \/ UpdateAutonomyPolicy
    \/ ActivateStop
    \/ ResumeExecution
    \/ Restart

Spec == Init /\ [][Next]_vars

-----------------------------------------------------------------------------
(* Types. *)

(* Records, policy and calls keep the shape of their TypeScript types; a   *)
(* call carries a record exactly while it reruns that mission.             *)
TypeOK ==
    /\ records \in [Mission -> MissionRecord \cup {NoRecord}]
    /\ calls \in [Call -> CallState]
    /\ autonomy_policy \in Policy
    /\ emergency_stop \in BOOLEAN

-----------------------------------------------------------------------------
(* Safety. *)

(* What the review says fits what the mission is: only a verified mission  *)
(* is approved, one whose verdict is rejected has a verdict, and the       *)
(* override to rejected is there exactly for a cancelled one, whatever     *)
(* reruns ended between the operator's decisions.                          *)
ReviewFitsStatus ==
    \A id \in Mission : Exists(id) =>
        LET record == records[id]
        IN  /\ record.operator_review = "approved" => Status(record) = "verified_complete"
            /\ record.operator_review = "rejected" =>
                  Status(record) \in {"verified_complete", "verification_failed"}
            /\ record.operator_review = "cancelled" <=> record.status_override = "rejected"

(* A semi-autonomous approval has its prior verified runs: there are more  *)
(* verified runs of the kind than the policy that was applied asks for,    *)
(* the approved run itself not counting.                                   *)
AutoApprovalIsRoutine ==
    \A id \in Mission : Exists(id) =>
        LET autonomy == records[id].autonomy
        IN  autonomy.auto_approved /\ autonomy.level = "semi_autonomous" =>
               PriorVerifiedRuns(Last(records[id].runs).kind) > autonomy.minimum

(* No run and no decision of the operator is lost from a record, also when *)
(* reruns and decisions about one mission overlap.                         *)
HistoryIsKept ==
    [][\A id \in Mission : Exists(id) =>
          /\ IsPrefix(records[id].runs, records'[id].runs)
          /\ IsPrefix(records[id].operator_events, records'[id].operator_events)]_vars

(* No mission starts while the operator's stop is active.  Holds for the   *)
(* HTTP interface of the control room; a chat message breaks it.           *)
NoMissionStartsWhileStopped ==
    [][\A c \in Call :
          calls[c].step # "running" /\ calls'[c].step = "running" => ~ emergency_stop]_vars

(* A cancellation ends only with a rerun that began after it, however      *)
(* reruns overlap: the rerun was asked for by somebody who could see the   *)
(* decision.  It takes that the mission cannot be cancelled any more once  *)
(* a rerun of it has begun.                                                *)
OverrideHolds ==
    [][\A id \in Mission :
          Exists(id) /\ records[id].status_override = "rejected"
             /\ records'[id].status_override = "none"
          => \E c \in Call :
                /\ calls[c].mission = id /\ calls'[c] = IdleCall
                /\ calls[c].record.operator_events = records[id].operator_events]_vars

(* What the README says of the override: any running mission can be paused *)
(* by it.  The record says what the run before ended with, and only one    *)
(* that was planned and never executed may be cancelled.                   *)
RunningCanBeOverridden ==
    \A c \in Call :
        calls[c].step = "running" /\ calls[c].mission # NoMission =>
            Allowed(calls[c].mission, "cancel_mission")

=============================================================================
