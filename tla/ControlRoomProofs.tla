------------------------- MODULE ControlRoomProofs --------------------------
(***************************************************************************)
(* Proofs about ControlRoom, for any sets of missions, kinds and calls,    *)
(* any policies and any number of runs and decisions: what overlapping     *)
(* reruns, decisions, policy updates and restarts cannot do to a record.   *)
(* One theorem is about what holds in the control room's own interface     *)
(* only.                                                                   *)
(***************************************************************************)
EXTENDS ControlRoom, FiniteSetTheorems, TLAPS

(* A record exists from its first run on.                                  *)
RecordsHaveRuns == \A id \in Mission : Exists(id) => records[id].runs # <<>>

(* The verified runs of a kind.                                            *)
VerifiedIn(table, kind) == UNION {{id} \X VerifiedRuns(table[id], kind) : id \in Mission}

VerifiedIsFinite == \A kind \in Kind : IsFiniteSet(VerifiedIn(records, kind))

IInv ==
    /\ TypeOK
    /\ RecordsHaveRuns
    /\ VerifiedIsFinite
    /\ ReviewFitsStatus
    /\ AutoApprovalIsRoutine

-----------------------------------------------------------------------------
(* Records.                                                                *)

LEMMA RecordIsThere == ASSUME NEW r \in MissionRecord PROVE r # NoRecord
<1>1. DOMAIN r = {"runs", "operator_events", "operator_review", "status_override", "autonomy"}
  BY DEF MissionRecord
<1>2. DOMAIN NoRecord = {"runs"}
  BY DEF NoRecord
<1> QED BY <1>1, <1>2

LEMMA RecordType ==
    ASSUME TypeOK, NEW id \in Mission
    PROVE  /\ records[id] \in MissionRecord \/ records[id] = NoRecord
           /\ Exists(id) <=> records[id] \in MissionRecord
           /\ records[id].runs \in Seq(Run)
<1>1. records[id] \in MissionRecord \cup {NoRecord}
  BY DEF TypeOK
<1>2. CASE records[id] \in MissionRecord
  BY <1>2, RecordIsThere DEF Exists, MissionRecord
<1>3. CASE records[id] = NoRecord
  BY <1>3, RecordIsThere DEF Exists, NoRecord
<1> QED BY <1>1, <1>2, <1>3

LEMMA AutonomyType ==
    ASSUME TypeOK, NEW run \in Run
    PROVE  /\ EvaluateAutonomy(run) \in Autonomy
           /\ EvaluateAutonomy(run).auto_approved => run.result = "verified_complete"
           /\ EvaluateAutonomy(run).auto_approved /\ EvaluateAutonomy(run).level = "semi_autonomous"
                 => PriorVerifiedRuns(run.kind) >= EvaluateAutonomy(run).minimum
<1>1. run.kind \in Kind
  BY DEF Run
<1>2. ConfiguredLevel(run.kind) \in AutonomyLevels
  BY <1>1 DEF TypeOK, Policy, ConfiguredLevel, AutonomyLevels
<1>3. autonomy_policy.routine_min_verified_runs \in Nat
  BY DEF TypeOK, Policy
<1> QED BY <1>2, <1>3 DEF EvaluateAutonomy, Autonomy, AutonomyLevels

(* The record that the end of a run writes.                                *)
NewRecord(existing, run, autonomy) ==
    [runs |-> Append(existing.runs, run),
     operator_events |-> IF existing # NoRecord THEN existing.operator_events ELSE <<>>,
     operator_review |-> IF autonomy.auto_approved THEN "approved" ELSE "pending",
     status_override |-> "none",
     autonomy |-> autonomy]

LEMMA NewRecordType ==
    ASSUME NEW existing \in MissionRecord \cup {NoRecord}, NEW run \in Run, NEW autonomy \in Autonomy
    PROVE  /\ NewRecord(existing, run, autonomy) \in MissionRecord
           /\ NewRecord(existing, run, autonomy).runs # <<>>
           /\ Last(NewRecord(existing, run, autonomy).runs) = run
           /\ Status(NewRecord(existing, run, autonomy)) = run.result
<1> DEFINE runs == Append(existing.runs, run)
           events == IF existing # NoRecord THEN existing.operator_events ELSE <<>>
           row == NewRecord(existing, run, autonomy)
<1>1. existing.runs \in Seq(Run) /\ events \in Seq(Decisions)
  <2>1. CASE existing \in MissionRecord
    BY <2>1 DEF MissionRecord
  <2>2. CASE existing = NoRecord
    <3>1. existing.runs = <<>> /\ events = <<>>
      BY <2>2 DEF NoRecord
    <3> HIDE DEF events
    <3>2. <<>> \in Seq(Run) /\ <<>> \in Seq(Decisions)
      OBVIOUS
    <3> QED BY <3>1, <3>2
  <2> QED BY <2>1, <2>2
<1>2. runs \in Seq(Run) /\ runs # <<>> /\ runs[Len(runs)] = run
  BY <1>1
<1>3. /\ row.runs = runs /\ row.status_override = "none"
      /\ row = [runs |-> runs, operator_events |-> events,
                operator_review |-> IF autonomy.auto_approved THEN "approved" ELSE "pending",
                status_override |-> "none", autonomy |-> autonomy]
  BY DEF NewRecord
<1> HIDE DEF runs, events, row
<1>4. row \in MissionRecord
  BY <1>1, <1>2, <1>3 DEF MissionRecord, Reviews
<1>5. Last(row.runs) = run
  BY <1>2, <1>3 DEF Last
<1>6. Status(row) = run.result
  BY <1>3, <1>5 DEF Status
<1> QED BY <1>2, <1>3, <1>4, <1>5, <1>6 DEF row

(* The record that a decision writes.                                      *)
DecidedRecord(record, action) ==
    [record EXCEPT
        !.operator_events = Append(@, action),
        !.operator_review = ReviewAfter(action),
        !.status_override = IF action = "cancel_mission" THEN "rejected" ELSE @]

LEMMA DecidedRecordType ==
    ASSUME NEW record \in MissionRecord, NEW action \in Decisions
    PROVE  /\ DecidedRecord(record, action) \in MissionRecord
           /\ DecidedRecord(record, action).runs = record.runs
           /\ DecidedRecord(record, action).autonomy = record.autonomy
           /\ DecidedRecord(record, action).operator_events = Append(record.operator_events, action)
           /\ DecidedRecord(record, action).operator_review = ReviewAfter(action)
           /\ DecidedRecord(record, action).status_override =
                 IF action = "cancel_mission" THEN "rejected" ELSE record.status_override
<1> DEFINE events == Append(record.operator_events, action)
           review == ReviewAfter(action)
           override == IF action = "cancel_mission" THEN "rejected" ELSE record.status_override
           row == DecidedRecord(record, action)
<1>1. /\ events \in Seq(Decisions) /\ review \in Reviews
      /\ override \in {"none", "rejected"}
  BY DEF MissionRecord, ReviewAfter, Reviews, Decisions
<1>2. row = [record EXCEPT !.operator_events = events, !.operator_review = review,
                           !.status_override = override]
  BY DEF DecidedRecord
<1> HIDE DEF events, review, override, row
<1>3. /\ row \in MissionRecord
      /\ row.runs = record.runs /\ row.autonomy = record.autonomy
      /\ row.operator_events = events /\ row.operator_review = review
      /\ row.status_override = override
  BY <1>1, <1>2 DEF MissionRecord
<1> QED BY <1>3 DEF events, review, override, row

-----------------------------------------------------------------------------
(* What a step does to the records.                                        *)

RunEnds(id, run) ==
    records' = [records EXCEPT ![id] = NewRecord(records[id], run, EvaluateAutonomy(run))]

IsDecided(id, action) ==
    /\ Allowed(id, action)
    /\ records' = [records EXCEPT ![id] = DecidedRecord(records[id], action)]

LEMMA RecordSteps ==
    ASSUME TypeOK, [Next]_vars
    PROVE  \/ UNCHANGED records
           \/ \E id \in Mission, run \in Run : RunEnds(id, run)
           \/ \E id \in Mission, action \in Decisions : IsDecided(id, action)
<1>1. ASSUME NEW c \in Call, FinishRun(c)
      PROVE  \E id \in Mission, run \in Run : RunEnds(id, run)
  <2>1. PICK run \in Run, id \in Mission : PersistRun(id, calls[c].record, run)
    BY <1>1 DEF FinishRun, Finish
  <2>2. RunEnds(id, run)
    BY <2>1 DEF PersistRun, RunEnds, NewRecord, Exists
  <2> QED BY <2>2
<1>2. ASSUME NEW id \in Mission, NEW action \in Decisions, Decide(id, action)
      PROVE  IsDecided(id, action)
  <2>1. records[id] \in MissionRecord
    BY <1>2, RecordType DEF Decide, Allowed
  <2>2. records' = [records EXCEPT ![id] = DecidedRecord(records[id], action)]
    BY <1>2 DEF Decide, DecidedRecord
  <2> QED BY <1>2, <2>2 DEF Decide, IsDecided
<1>3. CASE UNCHANGED vars
  BY <1>3 DEF vars
<1>4. CASE \E c \in Operator : RequestLaunch(c) \/ AdmitLaunch(c) \/ \E id \in Mission : RequestRerun(c, id)
  BY <1>4 DEF RequestLaunch, AdmitLaunch, RequestRerun, BeginRerun
<1>5. CASE \E c \in Chat : ChatMission(c)
  BY <1>5 DEF ChatMission
<1>6. CASE \E c \in Background : BackgroundMission(c) \/ \E id \in Mission : BackgroundRetry(c, id)
  BY <1>6 DEF BackgroundMission, BackgroundRetry, BeginRerun
<1>7. CASE \E c \in Call : FailRun(c)
  BY <1>7 DEF FailRun
<1>8. CASE UpdateAutonomyPolicy \/ ActivateStop \/ ResumeExecution \/ Restart
  BY <1>8 DEF UpdateAutonomyPolicy, ActivateStop, ResumeExecution, Restart
<1> QED BY <1>1, <1>2, <1>3, <1>4, <1>5, <1>6, <1>7, <1>8 DEF Next

LEMMA RecordsType ==
    ASSUME TypeOK, RecordsHaveRuns, [Next]_vars
    PROVE  /\ records' \in [Mission -> MissionRecord \cup {NoRecord}]
           /\ RecordsHaveRuns'
<1>1. CASE UNCHANGED records
  BY <1>1 DEF TypeOK, RecordsHaveRuns, Exists
<1>2. ASSUME NEW id \in Mission, NEW run \in Run, RunEnds(id, run)
      PROVE  /\ records' \in [Mission -> MissionRecord \cup {NoRecord}]
             /\ RecordsHaveRuns'
  <2> DEFINE row == NewRecord(records[id], run, EvaluateAutonomy(run))
  <2>1. row \in MissionRecord /\ row.runs # <<>>
    BY NewRecordType, AutonomyType DEF TypeOK
  <2>2. records' = [records EXCEPT ![id] = row]
    BY <1>2 DEF RunEnds
  <2> HIDE DEF row
  <2> QED BY <2>1, <2>2 DEF TypeOK, RecordsHaveRuns, Exists
<1>3. ASSUME NEW id \in Mission, NEW action \in Decisions, IsDecided(id, action)
      PROVE  /\ records' \in [Mission -> MissionRecord \cup {NoRecord}]
             /\ RecordsHaveRuns'
  <2> DEFINE row == DecidedRecord(records[id], action)
  <2>1. Exists(id) /\ records[id] \in MissionRecord
    BY <1>3, RecordType DEF IsDecided, Allowed
  <2>2. row \in MissionRecord /\ row.runs # <<>>
    BY <2>1, DecidedRecordType DEF RecordsHaveRuns
  <2>3. records' = [records EXCEPT ![id] = row]
    BY <1>3 DEF IsDecided
  <2> HIDE DEF row
  <2> QED BY <2>2, <2>3 DEF TypeOK, RecordsHaveRuns, Exists
<1> QED BY <1>1, <1>2, <1>3, RecordSteps

LEMMA TypesAreKept == ASSUME TypeOK, RecordsHaveRuns, [Next]_vars PROVE TypeOK'
<1>1. records' \in [Mission -> MissionRecord \cup {NoRecord}]
  BY RecordsType
<1>2. ASSUME NEW c \in Call, NEW call \in CallState, calls' = [calls EXCEPT ![c] = call]
      PROVE  calls' \in [Call -> CallState]
  BY <1>2 DEF TypeOK
<1>3. IdleCall \in CallState /\ Launching \in CallState
  BY DEF IdleCall, Launching, CallState, NoRecord
<1>4. Operator \subseteq Call /\ Chat \subseteq Call /\ Background \subseteq Call
  BY DEF Call
<1>5. ASSUME NEW c \in Call, NEW id \in Mission, NEW action, BeginRerun(c, id, action)
      PROVE  calls' \in [Call -> CallState] /\ UNCHANGED <<autonomy_policy, emergency_stop>>
  <2>1. [step |-> "running", mission |-> id, record |-> records[id]] \in CallState
    BY DEF TypeOK, CallState
  <2> QED BY <1>2, <1>5, <2>1 DEF BeginRerun
<1>6. CASE \E c \in Operator : RequestLaunch(c) \/ AdmitLaunch(c) \/ \E id \in Mission : RequestRerun(c, id)
  <2>1. PICK c \in Operator : RequestLaunch(c) \/ AdmitLaunch(c) \/ \E id \in Mission : RequestRerun(c, id)
    BY <1>6
  <2>2. CASE RequestLaunch(c)
    <3>1. [calls[c] EXCEPT !.step = "admitted"] \in CallState
      BY <1>4 DEF TypeOK, CallState
    <3>2. calls' = [calls EXCEPT ![c] = [calls[c] EXCEPT !.step = "admitted"]]
      BY <2>2 DEF RequestLaunch
    <3>3. calls' \in [Call -> CallState]
      BY <1>2, <1>4, <3>1, <3>2
    <3> QED BY <1>1, <2>2, <3>3 DEF RequestLaunch, TypeOK
  <2>3. CASE AdmitLaunch(c)
    <3>1. calls' \in [Call -> CallState]
      BY <1>2, <1>3, <1>4, <2>3 DEF AdmitLaunch
    <3> QED BY <1>1, <2>3, <3>1 DEF AdmitLaunch, TypeOK
  <2>4. CASE \E id \in Mission : RequestRerun(c, id)
    BY <1>1, <1>4, <1>5, <2>4 DEF RequestRerun, TypeOK
  <2> QED BY <2>1, <2>2, <2>3, <2>4
<1>7. CASE \E c \in Chat : ChatMission(c)
  <2>1. calls' \in [Call -> CallState]
    BY <1>2, <1>3, <1>4, <1>7 DEF ChatMission
  <2> QED BY <1>1, <1>7, <2>1 DEF ChatMission, TypeOK
<1>8. CASE \E c \in Background : BackgroundMission(c)
  <2>1. calls' \in [Call -> CallState]
    BY <1>2, <1>3, <1>4, <1>8 DEF BackgroundMission
  <2> QED BY <1>1, <1>8, <2>1 DEF BackgroundMission, TypeOK
<1>9. CASE \E c \in Background : \E id \in Mission : BackgroundRetry(c, id)
  BY <1>1, <1>4, <1>5, <1>9 DEF BackgroundRetry, TypeOK
<1>10. CASE \E c \in Call : FinishRun(c) \/ FailRun(c)
  <2>1. calls' \in [Call -> CallState]
    BY <1>2, <1>3, <1>10 DEF FinishRun, Finish, FailRun
  <2> QED BY <1>1, <1>10, <2>1 DEF FinishRun, Finish, FailRun, TypeOK
<1>11. CASE \E id \in Mission, action \in Decisions : Decide(id, action)
  BY <1>1, <1>11 DEF Decide, TypeOK
<1>12. CASE UpdateAutonomyPolicy
  <2>1. Levels \subseteq AutonomyLevels /\ Minimums \subseteq Nat
    BY ControlRoomAssumption
  <2>2. autonomy_policy' \in Policy
    <3>1. CASE \E level \in Levels :
                   autonomy_policy' = [autonomy_policy EXCEPT !.default_level = level]
      BY <2>1, <3>1 DEF TypeOK, Policy
    <3>2. ASSUME NEW kind \in Kind, NEW level \in Levels,
                 autonomy_policy' = [autonomy_policy EXCEPT !.mission_kind_levels[kind] = level]
          PROVE  autonomy_policy' \in Policy
      <4> DEFINE levels == [autonomy_policy.mission_kind_levels EXCEPT ![kind] = level]
      <4>1. levels \in [Kind -> AutonomyLevels \cup {"default"}]
        BY <2>1 DEF TypeOK, Policy
      <4>2. autonomy_policy' = [autonomy_policy EXCEPT !.mission_kind_levels = levels]
        BY <3>2 DEF TypeOK, Policy
      <4> HIDE DEF levels
      <4> QED BY <4>1, <4>2 DEF TypeOK, Policy
    <3>3. CASE \E n \in Minimums :
                   autonomy_policy' = [autonomy_policy EXCEPT !.routine_min_verified_runs = n]
      BY <2>1, <3>3 DEF TypeOK, Policy
    <3> QED BY <1>12, <3>1, <3>2, <3>3 DEF UpdateAutonomyPolicy
  <2> QED BY <1>1, <1>12, <2>2 DEF UpdateAutonomyPolicy, TypeOK
<1>13. CASE ActivateStop \/ ResumeExecution
  BY <1>1, <1>13 DEF ActivateStop, ResumeExecution, TypeOK
<1>14. CASE Restart
  BY <1>1, <1>3, <1>14 DEF Restart, TypeOK
<1>15. CASE UNCHANGED vars
  BY <1>1, <1>15 DEF vars, TypeOK
<1> QED BY <1>6, <1>7, <1>8, <1>9, <1>10, <1>11, <1>12, <1>13, <1>14, <1>15 DEF Next

-----------------------------------------------------------------------------
(* Verified runs: the end of a run adds at most one, nothing removes any.  *)

LEMMA VerifiedPairs ==
    ASSUME NEW table, NEW kind, NEW id, NEW n
    PROVE  <<id, n>> \in VerifiedIn(table, kind)
              <=> id \in Mission /\ n \in VerifiedRuns(table[id], kind)
BY DEF VerifiedIn

LEMMA VerifiedArePairs ==
    ASSUME NEW table, NEW kind, NEW x \in VerifiedIn(table, kind)
    PROVE  \E id \in Mission : \E n \in VerifiedRuns(table[id], kind) : x = <<id, n>>
BY DEF VerifiedIn

LEMMA SameVerified ==
    ASSUME NEW old, NEW new, NEW kind,
           \A id \in Mission : VerifiedRuns(new[id], kind) = VerifiedRuns(old[id], kind)
    PROVE  VerifiedIn(new, kind) = VerifiedIn(old, kind)
<1>1. ASSUME NEW x \in VerifiedIn(new, kind) PROVE x \in VerifiedIn(old, kind)
  BY VerifiedPairs, VerifiedArePairs
<1>2. ASSUME NEW x \in VerifiedIn(old, kind) PROVE x \in VerifiedIn(new, kind)
  BY VerifiedPairs, VerifiedArePairs
<1> QED BY <1>1, <1>2

LEMMA OneMoreVerified ==
    ASSUME NEW old, NEW new, NEW kind, NEW id \in Mission, NEW n, NEW more \in BOOLEAN,
           \A other \in Mission \ {id} : VerifiedRuns(new[other], kind) = VerifiedRuns(old[other], kind),
           VerifiedRuns(new[id], kind) = VerifiedRuns(old[id], kind) \cup IF more THEN {n} ELSE {}
    PROVE  VerifiedIn(new, kind) = VerifiedIn(old, kind) \cup IF more THEN {<<id, n>>} ELSE {}
<1>1. ASSUME NEW x \in VerifiedIn(new, kind)
      PROVE  x \in VerifiedIn(old, kind) \cup IF more THEN {<<id, n>>} ELSE {}
  <2>1. PICK d \in Mission : \E m \in VerifiedRuns(new[d], kind) : x = <<d, m>>
    BY VerifiedArePairs
  <2>2. PICK m \in VerifiedRuns(new[d], kind) : x = <<d, m>>
    BY <2>1
  <2>3. m \in VerifiedRuns(old[d], kind) \/ (d = id /\ more /\ m = n)
    OBVIOUS
  <2> QED BY <2>2, <2>3, VerifiedPairs
<1>2. ASSUME NEW x \in VerifiedIn(old, kind) PROVE x \in VerifiedIn(new, kind)
  <2>1. PICK d \in Mission : \E m \in VerifiedRuns(old[d], kind) : x = <<d, m>>
    BY VerifiedArePairs
  <2>2. PICK m \in VerifiedRuns(old[d], kind) : x = <<d, m>>
    BY <2>1
  <2>3. m \in VerifiedRuns(new[d], kind)
    OBVIOUS
  <2> QED BY <2>2, <2>3, VerifiedPairs
<1>3. more => <<id, n>> \in VerifiedIn(new, kind)
  BY VerifiedPairs
<1> QED BY <1>1, <1>2, <1>3

LEMMA AppendVerified ==
    ASSUME NEW old, NEW new, NEW run \in Run, NEW kind \in Kind,
           old.runs \in Seq(Run), new.runs = Append(old.runs, run)
    PROVE  /\ VerifiedRuns(new, kind) =
                 VerifiedRuns(old, kind)
                    \cup IF run = [result |-> "verified_complete", kind |-> kind]
                         THEN {Len(old.runs) + 1} ELSE {}
           /\ Len(old.runs) + 1 \notin VerifiedRuns(old, kind)
<1> DEFINE n == Len(old.runs)
<1>1. /\ n \in Nat /\ DOMAIN old.runs = 1..n /\ DOMAIN new.runs = 1..(n + 1)
      /\ \A i \in 1..n : new.runs[i] = old.runs[i]
      /\ new.runs[n + 1] = run
  OBVIOUS
<1>2. \A i : i \in 1..(n + 1) <=> i \in 1..n \/ i = n + 1
  BY <1>1
<1>3. n + 1 \notin 1..n
  BY <1>1
<1> HIDE DEF n
<1>4. n + 1 \notin VerifiedRuns(old, kind)
  BY <1>1, <1>3 DEF VerifiedRuns
<1>5. VerifiedRuns(new, kind) =
          VerifiedRuns(old, kind)
             \cup IF run = [result |-> "verified_complete", kind |-> kind] THEN {n + 1} ELSE {}
  BY <1>1, <1>2, <1>3 DEF VerifiedRuns
<1> QED BY <1>4, <1>5 DEF n

LEMMA RunEndsVerified ==
    ASSUME TypeOK, NEW id \in Mission, NEW run \in Run, RunEnds(id, run), NEW kind \in Kind
    PROVE  \E n : /\ <<id, n>> \notin VerifiedIn(records, kind)
                  /\ VerifiedIn(records', kind) =
                        VerifiedIn(records, kind)
                          \cup IF run = [result |-> "verified_complete", kind |-> kind]
                               THEN {<<id, n>>} ELSE {}
<1> DEFINE row == NewRecord(records[id], run, EvaluateAutonomy(run))
           n == Len(records[id].runs) + 1
<1>1. records' = [records EXCEPT ![id] = row] /\ row.runs = Append(records[id].runs, run)
  BY DEF RunEnds, NewRecord
<1>2. records[id].runs \in Seq(Run)
  BY RecordType
<1> HIDE DEF row
<1>3. records'[id] = row /\ \A other \in Mission \ {id} : records'[other] = records[other]
  BY <1>1 DEF TypeOK
<1>4. /\ VerifiedRuns(records'[id], kind) =
             VerifiedRuns(records[id], kind)
                \cup IF run = [result |-> "verified_complete", kind |-> kind] THEN {n} ELSE {}
      /\ n \notin VerifiedRuns(records[id], kind)
  <2>1. /\ VerifiedRuns(row, kind) =
              VerifiedRuns(records[id], kind)
                 \cup IF run = [result |-> "verified_complete", kind |-> kind]
                      THEN {Len(records[id].runs) + 1} ELSE {}
        /\ Len(records[id].runs) + 1 \notin VerifiedRuns(records[id], kind)
    <3>1. row.runs = Append(records[id].runs, run)
      BY <1>1
    <3>2. \A new, old : old.runs \in Seq(Run) /\ new.runs = Append(old.runs, run) =>
              /\ VerifiedRuns(new, kind) =
                    VerifiedRuns(old, kind)
                       \cup IF run = [result |-> "verified_complete", kind |-> kind]
                            THEN {Len(old.runs) + 1} ELSE {}
              /\ Len(old.runs) + 1 \notin VerifiedRuns(old, kind)
      BY AppendVerified
    <3> QED BY <1>2, <3>1, <3>2
  <2> QED BY <1>3, <2>1
<1>5. <<id, n>> \notin VerifiedIn(records, kind)
  BY <1>4, VerifiedPairs
<1> DEFINE more == run = [result |-> "verified_complete", kind |-> kind]
<1>6. VerifiedRuns(records'[id], kind) = VerifiedRuns(records[id], kind) \cup IF more THEN {n} ELSE {}
  BY <1>4
<1>7. \A other \in Mission \ {id} :
          VerifiedRuns(records'[other], kind) = VerifiedRuns(records[other], kind)
  BY <1>3
<1>8. more \in BOOLEAN
  OBVIOUS
<1>9. VerifiedIn(records', kind) = VerifiedIn(records, kind) \cup IF more THEN {<<id, n>>} ELSE {}
  <2> HIDE DEF more, n
  <2> QED BY <1>6, <1>7, <1>8, OneMoreVerified
<1> QED BY <1>5, <1>9

LEMMA DecidedVerified ==
    ASSUME TypeOK, NEW id \in Mission, NEW action \in Decisions, IsDecided(id, action), NEW kind \in Kind
    PROVE  VerifiedIn(records', kind) = VerifiedIn(records, kind)
<1> DEFINE row == DecidedRecord(records[id], action)
<1>1. records' = [records EXCEPT ![id] = row] /\ row.runs = records[id].runs
  BY RecordType, DecidedRecordType DEF IsDecided, Allowed
<1> HIDE DEF row
<1>2. \A other \in Mission : records'[other].runs = records[other].runs
  BY <1>1 DEF TypeOK
<1>3. \A other \in Mission :
          VerifiedRuns(records'[other], kind) = VerifiedRuns(records[other], kind)
  BY <1>2 DEF VerifiedRuns
<1> QED BY <1>3, SameVerified

PriorIn(table, kind) == Cardinality(VerifiedIn(table, kind))

LEMMA PriorRuns == \A kind : PriorVerifiedRuns(kind) = PriorIn(records, kind)
BY DEF PriorVerifiedRuns, PriorIn, VerifiedIn

-----------------------------------------------------------------------------
(* The invariant.                                                          *)

LEMMA FiniteIsKept ==
    ASSUME TypeOK, VerifiedIsFinite, [Next]_vars, NEW kind \in Kind
    PROVE  /\ IsFiniteSet(VerifiedIn(records', kind))
           /\ PriorIn(records, kind) \in Nat /\ PriorIn(records', kind) \in Nat
           /\ PriorIn(records', kind) >= PriorIn(records, kind)
<1> USE DEF PriorIn
<1>1. /\ IsFiniteSet(VerifiedIn(records, kind))
      /\ Cardinality(VerifiedIn(records, kind)) \in Nat
  BY FS_CardinalityType DEF VerifiedIsFinite
<1>2. CASE VerifiedIn(records', kind) = VerifiedIn(records, kind)
  BY <1>1, <1>2
<1>3. CASE \E x : VerifiedIn(records', kind) = VerifiedIn(records, kind) \cup {x}
  BY <1>1, <1>3, FS_AddElement
<1>4. ASSUME NEW id \in Mission, NEW run \in Run, RunEnds(id, run)
      PROVE  \/ VerifiedIn(records', kind) = VerifiedIn(records, kind)
             \/ \E x : VerifiedIn(records', kind) = VerifiedIn(records, kind) \cup {x}
  <2>1. PICK n : VerifiedIn(records', kind) =
                    VerifiedIn(records, kind)
                      \cup IF run = [result |-> "verified_complete", kind |-> kind]
                           THEN {<<id, n>>} ELSE {}
    BY <1>4, RunEndsVerified
  <2> QED BY <2>1
<1>5. ASSUME NEW id \in Mission, NEW action \in Decisions, IsDecided(id, action)
      PROVE  VerifiedIn(records', kind) = VerifiedIn(records, kind)
  BY <1>5, DecidedVerified
<1> QED BY <1>2, <1>3, <1>4, <1>5, RecordSteps

(* What the review of one record says.                                     *)
ReviewFits(record) ==
    /\ record.operator_review = "approved" => Status(record) = "verified_complete"
    /\ record.operator_review = "rejected" =>
          Status(record) \in {"verified_complete", "verification_failed"}
    /\ record.operator_review = "cancelled" <=> record.status_override = "rejected"

LEMMA NewReview ==
    ASSUME NEW existing \in MissionRecord \cup {NoRecord}, NEW run \in Run, NEW autonomy \in Autonomy,
           autonomy.auto_approved => run.result = "verified_complete"
    PROVE  ReviewFits(NewRecord(existing, run, autonomy))
<1> DEFINE row == NewRecord(existing, run, autonomy)
<1>1. /\ row.operator_review = IF autonomy.auto_approved THEN "approved" ELSE "pending"
      /\ row.status_override = "none"
  BY DEF NewRecord
<1>2. Status(row) = run.result
  BY NewRecordType
<1> HIDE DEF row
<1>3. ReviewFits(row)
  BY <1>1, <1>2 DEF ReviewFits
<1> QED BY <1>3 DEF row

LEMMA DecidedReview ==
    ASSUME NEW record \in MissionRecord, NEW action \in Decisions,
           ReviewFits(record), action \in AllowedActions(record)
    PROVE  ReviewFits(DecidedRecord(record, action))
<1> DEFINE row == DecidedRecord(record, action)
<1>1. /\ row.runs = record.runs
      /\ row.operator_review = ReviewAfter(action)
      /\ row.status_override = IF action = "cancel_mission" THEN "rejected" ELSE record.status_override
  BY DecidedRecordType
<1>2. record.status_override \in {"none", "rejected"}
  BY DEF MissionRecord
<1> HIDE DEF row
<1>3. ASSUME action = "cancel_mission" PROVE ReviewFits(row)
  BY <1>1, <1>3 DEF ReviewFits, ReviewAfter, Status
<1>4. ASSUME action \in {"approve_verdict", "reject_verdict"} PROVE ReviewFits(row)
  <2>1. Status(record) \in {"verified_complete", "verification_failed"}
    BY <1>4 DEF AllowedActions
  <2>2. record.status_override = "none"
    BY <1>2, <2>1 DEF Status
  <2>3. Status(row) = Status(record) /\ row.status_override = "none"
    BY <1>1, <1>4, <2>2 DEF Status
  <2>4. action = "approve_verdict" => Status(record) = "verified_complete"
    BY DEF AllowedActions
  <2> QED BY <1>1, <1>4, <2>1, <2>3, <2>4 DEF ReviewFits, ReviewAfter
<1>5. ReviewFits(row)
  BY <1>3, <1>4 DEF Decisions
<1> QED BY <1>5 DEF row

(* What an automatic approval has.                                         *)
AutoApprovalHas(table, record) ==
    record.autonomy.auto_approved /\ record.autonomy.level = "semi_autonomous" =>
        PriorIn(table, Last(record.runs).kind) > record.autonomy.minimum

LEMMA InvariantRows ==
    /\ ReviewFitsStatus <=> \A id \in Mission : records[id] # NoRecord => ReviewFits(records[id])
    /\ AutoApprovalIsRoutine <=>
          \A id \in Mission : records[id] # NoRecord => AutoApprovalHas(records, records[id])
BY DEF ReviewFitsStatus, AutoApprovalIsRoutine, ReviewFits, AutoApprovalHas, Exists,
       PriorVerifiedRuns, PriorIn, VerifiedIn

LEMMA InvariantRowsNext ==
    ASSUME \A id \in Mission : records'[id] # NoRecord =>
               ReviewFits(records'[id]) /\ AutoApprovalHas(records', records'[id])
    PROVE  ReviewFitsStatus' /\ AutoApprovalIsRoutine'
BY DEF ReviewFitsStatus, AutoApprovalIsRoutine, ReviewFits, AutoApprovalHas, Exists,
       PriorVerifiedRuns, PriorIn, VerifiedIn

(* A record whose last run stays the same keeps what it has.               *)
LEMMA ApprovalIsKept ==
    ASSUME TypeOK, RecordsHaveRuns, VerifiedIsFinite, [Next]_vars,
           NEW id \in Mission, records[id] # NoRecord, AutoApprovalHas(records, records[id]),
           records'[id].runs = records[id].runs, records'[id].autonomy = records[id].autonomy
    PROVE  AutoApprovalHas(records', records'[id])
<1> DEFINE kind == Last(records[id].runs).kind
           minimum == records[id].autonomy.minimum
<1>1. /\ records[id] \in MissionRecord /\ records[id].runs # <<>>
      /\ records[id].runs \in Seq(Run)
  BY RecordType DEF RecordsHaveRuns, Exists
<1>2. Last(records[id].runs) \in Run
  BY <1>1 DEF Last
<1>3. kind \in Kind /\ minimum \in Nat
  BY <1>1, <1>2 DEF Run, MissionRecord, Autonomy
<1>4. Last(records'[id].runs).kind = kind
  OBVIOUS
<1> HIDE DEF kind
<1>5. /\ PriorIn(records', kind) >= PriorIn(records, kind)
      /\ PriorIn(records, kind) \in Nat /\ PriorIn(records', kind) \in Nat
  BY <1>3, FiniteIsKept
<1>6. minimum < PriorIn(records, kind) => minimum < PriorIn(records', kind)
  BY <1>3, <1>5
<1> QED BY <1>4, <1>6 DEF AutoApprovalHas, kind

(* A new approval has them from its own run and those before.              *)
LEMMA ApprovalIsEarned ==
    ASSUME TypeOK, VerifiedIsFinite, NEW id \in Mission, NEW run \in Run, RunEnds(id, run)
    PROVE  /\ records'[id] \in MissionRecord
           /\ ReviewFits(records'[id])
           /\ AutoApprovalHas(records', records'[id])
<1> DEFINE autonomy == EvaluateAutonomy(run)
           row == NewRecord(records[id], run, autonomy)
<1>1. records'[id] = row
  BY DEF RunEnds, TypeOK
<1>2. /\ autonomy \in Autonomy
      /\ autonomy.auto_approved => run.result = "verified_complete"
      /\ autonomy.auto_approved /\ autonomy.level = "semi_autonomous" =>
             PriorIn(records, run.kind) >= autonomy.minimum
  BY AutonomyType, PriorRuns
<1>3. records[id] \in MissionRecord \cup {NoRecord}
  BY DEF TypeOK
<1>4. /\ row \in MissionRecord /\ Last(row.runs) = run /\ row.autonomy = autonomy
      /\ ReviewFits(row)
  <2> HIDE DEF autonomy
  <2>1. row.autonomy = autonomy
    BY DEF NewRecord
  <2> QED BY <1>2, <1>3, <2>1, NewRecordType, NewReview
<1>5. run.kind \in Kind /\ run = [result |-> run.result, kind |-> run.kind]
  BY DEF Run
<1>6. ASSUME run.result = "verified_complete"
      PROVE  PriorIn(records', run.kind) = PriorIn(records, run.kind) + 1 /\ PriorIn(records, run.kind) \in Nat
  <2>1. PICK n : /\ <<id, n>> \notin VerifiedIn(records, run.kind)
                 /\ VerifiedIn(records', run.kind) =
                       VerifiedIn(records, run.kind)
                         \cup IF run = [result |-> "verified_complete", kind |-> run.kind]
                              THEN {<<id, n>>} ELSE {}
    BY <1>5, RunEndsVerified
  <2>2. VerifiedIn(records', run.kind) = VerifiedIn(records, run.kind) \cup {<<id, n>>}
    BY <1>5, <1>6, <2>1
  <2>3. IsFiniteSet(VerifiedIn(records, run.kind))
    BY <1>5 DEF VerifiedIsFinite
  <2> QED BY <2>1, <2>2, <2>3, FS_AddElement, FS_CardinalityType DEF PriorIn
<1>7. autonomy.minimum \in Nat
  BY <1>2 DEF Autonomy
<1> HIDE DEF autonomy, row
<1>8. AutoApprovalHas(records', row)
  BY <1>2, <1>4, <1>6, <1>7 DEF AutoApprovalHas
<1> QED BY <1>1, <1>4, <1>8

(* What is known of every record, its runs, its decisions and the calls in *)
(* progress holds always.                                                  *)
THEOREM Invariance == Spec => []IInv
<1>1. Init => IInv
  <2> SUFFICES ASSUME Init PROVE IInv
    OBVIOUS
  <2>1. records = [id \in Mission |-> NoRecord]
    BY DEF Init
  <2>2. \A id \in Mission : records[id] = NoRecord /\ ~ Exists(id)
    BY <2>1 DEF Exists
  <2>3. TypeOK
    <3>1. IdleCall \in CallState
      BY DEF IdleCall, CallState
    <3> QED BY <2>1, <3>1 DEF Init, TypeOK, Policy, AutonomyLevels
  <2>4. \A kind \in Kind, id \in Mission : VerifiedRuns(records[id], kind) = {}
    <3>1. DOMAIN NoRecord.runs = {}
      BY DEF NoRecord
    <3> QED BY <2>2, <3>1 DEF VerifiedRuns
  <2>5. \A kind \in Kind : VerifiedIn(records, kind) = {}
    BY <2>4, VerifiedArePairs
  <2> QED BY <2>2, <2>3, <2>5, FS_EmptySet
      DEF IInv, RecordsHaveRuns, VerifiedIsFinite, ReviewFitsStatus, AutoApprovalIsRoutine
<1>2. IInv /\ [Next]_vars => IInv'
  <2> SUFFICES ASSUME IInv, [Next]_vars PROVE IInv'
    OBVIOUS
  <2>1. /\ TypeOK /\ RecordsHaveRuns /\ VerifiedIsFinite
        /\ \A id \in Mission : records[id] # NoRecord =>
              ReviewFits(records[id]) /\ AutoApprovalHas(records, records[id])
    BY InvariantRows DEF IInv
  <2>2. TypeOK' /\ RecordsHaveRuns' /\ VerifiedIsFinite'
    <3>1. VerifiedIsFinite'
      BY <2>1, FiniteIsKept DEF VerifiedIsFinite, VerifiedIn, VerifiedRuns
    <3> QED BY <2>1, <3>1, TypesAreKept, RecordsType
  <2>3. ASSUME NEW id \in Mission, records'[id] # NoRecord
        PROVE  ReviewFits(records'[id]) /\ AutoApprovalHas(records', records'[id])
    <3>1. CASE records'[id] = records[id]
      BY <2>1, <2>3, <3>1, ApprovalIsKept
    <3>2. ASSUME NEW run \in Run, RunEnds(id, run)
          PROVE  ReviewFits(records'[id]) /\ AutoApprovalHas(records', records'[id])
      BY <2>1, <3>2, ApprovalIsEarned
    <3>3. ASSUME NEW action \in Decisions, IsDecided(id, action)
          PROVE  ReviewFits(records'[id]) /\ AutoApprovalHas(records', records'[id])
      <4>1. /\ records[id] \in MissionRecord /\ records[id] # NoRecord
            /\ action \in AllowedActions(records[id])
        BY <2>1, <3>3, RecordType, RecordIsThere DEF IsDecided, Allowed
      <4>2. records'[id] = DecidedRecord(records[id], action)
        BY <2>1, <3>3 DEF IsDecided, TypeOK
      <4>3. ReviewFits(records'[id])
        BY <2>1, <4>1, <4>2, DecidedReview
      <4>4. /\ records'[id].runs = records[id].runs
            /\ records'[id].autonomy = records[id].autonomy
        BY <4>1, <4>2, DecidedRecordType
      <4> QED BY <2>1, <4>1, <4>3, <4>4, ApprovalIsKept
    <3>4. ASSUME NEW other \in Mission \ {id}, NEW row, records' = [records EXCEPT ![other] = row]
          PROVE  records'[id] = records[id]
      BY <2>1, <3>4 DEF TypeOK
    <3> QED BY <2>1, <3>1, <3>2, <3>3, <3>4, RecordSteps DEF RunEnds, IsDecided
  <2>4. ReviewFitsStatus' /\ AutoApprovalIsRoutine'
    BY <2>3, InvariantRowsNext
  <2> QED BY <2>2, <2>4 DEF IInv
<1> QED BY <1>1, <1>2, PTL DEF Spec

(* Records, policy and calls keep the shape of their types.                *)
THEOREM TypeCorrect == Spec => []TypeOK
<1>1. IInv => TypeOK
  BY DEF IInv
<1> QED BY <1>1, Invariance, PTL

(* What the review says fits what the mission is, however reruns and       *)
(* decisions follow each other.                                            *)
THEOREM ReviewsFit == Spec => []ReviewFitsStatus
<1>1. IInv => ReviewFitsStatus
  BY DEF IInv
<1> QED BY <1>1, Invariance, PTL

(* A semi-autonomous approval has the prior verified runs it needs.        *)
THEOREM ApprovalsAreRoutine == Spec => []AutoApprovalIsRoutine
<1>1. IInv => AutoApprovalIsRoutine
  BY DEF IInv
<1> QED BY <1>1, Invariance, PTL

-----------------------------------------------------------------------------
(* Nothing is lost from a record.                                          *)

LEMMA PrefixOfItself == ASSUME NEW S, NEW s \in Seq(S) PROVE IsPrefix(s, s)
BY DEF IsPrefix

LEMMA PrefixOfAppend ==
    ASSUME NEW S, NEW s \in Seq(S), NEW e \in S
    PROVE  IsPrefix(s, Append(s, e))
<1> DEFINE t == Append(s, e)
           n == Len(s)
<1>1. /\ n \in Nat /\ t \in Seq(S) /\ Len(t) = n + 1
      /\ \A i \in 1..n : t[i] = s[i]
  OBVIOUS
<1>2. /\ SubSeq(s, 1, n) = [i \in 1..n |-> s[i]]
      /\ SubSeq(t, 1, n) = [i \in 1..n |-> t[i]]
  BY <1>1
<1>3. SubSeq(s, 1, n) = SubSeq(t, 1, n)
  BY <1>1, <1>2
<1> QED BY <1>1, <1>3 DEF IsPrefix

(* No run and no decision of the operator is ever lost from a record.      *)
THEOREM NothingIsLost == Spec => HistoryIsKept
<1>1. IInv /\ [Next]_vars
      => [\A id \in Mission : Exists(id) =>
            /\ IsPrefix(records[id].runs, records'[id].runs)
            /\ IsPrefix(records[id].operator_events, records'[id].operator_events)]_vars
  <2> SUFFICES ASSUME IInv, [Next]_vars, NEW id \in Mission, Exists(id)
               PROVE  /\ IsPrefix(records[id].runs, records'[id].runs)
                      /\ IsPrefix(records[id].operator_events, records'[id].operator_events)
    OBVIOUS
  <2>1. /\ records[id] \in MissionRecord /\ TypeOK
        /\ records[id].runs \in Seq(Run) /\ records[id].operator_events \in Seq(Decisions)
    BY RecordType DEF IInv, MissionRecord
  <2>2. CASE records'[id] = records[id]
    BY <2>1, <2>2, PrefixOfItself
  <2>3. ASSUME NEW run \in Run, RunEnds(id, run)
        PROVE  /\ IsPrefix(records[id].runs, records'[id].runs)
               /\ IsPrefix(records[id].operator_events, records'[id].operator_events)
    <3>1. records'[id] = NewRecord(records[id], run, EvaluateAutonomy(run))
      BY <2>1, <2>3 DEF RunEnds, TypeOK
    <3>2. /\ records'[id].runs = Append(records[id].runs, run)
          /\ records'[id].operator_events = records[id].operator_events
      BY <2>1, <3>1, RecordIsThere DEF NewRecord
    <3> QED BY <2>1, <3>2, PrefixOfItself, PrefixOfAppend
  <2>4. ASSUME NEW action \in Decisions, IsDecided(id, action)
        PROVE  /\ IsPrefix(records[id].runs, records'[id].runs)
               /\ IsPrefix(records[id].operator_events, records'[id].operator_events)
    <3>1. records'[id] = DecidedRecord(records[id], action)
      BY <2>1, <2>4 DEF IsDecided, TypeOK
    <3>2. /\ records'[id].runs = records[id].runs
          /\ records'[id].operator_events = Append(records[id].operator_events, action)
      <4>1. records[id] \in MissionRecord
        BY <2>1
      <4>2. /\ DecidedRecord(records[id], action).runs = records[id].runs
            /\ DecidedRecord(records[id], action).operator_events =
                  Append(records[id].operator_events, action)
        BY <4>1, DecidedRecordType
      <4> QED BY <3>1, <4>2
    <3> QED BY <2>1, <3>2, PrefixOfItself, PrefixOfAppend
  <2>5. ASSUME NEW other \in Mission \ {id}, NEW row, records' = [records EXCEPT ![other] = row]
        PROVE  records'[id] = records[id]
    BY <2>1, <2>5 DEF TypeOK
  <2> QED BY <2>1, <2>2, <2>3, <2>4, <2>5, RecordSteps DEF RunEnds, IsDecided
<1> QED BY <1>1, Invariance, PTL DEF HistoryIsKept, Spec

-----------------------------------------------------------------------------
(* The stop, in the control room's own interface.                          *)

(* Who starts a mission through the control room's interface looks at the  *)
(* stop when it starts.  A chat message does not, and neither does an item *)
(* of the queue whose tick has begun.                                      *)
THEOREM InterfaceObeysTheStop ==
    ASSUME Chat = {}, Background = {} PROVE Spec => NoMissionStartsWhileStopped
<1>1. IInv /\ [Next]_vars
      => [\A c \in Call :
            calls[c].step # "running" /\ calls'[c].step = "running" => ~ emergency_stop]_vars
  <2> SUFFICES ASSUME IInv, Next, NEW c \in Call, emergency_stop, calls[c].step # "running"
               PROVE  calls'[c].step # "running"
    OBVIOUS
  <2>1. calls \in [Call -> CallState]
    BY DEF IInv, TypeOK
  <2>2. IdleCall.step = "idle"
    BY DEF IdleCall
  <2>3. ASSUME NEW d \in Operator, RequestLaunch(d) \/ AdmitLaunch(d) \/ \E id \in Mission : RequestRerun(d, id)
        PROVE  calls'[c].step # "running"
    <3>1. CASE AdmitLaunch(d)
      <4>1. calls' = [calls EXCEPT ![d] = IdleCall]
        BY <3>1 DEF AdmitLaunch
      <4> QED BY <2>1, <2>2, <4>1
    <3> QED BY <2>3, <3>1 DEF RequestLaunch, RequestRerun
  <2>4. ASSUME NEW d \in Call, FinishRun(d) PROVE calls'[c].step # "running"
    BY <2>1, <2>2, <2>4 DEF FinishRun, Finish
  <2>5. ASSUME NEW d \in Call, FailRun(d) PROVE calls'[c].step # "running"
    <3>1. calls' = [calls EXCEPT ![d] = IdleCall]
      BY <2>5 DEF FailRun
    <3> QED BY <2>1, <2>2, <3>1
  <2>6. CASE Restart
    BY <2>2, <2>6 DEF Restart
  <2>7. CASE UpdateAutonomyPolicy \/ ActivateStop \/ ResumeExecution
    BY <2>7 DEF UpdateAutonomyPolicy, ActivateStop, ResumeExecution
  <2>8. ASSUME NEW id \in Mission, NEW action \in Decisions, Decide(id, action)
        PROVE  calls'[c].step # "running"
    BY <2>8 DEF Decide
  <2> QED BY <2>3, <2>4, <2>5, <2>6, <2>7, <2>8 DEF Next
<1> QED BY <1>1, Invariance, PTL DEF NoMissionStartsWhileStopped, Spec

-----------------------------------------------------------------------------
(* Cancellations.                                                          *)

(* What a rerun finds when it ends: the mission has not come into a state  *)
(* in which it could be cancelled, and where it had been cancelled before, *)
(* nothing more was decided.                                               *)
RerunsKnowCancellations ==
    \A c \in Call : calls[c].step = "running" /\ calls[c].mission # NoMission =>
        LET id == calls[c].mission
        IN  /\ Exists(id)
            /\ Status(records[id]) # "in_progress"
            /\ records[id].status_override = "rejected" =>
                   calls[c].record.operator_events = records[id].operator_events

(* The end of a rerun: the record of its mission, which exists, gets a     *)
(* verdict or a refusal, and no override.                                  *)
LEMMA RerunEnds ==
    ASSUME TypeOK, NEW d \in Call, FinishRun(d), NEW id \in Mission, Exists(id),
           records'[id] # records[id]
    PROVE  /\ calls[d].step = "running" /\ calls[d].mission = id /\ id # NoMission
           /\ calls'[d] = IdleCall
           /\ \A c \in Call \ {d} : calls'[c] = calls[c]
           /\ records'[id] # NoRecord /\ records'[id].status_override = "none"
           /\ Status(records'[id]) # "in_progress"
<1>1. PICK run \in Run : /\ run.result = "in_progress" => calls[d].mission = NoMission
                         /\ Finish(d, run)
  BY DEF FinishRun, Finish
<1>2. PICK other \in Mission :
          /\ IF calls[d].mission = NoMission THEN ~ Exists(other) ELSE other = calls[d].mission
          /\ PersistRun(other, calls[d].record, run)
  BY <1>1 DEF Finish
<1> DEFINE row == NewRecord(records[other], run, EvaluateAutonomy(run))
<1>3. records' = [records EXCEPT ![other] = row]
  BY <1>2 DEF PersistRun, NewRecord, Exists
<1>4. /\ row \in MissionRecord /\ Status(row) = run.result /\ row.status_override = "none"
  <2>1. records[other] \in MissionRecord \cup {NoRecord} /\ EvaluateAutonomy(run) \in Autonomy
    BY AutonomyType DEF TypeOK
  <2>2. NewRecord(records[other], run, EvaluateAutonomy(run)).status_override = "none"
    BY DEF NewRecord
  <2> QED BY <2>1, <2>2, NewRecordType
<1> HIDE DEF row
<1>5. other = id
  BY <1>3 DEF TypeOK
<1>6. calls[d].mission = id /\ id # NoMission
  BY <1>2, <1>5, ControlRoomAssumption
<1>7. records'[id] = row
  BY <1>3, <1>5 DEF TypeOK
<1>8. /\ calls[d].step = "running" /\ calls' = [calls EXCEPT ![d] = IdleCall]
  BY <1>1 DEF Finish
<1>9. calls'[d] = IdleCall /\ \A c \in Call \ {d} : calls'[c] = calls[c]
  BY <1>8 DEF TypeOK
<1> QED BY <1>1, <1>4, <1>6, <1>7, <1>8, <1>9, RecordIsThere

LEMMA CancellationsStayKnown ==
    ASSUME IInv, RerunsKnowCancellations, [Next]_vars PROVE RerunsKnowCancellations'
<1> SUFFICES ASSUME NEW c \in Call, calls'[c].step = "running", calls'[c].mission # NoMission
             PROVE  LET id == calls'[c].mission
                    IN  /\ records'[id] # NoRecord
                        /\ Status(records'[id]) # "in_progress"
                        /\ records'[id].status_override = "rejected" =>
                               calls'[c].record.operator_events = records'[id].operator_events
  BY DEF RerunsKnowCancellations, Exists, Status
<1> DEFINE id == calls'[c].mission
           Goal == /\ records'[id] # NoRecord
                   /\ Status(records'[id]) # "in_progress"
                   /\ records'[id].status_override = "rejected" =>
                          calls'[c].record.operator_events = records'[id].operator_events
<1>1. /\ TypeOK /\ calls \in [Call -> CallState] /\ Operator \subseteq Call
      /\ Chat \subseteq Call /\ Background \subseteq Call
  BY DEF IInv, TypeOK, Call
<1>2. IdleCall.step = "idle" /\ Launching.mission = NoMission
  BY DEF IdleCall, Launching
<1>3. ASSUME calls'[c] = calls[c], records'[calls[c].mission] = records[calls[c].mission]
      PROVE  Goal
  BY <1>3 DEF RerunsKnowCancellations, Exists
<1>4. ASSUME NEW d \in Call, NEW other \in Mission,
             NEW action \in {"retry_mission", "resume_mission"}, BeginRerun(d, other, action)
      PROVE  Goal
  <2>1. records' = records /\ (c # d => calls'[c] = calls[c])
    BY <1>1, <1>4 DEF BeginRerun
  <2>2. CASE c # d
    BY <1>3, <2>1, <2>2
  <2>3. CASE c = d
    <3>1. calls'[c] = [step |-> "running", mission |-> other, record |-> records[other]]
      BY <1>1, <1>4, <2>3 DEF BeginRerun
    <3>2. records[other] # NoRecord /\ action \in AllowedActions(records[other])
      BY <1>4 DEF BeginRerun, Allowed, Exists
    <3>3. Status(records[other]) # "in_progress"
      BY <3>2 DEF AllowedActions
    <3> QED BY <2>1, <3>1, <3>2, <3>3
  <2> QED BY <2>2, <2>3
<1>5. ASSUME NEW other \in Mission, NEW action \in Decisions, Decide(other, action) PROVE Goal
  <2>1. /\ calls' = calls /\ IsDecided(other, action)
        /\ action \in AllowedActions(records[other]) /\ records[other] \in MissionRecord
    <3>1. /\ calls' = calls /\ action \in AllowedActions(records[other])
          /\ records[other] \in MissionRecord
      BY <1>1, <1>5, RecordType DEF Decide, Allowed
    <3> QED BY <1>5, <3>1 DEF Decide, DecidedRecord, IsDecided
  <2>2. /\ records[id] # NoRecord /\ Status(records[id]) # "in_progress"
        /\ records[id].status_override = "rejected" =>
               calls[c].record.operator_events = records[id].operator_events
    BY <2>1 DEF RerunsKnowCancellations, Exists
  <2>3. CASE other # id
    <3>1. records'[id] = records[id]
      BY <1>1, <2>1, <2>3 DEF IsDecided, TypeOK
    <3> QED BY <2>1, <2>2, <3>1
  <2>4. CASE other = id
    <3>1. records'[id] = DecidedRecord(records[id], action)
      BY <1>1, <2>1, <2>4 DEF IsDecided, TypeOK
    <3>2. action # "cancel_mission"
      BY <2>1, <2>2, <2>4 DEF AllowedActions
    <3>3. records[id].status_override = "none"
      <4>1. Status(records[id]) # "rejected"
        BY <2>1, <2>4, <3>2 DEF AllowedActions, Decisions
      <4>2. records[id].status_override \in {"none", "rejected"}
        BY <2>1, <2>4 DEF MissionRecord
      <4> QED BY <4>1, <4>2 DEF Status
    <3>4. records[id] \in MissionRecord
      BY <2>1, <2>4
    <3>5. /\ DecidedRecord(records[id], action).runs = records[id].runs
          /\ DecidedRecord(records[id], action).status_override = "none"
          /\ DecidedRecord(records[id], action) \in MissionRecord
      BY <3>2, <3>3, <3>4, DecidedRecordType
    <3>6. Status(records'[id]) = Status(records[id])
      BY <3>1, <3>3, <3>5 DEF Status
    <3> QED BY <2>2, <3>1, <3>5, <3>6, RecordIsThere
  <2> QED BY <2>3, <2>4
<1>6. ASSUME NEW d \in Call, FinishRun(d) PROVE Goal
  <2>1. /\ calls'[d] = IdleCall
        /\ c # d => calls'[c] = calls[c]
    BY <1>1, <1>6 DEF FinishRun, Finish
  <2>2. c # d
    BY <1>2, <2>1
  <2>3. calls[c].mission \in Mission /\ Exists(calls[c].mission)
    BY <1>1, <2>1, <2>2 DEF CallState, RerunsKnowCancellations
  <2>4. CASE records'[calls[c].mission] = records[calls[c].mission]
    BY <1>3, <2>1, <2>2, <2>4
  <2>5. CASE records'[calls[c].mission] # records[calls[c].mission]
    <3>1. /\ records'[calls[c].mission] # NoRecord
          /\ records'[calls[c].mission].status_override = "none"
          /\ Status(records'[calls[c].mission]) # "in_progress"
      BY <1>1, <1>6, <2>3, <2>5, RerunEnds
    <3> QED BY <2>1, <2>2, <3>1
  <2> QED BY <2>4, <2>5
<1>7. ASSUME NEW d \in Call, ChatMission(d) \/ BackgroundMission(d) \/ FailRun(d) PROVE Goal
  <2>1. /\ calls'[d] \in {IdleCall, Launching} /\ records' = records
        /\ c # d => calls'[c] = calls[c]
    BY <1>1, <1>7 DEF ChatMission, BackgroundMission, FailRun
  <2> QED BY <1>2, <1>3, <2>1
<1>8. ASSUME NEW d \in Call, RequestLaunch(d) \/ AdmitLaunch(d) PROVE Goal
  <2>1. /\ calls'[d].step = "admitted" \/ calls'[d] \in {IdleCall, Launching}
        /\ records' = records
        /\ c # d => calls'[c] = calls[c]
    <3>1. calls[d] \in CallState
      BY <1>1
    <3>2. ASSUME RequestLaunch(d) PROVE calls'[d].step = "admitted"
      BY <1>1, <3>1, <3>2 DEF RequestLaunch, CallState
    <3>3. ASSUME AdmitLaunch(d) PROVE calls'[d] \in {IdleCall, Launching}
      BY <1>1, <3>1, <3>3 DEF AdmitLaunch
    <3>4. records' = records /\ (c # d => calls'[c] = calls[c])
      BY <1>1, <1>8 DEF RequestLaunch, AdmitLaunch
    <3> QED BY <1>8, <3>2, <3>3, <3>4
  <2> QED BY <1>2, <1>3, <2>1
<1>9. ASSUME Restart PROVE FALSE
  BY <1>2, <1>9 DEF Restart
<1>10. ASSUME UpdateAutonomyPolicy \/ ActivateStop \/ ResumeExecution \/ UNCHANGED vars PROVE Goal
  BY <1>3, <1>10 DEF UpdateAutonomyPolicy, ActivateStop, ResumeExecution, vars
<1> HIDE DEF Goal
<1>11. Goal
  BY <1>1, <1>4, <1>5, <1>6, <1>7, <1>8, <1>9, <1>10
     DEF Next, RequestRerun, BackgroundRetry
<1> QED BY <1>11 DEF Goal

(* A cancellation ends only with a rerun that began after it.              *)
THEOREM CancellationHolds == Spec => OverrideHolds
<1>1. Init => RerunsKnowCancellations
  BY DEF Init, RerunsKnowCancellations, IdleCall
<1>2. IInv /\ RerunsKnowCancellations /\ [Next]_vars => RerunsKnowCancellations'
  BY CancellationsStayKnown
<1>3. IInv /\ RerunsKnowCancellations /\ [Next]_vars
      => [\A id \in Mission :
            Exists(id) /\ records[id].status_override = "rejected"
               /\ records'[id].status_override = "none"
            => \E c \in Call :
                  /\ calls[c].mission = id /\ calls'[c] = IdleCall
                  /\ calls[c].record.operator_events = records[id].operator_events]_vars
  <2> SUFFICES ASSUME IInv, RerunsKnowCancellations, Next, NEW id \in Mission,
                      Exists(id), records[id].status_override = "rejected",
                      records'[id].status_override = "none"
               PROVE  \E c \in Call :
                         /\ calls[c].mission = id /\ calls'[c] = IdleCall
                         /\ calls[c].record.operator_events = records[id].operator_events
    OBVIOUS
  <2>1. TypeOK /\ records[id] \in MissionRecord
    BY RecordType DEF IInv
  <2>2. records'[id] # records[id]
    OBVIOUS
  <2>3. ASSUME NEW c \in Call, FinishRun(c)
        PROVE  /\ calls[c].mission = id /\ calls'[c] = IdleCall
               /\ calls[c].record.operator_events = records[id].operator_events
    <3>1. /\ calls[c].step = "running" /\ calls[c].mission = id /\ id # NoMission
          /\ calls'[c] = IdleCall
      BY <2>1, <2>2, <2>3, RerunEnds
    <3> QED BY <3>1 DEF RerunsKnowCancellations
  <2>4. ASSUME NEW other \in Mission, NEW action \in Decisions, Decide(other, action) PROVE FALSE
    <3>1. records[other] \in MissionRecord
      BY <2>1, <2>4, RecordType DEF Decide, Allowed
    <3>2. records' = [records EXCEPT ![other] = DecidedRecord(records[other], action)]
      BY <2>4 DEF Decide, DecidedRecord
    <3>3. DecidedRecord(records[other], action).status_override =
              IF action = "cancel_mission" THEN "rejected" ELSE records[other].status_override
      BY <3>1, DecidedRecordType
    <3>4. CASE other = id
      BY <2>1, <3>2, <3>3, <3>4 DEF TypeOK
    <3>5. CASE other # id
      BY <2>1, <2>2, <3>2, <3>5 DEF TypeOK
    <3> QED BY <3>4, <3>5
  <2>5. ASSUME \/ \E c \in Operator : RequestLaunch(c) \/ AdmitLaunch(c) \/ \E d \in Mission : RequestRerun(c, d)
               \/ \E c \in Chat : ChatMission(c)
               \/ \E c \in Background : BackgroundMission(c) \/ \E d \in Mission : BackgroundRetry(c, d)
               \/ \E c \in Call : FailRun(c)
               \/ UpdateAutonomyPolicy \/ ActivateStop \/ ResumeExecution \/ Restart
        PROVE  FALSE
    BY <2>2, <2>5 DEF RequestLaunch, AdmitLaunch, RequestRerun, BeginRerun, ChatMission,
       BackgroundMission, BackgroundRetry, FailRun, UpdateAutonomyPolicy, ActivateStop,
       ResumeExecution, Restart
  <2> QED BY <2>3, <2>4, <2>5 DEF Next
<1> QED BY <1>1, <1>2, <1>3, Invariance, PTL DEF OverrideHolds, Spec

=============================================================================
