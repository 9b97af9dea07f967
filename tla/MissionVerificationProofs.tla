---------------------- MODULE MissionVerificationProofs ----------------------
(***************************************************************************)
(* Proofs about MissionVerification.  The first part is about any number   *)
(* of manager runs and clients, over all their interleavings and failures. *)
(* The second part adds what breaks as soon as two manager runs of one     *)
(* mission overlap, and assumes one manager run at a time.                 *)
(***************************************************************************)
EXTENDS MissionVerification, TLAPS

Pending == {"saving", "saved", "started"}

(* A call in progress knows the outcome it has saved; a client's is about  *)
(* to end, on a mission that is public.                                    *)
CallsAreSound ==
    \A c \in Caller : callers[c].step \in Pending =>
        /\ callers[c].mission \in Mission
        /\ callers[c].outcome \in DOMAIN outcomes
        /\ outcomes[callers[c].outcome].mission = callers[c].mission
        /\ outcomes[callers[c].outcome].verdict = callers[c].verdict
        /\ callers[c].status # "draft"
        /\ c \in Manager =>
              callers[c].verdict \in Verdicts /\ callers[c].status = "in_progress"
        /\ c \notin Manager =>
              callers[c].mission \in Public /\ callers[c].step = "saving"

(* Only missions that have an outcome are ever verified.                   *)
RunsAreSound ==
    \A r \in DOMAIN runs :
        /\ missions[runs[r].mission].latest_outcome # NoOutcome
        /\ runs[r].started_at <= now

LatestInRange ==
    \A id \in Mission : missions[id].latest_outcome \in {NoOutcome} \cup DOMAIN outcomes

IInv ==
    /\ TypeOK
    /\ CallsAreSound
    /\ RunsAreSound
    /\ LatestInRange
    /\ OutcomeIsOwn
    /\ StatusMatchesProof

(* One manager run at a time.                                              *)
OneManager == \A m, n \in Manager : m = n

(* The mission that the manager run works on says what the run has done,   *)
(* as far as no client writes it.                                          *)
MissionFollowsManager ==
    \A m \in Manager :
        callers[m].step \in {"saved", "started"} /\ callers[m].mission \notin Public =>
            LET row == missions[callers[m].mission]
            IN  /\ row.latest_outcome = callers[m].outcome
                /\ row.status = IF callers[m].step = "saved" THEN "in_progress"
                                ELSE "awaiting_verification"

(* The manager run that saves or has saved was started after the last      *)
(* verification, and the one it starts is the latest.                      *)
LastRunIsOld ==
    \A m \in Manager, r \in DOMAIN runs :
        callers[m].step \in {"idle", "saving", "saved"} /\ runs[r].mission \notin Public
            => runs[r].started_at < now

OpenRunIsLatest ==
    \A r \in DOMAIN runs : runs[r].mission \notin Public /\ runs[r].status = "running" =>
        IsLatest(r, runs[r].mission)

IInvOne == MissionFollowsManager /\ StampIsEarned

IInvSure == LastRunIsOld /\ OpenRunHasOwner /\ OpenRunIsLatest

-----------------------------------------------------------------------------
(* The latest run of a mission, as an operator on the table.               *)

RunsIn(table, id) == {r \in DOMAIN table : table[r].mission = id}

LatestIn(table, r, id) ==
    /\ r \in RunsIn(table, id)
    /\ \A q \in RunsIn(table, id) :
          \/ table[q].started_at < table[r].started_at
          \/ table[q].started_at = table[r].started_at /\ q >= r

ProofIn(table, id, status) ==
    \E r \in DOMAIN table :
        /\ LatestIn(table, r, id)
        /\ table[r].status = status
        /\ status = "verified_complete" => table[r].evidence > 0 /\ table[r].checks # "failed"

LEMMA LatestIsLatestIn ==
    ASSUME NEW r, NEW id
    PROVE  /\ IsLatest(r, id) <=> LatestIn(runs, r, id)
           /\ IsLatest(r, id)' <=> LatestIn(runs', r, id)
BY DEF IsLatest, LatestIn, RunsOf, RunsIn

LEMMA StatusIsProofIn ==
    /\ StatusMatchesProof <=>
          \A id \in Mission \ Public : missions[id].status \in Verdicts =>
              ProofIn(runs, id, missions[id].status)
    /\ StatusMatchesProof' <=>
          \A id \in Mission \ Public : missions'[id].status \in Verdicts =>
              ProofIn(runs', id, missions'[id].status)
BY DEF StatusMatchesProof, ProofIn, LatestIn, IsLatest, RunsOf, RunsIn

LEMMA OneLatest ==
    ASSUME NEW table \in Seq(Run), NEW id, NEW q, NEW r,
           LatestIn(table, q, id), LatestIn(table, r, id)
    PROVE  q = r
<1>1. /\ q \in 1 .. Len(table) /\ r \in 1 .. Len(table)
      /\ table[q].started_at \in Nat /\ table[r].started_at \in Nat
  <2>1. q \in DOMAIN table /\ r \in DOMAIN table
    BY DEF LatestIn, RunsIn
  <2>2. DOMAIN table = 1 .. Len(table) /\ table[q] \in Run /\ table[r] \in Run
    BY <2>1
  <2> QED
    BY <2>1, <2>2 DEF Run
<1> QED
  BY <1>1 DEF LatestIn

(* A row is appended to a table.                                           *)
LEMMA Appended ==
    ASSUME NEW S, NEW table \in Seq(S), NEW row \in S
    PROVE  LET longer == Append(table, row)
               n == Len(table) + 1
           IN  /\ longer \in Seq(S)
               /\ n \in Nat \ {0}
               /\ DOMAIN table = 1 .. Len(table)
               /\ DOMAIN longer = DOMAIN table \cup {n}
               /\ n \notin DOMAIN table
               /\ \A r \in DOMAIN table : r < n
               /\ longer[n] = row
               /\ \A r \in DOMAIN table : longer[r] = table[r]
<1>1. /\ Append(table, row) \in Seq(S)
      /\ Len(table) \in Nat
      /\ DOMAIN table = 1 .. Len(table)
      /\ DOMAIN Append(table, row) = 1 .. Len(table) + 1
      /\ Append(table, row)[Len(table) + 1] = row
      /\ \A r \in 1 .. Len(table) : Append(table, row)[r] = table[r]
  OBVIOUS
<1> QED
  BY <1>1

(* A run of another mission does not touch a proof.                        *)
LEMMA ProofOutlivesAppend ==
    ASSUME NEW table \in Seq(Run), NEW row \in Run, NEW id, row.mission # id, NEW status,
           ProofIn(table, id, status)
    PROVE  ProofIn(Append(table, row), id, status)
<1> DEFINE longer == Append(table, row)
           n == Len(table) + 1
<1>1. /\ DOMAIN longer = DOMAIN table \cup {n}
      /\ n \notin DOMAIN table
      /\ longer[n] = row
      /\ \A r \in DOMAIN table : longer[r] = table[r]
  BY Appended
<1> HIDE DEF longer, n
<1>2. RunsIn(longer, id) = RunsIn(table, id)
  BY <1>1 DEF RunsIn
<1>3. RunsIn(table, id) \subseteq DOMAIN table
  BY DEF RunsIn
<1>4. \A r : LatestIn(table, r, id) => LatestIn(longer, r, id)
  BY <1>1, <1>2, <1>3 DEF LatestIn
<1>5. ProofIn(longer, id, status)
  BY <1>1, <1>3, <1>4 DEF ProofIn, LatestIn
<1> QED
  BY <1>5 DEF longer

Completed(run, verdict, evidence, checks) ==
    [run EXCEPT !.status = verdict, !.evidence = evidence, !.checks = checks]

CompletedTable(table, r, verdict, evidence, checks) ==
    [table EXCEPT ![r].status = verdict, ![r].evidence = evidence, ![r].checks = checks]

(* The table after run r has ended, and nothing else.                      *)
EndsRun(after, table, r, verdict, evidence, checks) ==
    /\ after \in Seq(Run)
    /\ DOMAIN after = DOMAIN table
    /\ \A q \in DOMAIN table : q # r => after[q] = table[q]
    /\ after[r].mission = table[r].mission
    /\ after[r].started_at = table[r].started_at
    /\ after[r].status = verdict
    /\ after[r].evidence = evidence
    /\ after[r].checks = checks

LEMMA CompletedRun ==
    ASSUME NEW table \in Seq(Run), NEW r \in DOMAIN table, NEW verdict \in Verdicts,
           NEW evidence \in Nat, NEW checks \in CheckResults
    PROVE  EndsRun(CompletedTable(table, r, verdict, evidence, checks),
                   table, r, verdict, evidence, checks)
<1> DEFINE after == CompletedTable(table, r, verdict, evidence, checks)
           row == Completed(table[r], verdict, evidence, checks)
<1>1. table[r] \in Run
  OBVIOUS
<1>2. /\ row \in Run
      /\ row.mission = table[r].mission /\ row.started_at = table[r].started_at
      /\ row.status = verdict /\ row.evidence = evidence /\ row.checks = checks
  BY <1>1 DEF Completed, Run
<1>3. after = [table EXCEPT ![r] = row]
  BY DEF Completed, CompletedTable
<1> HIDE DEF after, row
<1>4. /\ after \in Seq(Run)
      /\ DOMAIN after = DOMAIN table
      /\ after[r] = row
      /\ \A q \in DOMAIN table : q # r => after[q] = table[q]
  BY <1>2, <1>3
<1>5. EndsRun(after, table, r, verdict, evidence, checks)
  BY <1>2, <1>4 DEF EndsRun
<1> QED
  BY <1>5 DEF after

LEMMA LatestOutlivesCompletion ==
    ASSUME NEW table, NEW after, DOMAIN after = DOMAIN table,
           \A q \in DOMAIN table : /\ after[q].mission = table[q].mission
                                   /\ after[q].started_at = table[q].started_at,
           NEW r, NEW id
    PROVE  LatestIn(after, r, id) <=> LatestIn(table, r, id)
<1>1. RunsIn(after, id) = RunsIn(table, id) /\ RunsIn(table, id) \subseteq DOMAIN table
  BY DEF RunsIn
<1> QED
  BY <1>1 DEF LatestIn

-----------------------------------------------------------------------------
(* What the operations do.                                                 *)

LEMMA Ensured ==
    ASSUME TypeOK, NEW id \in Mission, NEW status \in Statuses
    PROVE  /\ EnsuredStatus(id, status) \in Statuses
           /\ EnsuredStatus(id, status) \in Verdicts =>
                 EnsuredStatus(id, status) = missions[id].status
           /\ EnsuredStatus(id, status) \notin {"absent", "draft"} =>
                 missions[id].status \notin {"absent", "draft"}
<1>1. missions[id].status \in Statuses \cup {"absent"}
  BY DEF TypeOK, MissionRow
<1> QED
  BY <1>1 DEF EnsuredStatus, Exists, Statuses, Verdicts

(* ensureMission changes no more of a mission than a status that is not a  *)
(* verdict.                                                                *)
LEMMA EnsuredMissions ==
    ASSUME IInv, NEW id \in Mission, NEW status \in Statuses,
           missions' = [missions EXCEPT ![id].status = EnsuredStatus(id, status)]
    PROVE  /\ missions' \in [Mission -> MissionRow]
           /\ \A i \in Mission :
                 /\ missions'[i].latest_outcome = missions[i].latest_outcome
                 /\ missions'[i].status \in Verdicts => missions'[i].status = missions[i].status
                 /\ missions'[i].status \notin {"absent", "draft"} =>
                       missions[i].status \notin {"absent", "draft"}
                 /\ i # id => missions'[i] = missions[i]
<1>1. missions \in [Mission -> MissionRow]
  BY DEF IInv, TypeOK
<1> DEFINE new == EnsuredStatus(id, status)
           row == [missions[id] EXCEPT !.status = new]
<1>2. /\ new \in Statuses
      /\ new \in Verdicts => new = missions[id].status
      /\ new \notin {"absent", "draft"} => missions[id].status \notin {"absent", "draft"}
  BY Ensured DEF IInv
<1>3. missions' = [missions EXCEPT ![id] = row]
  BY <1>1
<1> HIDE DEF new
<1>4. row \in MissionRow /\ row.status = new /\ row.latest_outcome = missions[id].latest_outcome
  BY <1>1, <1>2 DEF MissionRow
<1> HIDE DEF row
<1>5. missions' \in [Mission -> MissionRow] /\ missions'[id] = row
  BY <1>1, <1>3, <1>4
<1>6. \A i \in Mission : i # id => missions'[i] = missions[i]
  BY <1>1, <1>3
<1> QED
  BY <1>2, <1>4, <1>5, <1>6

LEMMA RunsAreTyped ==
    ASSUME TypeOK
    PROVE  /\ \A r \in DOMAIN runs : runs[r] \in Run /\ runs[r].mission \in Mission
           /\ \A n \in DOMAIN outcomes : outcomes[n] \in Outcome
           /\ DOMAIN runs = 1 .. Len(runs)
           /\ DOMAIN outcomes = 1 .. Len(outcomes)
<1>1. /\ \A r \in DOMAIN runs : runs[r] \in Run
      /\ \A n \in DOMAIN outcomes : outcomes[n] \in Outcome
      /\ DOMAIN runs = 1 .. Len(runs)
      /\ DOMAIN outcomes = 1 .. Len(outcomes)
  BY DEF TypeOK
<1>2. \A run \in Run : run.mission \in Mission
  BY DEF Run
<1> QED
  BY <1>1, <1>2

(* Steps that leave the runs alone and give no mission a new verdict.      *)
LEMMA NoNewVerdict ==
    ASSUME IInv, UNCHANGED runs,
           \A i \in Mission \ Public : missions'[i].status \in Verdicts =>
               missions'[i].status = missions[i].status
    PROVE  StatusMatchesProof'
<1>1. \A i \in Mission \ Public : missions[i].status \in Verdicts =>
          ProofIn(runs, i, missions[i].status)
  BY StatusIsProofIn DEF IInv
<1> QED
  BY <1>1, StatusIsProofIn

LEMMA BeginSaveKeepsIInv ==
    ASSUME IInv, NEW c \in Caller, NEW id \in Mission, NEW status \in Statuses \ {"draft"},
           NEW verdict \in Verdicts \cup {"none"}, BeginSave(c, id, status, verdict),
           c \in Manager => verdict \in Verdicts /\ status = "in_progress",
           c \notin Manager => id \in Public
    PROVE  IInv'
<1> DEFINE n == Len(outcomes) + 1
           row == [mission |-> id, verified_by |-> "system_inference", verdict |-> verdict]
           call == [step |-> "saving", mission |-> id, status |-> status,
                    outcome |-> n, verdict |-> verdict]
<1>1. /\ missions' = [missions EXCEPT ![id].status = EnsuredStatus(id, status)]
      /\ outcomes' = Append(outcomes, row)
      /\ callers' = [callers EXCEPT ![c] = call]
      /\ UNCHANGED <<runs, now>>
  BY DEF BeginSave
<1>2. row \in Outcome /\ row.mission = id /\ row.verdict = verdict
  BY DEF Outcome
<1>3. outcomes \in Seq(Outcome) /\ callers \in [Caller -> CallerState] /\ runs \in Seq(Run)
  BY DEF IInv, TypeOK
<1> HIDE DEF row
<1>4. /\ outcomes' \in Seq(Outcome)
      /\ n \in Nat \ {0}
      /\ DOMAIN outcomes' = DOMAIN outcomes \cup {n}
      /\ n \notin DOMAIN outcomes
      /\ outcomes'[n] = row
      /\ \A m \in DOMAIN outcomes : outcomes'[m] = outcomes[m]
  BY <1>1, <1>2, <1>3, Appended
<1> HIDE DEF n
<1>5. /\ missions' \in [Mission -> MissionRow]
      /\ \A i \in Mission :
            /\ missions'[i].latest_outcome = missions[i].latest_outcome
            /\ missions'[i].status \in Verdicts => missions'[i].status = missions[i].status
            /\ missions'[i].status \notin {"absent", "draft"} =>
                  missions[i].status \notin {"absent", "draft"}
  BY <1>1, EnsuredMissions
<1>6. /\ call \in CallerState
      /\ call.step = "saving" /\ call.mission = id /\ call.status = status
      /\ call.outcome = n /\ call.verdict = verdict
  BY <1>4 DEF CallerState, Steps
<1> HIDE DEF call
<1>7. /\ callers' \in [Caller -> CallerState]
      /\ callers'[c] = call
      /\ \A d \in Caller : d # c => callers'[d] = callers[d]
  BY <1>1, <1>3, <1>6
<1>8. TypeOK'
  BY <1>1, <1>4, <1>5, <1>7 DEF IInv, TypeOK
<1>9. CallsAreSound'
  <2> SUFFICES ASSUME NEW d \in Caller, callers'[d].step \in Pending
               PROVE  /\ callers'[d].mission \in Mission
                      /\ callers'[d].outcome \in DOMAIN outcomes'
                      /\ outcomes'[callers'[d].outcome].mission = callers'[d].mission
                      /\ outcomes'[callers'[d].outcome].verdict = callers'[d].verdict
                      /\ callers'[d].status # "draft"
                      /\ d \in Manager => /\ callers'[d].verdict \in Verdicts
                                          /\ callers'[d].status = "in_progress"
                      /\ d \notin Manager =>
                            callers'[d].mission \in Public /\ callers'[d].step = "saving"
    BY DEF CallsAreSound
  <2>1. CASE d = c
    BY <1>2, <1>4, <1>6, <1>7, <2>1
  <2>2. CASE d # c
    BY <1>4, <1>7, <2>2 DEF IInv, CallsAreSound
  <2> QED
    BY <2>1, <2>2
<1>10. \A r \in DOMAIN runs : runs[r].mission \in Mission
  BY RunsAreTyped DEF IInv
<1>11. RunsAreSound' /\ LatestInRange'
  BY <1>1, <1>4, <1>5, <1>10 DEF IInv, RunsAreSound, LatestInRange
<1>12. OutcomeIsOwn'
  BY <1>4, <1>5 DEF IInv, OutcomeIsOwn, LatestInRange
<1>13. StatusMatchesProof'
  BY <1>1, <1>5, NoNewVerdict
<1> QED
  BY <1>8, <1>9, <1>11, <1>12, <1>13 DEF IInv

LEMMA RefuseDraftKeepsIInv ==
    ASSUME IInv, NEW c \in Caller, NEW id \in Mission, RefuseDraft(c, id)
    PROVE  IInv'
<1>1. /\ missions' = [missions EXCEPT ![id].status = EnsuredStatus(id, "draft")]
      /\ UNCHANGED <<outcomes, runs, callers, now>>
  BY DEF RefuseDraft
<1>2. "draft" \in Statuses
  BY DEF Statuses
<1>3. /\ missions' \in [Mission -> MissionRow]
      /\ \A i \in Mission :
            /\ missions'[i].latest_outcome = missions[i].latest_outcome
            /\ missions'[i].status \in Verdicts => missions'[i].status = missions[i].status
            /\ missions'[i].status \notin {"absent", "draft"} =>
                  missions[i].status \notin {"absent", "draft"}
  BY <1>1, <1>2, EnsuredMissions
<1>4. TypeOK'
  BY <1>1, <1>3 DEF IInv, TypeOK
<1>5. CallsAreSound'
  BY <1>1 DEF IInv, CallsAreSound
<1>6. \A r \in DOMAIN runs : runs[r].mission \in Mission
  BY RunsAreTyped DEF IInv
<1>7. RunsAreSound' /\ LatestInRange'
  BY <1>1, <1>3, <1>6 DEF IInv, RunsAreSound, LatestInRange
<1>8. OutcomeIsOwn'
  BY <1>1, <1>3 DEF IInv, OutcomeIsOwn
<1>9. StatusMatchesProof'
  BY <1>1, <1>3, NoNewVerdict
<1> QED
  BY <1>4, <1>5, <1>7, <1>8, <1>9 DEF IInv

LEMMA EndSaveKeepsIInv ==
    ASSUME IInv, NEW c \in Caller, EndSave(c)
    PROVE  IInv'
<1> DEFINE id == callers[c].mission
           row == [status |-> callers[c].status, latest_outcome |-> callers[c].outcome]
           call == IF c \in Manager THEN [callers[c] EXCEPT !.step = "saved"] ELSE IdleCaller
<1>1. /\ callers[c].step = "saving"
      /\ missions' = [missions EXCEPT ![id] = row]
      /\ callers' = [callers EXCEPT ![c] = call]
      /\ UNCHANGED <<outcomes, runs, now>>
  BY DEF EndSave, IInv, TypeOK
<1>2. /\ missions \in [Mission -> MissionRow] /\ callers \in [Caller -> CallerState]
      /\ outcomes \in Seq(Outcome) /\ runs \in Seq(Run)
  BY DEF IInv, TypeOK
<1>3. /\ id \in Mission
      /\ callers[c].outcome \in DOMAIN outcomes
      /\ outcomes[callers[c].outcome].mission = id
      /\ callers[c].status # "draft"
      /\ c \in Manager => callers[c].status = "in_progress"
      /\ c \notin Manager => id \in Public
  BY <1>1 DEF IInv, CallsAreSound, Pending
<1>4. callers[c].outcome # NoOutcome
  BY <1>2, <1>3 DEF NoOutcome
<1>5. /\ row \in MissionRow /\ row.status = callers[c].status
      /\ row.latest_outcome = callers[c].outcome
  BY <1>2 DEF CallerState, MissionRow
<1>6. /\ missions' \in [Mission -> MissionRow]
      /\ missions'[id] = row
      /\ \A i \in Mission : i # id => missions'[i] = missions[i]
  BY <1>1, <1>2, <1>3, <1>5
<1>7. /\ call \in CallerState
      /\ c \notin Manager => call.step \notin Pending
      /\ c \in Manager => call = [callers[c] EXCEPT !.step = "saved"]
  <2>1. callers[c] \in CallerState
    BY <1>2
  <2>2. [callers[c] EXCEPT !.step = "saved"] \in CallerState
    BY <2>1 DEF CallerState, Steps
  <2>3. IdleCaller \in CallerState /\ IdleCaller.step \notin Pending
    BY DEF CallerState, IdleCaller, Steps, Pending, Statuses, NoOutcome
  <2> QED
    BY <2>2, <2>3
<1> HIDE DEF row, call
<1>8. /\ callers' \in [Caller -> CallerState]
      /\ callers'[c] = call
      /\ \A d \in Caller : d # c => callers'[d] = callers[d]
  BY <1>1, <1>2, <1>7
<1>9. TypeOK'
  BY <1>1, <1>6, <1>8 DEF IInv, TypeOK
<1>10. CallsAreSound'
  <2> SUFFICES ASSUME NEW d \in Caller, callers'[d].step \in Pending
               PROVE  /\ callers'[d].mission \in Mission
                      /\ callers'[d].outcome \in DOMAIN outcomes
                      /\ outcomes[callers'[d].outcome].mission = callers'[d].mission
                      /\ outcomes[callers'[d].outcome].verdict = callers'[d].verdict
                      /\ callers'[d].status # "draft"
                      /\ d \in Manager => /\ callers'[d].verdict \in Verdicts
                                          /\ callers'[d].status = "in_progress"
                      /\ d \notin Manager =>
                            callers'[d].mission \in Public /\ callers'[d].step = "saving"
    BY <1>1 DEF CallsAreSound
  <2>1. CASE d = c
    <3>1. c \in Manager
      BY <1>7, <1>8, <2>1
    <3>2. /\ callers'[c].mission = callers[c].mission
          /\ callers'[c].outcome = callers[c].outcome
          /\ callers'[c].verdict = callers[c].verdict
          /\ callers'[c].status = callers[c].status
      BY <1>2, <1>7, <1>8, <3>1 DEF CallerState
    <3>3. callers[c].step \in Pending
      BY <1>1 DEF Pending
    <3> QED
      BY <2>1, <3>1, <3>2, <3>3 DEF IInv, CallsAreSound
  <2>2. CASE d # c
    BY <1>8, <2>2 DEF IInv, CallsAreSound
  <2> QED
    BY <2>1, <2>2
<1>11. RunsAreSound' /\ LatestInRange'
  <2>1. \A r \in DOMAIN runs : runs[r].mission \in Mission
    BY RunsAreTyped DEF IInv
  <2> QED
    BY <1>1, <1>3, <1>4, <1>5, <1>6, <2>1 DEF IInv, RunsAreSound, LatestInRange
<1>12. OutcomeIsOwn'
  BY <1>1, <1>3, <1>4, <1>5, <1>6 DEF IInv, OutcomeIsOwn
<1>13. StatusMatchesProof'
  <2>1. id \notin Public => missions'[id].status \notin Verdicts
    BY <1>3, <1>5, <1>6 DEF Verdicts
  <2> QED
    BY <1>1, <1>6, <2>1, NoNewVerdict
<1> QED
  BY <1>9, <1>10, <1>11, <1>12, <1>13 DEF IInv

(* The tables after startVerification.                                     *)
LEMMA StartKeepsTables ==
    ASSUME IInv, NEW id \in Mission, StartVerification(id), UNCHANGED now
    PROVE  /\ missions' \in [Mission -> MissionRow] /\ runs' \in Seq(Run)
           /\ RunsAreSound' /\ LatestInRange' /\ OutcomeIsOwn' /\ StatusMatchesProof'
           /\ missions'[id].status = "awaiting_verification"
           /\ \A i \in Mission : /\ missions'[i].latest_outcome = missions[i].latest_outcome
                                 /\ i # id => missions'[i] = missions[i]
<1> DEFINE n == Len(runs) + 1
           run == [mission |-> id, status |-> "running", evidence |-> 0,
                   checks |-> "none", started_at |-> now]
           row == [missions[id] EXCEPT !.status = "awaiting_verification"]
<1>1. /\ missions[id].status \notin {"absent", "draft"}
      /\ missions' = [missions EXCEPT ![id] = row]
      /\ runs' = Append(runs, run)
      /\ UNCHANGED outcomes
  BY DEF StartVerification, Exists
<1>2. /\ missions \in [Mission -> MissionRow] /\ runs \in Seq(Run) /\ now \in Nat
  BY DEF IInv, TypeOK
<1>3. run \in Run /\ run.mission = id /\ run.started_at = now /\ run.status = "running"
  BY <1>2 DEF Run, CheckResults
<1>4. /\ row \in MissionRow /\ row.status = "awaiting_verification"
      /\ row.latest_outcome = missions[id].latest_outcome
  BY <1>2 DEF MissionRow, Statuses
<1> HIDE DEF run, row
<1>5. /\ runs' \in Seq(Run)
      /\ DOMAIN runs' = DOMAIN runs \cup {n}
      /\ n \notin DOMAIN runs
      /\ runs'[n] = run
      /\ \A r \in DOMAIN runs : runs'[r] = runs[r]
  BY <1>1, <1>2, <1>3, Appended
<1> HIDE DEF n
<1>6. /\ missions' \in [Mission -> MissionRow]
      /\ missions'[id] = row
      /\ \A i \in Mission : i # id => missions'[i] = missions[i]
  BY <1>1, <1>2, <1>4
<1>7. \A i \in Mission : missions'[i].latest_outcome = missions[i].latest_outcome
  BY <1>4, <1>6
<1>8. RunsAreSound'
  <2>1. missions[id].latest_outcome # NoOutcome
    BY <1>1 DEF IInv, OutcomeIsOwn
  <2>2. \A r \in DOMAIN runs : runs[r].mission \in Mission
    BY RunsAreTyped DEF IInv
  <2>3. now <= now
    BY <1>2
  <2>4. /\ \A r \in DOMAIN runs : /\ missions'[runs[r].mission].latest_outcome # NoOutcome
                                  /\ runs[r].started_at <= now
        /\ missions'[run.mission].latest_outcome # NoOutcome
        /\ run.started_at <= now
    BY <1>3, <1>7, <2>1, <2>2, <2>3 DEF IInv, RunsAreSound
  <2> QED
    BY <1>5, <2>4 DEF RunsAreSound
<1>9. LatestInRange' /\ OutcomeIsOwn'
  BY <1>1, <1>4, <1>6, <1>7 DEF IInv, LatestInRange, OutcomeIsOwn
<1>10. StatusMatchesProof'
  <2> SUFFICES ASSUME NEW i \in Mission \ Public, missions'[i].status \in Verdicts
               PROVE  ProofIn(runs', i, missions'[i].status)
    BY StatusIsProofIn
  <2>1. i # id /\ missions'[i] = missions[i]
    BY <1>4, <1>6 DEF Verdicts
  <2>2. ProofIn(runs, i, missions[i].status)
    BY <2>1, StatusIsProofIn DEF IInv
  <2> QED
    BY <1>1, <1>2, <1>3, <2>1, <2>2, ProofOutlivesAppend
<1> QED
  BY <1>4, <1>5, <1>6, <1>7, <1>8, <1>9, <1>10

(* A caller's state changes to one that is as sound.                       *)
LEMMA CallsStaySound ==
    ASSUME IInv, outcomes' \in Seq(Outcome), DOMAIN outcomes' = DOMAIN outcomes,
           \A n \in DOMAIN outcomes : /\ outcomes'[n].mission = outcomes[n].mission
                                      /\ outcomes'[n].verdict = outcomes[n].verdict,
           \A c \in Caller :
              \/ callers'[c].step \notin Pending
              \/ callers'[c] = callers[c]
              \/ /\ c \in Manager /\ callers[c].step = "saved"
                 /\ callers'[c] = [callers[c] EXCEPT !.step = "started"]
    PROVE  CallsAreSound'
<1> SUFFICES ASSUME NEW c \in Caller, callers'[c].step \in Pending
             PROVE  /\ callers'[c].mission \in Mission
                    /\ callers'[c].outcome \in DOMAIN outcomes'
                    /\ outcomes'[callers'[c].outcome].mission = callers'[c].mission
                    /\ outcomes'[callers'[c].outcome].verdict = callers'[c].verdict
                    /\ callers'[c].status # "draft"
                    /\ c \in Manager => /\ callers'[c].verdict \in Verdicts
                                        /\ callers'[c].status = "in_progress"
                    /\ c \notin Manager =>
                          callers'[c].mission \in Public /\ callers'[c].step = "saving"
  BY DEF CallsAreSound
<1>1. CASE callers'[c] = callers[c]
  BY <1>1 DEF IInv, CallsAreSound
<1>2. CASE /\ c \in Manager /\ callers[c].step = "saved"
           /\ callers'[c] = [callers[c] EXCEPT !.step = "started"]
  <2>1. /\ callers'[c].mission = callers[c].mission
        /\ callers'[c].outcome = callers[c].outcome
        /\ callers'[c].verdict = callers[c].verdict
        /\ callers'[c].status = callers[c].status
    BY <1>2 DEF IInv, TypeOK, CallerState
  <2>2. callers[c].step \in Pending
    BY <1>2 DEF Pending
  <2> QED
    BY <1>2, <2>1, <2>2 DEF IInv, CallsAreSound
<1> QED
  BY <1>1, <1>2

LEMMA EndedIsTyped ==
    /\ EndedManager \in CallerState /\ EndedManager.step = "ended"
    /\ IdleCaller \in CallerState /\ IdleCaller.step = "idle"
BY DEF EndedManager, IdleCaller, CallerState, Steps, Statuses, NoOutcome

LEMMA ManagerStartKeepsIInv ==
    ASSUME IInv, NEW m \in Manager, ManagerStart(m)
    PROVE  IInv'
<1> DEFINE id == callers[m].mission
           call == [callers[m] EXCEPT !.step = "started"]
<1>1. /\ callers[m].step = "saved"
      /\ StartVerification(id)
      /\ callers' = [callers EXCEPT ![m] = call]
      /\ UNCHANGED <<outcomes, now>>
  BY DEF ManagerStart, StartVerification
<1>2. m \in Caller /\ callers \in [Caller -> CallerState]
  BY DEF Caller, IInv, TypeOK
<1>3. id \in Mission
  BY <1>1, <1>2 DEF IInv, CallsAreSound, Pending
<1>4. call \in CallerState
  <2>1. callers[m] \in CallerState
    BY <1>2
  <2> QED
    BY <2>1 DEF CallerState, Steps
<1>5. /\ callers' \in [Caller -> CallerState]
      /\ callers'[m] = call
      /\ \A d \in Caller : d # m => callers'[d] = callers[d]
  BY <1>1, <1>2, <1>4
<1>6. /\ missions' \in [Mission -> MissionRow] /\ runs' \in Seq(Run)
      /\ RunsAreSound' /\ LatestInRange' /\ OutcomeIsOwn' /\ StatusMatchesProof'
  BY <1>1, <1>3, StartKeepsTables
<1>7. TypeOK'
  BY <1>1, <1>5, <1>6 DEF IInv, TypeOK
<1>8. CallsAreSound'
  BY <1>1, <1>2, <1>5, <1>7, CallsStaySound DEF TypeOK
<1> QED
  BY <1>6, <1>7, <1>8 DEF IInv

LEMMA ClientStartKeepsIInv ==
    ASSUME IInv, NEW id \in Public, ClientStart(id)
    PROVE  IInv'
<1>1. id \in Mission /\ StartVerification(id) /\ UNCHANGED <<outcomes, callers, now>>
  BY MissionVerificationAssumption DEF ClientStart, StartVerification
<1>2. /\ missions' \in [Mission -> MissionRow] /\ runs' \in Seq(Run)
      /\ RunsAreSound' /\ LatestInRange' /\ OutcomeIsOwn' /\ StatusMatchesProof'
  BY <1>1, StartKeepsTables
<1>3. TypeOK'
  BY <1>1, <1>2 DEF IInv, TypeOK
<1>4. CallsAreSound'
  BY <1>1 DEF IInv, CallsAreSound
<1> QED
  BY <1>2, <1>3, <1>4 DEF IInv

(* The tables after completeVerification of the latest run of a mission,   *)
(* or of any run of a public one.                                          *)
LEMMA CompleteKeepsTables ==
    ASSUME IInv, NEW r \in DOMAIN runs, NEW verdict \in Verdicts, NEW evidence \in Nat,
           NEW checks \in CheckResults, CompleteVerification(r, verdict, evidence, checks),
           runs[r].mission \notin Public => IsLatest(r, runs[r].mission),
           UNCHANGED now
    PROVE  /\ missions' \in [Mission -> MissionRow] /\ runs' \in Seq(Run)
           /\ outcomes' \in Seq(Outcome) /\ DOMAIN outcomes' = DOMAIN outcomes
           /\ \A n \in DOMAIN outcomes :
                 /\ outcomes'[n].mission = outcomes[n].mission
                 /\ outcomes'[n].verdict = outcomes[n].verdict
                 /\ \/ outcomes'[n].verified_by = outcomes[n].verified_by
                    \/ /\ verdict = "verified_complete"
                       /\ n = missions[runs[r].mission].latest_outcome
           /\ RunsAreSound' /\ LatestInRange' /\ OutcomeIsOwn' /\ StatusMatchesProof'
           /\ \A i \in Mission : /\ missions'[i].latest_outcome = missions[i].latest_outcome
                                 /\ i # runs[r].mission => missions'[i] = missions[i]
           /\ missions'[runs[r].mission].status = verdict
<1> DEFINE id == runs[r].mission
           latest == missions[id].latest_outcome
           row == [missions[id] EXCEPT !.status = verdict]
<1>1. /\ AcceptsVerdict(verdict, evidence, checks)
      /\ runs' = [runs EXCEPT ![r].status = verdict, ![r].evidence = evidence,
                              ![r].checks = checks]
      /\ missions' = [missions EXCEPT ![id] = row]
      /\ outcomes' = IF verdict = "verified_complete" /\ latest # NoOutcome
                     THEN [outcomes EXCEPT ![latest].verified_by = "verifier"]
                     ELSE outcomes
  BY DEF CompleteVerification
<1>2. /\ missions \in [Mission -> MissionRow] /\ runs \in Seq(Run) /\ outcomes \in Seq(Outcome)
      /\ id \in Mission /\ latest \in {NoOutcome} \cup DOMAIN outcomes
  BY RunsAreTyped DEF IInv, TypeOK, LatestInRange
<1>3. /\ runs' \in Seq(Run)
      /\ DOMAIN runs' = DOMAIN runs
      /\ \A q \in DOMAIN runs : /\ q # r => runs'[q] = runs[q]
                                /\ runs'[q].mission = runs[q].mission
                                /\ runs'[q].started_at = runs[q].started_at
      /\ runs'[r].status = verdict
      /\ runs'[r].evidence = evidence
      /\ runs'[r].checks = checks
  <2> DEFINE after == CompletedTable(runs, r, verdict, evidence, checks)
  <2>1. EndsRun(after, runs, r, verdict, evidence, checks)
    BY <1>2, CompletedRun
  <2>2. runs' = after
    BY <1>1 DEF CompletedTable
  <2> HIDE DEF after
  <2> QED
    BY <2>1, <2>2 DEF EndsRun
<1>4. row \in MissionRow /\ row.status = verdict /\ row.latest_outcome = latest
  BY <1>2 DEF MissionRow, Statuses
<1> HIDE DEF row
<1>5. /\ missions' \in [Mission -> MissionRow]
      /\ missions'[id] = row
      /\ \A i \in Mission : i # id => missions'[i] = missions[i]
  BY <1>1, <1>2, <1>4
<1>6. \A i \in Mission : missions'[i].latest_outcome = missions[i].latest_outcome
  BY <1>4, <1>5
<1>7. /\ outcomes' \in Seq(Outcome) /\ DOMAIN outcomes' = DOMAIN outcomes
      /\ \A n \in DOMAIN outcomes :
            /\ outcomes'[n].mission = outcomes[n].mission
            /\ outcomes'[n].verdict = outcomes[n].verdict
            /\ \/ outcomes'[n].verified_by = outcomes[n].verified_by
               \/ verdict = "verified_complete" /\ n = latest
  <2>1. CASE verdict = "verified_complete" /\ latest # NoOutcome
    <3> DEFINE stamped == [outcomes[latest] EXCEPT !.verified_by = "verifier"]
    <3>1. outcomes[latest] \in Outcome
      BY <1>2, <2>1, RunsAreTyped DEF IInv
    <3>2. /\ stamped \in Outcome
          /\ stamped.mission = outcomes[latest].mission
          /\ stamped.verdict = outcomes[latest].verdict
      BY <3>1 DEF Outcome
    <3>3. outcomes' = [outcomes EXCEPT ![latest] = stamped]
      BY <1>1, <2>1
    <3> HIDE DEF stamped, latest
    <3>4. /\ outcomes' \in Seq(Outcome) /\ DOMAIN outcomes' = DOMAIN outcomes
          /\ \A n \in DOMAIN outcomes :
                outcomes'[n] = IF n = latest THEN stamped ELSE outcomes[n]
      BY <1>2, <2>1, <3>2, <3>3
    <3> QED
      BY <2>1, <3>2, <3>4
  <2>2. CASE ~ (verdict = "verified_complete" /\ latest # NoOutcome)
    BY <1>1, <1>2, <2>2
  <2> QED
    BY <2>1, <2>2
<1>8. RunsAreSound'
  <2>1. \A q \in DOMAIN runs : runs[q].mission \in Mission
    BY RunsAreTyped DEF IInv
  <2> QED
    BY <1>3, <1>6, <2>1 DEF IInv, RunsAreSound
<1>9. LatestInRange'
  BY <1>6, <1>7 DEF IInv, LatestInRange
<1>10. OutcomeIsOwn'
  <2>1. latest # NoOutcome
    BY DEF IInv, RunsAreSound
  <2> QED
    BY <1>4, <1>5, <1>6, <1>7, <2>1 DEF IInv, OutcomeIsOwn, LatestInRange
<1>11. StatusMatchesProof'
  <2> SUFFICES ASSUME NEW i \in Mission \ Public, missions'[i].status \in Verdicts
               PROVE  ProofIn(runs', i, missions'[i].status)
    BY StatusIsProofIn
  <2>1. \A q : LatestIn(runs', q, i) <=> LatestIn(runs, q, i)
    BY <1>3, LatestOutlivesCompletion
  <2>2. CASE i = id
    <3>1. LatestIn(runs', r, i)
      BY <2>1, <2>2, LatestIsLatestIn
    <3> QED
      BY <1>1, <1>3, <1>4, <1>5, <2>2, <3>1 DEF ProofIn, AcceptsVerdict
  <2>3. CASE i # id
    <3>1. ProofIn(runs, i, missions[i].status) /\ missions'[i] = missions[i]
      BY <1>5, <2>3, StatusIsProofIn DEF IInv
    <3>2. \A q : LatestIn(runs, q, i) => q # r
      BY <2>3 DEF LatestIn, RunsIn
    <3> QED
      BY <1>3, <2>1, <3>1, <3>2 DEF ProofIn
  <2> QED
    BY <2>2, <2>3
<1> QED
  BY <1>3, <1>4, <1>5, <1>6, <1>7, <1>8, <1>9, <1>10, <1>11

LEMMA ManagerCompleteKeepsIInv ==
    ASSUME IInv, NEW m \in Manager, ManagerComplete(m)
    PROVE  IInv'
<1>1. /\ callers[m].step = "started"
      /\ callers' = [callers EXCEPT ![m] = EndedManager]
      /\ UNCHANGED now
  BY DEF ManagerComplete
<1>2. m \in Caller /\ callers \in [Caller -> CallerState]
  BY DEF Caller, IInv, TypeOK
<1>3. PICK r \in DOMAIN runs, checks \in {"passed", "failed"} :
          /\ IsLatest(r, callers[m].mission)
          /\ CompleteVerification(r, callers[m].verdict, 1, checks)
  BY DEF ManagerComplete
<1>4. /\ callers[m].verdict \in Verdicts /\ checks \in CheckResults /\ 1 \in Nat
      /\ runs[r].mission = callers[m].mission
  BY <1>1, <1>2, <1>3 DEF IInv, CallsAreSound, Pending, CheckResults, IsLatest, RunsOf
<1>5. /\ missions' \in [Mission -> MissionRow] /\ runs' \in Seq(Run)
      /\ outcomes' \in Seq(Outcome) /\ DOMAIN outcomes' = DOMAIN outcomes
      /\ \A n \in DOMAIN outcomes : /\ outcomes'[n].mission = outcomes[n].mission
                                    /\ outcomes'[n].verdict = outcomes[n].verdict
      /\ RunsAreSound' /\ LatestInRange' /\ OutcomeIsOwn' /\ StatusMatchesProof'
  BY <1>1, <1>3, <1>4, CompleteKeepsTables
<1>6. /\ callers' \in [Caller -> CallerState]
      /\ callers'[m].step = "ended"
      /\ \A d \in Caller : d # m => callers'[d] = callers[d]
  BY <1>1, <1>2, EndedIsTyped
<1>7. CallsAreSound'
  BY <1>5, <1>6, CallsStaySound DEF Pending
<1> QED
  BY <1>1, <1>5, <1>6, <1>7 DEF IInv, TypeOK

LEMMA ClientCompleteKeepsIInv ==
    ASSUME IInv, ClientComplete
    PROVE  IInv'
<1>1. PICK r \in DOMAIN runs, verdict \in Verdicts, evidence \in {0, 1}, checks \in CheckResults :
          /\ runs[r].mission \in Public
          /\ CompleteVerification(r, verdict, evidence, checks)
  BY DEF ClientComplete
<1>2. UNCHANGED <<callers, now>> /\ evidence \in Nat
  BY DEF ClientComplete
<1>3. /\ missions' \in [Mission -> MissionRow] /\ runs' \in Seq(Run)
      /\ outcomes' \in Seq(Outcome) /\ DOMAIN outcomes' = DOMAIN outcomes
      /\ \A n \in DOMAIN outcomes : /\ outcomes'[n].mission = outcomes[n].mission
                                    /\ outcomes'[n].verdict = outcomes[n].verdict
      /\ RunsAreSound' /\ LatestInRange' /\ OutcomeIsOwn' /\ StatusMatchesProof'
  BY <1>1, <1>2, CompleteKeepsTables
<1>4. CallsAreSound'
  BY <1>2, <1>3, CallsStaySound
<1> QED
  BY <1>2, <1>3, <1>4 DEF IInv, TypeOK

LEMMA OthersKeepIInv ==
    ASSUME IInv,
           \/ \E m \in Manager : ManagerFail(m)
           \/ Advance
           \/ UNCHANGED vars
    PROVE  IInv'
<1>1. UNCHANGED <<missions, outcomes, runs>>
  BY DEF ManagerFail, Advance, vars
<1>2. callers \in [Caller -> CallerState] /\ now \in Nat
  BY DEF IInv, TypeOK
<1>3. now' \in Nat /\ now' >= now
  BY <1>2 DEF ManagerFail, Advance, vars
<1>4. /\ callers' \in [Caller -> CallerState]
      /\ \A c \in Caller : callers'[c] = callers[c] \/ callers'[c].step \notin Pending
  <2>1. ASSUME NEW m \in Manager, ManagerFail(m)
        PROVE  /\ callers' \in [Caller -> CallerState]
               /\ \A c \in Caller : callers'[c] = callers[c] \/ callers'[c].step \notin Pending
    BY <1>2, <2>1, EndedIsTyped DEF ManagerFail, Pending
  <2>2. CASE Advance
    BY <1>2, <2>2, EndedIsTyped DEF Advance, Pending
  <2>3. CASE UNCHANGED vars
    BY <1>2, <2>3 DEF vars
  <2> QED
    BY <2>1, <2>2, <2>3
<1>5. TypeOK'
  BY <1>1, <1>3, <1>4 DEF IInv, TypeOK
<1>6. CallsAreSound'
  BY <1>1, <1>4, <1>5, CallsStaySound DEF TypeOK
<1>7. RunsAreSound'
  <2>1. \A r \in DOMAIN runs : runs[r].started_at \in Nat /\ runs[r].started_at <= now
    BY RunsAreTyped DEF IInv, RunsAreSound, Run
  <2>2. \A r \in DOMAIN runs : runs[r].started_at <= now'
    BY <1>2, <1>3, <2>1
  <2> QED
    BY <1>1, <2>2 DEF IInv, RunsAreSound
<1>8. LatestInRange' /\ OutcomeIsOwn'
  BY <1>1 DEF IInv, LatestInRange, OutcomeIsOwn
<1>9. StatusMatchesProof'
  BY <1>1, NoNewVerdict
<1> QED
  BY <1>5, <1>6, <1>7, <1>8, <1>9 DEF IInv

LEMMA InitIInv == Init => IInv
<1> SUFFICES ASSUME Init PROVE IInv
  OBVIOUS
<1>1. TypeOK
  <2>1. missions \in [Mission -> MissionRow]
    BY DEF Init, MissionRow, NoOutcome
  <2>2. outcomes \in Seq(Outcome) /\ runs \in Seq(Run)
    BY DEF Init
  <2>3. callers \in [Caller -> CallerState]
    BY EndedIsTyped DEF Init
  <2> QED
    BY <2>1, <2>2, <2>3 DEF Init, TypeOK
<1>2. CallsAreSound
  BY EndedIsTyped DEF Init, CallsAreSound, Pending
<1>3. RunsAreSound /\ LatestInRange /\ OutcomeIsOwn /\ StatusMatchesProof
  BY DEF Init, RunsAreSound, LatestInRange, OutcomeIsOwn, StatusMatchesProof, Verdicts
<1> QED
  BY <1>1, <1>2, <1>3 DEF IInv

LEMMA NextIInv == IInv /\ [Next]_vars => IInv'
<1> SUFFICES ASSUME IInv, [Next]_vars PROVE IInv'
  OBVIOUS
<1>1. /\ Manager \subseteq Caller /\ Client \subseteq Caller /\ Public \subseteq Mission
      /\ \A c \in Client : c \notin Manager
  BY MissionVerificationAssumption DEF Caller
<1>2. ASSUME NEW m \in Manager, NEW id \in Mission, ManagerSave(m, id)
      PROVE  IInv'
  <2>1. "in_progress" \in Statuses \ {"draft"}
    BY DEF Statuses
  <2> QED
    BY <1>1, <1>2, <2>1, BeginSaveKeepsIInv DEF ManagerSave
<1>3. ASSUME NEW c \in Client, NEW id \in Public, ClientSave(c, id)
      PROVE  IInv'
  BY <1>1, <1>3, BeginSaveKeepsIInv, RefuseDraftKeepsIInv DEF ClientSave
<1>4. ASSUME NEW id \in Public, ClientStart(id)
      PROVE  IInv'
  BY <1>4, ClientStartKeepsIInv
<1>5. CASE ClientComplete
  BY <1>5, ClientCompleteKeepsIInv
<1>6. ASSUME NEW m \in Manager, ManagerStart(m) \/ ManagerComplete(m)
      PROVE  IInv'
  BY <1>6, ManagerStartKeepsIInv, ManagerCompleteKeepsIInv
<1>7. ASSUME NEW c \in Caller, EndSave(c)
      PROVE  IInv'
  BY <1>7, EndSaveKeepsIInv
<1>8. CASE (\E m \in Manager : ManagerFail(m)) \/ Advance \/ UNCHANGED vars
  BY <1>8, OthersKeepIInv
<1> QED
  BY <1>2, <1>3, <1>4, <1>5, <1>6, <1>7, <1>8 DEF Next

(* The invariant of missions, outcomes and verification runs.              *)
THEOREM Invariance == Spec => []IInv
BY InitIInv, NextIInv, PTL DEF Spec

(* Rows and calls keep the shape of MissionRecord and of the verification  *)
(* runs.                                                                   *)
THEOREM TypeCorrect == Spec => []TypeOK
BY Invariance, PTL DEF IInv

(* A mission that no client writes and that says it is verified, failed or *)
(* rejected has a latest run that says the same, for any number of manager *)
(* runs that interleave and break off.                                     *)
THEOREM StatusIsProven == Spec => []StatusMatchesProof
BY Invariance, PTL DEF IInv

(* The latest outcome of a mission is one of its own, whoever saved it.    *)
THEOREM OutcomesAreOwn == Spec => []OutcomeIsOwn
BY Invariance, PTL DEF IInv

-----------------------------------------------------------------------------
(* One manager run at a time.  What no client writes is written by the     *)
(* manager run only.                                                       *)

PrivateKept ==
    /\ \A i \in Mission \ Public : missions'[i] = missions[i]
    /\ \A n \in DOMAIN outcomes' : outcomes'[n].mission \notin Public =>
          n \in DOMAIN outcomes /\ outcomes'[n] = outcomes[n]
    /\ \A r \in DOMAIN runs' : runs'[r].mission \notin Public =>
          r \in DOMAIN runs /\ runs'[r] = runs[r]
    /\ \A r \in DOMAIN runs : runs[r].mission \notin Public =>
          r \in DOMAIN runs' /\ runs'[r] = runs[r]

ClientStep ==
    \E c \in Client :
        \/ \E id \in Public : ClientSave(c, id) \/ ClientStart(id)
        \/ ClientComplete
        \/ EndSave(c)

LEMMA LatestIsOwn ==
    ASSUME IInv, NEW id \in Mission
    PROVE  /\ missions[id].latest_outcome # NoOutcome
                  => outcomes[missions[id].latest_outcome].mission = id
           /\ missions[id].latest_outcome \in {NoOutcome} \cup DOMAIN outcomes
<1>1. OutcomeIsOwn /\ LatestInRange
  BY DEF IInv
<1> QED
  BY <1>1 DEF OutcomeIsOwn, LatestInRange

LEMMA ClientsKeepPrivate ==
    ASSUME IInv, ClientStep
    PROVE  PrivateKept /\ (\A m \in Manager : callers'[m] = callers[m]) /\ UNCHANGED now
<1>1. PICK c \in Client : \/ \E id \in Public : ClientSave(c, id) \/ ClientStart(id)
                          \/ ClientComplete
                          \/ EndSave(c)
  BY DEF ClientStep
<1>2. /\ c \in Caller /\ c \notin Manager /\ Public \subseteq Mission
      /\ missions \in [Mission -> MissionRow] /\ callers \in [Caller -> CallerState]
      /\ outcomes \in Seq(Outcome) /\ runs \in Seq(Run)
  BY MissionVerificationAssumption DEF Caller, IInv, TypeOK
<1>3. ASSUME NEW id \in Public, NEW status, NEW verdict \in Verdicts \cup {"none"},
             BeginSave(c, id, status, verdict)
      PROVE  PrivateKept /\ (\A m \in Manager : callers'[m] = callers[m]) /\ UNCHANGED now
  <2> DEFINE row == [mission |-> id, verified_by |-> "system_inference", verdict |-> verdict]
             n == Len(outcomes) + 1
  <2>1. row \in Outcome /\ row.mission = id
    BY <1>2 DEF Outcome
  <2>2. /\ DOMAIN Append(outcomes, row) = DOMAIN outcomes \cup {n}
        /\ Append(outcomes, row)[n] = row
        /\ \A k \in DOMAIN outcomes : Append(outcomes, row)[k] = outcomes[k]
    BY <1>2, <2>1, Appended
  <2>3. /\ outcomes' = Append(outcomes, row)
        /\ UNCHANGED <<runs, now>>
        /\ \A i \in Mission : i # id => missions'[i] = missions[i]
        /\ \A d \in Caller : d # c => callers'[d] = callers[d]
    BY <1>2, <1>3 DEF BeginSave
  <2> HIDE DEF row, n
  <2> QED
    BY <1>2, <2>1, <2>2, <2>3 DEF PrivateKept, Caller
<1>4. ASSUME NEW id \in Public, ClientSave(c, id)
      PROVE  PrivateKept /\ (\A m \in Manager : callers'[m] = callers[m]) /\ UNCHANGED now
  <2>1. CASE RefuseDraft(c, id)
    BY <1>2, <2>1 DEF RefuseDraft, PrivateKept
  <2> QED
    BY <1>3, <1>4, <2>1 DEF ClientSave
<1>5. ASSUME NEW id \in Public, ClientStart(id)
      PROVE  PrivateKept /\ (\A m \in Manager : callers'[m] = callers[m]) /\ UNCHANGED now
  <2> DEFINE run == [mission |-> id, status |-> "running", evidence |-> 0,
                     checks |-> "none", started_at |-> now]
             n == Len(runs) + 1
  <2>1. run \in Run /\ run.mission = id
    BY <1>2 DEF Run, CheckResults, IInv, TypeOK
  <2>2. /\ DOMAIN Append(runs, run) = DOMAIN runs \cup {n}
        /\ Append(runs, run)[n] = run
        /\ \A k \in DOMAIN runs : Append(runs, run)[k] = runs[k]
    BY <1>2, <2>1, Appended
  <2>3. /\ runs' = Append(runs, run)
        /\ UNCHANGED <<outcomes, callers, now>>
        /\ \A i \in Mission : i # id => missions'[i] = missions[i]
    BY <1>2, <1>5 DEF ClientStart, StartVerification
  <2> HIDE DEF run, n
  <2> QED
    BY <1>2, <2>1, <2>2, <2>3 DEF PrivateKept
<1>6. ASSUME ClientComplete
      PROVE  PrivateKept /\ (\A m \in Manager : callers'[m] = callers[m]) /\ UNCHANGED now
  <2>1. PICK r \in DOMAIN runs, verdict \in Verdicts, evidence \in {0, 1},
             checks \in CheckResults :
            /\ runs[r].mission \in Public
            /\ CompleteVerification(r, verdict, evidence, checks)
    BY <1>6 DEF ClientComplete
  <2> DEFINE id == runs[r].mission
             latest == missions[id].latest_outcome
             after == CompletedTable(runs, r, verdict, evidence, checks)
  <2>2. /\ id \in Mission
        /\ latest # NoOutcome => outcomes[latest].mission = id
        /\ latest \in {NoOutcome} \cup DOMAIN outcomes
    <3>1. id \in Mission
      BY <1>2, RunsAreTyped DEF IInv
    <3> QED
      BY <3>1, LatestIsOwn
  <2>3. /\ runs' = after
        /\ UNCHANGED <<callers, now>>
        /\ \A i \in Mission : i # id => missions'[i] = missions[i]
        /\ \/ outcomes' = outcomes
           \/ /\ latest # NoOutcome
              /\ outcomes' = [outcomes EXCEPT ![latest].verified_by = "verifier"]
    <3>1. /\ runs' = after
          /\ missions' = [missions EXCEPT ![id].status = verdict]
          /\ outcomes' = IF verdict = "verified_complete" /\ latest # NoOutcome
                         THEN [outcomes EXCEPT ![latest].verified_by = "verifier"]
                         ELSE outcomes
      BY <2>1 DEF CompleteVerification, CompletedTable
    <3>2. UNCHANGED <<callers, now>>
      BY <1>6 DEF ClientComplete
    <3> HIDE DEF after, latest, id
    <3>3. \A i \in Mission : i # id => missions'[i] = missions[i]
      BY <1>2, <3>1
    <3> QED
      BY <3>1, <3>2, <3>3
  <2>4. evidence \in Nat
    OBVIOUS
  <2>5. EndsRun(after, runs, r, verdict, evidence, checks)
    BY <1>2, <2>4, CompletedRun
  <2> HIDE DEF after
  <2>6. \A n \in DOMAIN outcomes' : outcomes'[n].mission \notin Public =>
            n \in DOMAIN outcomes /\ outcomes'[n] = outcomes[n]
    <3>1. CASE outcomes' = outcomes
      BY <3>1
    <3>2. CASE /\ latest # NoOutcome
               /\ outcomes' = [outcomes EXCEPT ![latest].verified_by = "verifier"]
      <4>1. outcomes[latest] \in Outcome /\ latest \in DOMAIN outcomes
        BY <2>2, <3>2, RunsAreTyped DEF IInv
      <4>2. [outcomes[latest] EXCEPT !.verified_by = "verifier"].mission
                = outcomes[latest].mission
        BY <4>1 DEF Outcome
      <4>3. /\ DOMAIN outcomes' = DOMAIN outcomes
            /\ outcomes'[latest].mission = id
            /\ \A n \in DOMAIN outcomes : n # latest => outcomes'[n] = outcomes[n]
        BY <2>2, <3>2, <4>1, <4>2
      <4> QED
        BY <2>1, <4>3
    <3> QED
      BY <2>3, <3>1, <3>2
  <2> QED
    BY <2>1, <2>3, <2>5, <2>6 DEF PrivateKept, EndsRun
<1>7. ASSUME EndSave(c)
      PROVE  PrivateKept /\ (\A m \in Manager : callers'[m] = callers[m]) /\ UNCHANGED now
  <2>1. callers[c].mission \in Public
    BY <1>2, <1>7 DEF EndSave, IInv, CallsAreSound, Pending
  <2>2. /\ UNCHANGED <<outcomes, runs, now>>
        /\ \A i \in Mission : i # callers[c].mission => missions'[i] = missions[i]
        /\ \A d \in Caller : d # c => callers'[d] = callers[d]
    BY <1>2, <1>7 DEF EndSave
  <2> QED
    BY <1>2, <2>1, <2>2 DEF PrivateKept, Caller
<1> QED
  BY <1>1, <1>4, <1>5, <1>6, <1>7

LEMMA PrivateKeptOne ==
    ASSUME IInv, IInvOne, PrivateKept,
           \A m \in Manager : callers'[m] = callers[m] \/ callers'[m].step \in {"idle", "ended"}
    PROVE  IInvOne'
<1>1. \A m \in Manager : callers[m].step \in {"saved", "started"} =>
          callers[m].mission \in Mission
  BY DEF IInv, CallsAreSound, Pending, Caller
<1>2. MissionFollowsManager'
  <2> SUFFICES ASSUME NEW m \in Manager, callers'[m].step \in {"saved", "started"},
                      callers'[m].mission \notin Public
               PROVE  LET row == missions'[callers'[m].mission]
                      IN  /\ row.latest_outcome = callers'[m].outcome
                          /\ row.status = IF callers'[m].step = "saved" THEN "in_progress"
                                          ELSE "awaiting_verification"
    BY DEF MissionFollowsManager
  <2>1. callers'[m] = callers[m]
    OBVIOUS
  <2>2. missions'[callers[m].mission] = missions[callers[m].mission]
    BY <1>1, <2>1 DEF PrivateKept
  <2> QED
    BY <2>1, <2>2 DEF IInvOne, MissionFollowsManager
<1>3. StampIsEarned'
  BY DEF IInvOne, StampIsEarned, PrivateKept
<1> QED
  BY <1>2, <1>3 DEF IInvOne

LEMMA NextOne ==
    ASSUME OneManager, IInv, IInvOne, [Next]_vars
    PROVE  /\ IInvOne'
           /\ \A i \in Mission \ Public : missions'[i].status = "verified_complete" =>
                 missions[i].status \in {"awaiting_verification", "verified_complete"}
<1> DEFINE Through == \A i \in Mission \ Public :
               missions'[i].status = "verified_complete" =>
                   missions[i].status \in {"awaiting_verification", "verified_complete"}
<1>1. /\ Manager \subseteq Caller /\ callers \in [Caller -> CallerState]
      /\ missions \in [Mission -> MissionRow] /\ outcomes \in Seq(Outcome)
      /\ \A m, k \in Manager : m = k
  BY DEF Caller, IInv, TypeOK, OneManager
<1>2. ASSUME PrivateKept,
             \A m \in Manager :
                callers'[m] = callers[m] \/ callers'[m].step \in {"idle", "ended"}
      PROVE  IInvOne' /\ Through
  BY <1>2, PrivateKeptOne DEF PrivateKept
<1>3. CASE ClientStep
  BY <1>2, <1>3, ClientsKeepPrivate
<1>4. CASE (\E m \in Manager : ManagerFail(m)) \/ Advance \/ UNCHANGED vars
  <2>1. PrivateKept
    BY <1>4 DEF ManagerFail, Advance, vars, PrivateKept
  <2>2. \A m \in Manager :
            callers'[m] = callers[m] \/ callers'[m].step \in {"idle", "ended"}
    BY <1>1, <1>4, EndedIsTyped DEF ManagerFail, Advance, vars
  <2> QED
    BY <1>2, <2>1, <2>2
<1>5. ASSUME NEW m \in Manager, NEW id \in Mission, ManagerSave(m, id)
      PROVE  IInvOne' /\ Through
  <2>1. PICK verdict \in Verdicts : BeginSave(m, id, "in_progress", verdict)
    BY <1>5 DEF ManagerSave
  <2> DEFINE row == [mission |-> id, verified_by |-> "system_inference", verdict |-> verdict]
             n == Len(outcomes) + 1
  <2>2. row \in Outcome /\ row.verified_by = "system_inference"
    BY DEF Outcome
  <2>3. /\ DOMAIN Append(outcomes, row) = DOMAIN outcomes \cup {n}
        /\ Append(outcomes, row)[n] = row
        /\ \A k \in DOMAIN outcomes : Append(outcomes, row)[k] = outcomes[k]
    BY <1>1, <2>2, Appended
  <2>4. /\ outcomes' = Append(outcomes, row)
        /\ callers'[m].step = "saving"
        /\ missions' = [missions EXCEPT ![id].status = EnsuredStatus(id, "in_progress")]
    BY <1>1, <2>1 DEF BeginSave
  <2> HIDE DEF row, n
  <2>5. MissionFollowsManager'
    BY <1>1, <2>4 DEF MissionFollowsManager
  <2>6. StampIsEarned'
    BY <2>2, <2>3, <2>4 DEF IInvOne, StampIsEarned
  <2>7. Through
    <3>1. "in_progress" \in Statuses
      BY DEF Statuses
    <3>2. \A i \in Mission : missions'[i].status \in Verdicts =>
              missions'[i].status = missions[i].status
      BY <2>4, <3>1, EnsuredMissions
    <3> QED
      BY <3>2 DEF Verdicts
  <2> QED
    BY <2>5, <2>6, <2>7 DEF IInvOne
<1>6. ASSUME NEW m \in Manager, EndSave(m)
      PROVE  IInvOne' /\ Through
  <2>1. /\ callers[m].step = "saving" /\ callers[m].mission \in Mission
        /\ callers[m].status = "in_progress"
    BY <1>1, <1>6 DEF EndSave, IInv, CallsAreSound, Pending
  <2>2. /\ missions' = [missions EXCEPT ![callers[m].mission] =
              [status |-> callers[m].status, latest_outcome |-> callers[m].outcome]]
        /\ callers' = [callers EXCEPT ![m] = [callers[m] EXCEPT !.step = "saved"]]
        /\ UNCHANGED outcomes
    BY <1>1, <1>6 DEF EndSave
  <2>3. /\ callers'[m].step = "saved"
        /\ callers'[m].mission = callers[m].mission
        /\ callers'[m].outcome = callers[m].outcome
    BY <1>1, <2>2 DEF CallerState
  <2>4. /\ missions'[callers[m].mission].status = "in_progress"
        /\ missions'[callers[m].mission].latest_outcome = callers[m].outcome
        /\ \A i \in Mission : i # callers[m].mission => missions'[i] = missions[i]
    BY <1>1, <2>1, <2>2
  <2>5. MissionFollowsManager'
    BY <1>1, <2>3, <2>4 DEF MissionFollowsManager
  <2>6. StampIsEarned'
    BY <2>2 DEF IInvOne, StampIsEarned
  <2> QED
    BY <2>4, <2>5, <2>6 DEF IInvOne
<1>7. ASSUME NEW m \in Manager, ManagerStart(m)
      PROVE  IInvOne' /\ Through
  <2>1. /\ callers[m].step = "saved" /\ callers[m].mission \in Mission
        /\ StartVerification(callers[m].mission)
        /\ callers' = [callers EXCEPT ![m] = [callers[m] EXCEPT !.step = "started"]]
        /\ UNCHANGED <<outcomes, now>>
    BY <1>1, <1>7 DEF ManagerStart, StartVerification, IInv, CallsAreSound, Pending
  <2>2. /\ callers'[m].step = "started"
        /\ callers'[m].mission = callers[m].mission
        /\ callers'[m].outcome = callers[m].outcome
    BY <1>1, <2>1 DEF CallerState
  <2>3. /\ missions'[callers[m].mission].status = "awaiting_verification"
        /\ \A i \in Mission : /\ missions'[i].latest_outcome = missions[i].latest_outcome
                              /\ i # callers[m].mission => missions'[i] = missions[i]
    BY <2>1, StartKeepsTables
  <2>4. MissionFollowsManager'
    BY <1>1, <2>1, <2>2, <2>3 DEF IInvOne, MissionFollowsManager
  <2>5. StampIsEarned'
    BY <2>1 DEF IInvOne, StampIsEarned
  <2> QED
    BY <2>3, <2>4, <2>5 DEF IInvOne
<1>8. ASSUME NEW m \in Manager, ManagerComplete(m)
      PROVE  IInvOne' /\ Through
  <2>1. /\ callers[m].step = "started"
        /\ callers'[m].step = "ended"
        /\ UNCHANGED now
    BY <1>1, <1>8, EndedIsTyped DEF ManagerComplete
  <2>2. PICK r \in DOMAIN runs, checks \in {"passed", "failed"} :
            /\ IsLatest(r, callers[m].mission)
            /\ CompleteVerification(r, callers[m].verdict, 1, checks)
    BY <1>8 DEF ManagerComplete
  <2>3. /\ callers[m].verdict \in Verdicts /\ checks \in CheckResults /\ 1 \in Nat
        /\ runs[r].mission = callers[m].mission
        /\ callers[m].mission \in Mission
        /\ callers[m].outcome \in DOMAIN outcomes
        /\ outcomes[callers[m].outcome].verdict = callers[m].verdict
        /\ outcomes[callers[m].outcome].mission = callers[m].mission
    BY <1>1, <2>1, <2>2 DEF IInv, CallsAreSound, Pending, CheckResults, IsLatest, RunsOf
  <2>4. /\ DOMAIN outcomes' = DOMAIN outcomes
        /\ \A n \in DOMAIN outcomes :
              /\ outcomes'[n].mission = outcomes[n].mission
              /\ outcomes'[n].verdict = outcomes[n].verdict
              /\ \/ outcomes'[n].verified_by = outcomes[n].verified_by
                 \/ /\ callers[m].verdict = "verified_complete"
                    /\ n = missions[callers[m].mission].latest_outcome
        /\ \A i \in Mission : i # callers[m].mission => missions'[i] = missions[i]
    BY <2>1, <2>2, <2>3, CompleteKeepsTables
  <2>5. callers[m].mission \notin Public =>
            /\ missions[callers[m].mission].latest_outcome = callers[m].outcome
            /\ missions[callers[m].mission].status = "awaiting_verification"
    BY <2>1 DEF IInvOne, MissionFollowsManager
  <2>6. MissionFollowsManager'
    BY <1>1, <2>1 DEF MissionFollowsManager
  <2>7. StampIsEarned'
    <3> SUFFICES ASSUME NEW n \in DOMAIN outcomes, outcomes'[n].mission \notin Public,
                        outcomes'[n].verified_by = "verifier"
                 PROVE  outcomes'[n].verdict = "verified_complete"
      BY <2>4 DEF StampIsEarned
    <3>1. CASE outcomes'[n].verified_by = outcomes[n].verified_by
      BY <2>4, <3>1 DEF IInvOne, StampIsEarned
    <3>2. CASE /\ callers[m].verdict = "verified_complete"
               /\ n = missions[callers[m].mission].latest_outcome
      <4>1. outcomes[n].mission = callers[m].mission
        <5>1. n # NoOutcome
          BY <1>1 DEF NoOutcome
        <5> QED
          BY <2>3, <3>2, <5>1 DEF IInv, OutcomeIsOwn
      <4> QED
        BY <2>3, <2>4, <2>5, <3>2, <4>1
    <3> QED
      BY <2>4, <3>1, <3>2
  <2>8. Through
    BY <2>4, <2>5
  <2> QED
    BY <2>6, <2>7, <2>8 DEF IInvOne
<1>9. \/ ClientStep
      \/ (\E m \in Manager : ManagerFail(m)) \/ Advance \/ UNCHANGED vars
      \/ \E m \in Manager : \/ \E id \in Mission : ManagerSave(m, id)
                            \/ EndSave(m) \/ ManagerStart(m) \/ ManagerComplete(m)
  BY DEF Next, ClientStep, Caller
<1> QED
  BY <1>3, <1>4, <1>5, <1>6, <1>7, <1>8, <1>9

LEMMA OneInvariance ==
    ASSUME OneManager
    PROVE  Spec => [](IInv /\ IInvOne)
<1>1. Init => IInvOne
  BY EndedIsTyped DEF Init, IInvOne, MissionFollowsManager, StampIsEarned, Caller
<1>2. IInv /\ IInvOne /\ [Next]_vars => IInvOne'
  BY NextOne
<1> QED
  BY <1>1, <1>2, InitIInv, NextIInv, PTL DEF Spec

(* With one manager run at a time the verifier's stamp is on no outcome    *)
(* but those whose own verification succeeded, wherever runs break off and *)
(* whatever clients do to other missions.                                  *)
THEOREM StampsAreEarned ==
    ASSUME OneManager
    PROVE  Spec => []StampIsEarned
BY OneInvariance, PTL DEF IInvOne

(* With one manager run at a time a mission becomes verified_complete only *)
(* from awaiting_verification.                                             *)
THEOREM VerifiedThroughAwaiting ==
    ASSUME OneManager
    PROVE  Spec => ThroughAwaiting
<1>1. IInv /\ IInvOne /\ [Next]_vars =>
        [\A id \in Mission \ Public :
            missions'[id].status = "verified_complete" =>
               missions[id].status \in {"awaiting_verification", "verified_complete"}]_vars
  BY NextOne
<1> QED
  BY <1>1, OneInvariance, PTL DEF ThroughAwaiting, Spec

-----------------------------------------------------------------------------
(* One manager run at a time that always gets to its end.                  *)

LEMMA PrivateLatest ==
    ASSUME PrivateKept, NEW id, id \notin Public, NEW r
    PROVE  IsLatest(r, id)' <=> IsLatest(r, id)
<1>1. RunsIn(runs', id) = RunsIn(runs, id)
  BY DEF PrivateKept, RunsIn
<1>2. \A q \in RunsIn(runs, id) : runs'[q] = runs[q]
  BY DEF PrivateKept, RunsIn
<1>3. LatestIn(runs', r, id) <=> LatestIn(runs, r, id)
  BY <1>1, <1>2 DEF LatestIn
<1> QED
  BY <1>3, LatestIsLatestIn

(* Open runs, by the table.                                                *)
LEMMA SureIs ==
    /\ OpenRunIsLatest <=>
          \A r \in DOMAIN runs : runs[r].mission \notin Public /\ runs[r].status = "running" =>
              LatestIn(runs, r, runs[r].mission)
    /\ OpenRunIsLatest' <=>
          \A r \in DOMAIN runs' : runs'[r].mission \notin Public /\ runs'[r].status = "running" =>
              LatestIn(runs', r, runs'[r].mission)
BY DEF OpenRunIsLatest, LatestIn, RunsIn, IsLatest, RunsOf

LEMMA PrivateKeptSure ==
    ASSUME IInv, IInvSure, PrivateKept,
           \A m \in Manager : \/ callers'[m] = callers[m]
                              \/ callers[m].step # "started" /\ now' > now,
           \A m \in Manager : callers'[m].step \in {"idle", "saving", "saved"} =>
                \/ callers[m].step \in {"idle", "saving", "saved"} /\ now' >= now
                \/ now' > now,
           now' \in Nat
    PROVE  IInvSure'
<1>1. now \in Nat /\ \A r \in DOMAIN runs : runs[r].started_at \in Nat /\ runs[r].started_at <= now
  BY RunsAreTyped DEF IInv, TypeOK, RunsAreSound, Run
<1>2. LastRunIsOld'
  <2> SUFFICES ASSUME NEW m \in Manager, NEW r \in DOMAIN runs',
                      callers'[m].step \in {"idle", "saving", "saved"},
                      runs'[r].mission \notin Public
               PROVE  runs'[r].started_at < now'
    BY DEF LastRunIsOld
  <2>1. r \in DOMAIN runs /\ runs'[r] = runs[r]
    BY DEF PrivateKept
  <2>2. CASE now' > now
    BY <1>1, <2>1, <2>2
  <2>3. CASE callers[m].step \in {"idle", "saving", "saved"} /\ now' >= now
    <3>1. runs[r].started_at < now
      BY <2>1, <2>3 DEF IInvSure, LastRunIsOld
    <3> QED
      BY <1>1, <2>1, <2>3, <3>1
  <2> QED
    BY <2>2, <2>3
<1>3. OpenRunHasOwner'
  <2> SUFFICES ASSUME NEW r \in DOMAIN runs', runs'[r].mission \notin Public,
                      runs'[r].status = "running"
               PROVE  \E m \in Manager :
                         callers'[m].step = "started" /\ callers'[m].mission = runs'[r].mission
    BY DEF OpenRunHasOwner
  <2>1. r \in DOMAIN runs /\ runs'[r] = runs[r]
    BY DEF PrivateKept
  <2>2. PICK m \in Manager :
            callers[m].step = "started" /\ callers[m].mission = runs[r].mission
    BY <2>1 DEF IInvSure, OpenRunHasOwner
  <2> QED
    BY <2>1, <2>2
<1>4. OpenRunIsLatest'
  <2> SUFFICES ASSUME NEW r \in DOMAIN runs', runs'[r].mission \notin Public,
                      runs'[r].status = "running"
               PROVE  LatestIn(runs', r, runs'[r].mission)
    BY SureIs
  <2>1. r \in DOMAIN runs /\ runs'[r] = runs[r]
    BY DEF PrivateKept
  <2>2. LatestIn(runs, r, runs[r].mission)
    BY <2>1, SureIs DEF IInvSure
  <2> QED
    BY <2>1, <2>2, PrivateLatest, LatestIsLatestIn
<1> QED
  BY <1>2, <1>3, <1>4 DEF IInvSure

LEMMA NextSure ==
    ASSUME OneManager, ~ CanFail, IInv, IInvSure, [Next]_vars
    PROVE  IInvSure'
<1>1. /\ Manager \subseteq Caller /\ callers \in [Caller -> CallerState]
      /\ runs \in Seq(Run) /\ now \in Nat
      /\ \A m, k \in Manager : m = k
  BY DEF Caller, IInv, TypeOK, OneManager
<1>2. now <= now
  BY <1>1
<1>3. CASE ClientStep
  BY <1>1, <1>2, <1>3, ClientsKeepPrivate, PrivateKeptSure
<1>4. CASE UNCHANGED vars
  <2>1. PrivateKept /\ UNCHANGED <<callers, now>>
    BY <1>4 DEF vars, PrivateKept
  <2> QED
    BY <1>1, <1>2, <2>1, PrivateKeptSure
<1>5. CASE Advance
  <2>1. PrivateKept /\ now' > now /\ now' \in Nat
    BY <1>1, <1>5 DEF Advance, PrivateKept
  <2>2. \A m \in Manager : callers'[m] = callers[m] \/ callers[m].step # "started"
    BY <1>1, <1>5 DEF Advance
  <2> QED
    BY <2>1, <2>2, PrivateKeptSure
(* The only manager run does not verify, and lets nothing open.            *)
<1>6. ASSUME NEW m \in Manager, callers[m].step \in {"idle", "saving", "saved"}
      PROVE  /\ \A r \in DOMAIN runs : runs[r].mission \notin Public =>
                    runs[r].status # "running" /\ runs[r].started_at < now
  BY <1>1, <1>6 DEF IInvSure, OpenRunHasOwner, LastRunIsOld
<1>7. ASSUME NEW m \in Manager,
             (\E id \in Mission : ManagerSave(m, id)) \/ EndSave(m)
      PROVE  IInvSure'
  <2>1. callers[m].step \in {"idle", "saving"} /\ UNCHANGED <<runs, now>>
    BY <1>7 DEF ManagerSave, BeginSave, EndSave
  <2>2. \A r \in DOMAIN runs : runs[r].mission \notin Public =>
                    runs[r].status # "running" /\ runs[r].started_at < now
    BY <1>6, <2>1
  <2> QED
    BY <2>1, <2>2 DEF IInvSure, OpenRunHasOwner, LastRunIsOld, OpenRunIsLatest
<1>8. ASSUME NEW m \in Manager, ManagerStart(m)
      PROVE  IInvSure'
  <2> DEFINE id == callers[m].mission
             run == [mission |-> id, status |-> "running", evidence |-> 0,
                     checks |-> "none", started_at |-> now]
             n == Len(runs) + 1
  <2>1. /\ callers[m].step = "saved" /\ id \in Mission
        /\ runs' = Append(runs, run)
        /\ callers' = [callers EXCEPT ![m] = [callers[m] EXCEPT !.step = "started"]]
        /\ UNCHANGED now
    BY <1>1, <1>8 DEF ManagerStart, StartVerification, IInv, CallsAreSound, Pending
  <2>2. run \in Run /\ run.mission = id /\ run.started_at = now
    BY <1>1, <2>1 DEF Run, CheckResults
  <2>3. callers'[m].step = "started" /\ callers'[m].mission = id
    BY <1>1, <2>1 DEF CallerState
  <2> HIDE DEF run
  <2>4. /\ DOMAIN runs' = DOMAIN runs \cup {n}
        /\ n \notin DOMAIN runs
        /\ runs'[n] = run
        /\ \A r \in DOMAIN runs : runs'[r] = runs[r] /\ r < n
    BY <1>1, <2>1, <2>2, Appended
  <2>5. n \in Nat
    BY <1>1
  <2> HIDE DEF n, id
  <2>6. \A r \in DOMAIN runs : runs[r].mission \notin Public =>
                    runs[r].status # "running" /\ runs[r].started_at < now
    BY <1>6, <2>1
  <2>7. LastRunIsOld'
    BY <1>1, <2>3 DEF LastRunIsOld
  <2>8. OpenRunHasOwner'
    BY <2>2, <2>3, <2>4, <2>6 DEF OpenRunHasOwner
  <2>9. OpenRunIsLatest'
    <3> SUFFICES ASSUME NEW r \in DOMAIN runs', runs'[r].mission \notin Public,
                        runs'[r].status = "running"
                 PROVE  LatestIn(runs', r, runs'[r].mission)
      BY SureIs
    <3>1. r = n /\ runs'[r].mission = id /\ id \notin Public /\ runs'[r].started_at = now
      BY <2>2, <2>4, <2>6
    <3>2. \A q \in DOMAIN runs' : runs'[q].mission = id =>
              \/ runs'[q].started_at < runs'[n].started_at
              \/ q = n
      BY <2>4, <2>6, <3>1
    <3>3. n >= n
      BY <2>5
    <3> QED
      BY <3>1, <3>2, <3>3 DEF LatestIn, RunsIn
  <2> QED
    BY <2>7, <2>8, <2>9 DEF IInvSure
<1>9. ASSUME NEW m \in Manager, ManagerComplete(m)
      PROVE  IInvSure'
  <2>1. callers'[m].step = "ended"
    BY <1>1, <1>9, EndedIsTyped DEF ManagerComplete
  <2>2. PICK r \in DOMAIN runs, checks \in {"passed", "failed"} :
            /\ IsLatest(r, callers[m].mission)
            /\ CompleteVerification(r, callers[m].verdict, 1, checks)
    BY <1>9 DEF ManagerComplete
  <2>3. callers[m].verdict \in Verdicts /\ checks \in CheckResults /\ 1 \in Nat
    BY <1>1, <1>9 DEF ManagerComplete, IInv, CallsAreSound, Pending, CheckResults
  <2> DEFINE after == CompletedTable(runs, r, callers[m].verdict, 1, checks)
  <2>4. runs' = after
    BY <2>2 DEF CompleteVerification, CompletedTable
  <2>5. EndsRun(after, runs, r, callers[m].verdict, 1, checks)
    BY <1>1, <2>3, CompletedRun
  <2> HIDE DEF after
  <2>6. \A q \in DOMAIN runs' :
            runs'[q].mission \notin Public => runs'[q].status # "running"
    <3> SUFFICES ASSUME NEW q \in DOMAIN runs, q # r, runs[q].mission \notin Public,
                        runs[q].status = "running"
                 PROVE  FALSE
      BY <2>3, <2>4, <2>5 DEF Verdicts, EndsRun
    <3>1. callers[m].mission = runs[q].mission
      BY <1>1 DEF IInvSure, OpenRunHasOwner
    <3>2. LatestIn(runs, q, callers[m].mission)
      BY <3>1, SureIs DEF IInvSure
    <3>3. LatestIn(runs, r, callers[m].mission)
      BY <2>2, LatestIsLatestIn
    <3> QED
      BY <1>1, <3>2, <3>3, OneLatest
  <2>7. LastRunIsOld'
    BY <1>1, <2>1 DEF LastRunIsOld
  <2> QED
    BY <2>6, <2>7 DEF IInvSure, OpenRunHasOwner, OpenRunIsLatest
<1>10. \/ ClientStep
       \/ Advance \/ UNCHANGED vars
       \/ \E m \in Manager : \/ \E id \in Mission : ManagerSave(m, id)
                             \/ EndSave(m) \/ ManagerStart(m) \/ ManagerComplete(m)
  BY DEF Next, ClientStep, Caller, ManagerFail
<1> QED
  BY <1>3, <1>4, <1>5, <1>7, <1>8, <1>9, <1>10

(* With one manager run at a time that always gets to its end, an open     *)
(* verification run of a mission no client writes is the one that the      *)
(* manager run is about to complete: none is left behind.                  *)
THEOREM OpenRunsHaveOwners ==
    ASSUME OneManager, ~ CanFail
    PROVE  Spec => []OpenRunHasOwner
<1>1. Init => IInvSure
  BY DEF Init, IInvSure, LastRunIsOld, OpenRunHasOwner, OpenRunIsLatest
<1>2. IInv /\ IInvSure /\ [Next]_vars => IInvSure'
  BY NextSure
<1>3. IInvSure => OpenRunHasOwner
  BY DEF IInvSure
<1> QED
  BY <1>1, <1>2, <1>3, InitIInv, NextIInv, PTL DEF Spec

=============================================================================
