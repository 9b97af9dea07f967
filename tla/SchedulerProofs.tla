-------------------------- MODULE SchedulerProofs ---------------------------
(***************************************************************************)
(* Proofs about Scheduler, for every finite set of schedules and every set *)
(* of tokens, cadences, outcomes and tick limits, every length of the day  *)
(* and every horizon, with and without crashes.                            *)
(***************************************************************************)
EXTENDS Scheduler, FiniteSetTheorems, TLAPS

(* Every claim in flight has a token of its own. *)
FlightTokens ==
    /\ \A m, n \in DOMAIN batch : m # n => batch[m].token # batch[n].token
    /\ \A n \in DOMAIN batch, c \in manual : batch[n].token # c.token
    /\ \A c, d \in manual : c.token = d.token => c = d

(* A row never carries the token of a claim on another schedule. *)
TokenFindsRow ==
    \A c \in InFlight, s \in Schedule :
        schedules[s].run_lock_token = c.token => c.schedule = s

(* What the history variables hold: tokens that a run in flight has lost,  *)
(* and tokens of rows that no run in flight has.                           *)
HistoryShape ==
    /\ \A t \in revoked : \E c \in InFlight : c.token = t
    /\ \A t \in orphaned :
          /\ \E s \in Schedule : schedules[s].run_lock_token = t
          /\ \A c \in InFlight : c.token # t

IInv ==
    /\ TypeOK
    /\ LocksAgree
    /\ FlightTokens
    /\ TokenFindsRow
    /\ HistoryShape
    /\ LostOnlyByPause
    /\ LockIsServed

-----------------------------------------------------------------------------
(* The claims in flight. *)

LEMMA FlightType ==
    ASSUME TypeOK
    PROVE  /\ InFlight \subseteq Claim
           /\ DOMAIN batch = 1 .. Len(batch)
           /\ \A n \in DOMAIN batch : batch[n] \in Claim /\ batch[n] \in InFlight
           /\ \A c \in manual : c \in InFlight
           /\ \A c \in InFlight : c \in manual \/ \E n \in DOMAIN batch : c = batch[n]
           /\ \A c \in InFlight : c.schedule \in Schedule /\ c.token \in Token
                                  /\ c = [schedule |-> c.schedule, token |-> c.token]
<1>1. /\ DOMAIN batch = 1 .. Len(batch)
      /\ \A n \in DOMAIN batch : batch[n] \in Claim
  BY DEF TypeOK
<1>2. manual \subseteq Claim
  BY DEF TypeOK
<1>3. \A c \in Claim : /\ c.schedule \in Schedule /\ c.token \in Token
                       /\ c = [schedule |-> c.schedule, token |-> c.token]
  BY DEF Claim
<1> QED
  BY <1>1, <1>2, <1>3 DEF InFlight, InBatch

LEMMA FlightUnique ==
    ASSUME FlightTokens, NEW c \in InFlight, NEW d \in InFlight, c.token = d.token
    PROVE  c = d
BY DEF FlightTokens, InFlight, InBatch

(* The head of the batch, and what is left without it. *)
LEMMA BatchTail ==
    ASSUME TypeOK, FlightTokens, batch # <<>>
    PROVE  /\ Head(batch) \in InFlight
           /\ Head(batch) = batch[1]
           /\ Tail(batch) \in Seq(Claim)
           /\ {Tail(batch)[n] : n \in DOMAIN Tail(batch)} = InBatch \ {Head(batch)}
           /\ \A n \in DOMAIN Tail(batch) :
                 n + 1 \in DOMAIN batch /\ Tail(batch)[n] = batch[n + 1]
           /\ Head(batch) \notin manual
<1>1. batch \in Seq(Claim)
  BY DEF TypeOK
<1>2. /\ Tail(batch) \in Seq(Claim)
      /\ Len(Tail(batch)) = Len(batch) - 1
      /\ Len(batch) \in Nat \ {0}
      /\ DOMAIN batch = 1 .. Len(batch)
      /\ DOMAIN Tail(batch) = 1 .. (Len(batch) - 1)
      /\ \A n \in DOMAIN Tail(batch) : Tail(batch)[n] = batch[n + 1]
      /\ Head(batch) = batch[1]
  BY <1>1
<1>3. {Tail(batch)[n] : n \in DOMAIN Tail(batch)} = InBatch \ {Head(batch)}
  <2>1. ASSUME NEW n \in DOMAIN Tail(batch)
        PROVE  Tail(batch)[n] \in InBatch \ {Head(batch)}
    <3>1. n + 1 \in DOMAIN batch /\ n + 1 # 1 /\ 1 \in DOMAIN batch
      BY <1>2
    <3> QED
      BY <1>2, <3>1 DEF InBatch, FlightTokens
  <2>2. ASSUME NEW c \in InBatch \ {Head(batch)}
        PROVE  \E n \in DOMAIN Tail(batch) : c = Tail(batch)[n]
    <3>1. PICK m \in DOMAIN batch : c = batch[m]
      BY DEF InBatch
    <3>2. m # 1
      BY <1>2, <3>1
    <3>3. m - 1 \in DOMAIN Tail(batch) /\ (m - 1) + 1 = m
      BY <1>2, <3>2
    <3> QED
      BY <1>2, <3>1, <3>3
  <2> QED
    BY <2>1, <2>2
<1>4. Head(batch) \in InFlight /\ Head(batch) \notin manual
  BY <1>2 DEF InFlight, InBatch, FlightTokens
<1> QED
  BY <1>2, <1>3, <1>4

-----------------------------------------------------------------------------
(* The operators the actions are built from. *)

LEMMA Division ==
    ASSUME NEW d \in Nat \ {0}, NEW x \in Int
    PROVE  /\ x % d \in 0 .. d - 1
           /\ x \div d \in Int
           /\ x = (x \div d) * d + (x % d)
<1>1. x % d \in 0 .. d - 1
  BY Z3
<1>2. x \div d \in Int
  BY Z3
<1>3. x = (x \div d) * d + (x % d)
  BY Z3
<1> QED
  BY <1>1, <1>2, <1>3

LEMMA Multiples ==
    ASSUME NEW d \in Nat \ {0}, NEW k \in Int
    PROVE  /\ k * d \in Int
           /\ k >= 1 => k * d >= d
           /\ k <= -1 => k * d <= -d
           /\ (k + 1) * d = k * d + d
BY Z3

(* A number is divided in one way only. *)
LEMMA Remainder ==
    ASSUME NEW d \in Nat \ {0}, NEW q \in Int, NEW m \in 0 .. d - 1
    PROVE  (q * d + m) % d = m
<1> DEFINE x == q * d + m
           p == x \div d
           r == x % d
<1>1. x \in Int
  BY Z3
<1>2. p \in Int /\ r \in 0 .. d - 1 /\ x = p * d + r
  BY <1>1, Division
<1> HIDE DEF p, r
<1>3. (p - q) * d = m - r
  <2>1. p * d - q * d = m - r
    BY <1>2, Multiples
  <2>2. (p - q) * d = p * d - q * d
    BY <1>2, Z3
  <2> QED
    BY <2>1, <2>2
<1>4. p - q = 0
  <2>1. p - q \in Int
    BY <1>2
  <2>2. m - r > -d /\ m - r < d
    BY <1>2
  <2>3. ~ (p - q >= 1) /\ ~ (p - q <= -1)
    BY <2>1, <2>2, <1>3, Multiples
  <2> QED
    BY <2>1, <2>3
<1>5. r = m
  BY <1>2, <1>3, <1>4
<1> QED
  BY <1>5 DEF r

(* Today's time of day, or tomorrow's, is at the same remainder of the day *)
(* and not more than a day away.                                           *)
LEMMA TimeOfDay ==
    ASSUME NEW t \in Nat, NEW m \in 0 .. Day - 1
    PROVE  LET today == t - (t % Day) + m
           IN  /\ today \in Nat
               /\ today <= t + Day
               /\ t < today + Day
               /\ today % Day = m
               /\ (today + Day) % Day = m
<1> DEFINE q == t \div Day
           r == t % Day
           today == t - r + m
<1>1. Day \in Nat \ {0}
  BY SchedulerAssumption
<1>2. q \in Int /\ r \in 0 .. Day - 1 /\ t = q * Day + r
  BY <1>1, Division
<1> HIDE DEF q, r
<1>3. q * Day \in Int /\ (q + 1) * Day = q * Day + Day /\ (q <= -1 => q * Day <= -Day)
  BY <1>1, <1>2, Multiples
<1>4. today \in Nat /\ today <= t + Day /\ t < today + Day
  BY <1>1, <1>2, <1>3
<1>5. today = q * Day + m /\ today + Day = (q + 1) * Day + m
  BY <1>1, <1>2, <1>3
<1> HIDE DEF today
<1>6. today % Day = m /\ (today + Day) % Day = m
  <2>1. q + 1 \in Int
    BY <1>2
  <2> QED
    BY <1>1, <1>2, <1>5, <2>1, Remainder
<1> QED
  BY <1>4, <1>6 DEF today, r

LEMMA NextRunAtIsLater ==
    ASSUME NEW cadence \in Cadence \cup {NoCadence}, NEW t \in Nat
    PROVE  /\ NextRunAt(cadence, t) \in Nat
           /\ NextRunAt(cadence, t) > t
           /\ cadence.kind = "daily" =>
                 /\ NextRunAt(cadence, t) % Day = cadence.minutes
                 /\ NextRunAt(cadence, t) <= t + Day
<1>1. CASE cadence.kind = "interval"
  BY <1>1 DEF NextRunAt, Cadence, NoCadence
<1>2. CASE cadence.kind # "interval"
  <2>1. cadence.minutes \in 0 .. Day - 1
    BY <1>2, SchedulerAssumption DEF Cadence, NoCadence
  <2> DEFINE today == t - (t % Day) + cadence.minutes
  <2>2. NextRunAt(cadence, t) = IF today <= t THEN today + Day ELSE today
    BY <1>2 DEF NextRunAt
  <2>3. /\ today \in Nat /\ today <= t + Day /\ t < today + Day
        /\ today % Day = cadence.minutes /\ (today + Day) % Day = cadence.minutes
    BY <2>1, TimeOfDay
  <2> HIDE DEF today
  <2>4. Day \in Nat
    BY SchedulerAssumption
  <2> QED
    BY <2>2, <2>3, <2>4
<1> QED
  BY <1>1, <1>2

-----------------------------------------------------------------------------
(* The inductive invariant. *)

LEMMA InitIInv == Init => IInv
<1> SUFFICES ASSUME Init PROVE IInv
  OBVIOUS
<1>1. InFlight = {}
  BY DEF Init, InFlight, InBatch
<1>2. NoRow \in Row
  BY DEF NoRow, Row
<1>3. TypeOK
  <2>1. schedules \in [Schedule -> Row]
    BY <1>2 DEF Init
  <2>2. batch \in Seq(Claim)
    BY DEF Init
  <2> QED
    BY <2>1, <2>2 DEF Init, TypeOK
<1>4. LocksAgree
  BY DEF Init, NoRow, LocksAgree, Locked
<1>5. FlightTokens
  BY DEF Init, FlightTokens
<1>6. TokenFindsRow /\ HistoryShape /\ LostOnlyByPause
  BY <1>1 DEF Init, TokenFindsRow, HistoryShape, LostOnlyByPause
<1>7. LockIsServed
  BY DEF Init, NoRow, LockIsServed, Locked
<1> QED
  BY <1>3, <1>4, <1>5, <1>6, <1>7 DEF IInv

(* What of a row the invariant speaks of. *)
LockColumns(row) ==
    [locked |-> row.run_lock, token |-> row.run_lock_token,
     paused |-> row.run_lock /\ row.paused, running |-> row.last_status = "running"]

(* Claims on claimable schedules under fresh tokens keep all that is said  *)
(* of locks and tokens, however many are made at once.                     *)
LEMMA ClaimsKeepLocks ==
    ASSUME IInv, NEW new \in SUBSET Claim,
           \A c, d \in new : c.schedule = d.schedule \/ c.token = d.token => c = d,
           \A c \in new : Claimable(c.schedule) /\ c.token \notin TokensInUse,
           \A c \in new : LockColumns(schedules'[c.schedule]) =
                              [locked |-> TRUE, token |-> c.token, paused |-> FALSE, running |-> TRUE],
           \A s \in Schedule : \/ \E c \in new : c.schedule = s
                               \/ LockColumns(schedules'[s]) = LockColumns(schedules[s]),
           InFlight' = InFlight \cup new,
           UNCHANGED <<revoked, orphaned>>
    PROVE  /\ LocksAgree'
           /\ TokenFindsRow'
           /\ HistoryShape'
           /\ LostOnlyByPause'
           /\ LockIsServed'
<1>1. \A c \in new : /\ c.schedule \in Schedule /\ c.token \in Token
                     /\ c.token # NoToken
                     /\ c = [schedule |-> c.schedule, token |-> c.token]
  BY SchedulerAssumption DEF Claim
<1>2. \A c \in new : ~ Locked(c.schedule) /\ schedules[c.schedule].run_lock_token = NoToken
  BY <1>1 DEF Claimable, IInv, LocksAgree
<1>3. \A c \in new : /\ \A s \in Schedule : schedules[s].run_lock_token # c.token
                     /\ \A d \in InFlight : d.token # c.token
  BY DEF TokensInUse
<1>4. \A c \in new : /\ schedules'[c.schedule].run_lock = TRUE
                     /\ schedules'[c.schedule].run_lock_token = c.token
                     /\ ~ schedules'[c.schedule].paused
                     /\ schedules'[c.schedule].last_status = "running"
  BY DEF LockColumns
<1>5. \A s \in Schedule : (\A c \in new : c.schedule # s) =>
          /\ schedules'[s].run_lock = schedules[s].run_lock
          /\ schedules'[s].run_lock_token = schedules[s].run_lock_token
          /\ schedules'[s].run_lock /\ schedules'[s].paused
                <=> schedules[s].run_lock /\ schedules[s].paused
          /\ (schedules'[s].last_status = "running") = (schedules[s].last_status = "running")
  BY DEF LockColumns
<1>6. \A c \in InFlight : c.schedule \in Schedule /\ c.token \in Token /\ c.token # NoToken
  BY FlightType, SchedulerAssumption DEF IInv
<1>7. LocksAgree'
  <2>1. ASSUME NEW s \in Schedule
        PROVE  /\ Locked(s)' <=> schedules'[s].run_lock_token # NoToken
               /\ Locked(s)' <=> schedules'[s].last_status = "running"
               /\ Locked(s)' => ~ schedules'[s].paused
    <3>1. CASE \E c \in new : c.schedule = s
      BY <1>1, <1>4, <3>1 DEF Locked
    <3>2. CASE \A c \in new : c.schedule # s
      BY <1>5, <3>2 DEF Locked, IInv, LocksAgree
    <3> QED
      BY <3>1, <3>2
  <2>2. ASSUME NEW r \in Schedule, NEW s \in Schedule, r # s, Locked(r)'
        PROVE  schedules'[r].run_lock_token # schedules'[s].run_lock_token
    <3>1. CASE \E c \in new : c.schedule = r
      BY <1>1, <1>2, <1>3, <1>4, <1>5, <2>2, <3>1
    <3>2. CASE \A c \in new : c.schedule # r
      <4>1. schedules'[r].run_lock_token = schedules[r].run_lock_token /\ Locked(r)
        BY <1>5, <2>2, <3>2 DEF Locked
      <4> QED
        BY <1>3, <1>4, <1>5, <2>2, <4>1 DEF IInv, LocksAgree
    <3> QED
      BY <3>1, <3>2
  <2> QED
    BY <2>1, <2>2 DEF LocksAgree
<1>8. TokenFindsRow'
  <2> SUFFICES ASSUME NEW c \in InFlight \cup new, NEW s \in Schedule,
                      schedules'[s].run_lock_token = c.token
               PROVE  c.schedule = s
    BY DEF TokenFindsRow
  <2>1. CASE \E d \in new : d.schedule = s
    BY <1>3, <1>4, <2>1
  <2>2. CASE \A d \in new : d.schedule # s
    BY <1>3, <1>5, <2>2 DEF IInv, TokenFindsRow
  <2> QED
    BY <2>1, <2>2
<1>9. HistoryShape'
  <2>1. ASSUME NEW t \in orphaned
        PROVE  /\ \E s \in Schedule : schedules'[s].run_lock_token = t
               /\ \A c \in InFlight \cup new : c.token # t
    <3>1. PICK s \in Schedule : schedules[s].run_lock_token = t
      BY DEF IInv, HistoryShape
    <3>2. t # NoToken
      BY SchedulerAssumption DEF IInv, TypeOK
    <3>3. \A c \in new : c.schedule # s
      BY <1>2, <3>1, <3>2
    <3> QED
      BY <1>3, <1>5, <3>1, <3>3 DEF IInv, HistoryShape
  <2> QED
    BY <2>1 DEF IInv, HistoryShape
<1>10. LostOnlyByPause'
  <2>1. ASSUME NEW c \in InFlight \cup new
        PROVE  schedules'[c.schedule].run_lock_token = c.token <=> c.token \notin revoked
    <3>1. CASE c \in new
      BY <1>3, <1>4, <3>1 DEF IInv, HistoryShape
    <3>2. CASE c \in InFlight /\ c \notin new
      <4>1. CASE \E d \in new : d.schedule = c.schedule
        BY <1>2, <1>3, <1>4, <1>6, <3>2, <4>1 DEF IInv, LostOnlyByPause, HoldsLock
      <4>2. CASE \A d \in new : d.schedule # c.schedule
        BY <1>5, <1>6, <3>2, <4>2 DEF IInv, LostOnlyByPause, HoldsLock
      <4> QED
        BY <4>1, <4>2
    <3> QED
      BY <3>1, <3>2
  <2> QED
    BY <2>1 DEF LostOnlyByPause, HoldsLock
<1>11. LockIsServed'
  <2> SUFFICES ASSUME NEW s \in Schedule, Locked(s)', schedules'[s].run_lock_token \notin orphaned
               PROVE  [schedule |-> s, token |-> schedules'[s].run_lock_token] \in InFlight \cup new
    BY DEF LockIsServed
  <2>1. CASE \E d \in new : d.schedule = s
    BY <1>1, <1>4, <2>1
  <2>2. CASE \A d \in new : d.schedule # s
    BY <1>5, <2>2 DEF IInv, LockIsServed, Locked
  <2> QED
    BY <2>1, <2>2
<1> QED
  BY <1>7, <1>8, <1>9, <1>10, <1>11

(* Steps that claim nothing and touch no lock. *)
LEMMA QuietKeepsIInv ==
    ASSUME IInv, TypeOK',
           \A s \in Schedule : LockColumns(schedules'[s]) = LockColumns(schedules[s]),
           UNCHANGED <<batch, manual, revoked, orphaned>>
    PROVE  IInv'
<1>1. InFlight' = InFlight \cup {}
  BY DEF InFlight, InBatch
<1>2. FlightTokens'
  BY DEF IInv, FlightTokens
<1>3. LocksAgree' /\ TokenFindsRow' /\ HistoryShape' /\ LostOnlyByPause' /\ LockIsServed'
  <2>1. PICK new \in SUBSET Claim : new = {}
    OBVIOUS
  <2> QED
    BY <1>1, <2>1, ClaimsKeepLocks
<1> QED
  BY <1>2, <1>3 DEF IInv

LEMMA CreateKeepsIInv ==
    ASSUME IInv, NEW cadence \in Cadences, NEW start_immediately \in BOOLEAN,
           CreateSchedule(cadence, start_immediately)
    PROVE  IInv'
<1>1. PICK s \in Schedule :
          /\ ~ Exists(s)
          /\ schedules' = [schedules EXCEPT
                ![s] = [NoRow EXCEPT
                          !.cadence = cadence,
                          !.last_status = "idle",
                          !.next_run_at = IF start_immediately THEN now
                                          ELSE NextRunAt(cadence, now),
                          !.created_at = now]]
  BY DEF CreateSchedule
<1>2. NextRunAt(cadence, now) \in Nat /\ now \in Nat
  BY NextRunAtIsLater, SchedulerAssumption DEF IInv, TypeOK
<1>3. schedules' \in [Schedule -> Row]
  BY <1>1, <1>2 DEF NoRow, Row, IInv, TypeOK
<1>4. TypeOK'
  BY <1>3 DEF CreateSchedule, IInv, TypeOK
<1>5. /\ ~ schedules[s].run_lock /\ schedules[s].run_lock = FALSE
      /\ schedules[s].run_lock_token = NoToken
      /\ schedules[s].last_status # "running"
  BY <1>1 DEF Exists, Locked, IInv, TypeOK, Row, LocksAgree
<1>6. \A r \in Schedule : LockColumns(schedules'[r]) = LockColumns(schedules[r])
  BY <1>1, <1>5 DEF LockColumns, NoRow, IInv, TypeOK
<1> QED
  BY <1>4, <1>6, QuietKeepsIInv DEF CreateSchedule

LEMMA ResumeKeepsIInv ==
    ASSUME IInv, NEW s \in Schedule, Resume(s)
    PROVE  IInv'
<1>1. schedules' = [schedules EXCEPT ![s].paused = FALSE]
  BY DEF Resume
<1>2. TypeOK'
  <2>1. schedules[s] \in Row /\ [schedules[s] EXCEPT !.paused = FALSE] \in Row
    BY DEF IInv, TypeOK, Row
  <2> QED
    BY <1>1, <2>1 DEF Resume, IInv, TypeOK
<1>3. \A r \in Schedule : LockColumns(schedules'[r]) = LockColumns(schedules[r])
  BY <1>1 DEF LockColumns, IInv, TypeOK, Row, LocksAgree, Locked
<1> QED
  BY <1>2, <1>3, QuietKeepsIInv DEF Resume

(* The row loses its lock, the run that held it is remembered as robbed.   *)
LEMMA PauseKeepsIInv ==
    ASSUME IInv, NEW s \in Schedule, Pause(s)
    PROVE  IInv'
<1>1. /\ PausedRow(s) \in Row
      /\ PausedRow(s).run_lock = FALSE
      /\ PausedRow(s).run_lock_token = NoToken
      /\ PausedRow(s).last_status # "running"
  BY DEF PausedRow, IInv, TypeOK, Row
<1>2. /\ schedules' \in [Schedule -> Row]
      /\ \A r \in Schedule : schedules'[r] = IF r = s THEN PausedRow(s) ELSE schedules[r]
  BY <1>1 DEF Pause, IInv, TypeOK
<1>3. InFlight' = InFlight
  BY DEF Pause, InFlight, InBatch
<1>4. \A c \in InFlight : c.schedule \in Schedule /\ c.token \in Token /\ c.token # NoToken
  BY FlightType, SchedulerAssumption DEF IInv
<1>5. TypeOK'
  <2>1. revoked' \subseteq Token /\ orphaned' \subseteq Token
    BY <1>4 DEF Pause, IInv, TypeOK
  <2> QED
    BY <1>1, <2>1 DEF Pause, IInv, TypeOK
<1>6. LocksAgree'
  BY <1>1, <1>2 DEF IInv, LocksAgree, Locked
<1>7. FlightTokens'
  BY DEF Pause, IInv, FlightTokens
<1>8. TokenFindsRow'
  BY <1>1, <1>2, <1>3, <1>4 DEF IInv, TokenFindsRow
<1>9. HistoryShape'
  <2>1. ASSUME NEW t \in revoked'
        PROVE  \E c \in InFlight : c.token = t
    BY <2>1 DEF Pause, IInv, HistoryShape
  <2>2. ASSUME NEW t \in orphaned'
        PROVE  /\ \E r \in Schedule : schedules'[r].run_lock_token = t
               /\ \A c \in InFlight : c.token # t
    BY <1>1, <2>2 DEF Pause, IInv, HistoryShape
  <2> QED
    BY <1>3, <2>1, <2>2 DEF HistoryShape
<1>10. LostOnlyByPause'
  <2> SUFFICES ASSUME NEW c \in InFlight
               PROVE  schedules'[c.schedule].run_lock_token = c.token <=> c.token \notin revoked'
    BY <1>3 DEF LostOnlyByPause, HoldsLock
  <2>1. c.token \in revoked'
          <=> c.token \in revoked \/ (c.schedule = s /\ schedules[s].run_lock_token = c.token)
    BY FlightUnique DEF Pause, HoldsLock, IInv
  <2>2. schedules[c.schedule].run_lock_token = c.token <=> c.token \notin revoked
    BY DEF IInv, LostOnlyByPause, HoldsLock
  <2>3. CASE c.schedule = s
    BY <1>1, <1>2, <1>4, <2>1, <2>2, <2>3
  <2>4. CASE c.schedule # s
    BY <1>2, <1>4, <2>1, <2>2, <2>4
  <2> QED
    BY <2>3, <2>4
<1>11. LockIsServed'
  <2> SUFFICES ASSUME NEW r \in Schedule, Locked(r)', schedules'[r].run_lock_token \notin orphaned'
               PROVE  [schedule |-> r, token |-> schedules'[r].run_lock_token] \in InFlight
    BY <1>3 DEF LockIsServed
  <2>1. r # s /\ schedules'[r] = schedules[r] /\ Locked(r)
    BY <1>1, <1>2 DEF Locked
  <2>2. schedules[r].run_lock_token # schedules[s].run_lock_token
    BY <2>1 DEF IInv, LocksAgree
  <2> QED
    BY <2>1, <2>2 DEF Pause, IInv, LockIsServed
<1> QED
  BY <1>5, <1>6, <1>7, <1>8, <1>9, <1>10, <1>11 DEF IInv

LEMMA ClaimedRowType ==
    ASSUME IInv, NEW s \in Schedule, NEW token \in Token, Claimable(s)
    PROVE  /\ ClaimedRow(s, token) \in Row
           /\ LockColumns(ClaimedRow(s, token)) =
                [locked |-> TRUE, token |-> token, paused |-> FALSE, running |-> TRUE]
BY DEF ClaimedRow, Claimable, LockColumns, IInv, TypeOK, Row

LEMMA RunNowKeepsIInv ==
    ASSUME IInv, NEW s \in Schedule, RunNow(s)
    PROVE  IInv'
<1>1. now \in Nat /\ schedules[s] \in Row /\ run_nows' \in Nat
  BY DEF IInv, TypeOK, RunNow
<1>2. CASE /\ Claimable(s)
           /\ \E token \in Token \ TokensInUse :
                /\ schedules' = [schedules EXCEPT
                      ![s] = [ClaimedRow(s, token) EXCEPT !.next_run_at = now]]
                /\ manual' = manual \cup {[schedule |-> s, token |-> token]}
  <2>1. PICK token \in Token \ TokensInUse :
                /\ schedules' = [schedules EXCEPT
                      ![s] = [ClaimedRow(s, token) EXCEPT !.next_run_at = now]]
                /\ manual' = manual \cup {[schedule |-> s, token |-> token]}
    BY <1>2
  <2> DEFINE row == [ClaimedRow(s, token) EXCEPT !.next_run_at = now]
             claim == [schedule |-> s, token |-> token]
  <2>2. /\ row \in Row
        /\ LockColumns(row) =
             [locked |-> TRUE, token |-> token, paused |-> FALSE, running |-> TRUE]
    BY <1>1, <1>2 DEF ClaimedRow, Row, LockColumns, Claimable
  <2>3. claim \in Claim /\ claim.schedule = s /\ claim.token = token
    BY DEF Claim
  <2> HIDE DEF row, claim
  <2>4. /\ schedules' \in [Schedule -> Row]
        /\ schedules'[s] = row
        /\ \A r \in Schedule : r # s => schedules'[r] = schedules[r]
    BY <2>1, <2>2 DEF row, IInv, TypeOK
  <2>5. manual' = manual \cup {claim}
    BY <2>1 DEF claim
  <2>6. TypeOK'
    BY <1>1, <2>3, <2>4, <2>5 DEF RunNow, IInv, TypeOK
  <2>7. \A c \in InFlight : c.token # claim.token
    BY <2>1, <2>3 DEF TokensInUse
  <2>8. FlightTokens'
    BY <2>3, <2>5, <2>7, FlightType DEF RunNow, IInv, FlightTokens
  <2>9. InFlight' = InFlight \cup {claim}
    BY <2>5 DEF RunNow, InFlight, InBatch
  <2>10. LocksAgree' /\ TokenFindsRow' /\ HistoryShape' /\ LostOnlyByPause' /\ LockIsServed'
    <3>1. PICK new \in SUBSET Claim : new = {claim}
      BY <2>3
    <3>2. \A c \in new : Claimable(c.schedule) /\ c.token \notin TokensInUse
      BY <1>2, <2>1, <2>3, <3>1
    <3>3. \A c \in new : LockColumns(schedules'[c.schedule]) =
              [locked |-> TRUE, token |-> c.token, paused |-> FALSE, running |-> TRUE]
      BY <2>2, <2>3, <2>4, <3>1
    <3>4. \A r \in Schedule : \/ \E c \in new : c.schedule = r
                              \/ LockColumns(schedules'[r]) = LockColumns(schedules[r])
      BY <2>3, <2>4, <3>1
    <3> QED
      BY <2>9, <3>1, <3>2, <3>3, <3>4, ClaimsKeepLocks DEF RunNow
  <2> QED
    BY <2>6, <2>8, <2>10 DEF IInv
<1>3. CASE /\ ~ Claimable(s)
           /\ schedules' = [schedules EXCEPT ![s].next_run_at = now]
           /\ UNCHANGED manual
  <2>1. TypeOK'
    <3>1. [schedules[s] EXCEPT !.next_run_at = now] \in Row
      BY <1>1 DEF Row
    <3> QED
      BY <1>1, <1>3, <3>1 DEF RunNow, IInv, TypeOK
  <2>2. \A r \in Schedule : LockColumns(schedules'[r]) = LockColumns(schedules[r])
    BY <1>3 DEF LockColumns, IInv, TypeOK, Row
  <2> QED
    BY <1>3, <2>1, <2>2, QuietKeepsIInv DEF RunNow
<1> QED
  BY <1>2, <1>3 DEF RunNow

LEMMA BeginTickKeepsIInv ==
    ASSUME IInv, NEW limit \in TickLimits, BeginTick(limit)
    PROVE  IInv'
<1> DEFINE due == {s \in Schedule : Due(s)}
           size == IF Cardinality(due) < limit THEN Cardinality(due) ELSE limit
<1>1. size \in Nat
  <2>1. IsFiniteSet(due)
    BY FS_Subset, SchedulerAssumption
  <2>2. Cardinality(due) \in Nat
    BY <2>1, FS_CardinalityType
  <2> QED
    BY <2>2, SchedulerAssumption
<1>2. PICK claims \in DueBatches(limit) \ {<<>>} :
          /\ batch' = claims
          /\ schedules' = [s \in Schedule |->
                IF \E n \in DOMAIN claims : claims[n].schedule = s
                THEN ClaimedRow(s, claims[CHOOSE n \in DOMAIN claims :
                                            claims[n].schedule = s].token)
                ELSE schedules[s]]
  BY DEF BeginTick, ClaimBatch
<1>3. /\ claims \in [1 .. size -> [schedule : due, token : Token \ TokensInUse]]
      /\ \A m, n \in 1 .. size : m < n => /\ claims[m].schedule # claims[n].schedule
                                          /\ claims[m].token # claims[n].token
  BY <1>2 DEF DueBatches
<1> HIDE DEF size
<1>4. /\ DOMAIN claims = 1 .. size
      /\ \A n \in 1 .. size : /\ claims[n].schedule \in Schedule
                              /\ Claimable(claims[n].schedule)
                              /\ claims[n].token \in Token
                              /\ claims[n].token \notin TokensInUse
                              /\ claims[n] \in Claim
                              /\ claims[n] = [schedule |-> claims[n].schedule,
                                              token |-> claims[n].token]
  BY <1>3 DEF Due, Claim
<1>5. \A m, n \in 1 .. size :
          claims[m].schedule = claims[n].schedule \/ claims[m].token = claims[n].token => m = n
  BY <1>1, <1>3
<1>6. claims \in Seq(Claim)
  BY <1>1, <1>3, <1>4
<1>7. \A n \in 1 .. size :
          schedules'[claims[n].schedule] = ClaimedRow(claims[n].schedule, claims[n].token)
  <2> SUFFICES ASSUME NEW n \in 1 .. size
               PROVE  schedules'[claims[n].schedule]
                        = ClaimedRow(claims[n].schedule, claims[n].token)
    OBVIOUS
  <2>1. (CHOOSE m \in DOMAIN claims : claims[m].schedule = claims[n].schedule) = n
    BY <1>4, <1>5
  <2> QED
    BY <1>2, <1>4, <2>1
<1>8. \A s \in Schedule : (\A n \in 1 .. size : claims[n].schedule # s)
          => schedules'[s] = schedules[s]
  BY <1>2, <1>4
<1>9. TypeOK'
  <2>1. \A n \in 1 .. size : ClaimedRow(claims[n].schedule, claims[n].token) \in Row
    BY <1>4, ClaimedRowType
  <2>2. \A s \in Schedule : schedules'[s] \in Row
    BY <1>7, <1>8, <2>1 DEF IInv, TypeOK
  <2>3. schedules' \in [Schedule -> Row]
    BY <1>2, <2>2
  <2> QED
    BY <1>2, <1>6, <2>3 DEF BeginTick, ClaimBatch, IInv, TypeOK
<1>10. FlightTokens'
  <2>1. \A n \in 1 .. size, c \in manual : claims[n].token # c.token
    BY <1>4 DEF TokensInUse, InFlight
  <2> QED
    BY <1>2, <1>4, <1>5, <2>1 DEF BeginTick, ClaimBatch, IInv, FlightTokens
<1>11. LocksAgree' /\ TokenFindsRow' /\ HistoryShape' /\ LostOnlyByPause' /\ LockIsServed'
  <2>1. PICK new \in SUBSET Claim : new = {claims[n] : n \in 1 .. size}
    BY <1>4
  <2>2. InFlight' = InFlight \cup new
    BY <1>2, <1>4, <2>1 DEF BeginTick, ClaimBatch, InFlight, InBatch
  <2>3. \A c, d \in new : c.schedule = d.schedule \/ c.token = d.token => c = d
    BY <1>5, <2>1
  <2>4. \A c \in new : Claimable(c.schedule) /\ c.token \notin TokensInUse
    BY <1>4, <2>1
  <2>5. \A c \in new : LockColumns(schedules'[c.schedule]) =
              [locked |-> TRUE, token |-> c.token, paused |-> FALSE, running |-> TRUE]
    <3> SUFFICES ASSUME NEW n \in 1 .. size
                 PROVE  LockColumns(schedules'[claims[n].schedule]) =
                           [locked |-> TRUE, token |-> claims[n].token,
                            paused |-> FALSE, running |-> TRUE]
      BY <2>1
    <3> QED
      <4> DEFINE s == claims[n].schedule
                 token == claims[n].token
      <4>1. s \in Schedule /\ token \in Token /\ Claimable(s)
        BY <1>4
      <4>2. schedules'[s] = ClaimedRow(s, token)
        BY <1>7
      <4> HIDE DEF s, token
      <4>3. LockColumns(ClaimedRow(s, token)) =
              [locked |-> TRUE, token |-> token, paused |-> FALSE, running |-> TRUE]
        BY <4>1, ClaimedRowType
      <4>4. LockColumns(schedules'[s]) = LockColumns(ClaimedRow(s, token))
        BY <4>2
      <4> QED
        BY <4>3, <4>4 DEF s, token
  <2>6. \A s \in Schedule : \/ \E c \in new : c.schedule = s
                            \/ LockColumns(schedules'[s]) = LockColumns(schedules[s])
    BY <1>8, <2>1
  <2> QED
    BY <2>2, <2>3, <2>4, <2>5, <2>6, ClaimsKeepLocks DEF BeginTick, ClaimBatch
<1> QED
  BY <1>9, <1>10, <1>11 DEF IInv

-----------------------------------------------------------------------------
(* The end of runs. *)

(* A run in flight owns its lock exactly when its token is in the row.     *)
LEMMA OwnsIsHolds ==
    ASSUME IInv, NEW c \in InFlight
    PROVE  Owns(c) <=> schedules[c.schedule].run_lock_token = c.token
BY FlightType, SchedulerAssumption DEF IInv, LocksAgree, Owns

LEMMA FinishedRowType ==
    ASSUME IInv, NEW s \in Schedule, Locked(s), NEW status \in Outcomes
    PROVE  /\ FinishedRow(s, status) \in Row
           /\ FinishedRow(s, status).run_lock = FALSE
           /\ FinishedRow(s, status).run_lock_token = NoToken
           /\ FinishedRow(s, status).last_status = status
           /\ FinishedRow(s, status).run_count = schedules[s].run_count + 1
           /\ FinishedRow(s, status).next_run_at = NextRunAt(schedules[s].cadence, now)
           /\ status # "running"
<1>1. /\ schedules[s] \in Row
      /\ status \in RunStatuses
      /\ now \in Nat
  BY SchedulerAssumption DEF IInv, TypeOK
<1>2. status # "running"
  BY <1>1 DEF RunStatuses
<1>3. schedules[s].cadence \in Cadence \cup {NoCadence}
  BY <1>1, SchedulerAssumption DEF Row
<1>4. NextRunAt(schedules[s].cadence, now) \in Nat
  BY <1>1, <1>3, NextRunAtIsLater
<1>5. FinishedRow(s, status) \in Row
  <2> DEFINE next == NextRunAt(schedules[s].cadence, now)
             counts == [run |-> schedules[s].run_count + 1,
                        success |-> IF status = "verified_complete"
                                    THEN schedules[s].success_count + 1
                                    ELSE schedules[s].success_count,
                        failure |-> IF status = "verified_complete"
                                    THEN schedules[s].failure_count
                                    ELSE schedules[s].failure_count + 1]
  <2>1. next \in Nat /\ counts \in [run : Nat, success : Nat, failure : Nat]
    BY <1>1, <1>4 DEF Row
  <2>2. FinishedRow(s, status) =
          [schedules[s] EXCEPT !.run_lock = FALSE, !.run_lock_token = NoToken,
                               !.run_count = counts.run, !.success_count = counts.success,
                               !.failure_count = counts.failure, !.last_status = status,
                               !.next_run_at = next]
    BY DEF FinishedRow
  <2> HIDE DEF next, counts
  <2> QED
    BY <1>1, <2>1, <2>2 DEF Row
<1> QED
  BY <1>1, <1>2, <1>5 DEF FinishedRow, Row

(* A run leaves: with its lock when it has it, and without a trace else.   *)
LEMMA EndKeepsLocks ==
    ASSUME IInv, NEW c \in InFlight,
           InFlight' = InFlight \ {c},
           \/ /\ Owns(c)
              /\ \E row \in Row :
                    /\ row.run_lock = FALSE /\ row.run_lock_token = NoToken
                    /\ row.last_status # "running"
                    /\ schedules' = [schedules EXCEPT ![c.schedule] = row]
           \/ ~ Owns(c) /\ UNCHANGED schedules,
           revoked' = revoked \ {c.token},
           UNCHANGED orphaned
    PROVE  /\ LocksAgree'
           /\ TokenFindsRow'
           /\ HistoryShape'
           /\ LostOnlyByPause'
           /\ LockIsServed'
<1>1. \A d \in InFlight : /\ d.schedule \in Schedule /\ d.token \in Token /\ d.token # NoToken
                          /\ d = [schedule |-> d.schedule, token |-> d.token]
                          /\ d.token = c.token => d = c
  BY FlightType, FlightUnique, SchedulerAssumption DEF IInv
<1>2. Owns(c) <=> schedules[c.schedule].run_lock_token = c.token
  BY OwnsIsHolds
<1>3. /\ schedules \in [Schedule -> Row]
      /\ orphaned \subseteq Token
      /\ \A t \in orphaned : t # c.token
  BY DEF IInv, TypeOK, HistoryShape
<1>4. CASE /\ Owns(c)
           /\ \E row \in Row :
                 /\ row.run_lock = FALSE /\ row.run_lock_token = NoToken
                 /\ row.last_status # "running"
                 /\ schedules' = [schedules EXCEPT ![c.schedule] = row]
  <2>1. /\ schedules'[c.schedule].run_lock = FALSE
        /\ schedules'[c.schedule].run_lock_token = NoToken
        /\ schedules'[c.schedule].last_status # "running"
        /\ \A r \in Schedule : r # c.schedule => schedules'[r] = schedules[r]
    BY <1>1, <1>3, <1>4
  <2>2. LocksAgree'
    BY <2>1 DEF IInv, LocksAgree, Locked
  <2>3. TokenFindsRow'
    BY <1>1, <2>1 DEF IInv, TokenFindsRow
  <2>4. HistoryShape'
    <3>1. ASSUME NEW t \in revoked \ {c.token}
          PROVE  \E d \in InFlight \ {c} : d.token = t
      BY DEF IInv, HistoryShape
    <3>2. ASSUME NEW t \in orphaned
          PROVE  /\ \E s \in Schedule : schedules'[s].run_lock_token = t
                 /\ \A d \in InFlight \ {c} : d.token # t
      <4>1. PICK s \in Schedule : schedules[s].run_lock_token = t
        BY DEF IInv, HistoryShape
      <4>2. s # c.schedule
        BY <1>2, <1>3, <1>4, <4>1
      <4> QED
        BY <2>1, <4>1, <4>2 DEF IInv, HistoryShape
    <3> QED
      BY <3>1, <3>2 DEF HistoryShape
  <2>5. LostOnlyByPause'
    <3> SUFFICES ASSUME NEW d \in InFlight \ {c}
                 PROVE  schedules'[d.schedule].run_lock_token = d.token
                          <=> d.token \notin revoked \ {c.token}
      BY DEF LostOnlyByPause, HoldsLock
    <3>1. schedules[d.schedule].run_lock_token = d.token <=> d.token \notin revoked
      BY DEF IInv, LostOnlyByPause, HoldsLock
    <3>2. d.token # c.token /\ d.token # NoToken /\ d.schedule \in Schedule
      BY <1>1
    <3>3. CASE d.schedule = c.schedule
      BY <1>2, <1>4, <2>1, <3>1, <3>2, <3>3
    <3>4. CASE d.schedule # c.schedule
      BY <2>1, <3>1, <3>2, <3>4
    <3> QED
      BY <3>3, <3>4
  <2>6. LockIsServed'
    <3> SUFFICES ASSUME NEW s \in Schedule, Locked(s)',
                        schedules'[s].run_lock_token \notin orphaned
                 PROVE  [schedule |-> s, token |-> schedules'[s].run_lock_token]
                          \in InFlight \ {c}
      BY DEF LockIsServed
    <3>1. s # c.schedule /\ schedules'[s] = schedules[s] /\ Locked(s)
      BY <2>1 DEF Locked
    <3>2. [schedule |-> s, token |-> schedules[s].run_lock_token] \in InFlight
      BY <3>1 DEF IInv, LockIsServed
    <3> QED
      BY <3>1, <3>2
  <2> QED
    BY <2>2, <2>3, <2>4, <2>5, <2>6
<1>5. CASE ~ Owns(c) /\ UNCHANGED schedules
  <2>1. LocksAgree'
    BY <1>5 DEF IInv, LocksAgree, Locked
  <2>2. TokenFindsRow'
    BY <1>5 DEF IInv, TokenFindsRow
  <2>3. HistoryShape'
    BY <1>5 DEF IInv, HistoryShape
  <2>4. LostOnlyByPause'
    <3>1. \A d \in InFlight \ {c} : d.token # c.token
      BY <1>1
    <3> QED
      BY <1>5, <3>1 DEF IInv, LostOnlyByPause, HoldsLock
  <2>5. LockIsServed'
    <3> SUFFICES ASSUME NEW s \in Schedule, Locked(s),
                        schedules[s].run_lock_token \notin orphaned
                 PROVE  [schedule |-> s, token |-> schedules[s].run_lock_token]
                          \in InFlight \ {c}
      BY <1>5 DEF LockIsServed, Locked
    <3>1. [schedule |-> s, token |-> schedules[s].run_lock_token] \in InFlight
      BY DEF IInv, LockIsServed
    <3> QED
      BY <1>2, <1>5, <3>1
  <2> QED
    BY <2>1, <2>2, <2>3, <2>4, <2>5
<1> QED
  BY <1>4, <1>5

LEMMA FinishManualKeepsIInv ==
    ASSUME IInv, NEW c \in manual, NEW status \in Outcomes, FinishManualRun(c, status)
    PROVE  IInv'
<1>1. c \in InFlight /\ c.schedule \in Schedule
  BY FlightType DEF IInv
<1>2. InFlight' = InFlight \ {c}
  <2>1. c \notin InBatch
    BY DEF IInv, FlightTokens, InBatch
  <2> QED
    BY <2>1 DEF FinishManualRun, InFlight, InBatch
<1>3. Owns(c) => Locked(c.schedule)
  BY DEF Owns
<1>4. TypeOK'
  <2>1. schedules \in [Schedule -> Row]
    BY DEF IInv, TypeOK
  <2>2. Owns(c) => FinishedRow(c.schedule, status) \in Row
    BY <1>1, <1>3, FinishedRowType
  <2>3. schedules' \in [Schedule -> Row]
    BY <2>1, <2>2 DEF FinishManualRun
  <2> QED
    BY <2>3 DEF FinishManualRun, IInv, TypeOK
<1>5. FlightTokens'
  BY DEF FinishManualRun, IInv, FlightTokens
<1>6. LocksAgree' /\ TokenFindsRow' /\ HistoryShape' /\ LostOnlyByPause' /\ LockIsServed'
  <2>1. \/ /\ Owns(c)
           /\ \E row \in Row :
                 /\ row.run_lock = FALSE /\ row.run_lock_token = NoToken
                 /\ row.last_status # "running"
                 /\ schedules' = [schedules EXCEPT ![c.schedule] = row]
        \/ ~ Owns(c) /\ UNCHANGED schedules
    BY <1>1, <1>3, FinishedRowType DEF FinishManualRun
  <2> QED
    BY <1>1, <1>2, <2>1, EndKeepsLocks DEF FinishManualRun
<1> QED
  BY <1>4, <1>5, <1>6 DEF IInv

LEMMA FinishBatchKeepsIInv ==
    ASSUME IInv, NEW status \in Outcomes, FinishBatchRun(status)
    PROVE  IInv'
<1> DEFINE c == Head(batch)
<1>1. /\ batch # <<>>
      /\ Owns(c)
      /\ schedules' = [schedules EXCEPT ![c.schedule] = FinishedRow(c.schedule, status)]
      /\ batch' = Tail(batch)
      /\ UNCHANGED <<manual, emergency_stop, now, run_nows, revoked, orphaned>>
  BY DEF FinishBatchRun
<1>2. /\ c \in InFlight
      /\ c = batch[1]
      /\ Tail(batch) \in Seq(Claim)
      /\ {Tail(batch)[n] : n \in DOMAIN Tail(batch)} = InBatch \ {c}
      /\ \A n \in DOMAIN Tail(batch) : n + 1 \in DOMAIN batch /\ Tail(batch)[n] = batch[n + 1]
      /\ c \notin manual
  BY <1>1, BatchTail DEF IInv
<1> HIDE DEF c
<1>3. c.schedule \in Schedule /\ Locked(c.schedule)
  BY <1>1, <1>2, FlightType DEF IInv, Owns
<1>4. FinishedRow(c.schedule, status) \in Row
  BY <1>3, FinishedRowType
<1>5. InFlight' = InFlight \ {c}
  <2>1. InBatch' = {Tail(batch)[n] : n \in DOMAIN Tail(batch)}
    BY <1>1 DEF InBatch
  <2> QED
    BY <1>1, <1>2, <2>1 DEF InFlight
<1>6. TypeOK'
  BY <1>1, <1>2, <1>4 DEF IInv, TypeOK
<1>7. FlightTokens'
  <2>1. \A m, n \in DOMAIN Tail(batch) : m # n => m + 1 # n + 1
    <3>1. DOMAIN Tail(batch) \subseteq Int
      BY <1>2
    <3> QED
      BY <3>1
  <2> QED
    BY <1>1, <1>2, <2>1 DEF IInv, FlightTokens
<1>8. revoked' = revoked \ {c.token}
  BY <1>1, <1>2, OwnsIsHolds DEF IInv, LostOnlyByPause, HoldsLock
<1>9. LocksAgree' /\ TokenFindsRow' /\ HistoryShape' /\ LostOnlyByPause' /\ LockIsServed'
  <2>1. \E row \in Row :
           /\ row.run_lock = FALSE /\ row.run_lock_token = NoToken
           /\ row.last_status # "running"
           /\ schedules' = [schedules EXCEPT ![c.schedule] = row]
    BY <1>1, <1>3, FinishedRowType
  <2> QED
    BY <1>1, <1>2, <1>5, <1>8, <2>1, EndKeepsLocks
<1> QED
  BY <1>6, <1>7, <1>9 DEF IInv

(* The batch is dropped: locks it holds are orphaned, none changes.        *)
LEMMA AbortKeepsIInv ==
    ASSUME IInv, AbortTick
    PROVE  IInv'
<1>1. /\ batch' = <<>>
      /\ revoked' = revoked \ {c.token : c \in InBatch}
      /\ orphaned' = orphaned \cup {c.token : c \in {d \in InBatch : HoldsLock(d)}}
      /\ UNCHANGED <<schedules, manual, emergency_stop, now, run_nows>>
  BY DEF AbortTick
<1>2. InFlight' = manual
  BY <1>1 DEF InFlight, InBatch
<1>3. /\ InBatch \subseteq InFlight /\ manual \subseteq InFlight
      /\ \A c \in InFlight : c.schedule \in Schedule /\ c.token \in Token
      /\ \A c \in InBatch, d \in manual : c.token # d.token
  BY FlightType DEF IInv, InFlight, InBatch, FlightTokens
<1>4. TypeOK'
  <2>1. batch' \in Seq(Claim)
    BY <1>1
  <2> QED
    BY <1>1, <1>3, <2>1 DEF IInv, TypeOK
<1>5. LocksAgree' /\ FlightTokens'
  BY <1>1 DEF IInv, LocksAgree, Locked, FlightTokens
<1>6. TokenFindsRow'
  BY <1>1, <1>2, <1>3 DEF IInv, TokenFindsRow
<1>7. HistoryShape'
  <2>1. ASSUME NEW t \in revoked'
        PROVE  \E c \in manual : c.token = t
    BY <1>1, <2>1 DEF IInv, HistoryShape, InFlight
  <2>2. ASSUME NEW t \in orphaned'
        PROVE  /\ \E s \in Schedule : schedules[s].run_lock_token = t
               /\ \A c \in manual : c.token # t
    BY <1>1, <1>3, <2>2 DEF IInv, HistoryShape, HoldsLock
  <2> QED
    BY <1>1, <1>2, <2>1, <2>2 DEF HistoryShape
<1>8. LostOnlyByPause'
  <2>1. \A c \in manual : c.token \in revoked' <=> c.token \in revoked
    BY <1>1, <1>3
  <2> QED
    BY <1>1, <1>2, <1>3, <2>1 DEF IInv, LostOnlyByPause, HoldsLock
<1>9. LockIsServed'
  <2> SUFFICES ASSUME NEW s \in Schedule, Locked(s), schedules[s].run_lock_token \notin orphaned'
               PROVE  [schedule |-> s, token |-> schedules[s].run_lock_token] \in manual
    BY <1>1, <1>2 DEF LockIsServed, Locked
  <2> DEFINE c == [schedule |-> s, token |-> schedules[s].run_lock_token]
  <2>1. c \in InFlight
    BY <1>1 DEF IInv, LockIsServed
  <2>2. HoldsLock(c) /\ c.token = schedules[s].run_lock_token
    BY DEF HoldsLock
  <2>3. c \notin InBatch
    BY <1>1, <2>2
  <2> QED
    BY <2>1, <2>3 DEF InFlight
<1> QED
  BY <1>4, <1>5, <1>6, <1>7, <1>8, <1>9 DEF IInv

(* No run survives, every lock does, and all of them are orphaned.         *)
LEMMA CrashKeepsIInv ==
    ASSUME IInv, Crash
    PROVE  IInv'
<1>1. /\ batch' = <<>> /\ manual' = {} /\ revoked' = {}
      /\ orphaned' = {schedules[s].run_lock_token : s \in {r \in Schedule : Locked(r)}}
      /\ UNCHANGED <<schedules, emergency_stop, now, run_nows>>
  BY DEF Crash
<1>2. InFlight' = {}
  BY <1>1 DEF InFlight, InBatch
<1>3. orphaned' \subseteq Token
  BY <1>1 DEF IInv, TypeOK, Row, LocksAgree
<1>4. TypeOK'
  <2>1. batch' \in Seq(Claim)
    BY <1>1
  <2> QED
    BY <1>1, <1>3, <2>1 DEF IInv, TypeOK
<1>5. LocksAgree' /\ FlightTokens'
  BY <1>1 DEF IInv, LocksAgree, Locked, FlightTokens
<1>6. TokenFindsRow' /\ HistoryShape' /\ LostOnlyByPause'
  BY <1>1, <1>2 DEF TokenFindsRow, HistoryShape, LostOnlyByPause
<1>7. LockIsServed'
  BY <1>1 DEF LockIsServed, Locked
<1> QED
  BY <1>4, <1>5, <1>6, <1>7 DEF IInv

-----------------------------------------------------------------------------
(* The stop, the clock and the whole next-state relation. *)

LEMMA OthersKeepIInv ==
    ASSUME IInv, ActivateStop \/ ResumeExecution \/ Advance \/ UNCHANGED vars
    PROVE  IInv'
<1>1. UNCHANGED <<schedules, batch, manual, run_nows, revoked, orphaned>>
  BY DEF ActivateStop, ResumeExecution, Advance, vars
<1>2. TypeOK'
  <2>1. emergency_stop' \in BOOLEAN
    BY Zenon DEF ActivateStop, ResumeExecution, Advance, vars, IInv, TypeOK
  <2>2. now' \in Nat
    BY DEF ActivateStop, ResumeExecution, Advance, vars, IInv, TypeOK
  <2> QED
    BY <1>1, <2>1, <2>2 DEF IInv, TypeOK
<1> QED
  BY <1>1, <1>2, QuietKeepsIInv

LEMMA NextIInv == IInv /\ [Next]_vars => IInv'
<1> SUFFICES ASSUME IInv, [Next]_vars PROVE IInv'
  OBVIOUS
<1>1. ASSUME NEW cadence \in Cadences, NEW immediately \in BOOLEAN,
             CreateSchedule(cadence, immediately)
      PROVE  IInv'
  BY <1>1, CreateKeepsIInv
<1>2. ASSUME NEW s \in Schedule, Pause(s) \/ Resume(s) \/ RunNow(s)
      PROVE  IInv'
  BY <1>2, PauseKeepsIInv, ResumeKeepsIInv, RunNowKeepsIInv
<1>3. ASSUME NEW limit \in TickLimits, BeginTick(limit)
      PROVE  IInv'
  BY <1>3, BeginTickKeepsIInv
<1>4. CASE FinishManual
  BY <1>4, FinishManualKeepsIInv DEF FinishManual
<1>5. CASE FinishBatch
  BY <1>5, FinishBatchKeepsIInv DEF FinishBatch
<1>6. CASE AbortTick
  BY <1>6, AbortKeepsIInv
<1>7. CASE Crash
  BY <1>7, CrashKeepsIInv
<1>8. CASE ActivateStop \/ ResumeExecution \/ Advance \/ UNCHANGED vars
  BY <1>8, OthersKeepIInv
<1> QED
  BY <1>1, <1>2, <1>3, <1>4, <1>5, <1>6, <1>7, <1>8 DEF Next

(* All that one step does to one row.                                      *)
RowStep(s) ==
    \/ schedules'[s] = schedules[s]
    \/ /\ ~ Exists(s)
       /\ schedules'[s].last_status = "idle" /\ schedules'[s].run_count = 0
    \/ /\ Exists(s)
       /\ schedules'[s] \in {PausedRow(s),
                             [schedules[s] EXCEPT !.paused = FALSE],
                             [schedules[s] EXCEPT !.next_run_at = now]}
    \/ /\ Claimable(s)
       /\ \E token \in Token :
             schedules'[s] \in {ClaimedRow(s, token),
                                [ClaimedRow(s, token) EXCEPT !.next_run_at = now]}
    \/ /\ Locked(s)
       /\ \E status \in Outcomes : schedules'[s] = FinishedRow(s, status)

LEMMA NextRowStep ==
    ASSUME IInv, [Next]_vars, NEW s \in Schedule
    PROVE  RowStep(s)
<1>1. schedules \in [Schedule -> Row]
  BY DEF IInv, TypeOK
<1>2. CASE UNCHANGED schedules
  BY <1>2 DEF RowStep
<1>3. ASSUME NEW cadence \in Cadences, NEW immediately \in BOOLEAN,
             CreateSchedule(cadence, immediately)
      PROVE  RowStep(s)
  BY <1>1, <1>3 DEF CreateSchedule, NoRow, RowStep
<1>4. ASSUME NEW r \in Schedule, Pause(r) \/ Resume(r)
      PROVE  RowStep(s)
  BY <1>1, <1>4 DEF Pause, Resume, RowStep
<1>5. ASSUME NEW r \in Schedule, RunNow(r)
      PROVE  RowStep(s)
  BY <1>1, <1>5 DEF RunNow, RowStep
<1>6. ASSUME NEW limit \in TickLimits, BeginTick(limit)
      PROVE  RowStep(s)
  <2>1. PICK claims \in DueBatches(limit) :
            schedules'[s] = IF \E n \in DOMAIN claims : claims[n].schedule = s
                            THEN ClaimedRow(s, claims[CHOOSE n \in DOMAIN claims :
                                                        claims[n].schedule = s].token)
                            ELSE schedules[s]
    BY <1>6 DEF BeginTick, ClaimBatch
  <2>2. \A n \in DOMAIN claims : Claimable(claims[n].schedule) /\ claims[n].token \in Token
    BY DEF DueBatches, Due
  <2>3. CASE \E n \in DOMAIN claims : claims[n].schedule = s
    <3> DEFINE n == CHOOSE n \in DOMAIN claims : claims[n].schedule = s
    <3>1. n \in DOMAIN claims /\ claims[n].schedule = s
      BY <2>3
    <3>2. schedules'[s] = ClaimedRow(s, claims[n].token)
      BY <2>1, <2>3
    <3> HIDE DEF n
    <3> QED
      BY <2>2, <3>1, <3>2 DEF RowStep
  <2>4. CASE ~ \E n \in DOMAIN claims : claims[n].schedule = s
    BY <2>1, <2>4 DEF RowStep
  <2> QED
    BY <2>3, <2>4
<1>7. ASSUME NEW c \in InFlight, NEW status \in Outcomes, Owns(c),
             schedules' = [schedules EXCEPT ![c.schedule] = FinishedRow(c.schedule, status)]
      PROVE  RowStep(s)
  BY <1>1, <1>7 DEF Owns, RowStep
<1>8. CASE FinishManual
  <2>1. PICK c \in manual, status \in Outcomes : FinishManualRun(c, status)
    BY <1>8 DEF FinishManual
  <2>2. c \in InFlight
    BY DEF InFlight
  <2> QED
    BY <1>2, <1>7, <2>1, <2>2 DEF FinishManualRun
<1>9. CASE FinishBatch
  <2>1. PICK status \in Outcomes : FinishBatchRun(status)
    BY <1>9 DEF FinishBatch
  <2>2. Head(batch) \in InFlight
    BY <2>1, BatchTail DEF FinishBatchRun, IInv
  <2> QED
    BY <1>7, <2>1, <2>2 DEF FinishBatchRun
<1>10. CASE AbortTick \/ ActivateStop \/ ResumeExecution \/ Advance \/ Crash \/ UNCHANGED vars
  BY <1>2, <1>10 DEF AbortTick, ActivateStop, ResumeExecution, Advance, Crash, vars
<1> QED
  BY <1>3, <1>4, <1>5, <1>6, <1>8, <1>9, <1>10 DEF Next

(* A row that does not exist yet has counted nothing and is not paused.    *)
AbsentIsFresh ==
    \A s \in Schedule : ~ Exists(s) => schedules[s].run_count = 0 /\ ~ schedules[s].paused

LEMMA NextAbsentIsFresh == IInv /\ AbsentIsFresh /\ [Next]_vars => AbsentIsFresh'
<1> SUFFICES ASSUME IInv, AbsentIsFresh, [Next]_vars, NEW s \in Schedule,
                    schedules'[s].last_status = "absent"
             PROVE  schedules'[s].run_count = 0 /\ ~ schedules'[s].paused
  BY DEF AbsentIsFresh, Exists
<1>1. RowStep(s)
  BY NextRowStep
<1>2. schedules[s] \in Row
  BY DEF IInv, TypeOK
<1>3. schedules'[s] = schedules[s]
  <2>1. ASSUME Exists(s)
        PROVE  /\ PausedRow(s).last_status # "absent"
               /\ [schedules[s] EXCEPT !.paused = FALSE].last_status # "absent"
               /\ [schedules[s] EXCEPT !.next_run_at = now].last_status # "absent"
    BY <1>2, <2>1 DEF PausedRow, Exists, Row
  <2>2. ASSUME NEW token \in Token
        PROVE  /\ ClaimedRow(s, token).last_status # "absent"
               /\ [ClaimedRow(s, token) EXCEPT !.next_run_at = now].last_status # "absent"
    BY <1>2 DEF ClaimedRow, Row
  <2>3. ASSUME NEW status \in Outcomes, Locked(s)
        PROVE  FinishedRow(s, status).last_status # "absent"
    <3>1. FinishedRow(s, status).last_status = status
      BY <2>3, FinishedRowType
    <3> QED
      BY <3>1, SchedulerAssumption DEF RunStatuses
  <2> QED
    BY <1>1, <2>1, <2>2, <2>3 DEF RowStep
<1> QED
  BY <1>3 DEF AbsentIsFresh, Exists

(* The invariant of the scheduler, from which the rest follows.            *)
THEOREM Invariance == Spec => []IInv
BY InitIInv, NextIInv, PTL DEF Spec

LEMMA FreshInvariance == Spec => [](IInv /\ AbsentIsFresh)
<1>1. Init => AbsentIsFresh
  BY DEF Init, NoRow, AbsentIsFresh
<1> QED
  BY <1>1, InitIInv, NextIInv, NextAbsentIsFresh, PTL DEF Spec



-----------------------------------------------------------------------------
(* What the runs check of the scheduler. *)

(* The rows and the claims keep the shape of ScheduledMissionRecord.       *)
THEOREM TypeCorrect == Spec => []TypeOK
BY Invariance, PTL DEF IInv

(* A row is locked exactly while it says running, under a token no other   *)
(* row has, and never while it is paused: over claims, completions, pauses *)
(* in the middle of a run, aborted ticks and crashes.                      *)
THEOREM ColumnsAgree == Spec => []LocksAgree
BY Invariance, PTL DEF IInv

(* The only locks that no run will release are those that an aborted tick  *)
(* or a crash has left.                                                    *)
THEOREM LocksAreServed == Spec => []LockIsServed
BY Invariance, PTL DEF IInv

(* A run in flight loses its lock to a pause of its schedule and to        *)
(* nothing else.                                                           *)
THEOREM OnlyPauseRevokes == Spec => []LostOnlyByPause
BY Invariance, PTL DEF IInv

(* Nothing that happens to a paused schedule is counted or changes its     *)
(* last status, not even the end of a run that was in flight.              *)
THEOREM PausedStaysQuiet == Spec => PausedIsQuiet
<1>1. IInv /\ AbsentIsFresh /\ [Next]_vars =>
        [\A s \in Schedule : schedules[s].paused =>
            /\ schedules'[s].run_count = schedules[s].run_count
            /\ schedules'[s].last_status = schedules[s].last_status]_vars
  <2> SUFFICES ASSUME IInv, AbsentIsFresh, [Next]_vars,
                      NEW s \in Schedule, schedules[s].paused
               PROVE  /\ schedules'[s].run_count = schedules[s].run_count
                      /\ schedules'[s].last_status = schedules[s].last_status
    OBVIOUS
  <2>1. RowStep(s)
    BY NextRowStep
  <2>2. /\ schedules[s] \in Row /\ Exists(s) /\ ~ Locked(s)
        /\ schedules[s].last_status # "running"
    BY DEF IInv, TypeOK, LocksAgree, AbsentIsFresh
  <2> QED
    BY <2>1, <2>2 DEF RowStep, PausedRow, Claimable, Row
<1> QED
  BY <1>1, FreshInvariance, PTL DEF PausedIsQuiet, Spec

(* A run that is counted makes its schedule due strictly later, a daily    *)
(* one at its time of day within the next day.                             *)
THEOREM FinishedRunsAreLater == Spec => NextRunIsLater
<1>1. IInv /\ AbsentIsFresh /\ [Next]_vars =>
        [\A s \in Schedule :
            schedules'[s].run_count # schedules[s].run_count =>
              LET next == schedules'[s].next_run_at
                  cadence == schedules[s].cadence
              IN  /\ next > now
                  /\ cadence.kind = "daily" =>
                        next % Day = cadence.minutes /\ next <= now + Day]_vars
  <2> SUFFICES ASSUME IInv, AbsentIsFresh, [Next]_vars, NEW s \in Schedule,
                      schedules'[s].run_count # schedules[s].run_count
               PROVE  LET next == schedules'[s].next_run_at
                          cadence == schedules[s].cadence
                      IN  /\ next > now
                          /\ cadence.kind = "daily" =>
                                next % Day = cadence.minutes /\ next <= now + Day
    OBVIOUS
  <2>1. RowStep(s)
    BY NextRowStep
  <2>2. /\ schedules[s] \in Row /\ now \in Nat
        /\ schedules[s].cadence \in Cadence \cup {NoCadence}
    BY SchedulerAssumption DEF IInv, TypeOK, Row
  <2>3. Locked(s) /\ \E status \in Outcomes : schedules'[s] = FinishedRow(s, status)
    <3>1. /\ PausedRow(s).run_count = schedules[s].run_count
          /\ [schedules[s] EXCEPT !.paused = FALSE].run_count = schedules[s].run_count
          /\ [schedules[s] EXCEPT !.next_run_at = now].run_count = schedules[s].run_count
      BY <2>2 DEF PausedRow, Row
    <3>2. ASSUME NEW token \in Token
          PROVE  /\ ClaimedRow(s, token).run_count = schedules[s].run_count
                 /\ [ClaimedRow(s, token) EXCEPT !.next_run_at = now].run_count
                      = schedules[s].run_count
      BY <2>2 DEF ClaimedRow, Row
    <3> QED
      BY <2>1, <3>1, <3>2 DEF RowStep, AbsentIsFresh
  <2>4. schedules'[s].next_run_at = NextRunAt(schedules[s].cadence, now)
    <3>1. PICK status \in Outcomes : schedules'[s] = FinishedRow(s, status)
      BY <2>3
    <3>2. FinishedRow(s, status).next_run_at = NextRunAt(schedules[s].cadence, now)
      BY <2>3, FinishedRowType
    <3> QED
      BY <3>1, <3>2
  <2> QED
    BY <2>2, <2>4, NextRunAtIsLater
<1> QED
  BY <1>1, FreshInvariance, PTL DEF NextRunIsLater, Spec

=============================================================================
