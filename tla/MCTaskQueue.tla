----------------------------- MODULE MCTaskQueue -----------------------------
(***************************************************************************)
(* Instances of TaskQueue for TLC.                                         *)
(***************************************************************************)
EXTENDS TaskQueue, TLC

CONSTANTS m1, t1, t2

(* An operator's request for a mission-less goal. *)
Manual(text, priority, halves) ==
    [key |-> <<NoMission, "manual_enqueue", text>>,
     priority |-> priority, halves |-> halves]

(* Two operator requests: a background one with a fractional number of     *)
(* attempts, and an urgent one with two under the source, the mission and  *)
(* the goal of a follow-up.                                                *)
MCRequests ==
    {Manual(t1, "background", 5),
     [key |-> <<m1, "verification_retry", t1>>, priority |-> "urgent", halves |-> 4]}

SomeResult(verification, generated) ==
    [mission |-> m1, kind |-> "mission", verification |-> verification,
     retryable |-> TRUE, generated |-> generated, hints |-> TRUE, text |-> t1]

MCResults == {SomeResult("verification_failed", FALSE),
              SomeResult("verified_complete", FALSE)}

FewRequests == {Manual(t1, "background", 4), Manual(t2, "urgent", 2)}
FewResults == {SomeResult("verification_failed", FALSE)}

(* max_attempts 0.5 passes the check of the endpoint. *)
HalfRequests == {Manual(t1, "background", 1), Manual(t2, "urgent", 4)}

ItemSymmetry == Permutations(Item)

(* The table of backoffs is the formula of retryDelayMs. *)
ASSUME BackoffTable ==
    \A n \in 0 .. 12 :
        LET power == 2 ^ (IF n >= 1 THEN n - 1 ELSE 0)
        IN  RetryDelay(n) = IF power < 15 THEN power ELSE 15

=============================================================================
