----------------------------- MODULE MCScheduler -----------------------------
(***************************************************************************)
(* Instances of Scheduler for TLC.                                         *)
(***************************************************************************)
EXTENDS Scheduler, TLC

EveryMinute == [kind |-> "interval", minutes |-> 1]
Daily == [kind |-> "daily", minutes |-> 1]

MCCadences == {EveryMinute, Daily}
OneCadence == {EveryMinute}

ScheduleSymmetry == Permutations(Schedule) \cup Permutations(Token)

=============================================================================
