------------------------------ MODULE JobLedger ------------------------------
(***************************************************************************)
(* What a queue of jobs with a budget of attempts promises, without locks, *)
(* priorities, clocks or ticks: one worker takes one waiting job at a      *)
(* time; a job that is not done is tried again only within its budget; a   *)
(* job that was cancelled stays cancelled whatever the worker answers; a   *)
(* worker that vanishes leaves the job it had as it was.                   *)
(***************************************************************************)
EXTENDS Integers

CONSTANTS
    Job,      \* jobs
    NoJob,    \* no job
    Budgets   \* attempts a job may be given

VARIABLES
    state,   \* [Job -> state of the job]
    starts,  \* [Job -> attempts begun]
    budget,  \* [Job -> attempts allowed]
    worker   \* the job being worked on, or NoJob

vars == <<state, starts, budget, worker>>

Init ==
    /\ state = [j \in Job |-> "absent"]
    /\ starts = [j \in Job |-> 0]
    /\ budget = [j \in Job |-> 0]
    /\ worker = NoJob

Submit(j) ==
    /\ state[j] = "absent"
    /\ state' = [state EXCEPT ![j] = "queued"]
    /\ \E n \in Budgets : budget' = [budget EXCEPT ![j] = n]
    /\ UNCHANGED <<starts, worker>>

Withdraw(j) ==
    /\ state[j] \in {"queued", "running"}
    /\ state' = [state EXCEPT ![j] = "cancelled"]
    /\ UNCHANGED <<starts, budget, worker>>

Take(j) ==
    /\ worker = NoJob
    /\ state[j] = "queued"
    /\ starts[j] = 0 \/ starts[j] < budget[j]
    /\ state' = [state EXCEPT ![j] = "running"]
    /\ starts' = [starts EXCEPT ![j] = @ + 1]
    /\ worker' = j
    /\ UNCHANGED budget

(* The worker answers for the job it has. *)
Answer(j) ==
    /\ worker = j
    /\ worker' = NoJob
    /\ UNCHANGED <<starts, budget>>
    /\ \/ /\ state[j] = "running"
          /\ state' = [state EXCEPT ![j] = "completed"]
       \/ /\ state[j] = "running"
          /\ state' = [state EXCEPT ![j] = "failed"]
       \/ /\ state[j] = "running"
          /\ starts[j] < budget[j]
          /\ state' = [state EXCEPT ![j] = "queued"]
       \/ /\ state[j] = "cancelled"
          /\ UNCHANGED state

Vanish ==
    /\ worker # NoJob
    /\ worker' = NoJob
    /\ UNCHANGED <<state, starts, budget>>

Next ==
    \/ \E j \in Job : Submit(j) \/ Withdraw(j) \/ Take(j) \/ Answer(j)
    \/ Vanish

Spec == Init /\ [][Next]_vars

=============================================================================
