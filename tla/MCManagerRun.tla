---------------------------- MODULE MCManagerRun ----------------------------
(* Requests for TLC. *)
EXTENDS ManagerRun

Quiet == [routed |-> "mission", triage |-> None, force |-> FALSE, dry |-> FALSE,
          ambiguous |-> FALSE, thin |-> FALSE, facts |-> {}, data |-> "not_required",
          selected |-> "browser", preferred |-> <<"browser">>, said |-> 0, unclear |-> FALSE,
          lessons |-> 0]

(* Every way to route a message and to refuse a mission. *)
RoutedRequests ==
    {[Quiet EXCEPT !.routed = routed, !.triage = triage, !.force = force, !.dry = dry,
                   !.ambiguous = ambiguous, !.thin = thin, !.facts = facts, !.data = data] :
        routed \in {"chat", "chat_memory_update", "mission"},
        triage \in {None, "chat", "mission"}, force \in BOOLEAN, dry \in BOOLEAN,
        ambiguous \in BOOLEAN, thin \in BOOLEAN, facts \in SUBSET {"missing", "conflicting"},
        data \in {"not_required", "selected", "blocked"}}

ChatRequests ==
    {[Quiet EXCEPT !.routed = routed, !.said = said, !.unclear = unclear, !.lessons = 2] :
        routed \in {"chat", "chat_memory_update"}, said \in 0..2, unclear \in BOOLEAN}

(* Workers as selectWorker and the playbooks combine them. *)
WorkRequests ==
    {[Quiet EXCEPT !.selected = work[1], !.preferred = work[2], !.data = work[3]] :
        work \in {<<"claude", <<"shell">>, "selected">>,
                  <<"shell", <<"claude", "shell">>, "not_required">>,
                  <<"codex", <<"codex">>, "not_required">>,
                  <<"mail", <<"mail">>, "not_required">>}}

AllRequests == RoutedRequests \cup ChatRequests \cup WorkRequests
AllAdapters == {"claude", "codex", "shell", "browser"}
=============================================================================
