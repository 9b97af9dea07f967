--------------------------- MODULE MCWorkerCalls ----------------------------
(* Tasks for TLC. *)
EXTENDS WorkerCalls

Task(requested, preferred, noteOnly, command, mentions) ==
    [requested |-> requested, preferred |-> preferred, noteOnly |-> noteOnly,
     command |-> command, mentions |-> mentions]

(* Every worker as the requested one, and the chains of the playbooks. *)
PlainTasks ==
    {Task(chain[1], chain[2], noteOnly, command, FALSE) :
        chain \in {<<"claude", <<"claude">>>>, <<"codex", <<"codex", "shell">>>>,
                   <<"shell", <<"claude", "shell">>>>, <<"browser", <<"browser">>>>,
                   <<"mail", <<"mail">>>>},
        noteOnly \in BOOLEAN, command \in BOOLEAN}

(* A task about limits. *)
MentioningTasks == {Task("codex", <<"codex">>, FALSE, FALSE, TRUE)}

AllAdapters == {"claude", "codex", "shell", "browser", "mail"}
=============================================================================
