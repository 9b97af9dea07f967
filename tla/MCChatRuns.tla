----------------------------- MODULE MCChatRuns -----------------------------
(* Instances of ChatRuns for TLC. *)
EXTENDS ChatRuns
=============================================================================
