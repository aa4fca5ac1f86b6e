--------------------------- MODULE MCRunAnnounced ---------------------------
(* Instances of RunAnnounced for TLC, with the constants of MCRunLifecycle. *)
EXTENDS RunAnnounced, MCRunLifecycle
=============================================================================
