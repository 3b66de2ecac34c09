----------------------------- MODULE MCGitCommand -----------------------------
(* Instances of GitCommand for TLC. *)
EXTENDS GitCommand
=============================================================================
