-------------------------- MODULE MCSandboxSession --------------------------
(* Instances of SandboxSession for TLC. *)
EXTENDS SandboxSession

\* Closes before the session starts: the averages are warm.
FlatHistory == <<12, 12, 7>>
=============================================================================
