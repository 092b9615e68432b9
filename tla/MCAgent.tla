------------------------------- MODULE MCAgent -------------------------------
(* Two starts of one agent, a stop and a recovery, with a cleaner of /tmp. *)
EXTENDS Agent
=============================================================================
