----------------------------- MODULE MCLayoutMarker -----------------------------
(* A small instance of LayoutMarker for TLC: a process that writes, and    *)
(* one that writes and reads.                                              *)
EXTENDS LayoutMarker, TLC

CONSTANTS p1, p2

MCPrograms == p1 :> {"ensure"} @@ p2 :> {"ensure", "mutate", "inspect", "diagnose"}

MCRoots == {{}, {"root", "spaces"}, {"root", ".spaces"}, {"root", "spaces", ".spaces"}}
=============================================================================
