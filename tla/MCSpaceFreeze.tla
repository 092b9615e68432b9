---------------------------- MODULE MCSpaceFreeze ----------------------------
(* Two names; a legacy space at the first of them, the second one free.    *)
EXTENDS SpaceFreeze

CONSTANTS NameA, SpaceA

MCPlaced == [n \in Names |-> IF n = NameA THEN SpaceA ELSE None]
=============================================================================
