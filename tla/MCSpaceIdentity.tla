--------------------------- MODULE MCSpaceIdentity ---------------------------
(***************************************************************************)
(* Three names.  The first rename goes from the first name to the second,  *)
(* another comes back, a third goes on to the third name; one session is   *)
(* started with each of the first two names.                               *)
(***************************************************************************)
EXTENDS SpaceIdentity

CONSTANTS NameA, NameB, NameC, TxOut, TxBack, SpaceA, SessionA

MCFrom == [t \in Txs |-> IF t = TxOut THEN NameA ELSE NameB]
MCTo == [t \in Txs |-> IF t = TxOut THEN NameB
                       ELSE IF t = TxBack THEN NameA ELSE NameC]
MCEntered == [s \in Sessions |-> IF s = SessionA THEN NameA ELSE NameB]
MCPlaced == [n \in Names |-> IF n = NameA THEN SpaceA ELSE None]
=============================================================================
