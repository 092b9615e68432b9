------------------------------ MODULE MCStaging ------------------------------
(* A published template, a space made from it, and a capture that wants    *)
(* the template's name.                                                    *)
EXTENDS Staging

CONSTANTS User, CaptureKind, A, X

MCKind == [b \in Builders |-> IF b = User THEN "use" ELSE CaptureKind]
MCDest == [b \in Builders |-> IF b = User THEN X ELSE A]
MCFrom == [b \in Builders |-> A]
=============================================================================
