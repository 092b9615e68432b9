----------------------------- MODULE MCRollback -----------------------------
(* Every rollback and every session is on one space.                       *)
EXTENDS Rollback

CONSTANT Name

MCTarget == [t \in Txs |-> Name]
MCHome == [s \in Sessions |-> Name]
=============================================================================
