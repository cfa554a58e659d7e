------------------------------ MODULE MCNightly ------------------------------
(* Instances of NightlyAfterResolve for TLC. *)
EXTENDS NightlyAfterResolve

CONSTANTS d1, d2, u1, task, doc1

MCAllRights == Users \X Dossiers
MCDepth == [t \in Tasks |-> 1]
=============================================================================
