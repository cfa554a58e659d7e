---------------------------- MODULE MCResolveLock ----------------------------
(* Instances of ResolveLock: a main dossier m and its subdossier s. *)
EXTENDS ResolveLock

CONSTANTS m, s, r1, r2, r3, r4

MCAbove == [d \in Dossiers |-> IF d = s THEN {m} ELSE {}]
MCTarget == [r \in Requests |-> IF r = r3 THEN s ELSE m]
=============================================================================
