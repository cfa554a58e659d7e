--------------------------- MODULE MCTaskProcess ---------------------------
(* An instance of TaskProcess for TLC.                                     *)
EXTENDS TaskProcess

CONSTANTS main, a, b, x, anna, bert

MCTemplate == <<a, b>>
MCResponsible == [t \in Tasks |-> IF t = main THEN anna ELSE bert]
MCCategory == [t \in Tasks |-> IF t = main THEN "unival" ELSE IF t = b THEN "uniref" ELSE "bi"]
=============================================================================
