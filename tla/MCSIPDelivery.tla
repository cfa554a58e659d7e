---------------------------- MODULE MCSIPDelivery ---------------------------
(* Two dispositions compete for a dossier and its subdossier.              *)
EXTENDS SIPDelivery
CONSTANTS p1, p2, main, sub
MCAbove == [d \in Dossiers |-> IF d = sub THEN {main} ELSE {}]
MCFormer == [d \in Dossiers |-> "resolved"]
MCChoice == [p \in Dispositions |-> IF p = p1 THEN {main, sub} ELSE {sub}]
MCMaxRefused == [p \in Dispositions |-> IF p = p1 THEN 1 ELSE 0]
MCRank == [p \in Dispositions |-> IF p = p1 THEN 1 ELSE 2]
MCNames == <<"filesystem", "ftps">>
MCValue == [d \in Dossiers |-> IF d = main THEN "worthy" ELSE "unchecked"]
=============================================================================
