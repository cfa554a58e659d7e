--------------------------- MODULE MCNightlyRunner ---------------------------
(* Instances of NightlyRunner: two providers, a day of six hours. *)
EXTENDS NightlyRunner

CONSTANTS j1, j2, j3

MCProviders == <<"after_resolve", "sip_delivery">>
MCRank == [j \in Jobs |-> IF j = j3 THEN 2 ELSE 1]
MCProviderOf == [j \in Jobs |-> IF j = j1 THEN "after_resolve" ELSE "sip_delivery"]
=============================================================================
