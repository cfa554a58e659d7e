------------------------------ MODULE MCMeeting -----------------------------
(* Two meetings compete for a proposal; one has an ad hoc item beside it. *)
EXTENDS Meeting, TLC
CONSTANTS m1, m2, p, t, r1, r2
MCOrder == [s \in Subjects |-> IF s = p THEN 1 ELSE 2]
MCTopics == [m \in Meetings |-> IF m = m1 THEN {p, t} ELSE {p}]
MCSymmetry == Permutations(Requests)
=============================================================================
