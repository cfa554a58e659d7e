----------------------------- MODULE ResolveOnce -----------------------------
(***************************************************************************)
(* What resolving promises, without locks and transactions: an open        *)
(* dossier and everything open below it become resolved in one step, so    *)
(* that the workflow history of each has one resolve entry.                *)
(***************************************************************************)
EXTENDS Naturals

CONSTANTS
  Dossiers,
  Above        \* for every dossier the set of dossiers it lies in

VARIABLE entries   \* resolve entries in the workflow history of a dossier

Tree(d) == {x \in Dossiers : x = d \/ d \in Above[x]}

Init == entries = [d \in Dossiers |-> 0]

ResolveTree(d) ==
  /\ entries[d] = 0
  /\ entries' = [x \in Dossiers |->
                      IF x \in Tree(d) /\ entries[x] = 0 THEN 1
                      ELSE entries[x]]

Next == \E d \in Dossiers : ResolveTree(d)

Spec == Init /\ [][Next]_entries
=============================================================================
