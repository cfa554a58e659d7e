--------------------------- MODULE NumberSequence ----------------------------
(***************************************************************************)
(* What the sequence numbers of a period promise, whoever asks for them    *)
(* and however many do so at once: things get the next numbers, each its   *)
(* own and none skipped.  A number that is dropped is not given again.     *)
(* Meeting implements this twice, with its meetings and with its agenda    *)
(* items.                                                                  *)
(***************************************************************************)
EXTENDS Naturals

CONSTANT Things   \* what gets numbers

VARIABLES
  counter,   \* the last number that was given
  number     \* the number of a thing, or 0

vars == <<counter, number>>

Init == counter = 0 /\ number = [t \in Things |-> 0]

\* The things of S get the next numbers, in any order: each its own, and
\* none is skipped.
Take(S) ==
  /\ counter' >= counter
  /\ number' \in [Things -> 0 .. counter']
  /\ {number'[t] : t \in S} = counter + 1 .. counter'
  /\ \A s, t \in S : number'[s] = number'[t] => s = t
  /\ \A t \in Things \ S : number'[t] = number[t]

Drop(t) == number' = [number EXCEPT ![t] = 0] /\ UNCHANGED counter

Next == (\E S \in SUBSET Things : Take(S)) \/ (\E t \in Things : Drop(t))

Spec == Init /\ [][Next]_vars
=============================================================================
