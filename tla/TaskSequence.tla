---------------------------- MODULE TaskSequence ----------------------------
(***************************************************************************)
(* What a sequential task process promises about its steps, whatever the   *)
(* workflow of the tasks is in detail: a step waits until the step it      *)
(* follows is passed, and passing a step starts the one that waits for it. *)
(* TaskProcess implements this specification.                              *)
(***************************************************************************)
CONSTANTS
  Steps,
  NoStep   \* no step, and none of Steps

VARIABLES
  phase,    \* "none", "waiting", "active", "passed" or "dropped"
  follows   \* the step a step waits for, or NoStep

vars == <<phase, follows>>

Init ==
  /\ phase = [s \in Steps |-> "none"]
  /\ follows = [s \in Steps |-> NoStep]

\* The process begins; only a step that follows no other may be active.
Begin ==
  /\ \A s \in Steps : phase[s] = "none"
  /\ follows' \in [Steps -> Steps \cup {NoStep}]
  /\ phase' \in [Steps -> {"waiting", "active"}]
  /\ \A s \in Steps : phase'[s] = "active" => follows'[s] = NoStep

\* A step is done or skipped, and what waits for it starts with it.
Pass(s) ==
  /\ phase[s] \in {"waiting", "active"}
  /\ phase' = [x \in Steps |->
                IF x = s THEN "passed"
                ELSE IF follows[x] = s /\ phase[x] = "waiting" THEN "active"
                ELSE phase[x]]
  /\ UNCHANGED follows

Reopen(s) ==
  /\ phase[s] \in {"passed", "dropped"}
  /\ phase' = [phase EXCEPT ![s] = "active"]
  /\ UNCHANGED follows

\* A task that is not a step is put in front of a step, which is cut off.
Interpose(s) ==
  /\ follows[s] # NoStep
  /\ follows' = [follows EXCEPT ![s] = NoStep]
  /\ UNCHANGED phase

\* The whole process is cancelled.
Drop ==
  /\ \A s \in Steps : phase[s] # "none"
  /\ phase' = [s \in Steps |-> "dropped"]
  /\ UNCHANGED follows

Next ==
  \/ Begin
  \/ Drop
  \/ \E s \in Steps : Pass(s) \/ Reopen(s) \/ Interpose(s)

Spec == Init /\ [][Next]_vars
=============================================================================
