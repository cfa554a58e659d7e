---------------------------- MODULE TaskProcess -----------------------------
(***************************************************************************)
(* The workflow of opengever.task in a dossier where a sequential task     *)
(* template was triggered: a main task, its subtasks in an order, and      *)
(* tasks that are added or delegated later.  One action is one request: a  *)
(* transition with the event handlers and the transition extender it runs. *)
(* The global index is written in the same transaction; of its copy only   *)
(* the column tasktemplate_predecessor carries state of its own.           *)
(*                                                                         *)
(* Left out: who acts (the guards ask for the issuer or the responsible,   *)
(* and there is one), deadlines, successors on other admin units, teams    *)
(* and inbox groups as responsible, tasks with revoke_permissions off.     *)
(***************************************************************************)
EXTENDS Naturals, Sequences, FiniteSets

CONSTANTS
  Main,          \* the main task of the process
  Template,      \* its tasks in the order of the template
  Added,         \* tasks that may be added later
  Users, Issuer, \* the issuer of all the tasks
  Responsible,   \* the first responsible of a task
  HandedOver,    \* tasks that are given to another responsible
  Category,      \* task_type_category: "bi", "uniref" or "unival"
  None           \* no predecessor

Steps == {Template[i] : i \in 1..Len(Template)}
\* Tasks with the marker interface IFromSequentialTasktemplate.
Marked == {Main} \cup Steps
Tasks == Marked \cup Added

ASSUME TemplateAssumption ==
  /\ Template \in Seq(Steps) /\ Len(Template) > 0
  /\ \A i, j \in 1..Len(Template) : Template[i] = Template[j] => i = j
ASSUME TaskAssumption ==
  Main \notin Steps /\ Added \cap Marked = {} /\ None \notin Tasks
ASSUME UserAssumption ==
  /\ Issuer \in Users /\ Responsible \in [Tasks -> Users] /\ HandedOver \subseteq Tasks
\* The main task has the type direct-execution.
ASSUME CategoryAssumption ==
  /\ Category \in [Tasks -> {"bi", "uniref", "unival"}]
  /\ Category[Main] = "unival"

VARIABLES
  state,        \* review_state of a task, "none" before it exists
  above,        \* the tasks on its physical path
  order,        \* TASK_PROCESS_ORDER of the main task
  predecessor,  \* the column tasktemplate_predecessor
  responsible,
  granted,      \* whom a task has given local roles, on itself and its dossier
  dossier       \* "active" or "resolved"

vars == <<state, above, order, predecessor, responsible, granted, dossier>>

OpenStates == {"open", "in-progress", "resolved", "rejected"}
FinishedStates == {"closed", "rejected", "cancelled"}
FinalStates == {"closed", "cancelled", "skipped"}

Workflow == {
  <<"open", "accept", "in-progress">>, <<"open", "resolve", "resolved">>,
  <<"open", "close", "closed">>, <<"open", "reject", "rejected">>,
  <<"open", "cancel", "cancelled">>, <<"in-progress", "resolve", "resolved">>,
  <<"in-progress", "close", "closed">>, <<"in-progress", "cancel", "cancelled">>,
  <<"resolved", "close", "closed">>, <<"resolved", "back", "in-progress">>,
  <<"rejected", "reopen", "open">>, <<"rejected", "skip", "skipped">>,
  <<"planned", "skip", "skipped">>, <<"skipped", "reopen", "open">>,
  <<"cancelled", "reopen", "open">>}

\* FINAL_TRANSITIONS, after which the responsible loses the local roles.
FinalTransitions == {<<"open", "cancel">>, <<"open", "close">>,
  <<"in-progress", "close">>, <<"resolved", "close">>, <<"planned", "skip">>}

TypeOK ==
  /\ state \in [Tasks -> {"none", "planned", "skipped"} \cup OpenStates \cup FinalStates]
  /\ above \in [Tasks -> SUBSET Tasks]
  /\ order \in Seq(Tasks)
  /\ predecessor \in [Tasks -> Tasks \cup {None}]
  /\ responsible \in [Tasks -> Users]
  /\ granted \in [Tasks -> SUBSET Users]
  /\ dossier \in {"active", "resolved"}

Init ==
  /\ state = [t \in Tasks |-> "none"]
  /\ above = [t \in Tasks |-> {}]
  /\ order = <<>>
  /\ predecessor = [t \in Tasks |-> None]
  /\ responsible = Responsible
  /\ granted = [t \in Tasks |-> {}]
  /\ dossier = "active"
-----------------------------------------------------------------------------
(* What the event handlers of a transition do.                             *)

\* A query by the path: tasks below tasks count too.
Below(t) == {x \in Tasks : t \in above[x]}
\* The tasks directly in t.
Subtasks(t) == {x \in Below(t) : above[x] = above[t] \cup {t}}
all_subtasks_finished(t) == \A x \in Below(t) : state[x] \in FinishedStates

\* Mutant: a skipped task starts no other, as in an earlier version.
StartsNextMutant == {<<"open", "resolve">>, <<"open", "close">>,
  <<"in-progress", "resolve">>, <<"in-progress", "close">>}
\* start_next_task, which reacts to these transitions; the transition from
\* resolved to closed is not one of them.
StartsNext == {<<"open", "resolve">>, <<"open", "close">>, <<"in-progress", "resolve">>,
  <<"in-progress", "close">>, <<"rejected", "skip">>, <<"planned", "skip">>}
\* Mutant: the next task is opened in whatever state it is.
open_next_taskMutant(t, action) ==
  IF t \in Marked /\ <<state[t], action>> \in StartsNext
  THEN {n \in Tasks : predecessor[n] = t} ELSE {}
open_next_task(t, action) ==
  IF t \in Marked /\ <<state[t], action>> \in StartsNext
  THEN {n \in Tasks : predecessor[n] = t /\ state[n] = "planned"} ELSE {}
\* Mutant: only the main task is cancelled.
cancel_subtasksMutant(t, action) == {}
\* cancel_subtasks writes the state past the guards and the events.
cancel_subtasks(t, action) == IF action = "cancel" THEN Subtasks(t) ELSE {}

\* Mutant: the roles are set again in a final state.
set_rolesMutant(t, s, old) == old \cup {responsible[t]}
\* LocalRolesSetter: the handler of a final transition revokes, and the
\* response that the extender adds sets the roles, unless the state is final.
set_roles(t, s, old) == IF s \in FinalStates THEN old ELSE old \cup {responsible[t]}
RolesAfter(t, action, s) ==
  set_roles(t, s, IF <<state[t], action>> \in FinalTransitions
                  THEN granted[t] \ {responsible[t]} ELSE granted[t])

Transition(t, action, s) ==
  LET opened == open_next_task(t, action)
      cancelled == cancel_subtasks(t, action)
  IN /\ <<state[t], action, s>> \in Workflow
     /\ state' = [x \in Tasks |-> IF x = t THEN s
                                 ELSE IF x \in opened THEN "open"
                                 ELSE IF x \in cancelled THEN "cancelled"
                                 ELSE state[x]]
     /\ granted' = [x \in Tasks |-> IF x = t THEN RolesAfter(t, action, s)
                                   ELSE IF x \in opened THEN set_roles(x, "open", granted[x])
                                   ELSE granted[x]]
     /\ UNCHANGED <<above, order, predecessor, dossier>>

-----------------------------------------------------------------------------
(* The transitions with the guards of TaskTransitionController.            *)

Accept(t) ==
  /\ Category[t] # "uniref"
  /\ Transition(t, "accept", "in-progress") /\ UNCHANGED responsible

ResolveOpen(t) ==
  /\ state[t] = "open" /\ Category[t] = "bi"
  /\ Transition(t, "resolve", "resolved") /\ UNCHANGED responsible

ResolveInProgress(t) ==
  /\ state[t] = "in-progress" /\ Category[t] # "unival" /\ all_subtasks_finished(t)
  /\ Transition(t, "resolve", "resolved") /\ UNCHANGED responsible

CloseInProgress(t) ==
  /\ state[t] = "in-progress" /\ Category[t] = "unival" /\ all_subtasks_finished(t)
  /\ Transition(t, "close", "closed") /\ UNCHANGED responsible

\* The subtasks are not asked for.
CloseOther(t) ==
  /\ state[t] # "in-progress"
  /\ Transition(t, "close", "closed") /\ UNCHANGED responsible

BackToProgress(t) ==
  Transition(t, "back", "in-progress") /\ UNCHANGED responsible

\* Mutant: a rejected task has no responsible.
RejectMutant(t) ==
  /\ Transition(t, "reject", "rejected")
  /\ responsible' = [responsible EXCEPT ![t] = None]

\* The issuer becomes responsible when the roles have been set.
Reject(t) ==
  /\ Transition(t, "reject", "rejected")
  /\ responsible' = [responsible EXCEPT ![t] = Issuer]

ReopenRejected(t) ==
  /\ state[t] = "rejected"
  /\ Transition(t, "reopen", "open") /\ UNCHANGED responsible

Skip(t) ==
  /\ state[t] = "rejected" => t \in Marked
  /\ Transition(t, "skip", "skipped") /\ UNCHANGED responsible

\* No extender is registered for it, so that no response sets the roles.
ReopenSkipped(t) ==
  /\ state[t] = "skipped"
  /\ state' = [state EXCEPT ![t] = "open"]
  /\ UNCHANGED <<above, order, predecessor, responsible, granted, dossier>>

\* Mutant: the containing dossier is not asked for.
ReopenCancelledMutant(t) ==
  /\ state[t] = "cancelled"
  /\ Transition(t, "reopen", "open") /\ UNCHANGED responsible

ReopenCancelled(t) ==
  /\ state[t] = "cancelled" /\ dossier = "active"
  /\ Transition(t, "reopen", "open") /\ UNCHANGED responsible

CancelOpen(t) ==
  /\ state[t] = "open" /\ ~ (t \in Marked /\ above[t] # {})
  /\ Transition(t, "cancel", "cancelled") /\ UNCHANGED responsible

CancelInProgress(t) ==
  /\ state[t] = "in-progress" /\ t \in Marked /\ above[t] = {}
  /\ Transition(t, "cancel", "cancelled") /\ UNCHANGED responsible

-----------------------------------------------------------------------------
(* Another responsible.                                                    *)

\* Mutant: the roles are revoked when the responsible was changed.
ReassignMutant(t, u) ==
  /\ state[t] \in {"open", "in-progress"} /\ t \in HandedOver /\ u # responsible[t]
  /\ responsible' = [responsible EXCEPT ![t] = u]
  /\ granted' = [granted EXCEPT ![t] = @ \ {u}]
  /\ UNCHANGED <<state, above, order, predecessor, dossier>>

\* ReassignTransitionExtender revokes before it changes, and notifies.
Reassign(t, u) ==
  /\ state[t] \in {"open", "in-progress"} /\ t \in HandedOver /\ u # responsible[t]
  /\ responsible' = [responsible EXCEPT ![t] = u]
  /\ granted' = [granted EXCEPT ![t] = (@ \ {responsible[t]}) \cup {u}]
  /\ UNCHANGED <<state, above, order, predecessor, dossier>>

\* The edit form of an open task does not revoke.
EditResponsible(t, u) ==
  /\ state[t] = "open" /\ t \in HandedOver /\ u # responsible[t]
  /\ responsible' = [responsible EXCEPT ![t] = u]
  /\ granted' = [granted EXCEPT ![t] = @ \cup {u}]
  /\ UNCHANGED <<state, above, order, predecessor, dossier>>

-----------------------------------------------------------------------------
(* The process and its tasks are created.                                  *)

\* TaskTemplateFolderTrigger.generate: the main task is accepted, all tasks
\* but perhaps the first are planned, then they get their order.
Trigger(start_immediately) ==
  /\ state[Main] = "none" /\ dossier = "active"
  /\ state' = [t \in Tasks |->
                 IF t = Main THEN "in-progress"
                 ELSE IF t = Template[1] /\ start_immediately THEN "open"
                 ELSE IF t \in Steps THEN "planned" ELSE state[t]]
  /\ above' = [t \in Tasks |-> IF t \in Steps THEN {Main} ELSE above[t]]
  /\ order' = Template
  /\ predecessor' = [t \in Tasks |->
       IF \E i \in 2..Len(Template) : Template[i] = t
       THEN Template[(CHOOSE i \in 2..Len(Template) : Template[i] = t) - 1]
       ELSE predecessor[t]]
  /\ granted' = [t \in Tasks |-> IF t \in Marked THEN {responsible[t]} ELSE granted[t]]
  /\ UNCHANGED <<responsible, dossier>>

\* A task is created in p; in the main task it is planned (set_initial_state),
\* and p gets a response, which sets its roles.
NewSubtask(x, p) ==
  /\ state[x] = "none" /\ x \in Added /\ state[p] = "in-progress"
  /\ state' = [state EXCEPT ![x] = IF p = Main THEN "planned" ELSE "open"]
  /\ above' = [above EXCEPT ![x] = above[p] \cup {p}]
  /\ granted' = [granted EXCEPT ![x] = {responsible[x]}, ![p] = @ \cup {responsible[p]}]
  /\ UNCHANGED <<responsible, dossier>>

\* get_tasktemplate_predecessor is None for a task without the marker, and
\* sync_with then leaves the column alone.
SyncedPredecessor(o) ==
  [t \in Tasks |->
    IF t \in Marked /\ \E j \in 2..Len(o) : o[j] = t
    THEN o[(CHOOSE j \in 2..Len(o) : o[j] = t) - 1] ELSE predecessor[t]]

\* The add form of the main task puts x at a position of the order; position
\* 0 counts as none, and then x comes last.
AddToOrder(x, position) ==
  LET new == [j \in 1..Len(order) + 1 |->
                IF j <= position THEN order[j]
                ELSE IF j = position + 1 THEN x ELSE order[j - 1]]
  IN /\ NewSubtask(x, Main)
     /\ order' = new
     /\ predecessor' = SyncedPredecessor(new)

\* Delegating, and the add form of other tasks: the order stays as it is,
\* also when the main task is delegated.
AddSubtask(x, p) == NewSubtask(x, p) /\ UNCHANGED <<order, predecessor>>

-----------------------------------------------------------------------------
\* has_active_tasks: planned, skipped and final tasks do not count.
ResolveDossier ==
  /\ dossier = "active" /\ \A t \in Tasks : state[t] \notin OpenStates
  /\ dossier' = "resolved"
  /\ UNCHANGED <<state, above, order, predecessor, responsible, granted>>

ReactivateDossier ==
  /\ dossier = "resolved" /\ dossier' = "active"
  /\ UNCHANGED <<state, above, order, predecessor, responsible, granted>>

WorkflowStep(t) ==
  \/ Accept(t) \/ ResolveOpen(t) \/ ResolveInProgress(t) \/ CloseInProgress(t)
  \/ CloseOther(t) \/ BackToProgress(t) \/ Reject(t) \/ ReopenRejected(t)
  \/ Skip(t) \/ ReopenSkipped(t) \/ ReopenCancelled(t)
  \/ CancelOpen(t) \/ CancelInProgress(t)

Next ==
  \/ \E start \in BOOLEAN : Trigger(start)
  \/ \E t \in Tasks : WorkflowStep(t)
  \/ \E t \in Tasks, u \in Users : Reassign(t, u) \/ EditResponsible(t, u)
  \/ \E x \in Added, i \in 1..Len(order) : AddToOrder(x, i)
  \/ \E x \in Added, p \in Tasks : AddSubtask(x, p)
  \/ ResolveDossier
  \/ ReactivateDossier

Spec == Init /\ [][Next]_vars

-----------------------------------------------------------------------------
(* Properties.                                                             *)

(* Where the order has a step of the template right behind another one, it *)
(* is not left planned once that one was passed or dropped.  Passing opens *)
(* it in the same request, past every reopening, skipping and adding       *)
(* before.  A step behind an added task is not promised anything here: see *)
(* EveryTurnComes.                                                         *)
NoneLeftBehind ==
  \A j \in 2..Len(order) :
    {order[j - 1], order[j]} \subseteq Steps /\ state[order[j]] = "planned" =>
      state[order[j - 1]] \notin {"resolved", "closed", "skipped", "cancelled"}

(* When a task of the process is closed, the one behind it is not left     *)
(* planned: the user manual has every task of a sequence planned until it  *)
(* is its turn.  The code does not keep to it where a task was added, see  *)
(* the run added.                                                          *)
EveryTurnComes ==
  [][\A j \in 2..Len(order) :
       state[order[j - 1]] # "closed" /\ state'[order[j - 1]] = "closed"
         => state'[order[j]] # "planned"]_vars

(* A task is planned only while the main task is in progress and directly  *)
(* below it.  has_active_tasks does not count planned tasks, and yet no    *)
(* dossier can be resolved around a process that still has some.           *)
PlannedIsRunning ==
  \A t \in Tasks : state[t] = "planned" =>
    state[Main] = "in-progress" /\ above[t] = {Main}

(* After a task was closed its last responsible has no roles from it: the  *)
(* handler revokes them before the response would set them again.          *)
RevokedWhenClosed ==
  \A t \in Tasks : state[t] = "closed" => responsible[t] \notin granted[t]

IsWorkable(t) == state[t] \in {"open", "in-progress", "resolved"}

(* A task that is open, in progress or resolved loses the roles of its     *)
(* responsible in no step; the only task to get there without them is one  *)
(* that was skipped.                                                       *)
RolesAreKept ==
  [][\A t \in Tasks :
       IsWorkable(t)' /\ responsible'[t] \notin granted'[t]
         => \/ state[t] = "skipped"
            \/ IsWorkable(t) /\ responsible[t] \notin granted[t]]_vars

(* In a resolved dossier a task gets active again by one way only: from    *)
(* skipped, as that transition does not ask for the state of the dossier.  *)
(* A new task may follow below one that got active so.                     *)
OnlySkippedReopens ==
  [][\A t \in Tasks :
       dossier = "resolved" /\ state[t] \notin OpenStates /\ state'[t] \in OpenStates
         => \/ state[t] = "skipped"
            \/ state[t] = "none" /\ \E p \in above'[t] : state[p] = "in-progress"]_vars

(* A task that was added to the process is never started by it: it stays   *)
(* planned until it is skipped or cancelled, wherever it is in the order.  *)
(* This is what the code does where EveryTurnComes would have it started.  *)
AddedIsNeverStarted ==
  [][\A t \in Added : state[t] = "planned" =>
       state'[t] \in {"planned", "skipped", "cancelled"}]_vars

(* The process implements TaskSequence: a planned step is opened when the  *)
(* step it follows is passed, and in no other way.                         *)
Phase(s) == CASE s = "none" -> "none" [] s = "planned" -> "waiting"
              [] s \in {"open", "in-progress", "rejected"} -> "active"
              [] s \in {"resolved", "closed", "skipped"} -> "passed"
              [] s = "cancelled" -> "dropped"
Sequence == INSTANCE TaskSequence WITH
  NoStep <- None,
  phase <- [t \in Steps |-> Phase(state[t])],
  follows <- [t \in Steps |-> IF predecessor[t] \in Steps THEN predecessor[t] ELSE None]
RefinesSequence == Sequence!Spec
=============================================================================
