------------------------- MODULE TaskProcessProofs -------------------------
(***************************************************************************)
(* What holds of TaskProcess for every template, every set of added tasks  *)
(* and every user, checked by TLAPS.  Three layers: types, the places of   *)
(* the tasks with the order of the process (Places), and what the states   *)
(* of the tasks say of each other (States).                                *)
(***************************************************************************)
EXTENDS TaskProcess, TLAPS

-----------------------------------------------------------------------------
(* The steps of the workflow as one form.                                  *)

\* What the guards of the controller leave of a transition.
Guarded(t, action, s) ==
  /\ Transition(t, action, s)
  /\ \/ responsible' = responsible
     \/ s = "rejected" /\ responsible' = [responsible EXCEPT ![t] = Issuer]
  /\ state[t] = "in-progress" /\ action \in {"resolve", "close"} => all_subtasks_finished(t)
  /\ state[t] = "in-progress" /\ action = "resolve" => Category[t] # "unival"
  /\ state[t] = "open" /\ action = "cancel" => ~ (t \in Marked /\ above[t] # {})
  /\ state[t] = "in-progress" /\ action = "cancel" => t \in Marked /\ above[t] = {}
  /\ state[t] = "cancelled" => dossier = "active"

(* The states a transition leads from and to. *)
LEMMA WorkflowCases ==
  ASSUME NEW from, NEW action, NEW s, <<from, action, s>> \in Workflow
  PROVE  \/ from = "open" /\ action = "accept" /\ s = "in-progress"
         \/ from = "open" /\ action = "resolve" /\ s = "resolved"
         \/ from = "open" /\ action = "close" /\ s = "closed"
         \/ from = "open" /\ action = "reject" /\ s = "rejected"
         \/ from = "open" /\ action = "cancel" /\ s = "cancelled"
         \/ from = "in-progress" /\ action = "resolve" /\ s = "resolved"
         \/ from = "in-progress" /\ action = "close" /\ s = "closed"
         \/ from = "in-progress" /\ action = "cancel" /\ s = "cancelled"
         \/ from = "resolved" /\ action = "close" /\ s = "closed"
         \/ from = "resolved" /\ action = "back" /\ s = "in-progress"
         \/ from = "rejected" /\ action = "reopen" /\ s = "open"
         \/ from = "rejected" /\ action = "skip" /\ s = "skipped"
         \/ from = "planned" /\ action = "skip" /\ s = "skipped"
         \/ from = "skipped" /\ action = "reopen" /\ s = "open"
         \/ from = "cancelled" /\ action = "reopen" /\ s = "open"
  BY DEF Workflow

(* The same of a transition, whose task it names. *)
LEMMA TransitionFrom ==
  ASSUME NEW t, NEW action, NEW s, Transition(t, action, s)
  PROVE  /\ action = "accept" => state[t] = "open"
         /\ action = "resolve" => state[t] \in {"open", "in-progress"}
         /\ action = "close" => state[t] \in {"open", "in-progress", "resolved"}
         /\ action = "reject" => state[t] = "open"
         /\ action = "cancel" => state[t] \in {"open", "in-progress"}
         /\ action = "back" => state[t] = "resolved"
         /\ action = "reopen" => state[t] \in {"rejected", "skipped", "cancelled"}
         /\ action = "skip" => state[t] \in {"rejected", "planned"}
  BY WorkflowCases DEF Transition

(* Every step of the workflow is a guarded transition, but for the         *)
(* reopening of a skipped task.                                            *)
LEMMA WorkflowShape ==
  ASSUME NEW t \in Tasks, WorkflowStep(t)
  PROVE  ReopenSkipped(t) \/ \E action, s : Guarded(t, action, s)
<1>1. ASSUME Accept(t) PROVE Guarded(t, "accept", "in-progress")
  BY <1>1, TransitionFrom DEF Accept, Guarded
<1>2. ASSUME ResolveOpen(t) PROVE Guarded(t, "resolve", "resolved")
  BY <1>2, TransitionFrom DEF ResolveOpen, Guarded
<1>3. ASSUME ResolveInProgress(t) PROVE Guarded(t, "resolve", "resolved")
  BY <1>3, TransitionFrom DEF ResolveInProgress, Guarded
<1>4. ASSUME CloseInProgress(t) PROVE Guarded(t, "close", "closed")
  BY <1>4, TransitionFrom DEF CloseInProgress, Guarded
<1>5. ASSUME CloseOther(t) PROVE Guarded(t, "close", "closed")
  BY <1>5, TransitionFrom DEF CloseOther, Guarded
<1>6. ASSUME BackToProgress(t) PROVE Guarded(t, "back", "in-progress")
  BY <1>6, TransitionFrom DEF BackToProgress, Guarded
<1>7. ASSUME Reject(t) PROVE Guarded(t, "reject", "rejected")
  BY <1>7, TransitionFrom DEF Reject, Guarded
<1>8. ASSUME ReopenRejected(t) PROVE Guarded(t, "reopen", "open")
  BY <1>8, TransitionFrom DEF ReopenRejected, Guarded
<1>9. ASSUME Skip(t) PROVE Guarded(t, "skip", "skipped")
  BY <1>9, TransitionFrom DEF Skip, Guarded
<1>10. ASSUME ReopenCancelled(t) PROVE Guarded(t, "reopen", "open")
  BY <1>10, TransitionFrom DEF ReopenCancelled, Guarded
<1>11. ASSUME CancelOpen(t) PROVE Guarded(t, "cancel", "cancelled")
  BY <1>11, TransitionFrom DEF CancelOpen, Guarded
<1>12. ASSUME CancelInProgress(t) PROVE Guarded(t, "cancel", "cancelled")
  BY <1>12, TransitionFrom DEF CancelInProgress, Guarded
<1> QED
  BY <1>1, <1>2, <1>3, <1>4, <1>5, <1>6, <1>7, <1>8, <1>9, <1>10, <1>11, <1>12
  DEF WorkflowStep

(* The tasks a transition opens are planned and wait for its task. *)
LEMMA OpenedIsPlanned ==
  ASSUME NEW t, NEW action, NEW n \in open_next_task(t, action)
  PROVE  /\ n \in Tasks /\ predecessor[n] = t /\ state[n] = "planned" /\ t \in Marked
         /\ <<state[t], action>> \in StartsNext
  BY DEF open_next_task

-----------------------------------------------------------------------------
(* Types.                                                                  *)

(* The initial state has the right types. *)
LEMMA TypeInit == Init => TypeOK
  BY UserAssumption DEF Init, TypeOK

(* The template, the main task and what is added later are tasks. *)
LEMMA StepsAreTasks == Steps \subseteq Tasks /\ Main \in Tasks /\ Added \subseteq Tasks
  BY DEF Tasks, Marked

(* A guarded transition keeps the types. *)
LEMMA TypeTransition ==
  ASSUME TypeOK, NEW t \in Tasks, NEW action, NEW s, Guarded(t, action, s)
  PROVE  TypeOK'
<1> USE DEF TypeOK
<1>1. s \in OpenStates \cup FinalStates
  BY WorkflowCases DEF Guarded, Transition, OpenStates, FinalStates
<1>2. state' \in [Tasks -> {"none", "planned", "skipped"} \cup OpenStates \cup FinalStates]
  <2>1. "open" \in OpenStates /\ "cancelled" \in FinalStates
    BY DEF OpenStates, FinalStates
  <2> HIDE DEF OpenStates, FinalStates
  <2> QED BY <1>1, <2>1 DEF Guarded, Transition
<1>3. responsible' \in [Tasks -> Users]
  BY UserAssumption DEF Guarded
<1>4. granted' \in [Tasks -> SUBSET Users]
  <2>1. \A x \in Tasks, old \in SUBSET Users : \A r : set_roles(x, r, old) \in SUBSET Users
    BY DEF set_roles
  <2>2. RolesAfter(t, action, s) \in SUBSET Users
    BY <2>1 DEF RolesAfter
  <2>3. \A x \in Tasks : set_roles(x, "open", granted[x]) \in SUBSET Users
    BY <2>1
  <2> QED BY <2>2, <2>3 DEF Guarded, Transition
<1> QED BY <1>2, <1>3, <1>4 DEF Guarded, Transition

(* Putting a task into the order gives a sequence of tasks. *)
LEMMA OrderWithTask ==
  ASSUME NEW o \in Seq(Tasks), NEW x \in Tasks, NEW i \in 1..Len(o), NEW new,
         new = [j \in 1..Len(o) + 1 |->
                 IF j <= i THEN o[j] ELSE IF j = i + 1 THEN x ELSE o[j - 1]]
  PROVE  new \in Seq(Tasks) /\ Len(new) = Len(o) + 1
<1>1. Len(o) \in Nat /\ \A j \in 1..Len(o) : o[j] \in Tasks
  OBVIOUS
<1>2. \A j \in 1..Len(o) + 1 : new[j] \in Tasks
  BY <1>1
<1>3. new \in [1..Len(o) + 1 -> Tasks]
  BY <1>2
<1> QED BY <1>1, <1>3

(* The predecessor of a synced order is a task of it or the old one. *)
LEMMA SyncedType ==
  ASSUME NEW o \in Seq(Tasks), predecessor \in [Tasks -> Tasks \cup {None}]
  PROVE  SyncedPredecessor(o) \in [Tasks -> Tasks \cup {None}]
<1>1. ASSUME NEW t \in Tasks, \E j \in 2..Len(o) : o[j] = t
      PROVE o[(CHOOSE j \in 2..Len(o) : o[j] = t) - 1] \in Tasks
  <2> DEFINE k == CHOOSE j \in 2..Len(o) : o[j] = t
  <2>1. k \in 2..Len(o)
    BY <1>1
  <2> HIDE DEF k
  <2>2. k - 1 \in 1..Len(o)
    BY <2>1
  <2> QED BY <2>2 DEF k
<1> QED BY <1>1 DEF SyncedPredecessor

(* Triggering the process does. *)
LEMMA TypeTrigger ==
  ASSUME TypeOK, NEW start \in BOOLEAN, Trigger(start)
  PROVE  TypeOK'
<1> USE StepsAreTasks DEF TypeOK
<1>1. state' \in [Tasks -> {"none", "planned", "skipped"} \cup OpenStates \cup FinalStates]
  BY DEF Trigger, OpenStates
<1>2. above' \in [Tasks -> SUBSET Tasks] /\ granted' \in [Tasks -> SUBSET Users]
  BY DEF Trigger
<1>3. order' \in Seq(Tasks)
  BY TemplateAssumption DEF Trigger
<1>4. predecessor' \in [Tasks -> Tasks \cup {None}]
  <2>1. ASSUME NEW t \in Tasks, \E i \in 2..Len(Template) : Template[i] = t
        PROVE Template[(CHOOSE i \in 2..Len(Template) : Template[i] = t) - 1] \in Tasks
    <3> DEFINE k == CHOOSE i \in 2..Len(Template) : Template[i] = t
    <3>1. k \in 2..Len(Template)
      BY <2>1
    <3> HIDE DEF k
    <3>2. k - 1 \in 1..Len(Template)
      BY <3>1, TemplateAssumption
    <3> QED BY <3>2, TemplateAssumption DEF k
  <2> QED BY <2>1 DEF Trigger
<1> QED BY <1>1, <1>2, <1>3, <1>4 DEF Trigger

(* A new task does. *)
LEMMA TypeNew ==
  ASSUME TypeOK, NEW x \in Added, NEW p \in Tasks, NewSubtask(x, p),
         order' \in Seq(Tasks), predecessor' \in [Tasks -> Tasks \cup {None}]
  PROVE  TypeOK'
<1> USE StepsAreTasks DEF TypeOK, NewSubtask
<1>1. state' \in [Tasks -> {"none", "planned", "skipped"} \cup OpenStates \cup FinalStates]
  BY DEF OpenStates
<1>2. above' \in [Tasks -> SUBSET Tasks] /\ granted' \in [Tasks -> SUBSET Users]
  OBVIOUS
<1> QED BY <1>1, <1>2

(* So does every step. *)
LEMMA TypeStep == TypeOK /\ [Next]_vars => TypeOK'
<1> SUFFICES ASSUME TypeOK, [Next]_vars PROVE TypeOK'
  OBVIOUS
<1> USE StepsAreTasks
<1>1. ASSUME NEW start \in BOOLEAN, Trigger(start) PROVE TypeOK'
  BY <1>1, TypeTrigger
<1>2. ASSUME NEW t \in Tasks, WorkflowStep(t) PROVE TypeOK'
  <2>1. CASE ReopenSkipped(t)
    BY <2>1 DEF ReopenSkipped, TypeOK, OpenStates
  <2>2. ASSUME NEW action, NEW s, Guarded(t, action, s) PROVE TypeOK'
    BY <2>2, TypeTransition
  <2> QED BY <1>2, <2>1, <2>2, WorkflowShape
<1>3. ASSUME NEW t \in Tasks, NEW u \in Users, Reassign(t, u) \/ EditResponsible(t, u)
      PROVE TypeOK'
  BY <1>3 DEF Reassign, EditResponsible, TypeOK
<1>4. ASSUME NEW x \in Added, NEW i \in 1..Len(order), AddToOrder(x, i) PROVE TypeOK'
  <2>1. order' \in Seq(Tasks)
    BY <1>4, OrderWithTask DEF AddToOrder, TypeOK
  <2>2. predecessor' = SyncedPredecessor(order') /\ NewSubtask(x, Main)
    BY <1>4 DEF AddToOrder
  <2>3. predecessor' \in [Tasks -> Tasks \cup {None}]
    BY <2>1, <2>2, SyncedType DEF TypeOK
  <2> QED BY <2>1, <2>2, <2>3, TypeNew
<1>5. ASSUME NEW x \in Added, NEW p \in Tasks, AddSubtask(x, p) PROVE TypeOK'
  BY <1>5, TypeNew DEF AddSubtask, TypeOK
<1>6. CASE ResolveDossier  BY <1>6 DEF ResolveDossier, TypeOK
<1>7. CASE ReactivateDossier  BY <1>7 DEF ReactivateDossier, TypeOK
<1>8. CASE UNCHANGED vars  BY <1>8 DEF vars, TypeOK
<1> QED BY <1>1, <1>2, <1>3, <1>4, <1>5, <1>6, <1>7, <1>8 DEF Next

(* Type correctness of every reachable state. *)
THEOREM Typing == Spec => []TypeOK
  BY TypeInit, TypeStep, PTL DEF Spec

-----------------------------------------------------------------------------
(* The places of the tasks and the order of the process.                   *)

PlaceInv ==
  /\ above[Main] = {}
  /\ \A t \in Tasks : state[t] = "none" => above[t] = {}
  /\ state[Main] = "none" => \A t \in Tasks : state[t] = "none" /\ predecessor[t] = None
  /\ state[Main] # "none" => \A t \in Steps : state[t] # "none" /\ above[t] = {Main}

OrderInv ==
  /\ \A j \in 1..Len(order) : order[j] # Main /\ state[order[j]] # "none"
  /\ \A i, j \in 1..Len(order) : order[i] = order[j] => i = j
  /\ \A j \in 2..Len(order) : order[j] \in Steps => predecessor[order[j]] = order[j - 1]
  /\ \A t \in Tasks : predecessor[t] # Main
  /\ \A x \in Added \cup {Main} : predecessor[x] = None

Places == TypeOK /\ PlaceInv /\ OrderInv

(* Before the process begins nothing has a place. *)
LEMMA PlaceInit == Init => PlaceInv /\ OrderInv
  BY StepsAreTasks, TaskAssumption DEF Init, PlaceInv, OrderInv, Tasks

(* Steps that create no task and move none keep the places. *)
LEMMA PlaceKept ==
  ASSUME Places, UNCHANGED <<above, order, predecessor>>,
         \A t \in Tasks : state[t] = "none" <=> state'[t] = "none"
  PROVE  PlaceInv' /\ OrderInv'
<1>1. PlaceInv'
  BY StepsAreTasks DEF Places, PlaceInv
<1>2. \A j \in 1..Len(order) : order[j] \in Tasks
  BY DEF Places, TypeOK
<1> QED BY <1>1, <1>2 DEF Places, OrderInv

(* A transition creates no task, and no task vanishes. *)
LEMMA ExistenceKept ==
  ASSUME Places, NEW t \in Tasks, NEW action, NEW s, Guarded(t, action, s)
  PROVE  \A x \in Tasks : state[x] = "none" <=> state'[x] = "none"
<1>1. state[t] # "none" /\ s # "none"
  BY WorkflowCases DEF Guarded, Transition
<1>2. \A x \in cancel_subtasks(t, action) : state[x] # "none"
  BY DEF cancel_subtasks, Subtasks, Below, Places, PlaceInv
<1>3. \A x \in open_next_task(t, action) : state[x] = "planned"
  BY OpenedIsPlanned
<1> QED BY <1>1, <1>2, <1>3 DEF Guarded, Transition, Places, TypeOK

(* Triggering puts the steps into the main task, in the order of the       *)
(* template.                                                               *)
LEMMA PlaceTrigger ==
  ASSUME Places, NEW start \in BOOLEAN, Trigger(start)
  PROVE  PlaceInv' /\ OrderInv'
<1> USE StepsAreTasks, TaskAssumption DEF Places, TypeOK
<1>1. PlaceInv'
  BY DEF PlaceInv, Trigger, Marked
<1>2. \A j \in 1..Len(Template) : Template[j] \in Steps
  BY DEF Steps
<1>3. \A j \in 1..Len(order') : order'[j] # Main /\ state'[order'[j]] # "none"
  BY <1>2 DEF Trigger
<1>4. \A i, j \in 1..Len(order') : order'[i] = order'[j] => i = j
  BY TemplateAssumption DEF Trigger
<1>5. ASSUME NEW j \in 2..Len(Template)
      PROVE predecessor'[Template[j]] = Template[j - 1]
  <2> DEFINE k == CHOOSE i \in 2..Len(Template) : Template[i] = Template[j]
  <2>1. k \in 2..Len(Template) /\ Template[k] = Template[j]
    OBVIOUS
  <2> HIDE DEF k
  <2>2. k \in 1..Len(Template) /\ j \in 1..Len(Template)
    BY <2>1, TemplateAssumption
  <2>3. k = j
    BY <2>1, <2>2, TemplateAssumption
  <2>4. predecessor'[Template[j]] = Template[k - 1]
    BY <1>2, <2>2 DEF Trigger, k
  <2> QED BY <2>3, <2>4
<1>6. ASSUME NEW t \in Tasks
      PROVE \/ predecessor'[t] = None
            \/ t \in Steps /\ predecessor'[t] \in Steps
  <2>1. CASE \E i \in 2..Len(Template) : Template[i] = t
    <3>1. PICK i \in 2..Len(Template) : Template[i] = t
      BY <2>1
    <3>2. i \in 1..Len(Template) /\ i - 1 \in 1..Len(Template)
      BY TemplateAssumption
    <3> QED BY <1>2, <1>5, <3>1, <3>2
  <2>2. CASE ~ \E i \in 2..Len(Template) : Template[i] = t
    BY <2>2 DEF Trigger, PlaceInv
  <2> QED BY <2>1, <2>2
<1>7. order' = Template
  BY DEF Trigger
<1>8. OrderInv'
  BY <1>3, <1>4, <1>5, <1>6, <1>7 DEF OrderInv, Marked
<1> QED BY <1>1, <1>8

(* A new task gets its place. *)
LEMMA PlaceNew ==
  ASSUME Places, NEW x \in Added, NEW p \in Tasks, NewSubtask(x, p)
  PROVE  PlaceInv' /\ \A t \in Tasks : t # x => (state'[t] = state[t])
<1> USE StepsAreTasks, TaskAssumption DEF Places, TypeOK
<1>1. x # Main /\ x \notin Steps /\ x \in Tasks
  BY DEF Marked
<1>2. state'[x] # "none" /\ \A t \in Tasks : t # x => state'[t] = state[t] /\ above'[t] = above[t]
  BY <1>1 DEF NewSubtask
<1>3. state[Main] # "none"
  BY DEF NewSubtask, PlaceInv
<1>4. PlaceInv'
  BY <1>1, <1>2, <1>3 DEF PlaceInv
<1> QED BY <1>2, <1>4

(* What the new order says: its steps follow what they followed, but for   *)
(* the one behind the task that was put in.                                *)
LEMMA SyncedOrder ==
  ASSUME Places, NEW x \in Added, NEW i \in 1..Len(order), AddToOrder(x, i)
  PROVE  /\ OrderInv'
         /\ \A t \in Tasks : \/ predecessor'[t] = predecessor[t]
                             \/ predecessor'[t] = x /\ t \in Steps /\ i + 1 \in 1..Len(order)
                                /\ t = order[i + 1]
<1> USE StepsAreTasks, TaskAssumption DEF Places, TypeOK
<1> DEFINE n == Len(order)
           new == order'
<1>1. n \in Nat /\ \A j \in 1..n : order[j] \in Tasks
  OBVIOUS
<1>2. x # Main /\ x \notin Marked /\ x \notin Steps /\ x \in Tasks
  BY DEF Marked
<1>3. /\ NewSubtask(x, Main)
      /\ new = [j \in 1..n + 1 |-> IF j <= i THEN order[j]
                                   ELSE IF j = i + 1 THEN x ELSE order[j - 1]]
      /\ predecessor' = SyncedPredecessor(new)
  BY DEF AddToOrder
<1>4. Len(new) = n + 1 /\ new \in Seq(Tasks)
  BY <1>2, <1>3, OrderWithTask
<1>5. /\ \A j \in 1..i : new[j] = order[j]
      /\ new[i + 1] = x
      /\ \A j \in i + 2..n + 1 : j - 1 \in 1..n /\ new[j] = order[j - 1]
  BY <1>1, <1>3
<1>6. \A j \in 1..n : order[j] # x
  BY DEF NewSubtask, AddToOrder, OrderInv
<1>7. \A j, k \in 1..n + 1 : new[j] = new[k] => j = k
  <2> SUFFICES ASSUME NEW j \in 1..n + 1, NEW k \in 1..n + 1, new[j] = new[k] PROVE j = k
    OBVIOUS
  <2> HIDE DEF new, n
  <2>1. CASE j \in 1..i
    <3>1. CASE k \in 1..i
      BY <1>1, <1>5, <2>1, <3>1 DEF n, OrderInv
    <3>2. CASE k = i + 1
      BY <1>1, <1>5, <1>6, <2>1, <3>2 DEF n
    <3>3. CASE k \in i + 2..n + 1
      BY <1>1, <1>5, <2>1, <3>3 DEF n, OrderInv
    <3> QED BY <1>1, <3>1, <3>2, <3>3
  <2>2. CASE j = i + 1
    BY <1>1, <1>5, <1>6, <2>2 DEF n
  <2>3. CASE j \in i + 2..n + 1
    <3>1. CASE k \in i + 2..n + 1
      <4>1. j - 1 = k - 1
        BY <1>1, <1>5, <2>3, <3>1 DEF n, OrderInv
      <4> QED BY <4>1
    <3>2. CASE k \in 1..i
      BY <1>1, <1>5, <2>3, <3>2 DEF n, OrderInv
    <3>3. CASE k = i + 1
      BY <1>1, <1>5, <1>6, <2>3, <3>3 DEF n
    <3> QED BY <1>1, <3>1, <3>2, <3>3
  <2> QED BY <1>1, <2>1, <2>2, <2>3
<1>8. ASSUME NEW j \in 2..n + 1, new[j] \in Marked
      PROVE predecessor'[new[j]] = new[j - 1]
  <2> DEFINE k == CHOOSE k \in 2..Len(new) : new[k] = new[j]
  <2>1. k \in 2..n + 1 /\ new[k] = new[j]
    BY <1>4
  <2> HIDE DEF k
  <2>2. k = j
    BY <1>1, <1>7, <2>1
  <2>3. new[j] \in Tasks
    BY <1>8 DEF Tasks
  <2>4. predecessor'[new[j]] = new[k - 1]
    BY <1>3, <1>4, <1>8, <2>3 DEF SyncedPredecessor, k
  <2> QED BY <2>2, <2>4
<1>9. ASSUME NEW t \in Tasks, ~ (t \in Marked /\ \E j \in 2..n + 1 : new[j] = t)
      PROVE predecessor'[t] = predecessor[t]
  BY <1>3, <1>4, <1>9 DEF SyncedPredecessor
<1>10. \A j \in 1..n + 1 : new[j] # Main /\ state'[new[j]] # "none"
  <2> SUFFICES ASSUME NEW j \in 1..n + 1 PROVE new[j] # Main /\ state'[new[j]] # "none"
    OBVIOUS
  <2>1. new[j] = x \/ \E k \in 1..n : new[j] = order[k]
    BY <1>1, <1>5
  <2>2. state'[x] # "none"
    BY <1>2, <1>3 DEF NewSubtask
  <2>3. \A t \in Tasks : t # x => state'[t] = state[t]
    BY <1>3, PlaceNew
  <2> QED BY <1>1, <1>2, <2>1, <2>2, <2>3 DEF OrderInv
<1>11. ASSUME NEW t \in Tasks
       PROVE \/ predecessor'[t] = predecessor[t]
             \/ predecessor'[t] = x /\ t \in Steps /\ i + 1 \in 1..n /\ t = order[i + 1]
  <2>1. CASE t \in Marked /\ \E j \in 2..n + 1 : new[j] = t
    <3>1. PICK j \in 2..n + 1 : new[j] = t
      BY <2>1
    <3>2. predecessor'[t] = new[j - 1] /\ t \in Steps
      BY <1>1, <1>8, <1>10, <2>1, <3>1 DEF Marked
    <3> HIDE DEF new, n
    <3>3. CASE j \in 1..i
      BY <1>1, <1>5, <3>1, <3>2, <3>3 DEF OrderInv, n
    <3>4. CASE j = i + 1
      BY <1>2, <1>5, <3>1, <3>2, <3>4
    <3>5. CASE j = i + 2
      BY <1>1, <1>5, <3>1, <3>2, <3>5 DEF n
    <3>6. CASE j \in i + 3..n + 1
      <4>1. j - 1 \in 2..n /\ new[j] = order[j - 1] /\ new[j - 1] = order[j - 2]
        BY <1>1, <1>5, <3>6 DEF n
      <4>2. predecessor[t] = order[(j - 1) - 1]
        BY <3>1, <3>2, <4>1 DEF OrderInv, n
      <4> QED BY <3>2, <4>1, <4>2
    <3> QED BY <1>1, <3>3, <3>4, <3>5, <3>6 DEF n
  <2>2. CASE ~ (t \in Marked /\ \E j \in 2..n + 1 : new[j] = t)
    BY <1>9, <2>2
  <2> QED BY <2>1, <2>2
<1>12. /\ \A t \in Tasks : predecessor'[t] # Main
       /\ \A y \in Added \cup {Main} : predecessor'[y] = None
  BY <1>2, <1>11 DEF OrderInv, Marked
<1>13. \A j \in 2..n + 1 : new[j] \in Steps => predecessor'[new[j]] = new[j - 1]
  BY <1>8 DEF Marked
<1>14. OrderInv'
  BY <1>4, <1>7, <1>10, <1>12, <1>13 DEF OrderInv
<1> QED BY <1>11, <1>14

(* The places are kept by every step. *)
LEMMA PlaceStep == Places /\ [Next]_vars => PlaceInv' /\ OrderInv'
<1> SUFFICES ASSUME Places, [Next]_vars PROVE PlaceInv' /\ OrderInv'
  OBVIOUS
<1> USE StepsAreTasks
<1>1. ASSUME NEW start \in BOOLEAN, Trigger(start) PROVE PlaceInv' /\ OrderInv'
  BY <1>1, PlaceTrigger
<1>2. ASSUME NEW t \in Tasks, WorkflowStep(t) PROVE PlaceInv' /\ OrderInv'
  <2>1. CASE ReopenSkipped(t)
    BY <2>1, PlaceKept DEF ReopenSkipped, Places, TypeOK
  <2>2. ASSUME NEW action, NEW s, Guarded(t, action, s) PROVE PlaceInv' /\ OrderInv'
    BY <2>2, ExistenceKept, PlaceKept DEF Guarded, Transition
  <2> QED BY <1>2, <2>1, <2>2, WorkflowShape
<1>3. ASSUME NEW t \in Tasks, NEW u \in Users, Reassign(t, u) \/ EditResponsible(t, u)
      PROVE PlaceInv' /\ OrderInv'
  BY <1>3, PlaceKept DEF Reassign, EditResponsible
<1>4. ASSUME NEW x \in Added, NEW i \in 1..Len(order), AddToOrder(x, i)
      PROVE PlaceInv' /\ OrderInv'
  BY <1>4, SyncedOrder, PlaceNew DEF AddToOrder
<1>5. ASSUME NEW x \in Added, NEW p \in Tasks, AddSubtask(x, p)
      PROVE PlaceInv' /\ OrderInv'
  <2>1. NewSubtask(x, p) /\ UNCHANGED <<order, predecessor>>
    BY <1>5 DEF AddSubtask
  <2>2. PlaceInv' /\ \A t \in Tasks : t # x => state'[t] = state[t]
    BY <2>1, PlaceNew
  <2>3. state[x] = "none"
    BY <2>1 DEF NewSubtask
  <2>4. \A j \in 1..Len(order) : order[j] \in Tasks
    BY DEF Places, TypeOK
  <2> QED BY <2>1, <2>2, <2>3, <2>4 DEF Places, OrderInv
<1>6. CASE ResolveDossier  BY <1>6, PlaceKept DEF ResolveDossier
<1>7. CASE ReactivateDossier  BY <1>7, PlaceKept DEF ReactivateDossier
<1>8. CASE UNCHANGED vars  BY <1>8, PlaceKept DEF vars
<1> QED BY <1>1, <1>2, <1>3, <1>4, <1>5, <1>6, <1>7, <1>8 DEF Next

(* Every reachable state has its tasks in their places. *)
LEMMA PlaceInvariance == Spec => []Places
<1>1. Init => Places
  BY TypeInit, PlaceInit DEF Places
<1>2. Places /\ [Next]_vars => Places'
  BY TypeStep, PlaceStep DEF Places
<1> QED BY <1>1, <1>2, PTL DEF Spec

-----------------------------------------------------------------------------
(* What the states of the tasks say of each other.                         *)

\* While a step waits, its dossier was not resolved.
WaitsInActive == \A t \in Steps : state[t] = "planned" => dossier = "active"

\* A planned step that follows a step: that one was not passed or dropped.
StepsFollow ==
  \A t \in Steps : state[t] = "planned" /\ predecessor[t] \in Steps =>
    state[predecessor[t]] \notin {"resolved", "closed", "skipped", "cancelled"}

States == StepsFollow /\ PlannedIsRunning /\ RevokedWhenClosed /\ WaitsInActive

(* Initially no task exists, and so none is in a state. *)
LEMMA StatesInit == Init => States
  BY StepsAreTasks
  DEF Init, States, StepsFollow, PlannedIsRunning, RevokedWhenClosed, WaitsInActive

(* Only the main task cancels steps, and then it cancels all that waits. *)
LEMMA Cancelled ==
  ASSUME Places, States, NEW t \in Tasks, NEW action
  PROVE  /\ t # Main => cancel_subtasks(t, action) \cap Steps = {}
         /\ Main \notin cancel_subtasks(t, action)
         /\ action = "cancel" => \A x \in Tasks :
              state[x] = "planned" => x \in cancel_subtasks(Main, action)
         /\ action = "cancel" /\ state[Main] # "none" => Steps \subseteq cancel_subtasks(Main, action)
<1> USE StepsAreTasks DEF cancel_subtasks, Subtasks, Below, Places, PlaceInv
<1>1. ASSUME t # Main, NEW x \in Steps, t \in above[x] PROVE FALSE
  BY <1>1
<1>2. \A x \in Tasks : state[x] = "planned" => above[x] = {Main}
  BY DEF States, PlannedIsRunning
<1> QED BY <1>1, <1>2

(* What a guarded transition does with the states. *)
LEMMA StatesAfter ==
  ASSUME TypeOK, NEW t \in Tasks, NEW action, NEW s, Guarded(t, action, s)
  PROVE  /\ <<state[t], action, s>> \in Workflow
         /\ state'[t] = s
         /\ \A x \in Tasks : x # t =>
              state'[x] = IF x \in open_next_task(t, action) THEN "open"
                          ELSE IF x \in cancel_subtasks(t, action) THEN "cancelled"
                          ELSE state[x]
         /\ s # "planned"
         /\ UNCHANGED <<above, order, predecessor, dossier>>
  BY WorkflowCases DEF Guarded, Transition, TypeOK

(* A planned task was planned before a transition, too. *)
LEMMA PlannedBefore ==
  ASSUME TypeOK, NEW t \in Tasks, NEW action, NEW s, Guarded(t, action, s),
         NEW x \in Tasks, state'[x] = "planned"
  PROVE  /\ x # t /\ state[x] = "planned"
         /\ x \notin open_next_task(t, action) /\ x \notin cancel_subtasks(t, action)
  BY StatesAfter

(* No transition leaves a step behind. *)
LEMMA NoneLeftTransition ==
  ASSUME Places, States, NEW t \in Tasks, NEW action, NEW s, Guarded(t, action, s)
  PROVE  StepsFollow'
<1> SUFFICES ASSUME NEW x \in Steps, state'[x] = "planned", predecessor'[x] \in Steps
             PROVE  state'[predecessor'[x]] \notin {"resolved", "closed", "skipped", "cancelled"}
  BY DEF StepsFollow
<1> USE StepsAreTasks
<1> DEFINE p == predecessor[x]
<1>1. /\ predecessor'[x] = p /\ p \in Steps /\ state[x] = "planned" /\ x # t
      /\ x \notin open_next_task(t, action) /\ x \notin cancel_subtasks(t, action)
  BY StatesAfter, PlannedBefore DEF Places
<1>2. state[p] \notin {"resolved", "closed", "skipped", "cancelled"}
  BY <1>1 DEF States, StepsFollow
<1>3. p # Main
  BY <1>1, TaskAssumption
<1>4. CASE p = t
  <2>1. <<state[t], action>> \notin StartsNext
    BY <1>1, <1>4 DEF open_next_task, Marked
  <2>2. above[t] = {Main}
    BY <1>1, <1>4 DEF States, PlannedIsRunning, Places, PlaceInv
  <2>3. action # "cancel"
    BY <1>1, <1>4, <2>2, TransitionFrom DEF Guarded, Marked
  <2>4. s \notin {"resolved", "closed", "skipped", "cancelled"}
    <3>1. <<state[t], action, s>> \in Workflow
      BY StatesAfter DEF Places
    <3> QED BY <1>2, <1>4, <2>1, <2>3, <3>1, WorkflowCases DEF StartsNext
  <2>5. state'[t] = s /\ predecessor' = predecessor
    BY StatesAfter DEF Places
  <2> QED BY <1>1, <1>4, <2>4, <2>5
<1>5. CASE p # t
  <2>1. p \notin cancel_subtasks(t, action)
    <3>1. CASE t # Main  BY <1>1, <3>1, Cancelled
    <3>2. CASE t = Main  BY <1>1, <3>2, Cancelled DEF cancel_subtasks
    <3> QED BY <3>1, <3>2
  <2> QED BY <1>1, <1>2, <1>5, <2>1, StatesAfter DEF Places
<1> QED BY <1>4, <1>5

(* The main task stays in progress while a task is planned. *)
LEMMA PlannedTransition ==
  ASSUME Places, States, NEW t \in Tasks, NEW action, NEW s, Guarded(t, action, s)
  PROVE  PlannedIsRunning'
<1> SUFFICES ASSUME NEW x \in Tasks, state'[x] = "planned"
             PROVE  state'[Main] = "in-progress" /\ above'[x] = {Main}
  BY DEF PlannedIsRunning
<1> USE StepsAreTasks
<1>1. /\ state[x] = "planned" /\ x # t
      /\ x \notin cancel_subtasks(t, action)
  BY PlannedBefore DEF Places
<1>2. state[Main] = "in-progress" /\ above[x] = {Main}
  BY <1>1 DEF States, PlannedIsRunning
<1>3. CASE t = Main
  <2>1. x \in Below(Main) /\ state[x] \notin FinishedStates
    BY <1>1, <1>2 DEF Below, FinishedStates
  <2>2. action \notin {"resolve", "close"}
    BY <1>2, <1>3, <2>1 DEF Guarded, all_subtasks_finished
  <2>3. action # "cancel"
    BY <1>1, <1>3, Cancelled
  <2>4. <<state[t], action, s>> \in Workflow
    BY StatesAfter DEF Places
  <2>5. state[t] = "in-progress" => action \in {"resolve", "close", "cancel"}
    BY <2>4, WorkflowCases
  <2> QED BY <1>2, <1>3, <2>2, <2>3, <2>5
<1>4. CASE t # Main
  <2>1. Main \notin open_next_task(t, action) /\ Main \notin cancel_subtasks(t, action)
    BY <1>2, Cancelled DEF open_next_task
  <2>2. above' = above /\ \A y \in Tasks : y # t => state'[y] =
          IF y \in open_next_task(t, action) THEN "open"
          ELSE IF y \in cancel_subtasks(t, action) THEN "cancelled" ELSE state[y]
    BY StatesAfter DEF Places
  <2>3. state'[Main] = state[Main]
    BY <1>4, <2>1, <2>2
  <2> QED BY <1>2, <2>2, <2>3
<1> QED BY <1>3, <1>4

(* A transition to closed revokes the roles, and none gives them back. *)
LEMMA RevokedTransition ==
  ASSUME Places, States, NEW t \in Tasks, NEW action, NEW s, Guarded(t, action, s)
  PROVE  RevokedWhenClosed'
<1> SUFFICES ASSUME NEW x \in Tasks, state'[x] = "closed"
             PROVE  responsible'[x] \notin granted'[x]
  BY DEF RevokedWhenClosed
<1>1. CASE x = t
  <2>1. s = "closed" /\ action = "close" /\ state[t] \in {"open", "in-progress", "resolved"}
    <3>1. <<state[t], action, s>> \in Workflow /\ s = "closed"
      BY <1>1, StatesAfter DEF Places
    <3> QED BY <3>1, WorkflowCases
  <2>2. RolesAfter(t, action, s) = granted[t] \ {responsible[t]}
    BY <2>1 DEF RolesAfter, set_roles, FinalTransitions, FinalStates
  <2>3. granted'[t] = RolesAfter(t, action, s) /\ responsible' = responsible
    BY <2>1 DEF Guarded, Transition
  <2> QED BY <1>1, <2>2, <2>3
<1>2. CASE x # t
  <2>1. state[x] = "closed" /\ x \notin open_next_task(t, action)
    BY <1>2, StatesAfter DEF Places
  <2>2. granted'[x] = granted[x] /\ responsible'[x] = responsible[x]
    BY <1>2, <2>1 DEF Guarded, Transition, Places, TypeOK
  <2> QED BY <2>1, <2>2 DEF States, RevokedWhenClosed
<1> QED BY <1>1, <1>2

(* Triggering begins with steps that wait for steps that wait or are open. *)
LEMMA StatesTrigger ==
  ASSUME Places, NEW start \in BOOLEAN, Trigger(start)
  PROVE  States'
<1> USE StepsAreTasks, TaskAssumption DEF Places
<1>1. \A t \in Steps : state'[t] \in {"open", "planned"} /\ above'[t] = {Main}
  BY DEF Trigger
<1>2. \A x \in Added : state'[x] = "none"
  <2>1. Template[1] \in Steps
    BY TemplateAssumption DEF Steps
  <2> QED BY <2>1 DEF Trigger, PlaceInv, Marked
<1>3. state'[Main] = "in-progress" /\ dossier' = "active"
  BY DEF Trigger
<1> QED BY <1>1, <1>2, <1>3
        DEF States, StepsFollow, PlannedIsRunning, RevokedWhenClosed, WaitsInActive,
            Tasks, Marked

(* A new task is planned below a main task in progress, and not a step. *)
LEMMA StatesNew ==
  ASSUME Places, States, NEW x \in Added, NEW p \in Tasks, NewSubtask(x, p),
         \A t \in Tasks : predecessor'[t] \in {predecessor[t], x}
  PROVE  States'
<1> USE StepsAreTasks, TaskAssumption DEF Places, TypeOK
<1>1. x \notin Steps /\ x # Main /\ x \in Tasks
  BY DEF Marked
<1>2. /\ \A t \in Tasks : t # x => state'[t] = state[t] /\ above'[t] = above[t]
      /\ state'[x] = IF p = Main THEN "planned" ELSE "open"
      /\ above'[x] = above[p] \cup {p}
      /\ UNCHANGED <<responsible, dossier>>
      /\ state[p] = "in-progress" /\ state[x] = "none"
  BY <1>1 DEF NewSubtask
<1>3. StepsFollow' /\ WaitsInActive'
  BY <1>1, <1>2 DEF States, StepsFollow, WaitsInActive
<1>4. PlannedIsRunning'
  BY <1>1, <1>2 DEF States, PlannedIsRunning, PlaceInv
<1>5. \A t \in Tasks : state'[t] = "closed" => t # x /\ t # p /\ granted'[t] = granted[t]
  BY <1>1, <1>2 DEF NewSubtask
<1>6. RevokedWhenClosed'
  BY <1>2, <1>5 DEF States, RevokedWhenClosed
<1> QED BY <1>3, <1>4, <1>6 DEF States

(* The states stay in these relations in every step. *)
LEMMA StatesStep == Places /\ States /\ [Next]_vars => States'
<1> SUFFICES ASSUME Places, States, [Next]_vars PROVE States'
  OBVIOUS
<1> USE StepsAreTasks DEF Places
<1>1. ASSUME NEW start \in BOOLEAN, Trigger(start) PROVE States'
  BY <1>1, StatesTrigger
<1>2. ASSUME NEW t \in Tasks, WorkflowStep(t) PROVE States'
  <2>1. CASE ReopenSkipped(t)
    <3>1. /\ \A x \in Tasks : x # t => state'[x] = state[x]
          /\ state[t] = "skipped" /\ state'[t] = "open"
          /\ UNCHANGED <<above, order, predecessor, responsible, granted, dossier>>
      BY <2>1 DEF ReopenSkipped, TypeOK
    <3>2. \A x \in Tasks : state'[x] = "planned" => state[x] = "planned"
      BY <3>1
    <3> QED BY <3>1, <3>2
            DEF States, StepsFollow, PlannedIsRunning, RevokedWhenClosed, WaitsInActive
  <2>2. ASSUME NEW action, NEW s, Guarded(t, action, s) PROVE States'
    <3>1. WaitsInActive'
      BY <2>2, StatesAfter, PlannedBefore DEF States, WaitsInActive
    <3> QED BY <2>2, <3>1, NoneLeftTransition, PlannedTransition, RevokedTransition DEF States
  <2> QED BY <1>2, <2>1, <2>2, WorkflowShape
<1>3. ASSUME NEW t \in Tasks, NEW u \in Users, Reassign(t, u) \/ EditResponsible(t, u)
      PROVE States'
  <2>1. /\ UNCHANGED <<state, above, order, predecessor, dossier>>
        /\ state[t] # "closed"
        /\ \A x \in Tasks : x # t => responsible'[x] = responsible[x] /\ granted'[x] = granted[x]
    BY <1>3 DEF Reassign, EditResponsible, TypeOK
  <2> QED BY <2>1
          DEF States, StepsFollow, PlannedIsRunning, RevokedWhenClosed, WaitsInActive
<1>4. ASSUME NEW x \in Added, NEW i \in 1..Len(order), AddToOrder(x, i) PROVE States'
  BY <1>4, SyncedOrder, StatesNew DEF AddToOrder
<1>5. ASSUME NEW x \in Added, NEW p \in Tasks, AddSubtask(x, p) PROVE States'
  BY <1>5, StatesNew DEF AddSubtask
<1>6. CASE ResolveDossier
  BY <1>6 DEF ResolveDossier, States, StepsFollow, PlannedIsRunning, RevokedWhenClosed,
              WaitsInActive, OpenStates
<1>7. CASE ReactivateDossier
  BY <1>7 DEF ReactivateDossier, States, StepsFollow, PlannedIsRunning, RevokedWhenClosed,
              WaitsInActive
<1>8. CASE UNCHANGED vars
  BY <1>8 DEF vars, States, StepsFollow, PlannedIsRunning, RevokedWhenClosed, WaitsInActive
<1> QED BY <1>1, <1>2, <1>3, <1>4, <1>5, <1>6, <1>7, <1>8 DEF Next

(* The inductive invariant of the process. *)
LEMMA Invariance == Spec => [](Places /\ States)
  BY PlaceInvariance, StatesInit, StatesStep, PTL DEF Spec

(* The order and the predecessors agree, so the steps follow in the order. *)
LEMMA FollowInOrder == Places /\ States => NoneLeftBehind
<1> SUFFICES ASSUME Places, States, NEW j \in 2..Len(order),
                    order[j - 1] \in Steps, order[j] \in Steps, state[order[j]] = "planned"
             PROVE  state[order[j - 1]] \notin {"resolved", "closed", "skipped", "cancelled"}
  BY DEF NoneLeftBehind
<1>1. predecessor[order[j]] = order[j - 1]
  BY DEF Places, OrderInv
<1> QED BY <1>1 DEF States, StepsFollow

(* Where the order has one step of the template right behind another, it   *)
(* is not left planned when that one is passed, whatever is reopened,      *)
(* cancelled, skipped or put in elsewhere.  Nothing is said of a step      *)
(* behind an added task, which stays planned.                              *)
THEOREM StepsAreStarted == Spec => []NoneLeftBehind
  BY FollowInOrder, Invariance, PTL

(* The process without the add form of the main task. *)
NothingPutIn == ~ \E x \in Added, i \in 1..Len(order) : AddToOrder(x, i)
OrderOfSteps == \A j \in 1..Len(order) : order[j] \in Steps

(* Only triggering and the add form change the order. *)
LEMMA OrderStays ==
  ASSUME Places, [Next /\ NothingPutIn]_vars
  PROVE  \/ order' = order
         \/ order = <<>> /\ order' = Template
<1>1. ASSUME NEW start \in BOOLEAN, Trigger(start) PROVE order = <<>> /\ order' = Template
  <2>1. \A t \in Tasks : state[t] = "none"
    BY <1>1 DEF Trigger, Places, PlaceInv
  <2>2. \A j \in 1..Len(order) : FALSE
    BY <2>1 DEF Places, TypeOK, OrderInv
  <2>3. order \in Seq(Tasks) /\ Len(order) = 0
    BY <2>2 DEF Places, TypeOK
  <2> QED BY <1>1, <2>3 DEF Trigger
<1>2. ASSUME NEW t \in Tasks, WorkflowStep(t) PROVE order' = order
  <2>1. CASE ReopenSkipped(t)  BY <2>1 DEF ReopenSkipped
  <2>2. ASSUME NEW action, NEW s, Guarded(t, action, s) PROVE order' = order
    BY <2>2 DEF Guarded, Transition
  <2> QED BY <1>2, <2>1, <2>2, WorkflowShape
<1> QED BY <1>1, <1>2
        DEF Next, NothingPutIn, AddSubtask, Reassign, EditResponsible, ResolveDossier,
            ReactivateDossier, vars

(* The body of EveryTurnComes. *)
TurnComes ==
  \A j \in 2..Len(order) :
    state[order[j - 1]] # "closed" /\ state'[order[j - 1]] = "closed"
      => state'[order[j]] # "planned"

(* If no task were put into the order, every task of it would be started   *)
(* in its turn as the manual says: the task without the marker that the    *)
(* add form puts in is the only cause of what the run added finds.         *)
THEOREM TurnsComeUnlessPutIn == Init /\ [][Next /\ NothingPutIn]_vars => EveryTurnComes
<1> DEFINE Inv == Places /\ States /\ OrderOfSteps
<1>1. Init => Inv
  BY TypeInit, PlaceInit, StatesInit DEF Places, Init, OrderOfSteps
<1>2. Inv /\ [Next /\ NothingPutIn]_vars => Inv'
  <2> SUFFICES ASSUME Inv, [Next /\ NothingPutIn]_vars PROVE Inv'
    OBVIOUS
  <2>1. Places' /\ States'
    BY TypeStep, PlaceStep, StatesStep DEF Places
  <2>2. OrderOfSteps'
    BY OrderStays, TemplateAssumption DEF OrderOfSteps, Steps
  <2> QED BY <2>1, <2>2
<1>3. (Places /\ States)' => NoneLeftBehind'
  BY FollowInOrder, PTL
<1>4. Inv /\ [Next /\ NothingPutIn]_vars => [TurnComes]_vars
  <2> SUFFICES ASSUME Inv, [Next /\ NothingPutIn]_vars, NEW j \in 2..Len(order),
                      state'[order[j - 1]] = "closed", state'[order[j]] = "planned"
               PROVE  FALSE
    BY DEF TurnComes
  <2>1. NoneLeftBehind'
    BY <1>2, <1>3
  <2>2. order' = order
    BY OrderStays
  <2>3. order[j - 1] \in Steps /\ order[j] \in Steps
    BY DEF OrderOfSteps, Places, TypeOK
  <2> QED BY <2>1, <2>2, <2>3 DEF NoneLeftBehind
<1> QED BY <1>1, <1>2, <1>4, PTL DEF EveryTurnComes, TurnComes

(* A planned task has its main task in progress. *)
THEOREM PlannedRuns == Spec => []PlannedIsRunning
<1>1. Places /\ States => PlannedIsRunning
  BY DEF States
<1> QED BY <1>1, Invariance, PTL

(* Closing a task takes the roles of its responsible. *)
THEOREM ClosedIsRevoked == Spec => []RevokedWhenClosed
<1>1. Places /\ States => RevokedWhenClosed
  BY DEF States
<1> QED BY <1>1, Invariance, PTL

-----------------------------------------------------------------------------
(* What a step may never do.                                               *)

(* The roles a workable task has lost were lost before, or it was skipped. *)
RolesStep ==
  \A t \in Tasks :
    IsWorkable(t)' /\ responsible'[t] \notin granted'[t]
      => \/ state[t] = "skipped"
         \/ IsWorkable(t) /\ responsible[t] \notin granted[t]

(* A transition sets the roles of a task that it leaves workable. *)
LEMMA RolesTransition ==
  ASSUME Places, NEW t \in Tasks, NEW action, NEW s, Guarded(t, action, s)
  PROVE  RolesStep
<1> SUFFICES ASSUME NEW x \in Tasks, state'[x] \in {"open", "in-progress", "resolved"},
                    responsible'[x] \notin granted'[x]
             PROVE  IsWorkable(x) /\ responsible[x] \notin granted[x]
  BY DEF RolesStep, IsWorkable
<1> USE DEF Places
<1>1. CASE x = t
  <2>1. s \in {"open", "in-progress", "resolved"}
    BY <1>1, StatesAfter
  <2>2. responsible' = responsible
    BY <2>1 DEF Guarded
  <2>3. responsible[t] \in RolesAfter(t, action, s)
    BY <2>1 DEF RolesAfter, set_roles, FinalStates
  <2>4. granted'[t] = RolesAfter(t, action, s)
    BY DEF Guarded, Transition
  <2> QED BY <1>1, <2>2, <2>3, <2>4
<1>2. CASE x # t
  <2>1. responsible'[x] = responsible[x]
    BY <1>2 DEF Guarded, TypeOK
  <2>2. CASE x \in open_next_task(t, action)
    <3>1. granted'[x] = set_roles(x, "open", granted[x])
      BY <1>2, <2>2 DEF Guarded, Transition
    <3> QED BY <2>1, <3>1 DEF set_roles, FinalStates
  <2>3. CASE x \notin open_next_task(t, action)
    <3>1. granted'[x] = granted[x]
      BY <1>2, <2>3 DEF Guarded, Transition
    <3>2. state'[x] = state[x]
      BY <1>2, <2>3, StatesAfter
    <3> QED BY <2>1, <3>1, <3>2 DEF IsWorkable
  <2> QED BY <2>2, <2>3
<1> QED BY <1>1, <1>2

(* So does every other step but the one from skipped to open. *)
LEMMA RolesNext == Places /\ [Next]_vars => RolesStep
<1> SUFFICES ASSUME Places, [Next]_vars PROVE RolesStep
  OBVIOUS
<1> USE StepsAreTasks, TaskAssumption DEF RolesStep, IsWorkable, Places, TypeOK
<1>1. ASSUME NEW start \in BOOLEAN, Trigger(start) PROVE RolesStep
  <2>1. Template[1] \in Steps
    BY TemplateAssumption DEF Steps
  <2> QED BY <1>1, <2>1 DEF Trigger, Marked
<1>2. ASSUME NEW t \in Tasks, WorkflowStep(t) PROVE RolesStep
  <2>1. CASE ReopenSkipped(t)
    BY <2>1 DEF ReopenSkipped
  <2>2. ASSUME NEW action, NEW s, Guarded(t, action, s) PROVE RolesStep
    BY <2>2, RolesTransition
  <2> QED BY <1>2, <2>1, <2>2, WorkflowShape
<1>3. ASSUME NEW t \in Tasks, NEW u \in Users, Reassign(t, u) \/ EditResponsible(t, u)
      PROVE RolesStep
  BY <1>3 DEF Reassign, EditResponsible
<1>4. ASSUME NEW x \in Added, NEW p \in Tasks, NewSubtask(x, p) PROVE RolesStep
  BY <1>4 DEF NewSubtask
<1>5. CASE ResolveDossier \/ ReactivateDossier \/ UNCHANGED vars
  BY <1>5 DEF ResolveDossier, ReactivateDossier, vars
<1> QED BY <1>1, <1>2, <1>3, <1>4, <1>5 DEF Next, AddToOrder, AddSubtask

(* A workable task keeps the roles of its responsible. *)
THEOREM RolesStay == Spec => RolesAreKept
<1>1. Places /\ [Next]_vars => [RolesStep]_vars
  BY RolesNext
<1> QED BY <1>1, PlaceInvariance, PTL DEF Spec, RolesAreKept, RolesStep

(* What gets active in a resolved dossier was skipped, or is new. *)
ReopenStep ==
  \A t \in Tasks :
    dossier = "resolved" /\ state[t] \notin OpenStates /\ state'[t] \in OpenStates
      => \/ state[t] = "skipped"
         \/ state[t] = "none" /\ \E p \in above'[t] : state[p] = "in-progress"

(* A transition makes nothing active in a resolved dossier but a skipped   *)
(* task.                                                                   *)
LEMMA ReopenTransition ==
  ASSUME Places, States, NEW t \in Tasks, NEW action, NEW s, Guarded(t, action, s)
  PROVE  ReopenStep
<1> SUFFICES ASSUME NEW x \in Tasks, dossier = "resolved",
                    state[x] \notin OpenStates, state'[x] \in OpenStates
             PROVE  state[x] = "skipped"
  BY DEF ReopenStep
<1> USE StepsAreTasks DEF Places
<1>1. CASE x = t
  <2>1. <<state[t], action, s>> \in Workflow /\ s \in OpenStates
    BY <1>1, StatesAfter
  <2>2. state[t] # "cancelled"
    BY DEF Guarded
  <2> QED BY <1>1, <2>1, <2>2, WorkflowCases DEF OpenStates
<1>2. CASE x # t
  <2>1. x \in open_next_task(t, action)
    BY <1>2, StatesAfter DEF OpenStates
  <2>2. state[x] = "planned" /\ predecessor[x] = t
    BY <2>1, OpenedIsPlanned
  <2>3. x \in Steps
    BY <2>2, TaskAssumption DEF OrderInv, Tasks, Marked
  <2> QED BY <2>2, <2>3 DEF States, WaitsInActive
<1> QED BY <1>1, <1>2

(* Other requests make a task active there only by adding it below an      *)
(* active one.                                                             *)
LEMMA ReopenNext == Places /\ States /\ [Next]_vars => ReopenStep
<1> SUFFICES ASSUME Places, States, [Next]_vars PROVE ReopenStep
  OBVIOUS
<1> USE StepsAreTasks DEF ReopenStep, Places, TypeOK
<1>1. ASSUME NEW start \in BOOLEAN, Trigger(start) PROVE ReopenStep
  BY <1>1 DEF Trigger
<1>2. ASSUME NEW t \in Tasks, WorkflowStep(t) PROVE ReopenStep
  <2>1. CASE ReopenSkipped(t)
    BY <2>1 DEF ReopenSkipped
  <2>2. ASSUME NEW action, NEW s, Guarded(t, action, s) PROVE ReopenStep
    BY <2>2, ReopenTransition
  <2> QED BY <1>2, <2>1, <2>2, WorkflowShape
<1>3. ASSUME NEW x \in Added, NEW p \in Tasks, NewSubtask(x, p) PROVE ReopenStep
  BY <1>3 DEF NewSubtask
<1>4. CASE UNCHANGED state
  BY <1>4
<1> QED BY <1>1, <1>2, <1>3, <1>4
        DEF Next, AddToOrder, AddSubtask, Reassign, EditResponsible,
            ResolveDossier, ReactivateDossier, vars

(* In a resolved dossier only a skipped task gets active again. *)
THEOREM ResolvedStays == Spec => OnlySkippedReopens
<1>1. Places /\ States /\ [Next]_vars => [ReopenStep]_vars
  BY ReopenNext
<1> QED BY <1>1, Invariance, PTL DEF Spec, OnlySkippedReopens, ReopenStep

(* An added task leaves the planned state for none of the states of work. *)
WaitStep ==
  \A t \in Added : state[t] = "planned" => state'[t] \in {"planned", "skipped", "cancelled"}

(* No step starts an added task that is planned: it follows no other. *)
LEMMA WaitNext == Places /\ [Next]_vars => WaitStep
<1> SUFFICES ASSUME Places, [Next]_vars, NEW t \in Added, state[t] = "planned"
             PROVE  state'[t] \in {"planned", "skipped", "cancelled"}
  BY DEF WaitStep
<1> USE StepsAreTasks, TaskAssumption DEF Places, TypeOK
<1>1. ASSUME NEW start \in BOOLEAN, Trigger(start) PROVE state'[t] = "planned"
  BY <1>1 DEF Trigger, PlaceInv
<1>2. ASSUME NEW x \in Tasks, WorkflowStep(x)
      PROVE  state'[t] \in {"planned", "skipped", "cancelled"}
  <2>1. CASE ReopenSkipped(x)
    BY <2>1 DEF ReopenSkipped
  <2>2. ASSUME NEW action, NEW s, Guarded(x, action, s)
        PROVE  state'[t] \in {"planned", "skipped", "cancelled"}
    <3>1. CASE x = t
      <4>1. <<state[t], action, s>> \in Workflow /\ state'[t] = s
        BY <2>2, <3>1, StatesAfter
      <4> QED BY <4>1, WorkflowCases
    <3>2. CASE x # t
      <4>1. t \notin open_next_task(x, action)
        BY DEF open_next_task, OrderInv
      <4> QED BY <2>2, <3>2, <4>1, StatesAfter
    <3> QED BY <3>1, <3>2
  <2> QED BY <1>2, <2>1, <2>2, WorkflowShape
<1>3. ASSUME NEW x \in Added, NEW p \in Tasks, NewSubtask(x, p) PROVE state'[t] = "planned"
  BY <1>3 DEF NewSubtask
<1>4. CASE UNCHANGED state
  BY <1>4
<1> QED BY <1>1, <1>2, <1>3, <1>4
        DEF Next, AddToOrder, AddSubtask, Reassign, EditResponsible,
            ResolveDossier, ReactivateDossier, vars

(* The process starts no task that was added to it. *)
THEOREM AddedWaits == Spec => AddedIsNeverStarted
<1>1. Places /\ [Next]_vars => [WaitStep]_vars
  BY WaitNext
<1> QED BY <1>1, PlaceInvariance, PTL DEF Spec, AddedIsNeverStarted, WaitStep

-----------------------------------------------------------------------------
(* The process implements TaskSequence.                                    *)

PhaseOf == [t \in Steps |-> Phase(state[t])]
FollowsOf == [t \in Steps |-> IF predecessor[t] \in Steps THEN predecessor[t] ELSE None]

(* The phases of the states. *)
LEMMA Phases ==
  /\ Phase("none") = "none" /\ Phase("planned") = "waiting"
  /\ Phase("open") = "active" /\ Phase("in-progress") = "active"
  /\ Phase("rejected") = "active" /\ Phase("resolved") = "passed"
  /\ Phase("closed") = "passed" /\ Phase("skipped") = "passed"
  /\ Phase("cancelled") = "dropped"
  BY DEF Phase

(* Planned is the only state whose phase is waiting. *)
LEMMA WaitingIsPlanned ==
  ASSUME TypeOK, NEW t \in Tasks
  PROVE  Phase(state[t]) = "waiting" <=> state[t] = "planned"
  BY Phases DEF TypeOK, OpenStates, FinalStates

(* The initial state is one of the abstract specification. *)
LEMMA SequenceInit == Init => Sequence!Init
  BY Phases, StepsAreTasks, TaskAssumption DEF Init, Sequence!Init, Tasks

(* Triggering begins the sequence. *)
LEMMA SequenceTrigger ==
  ASSUME Places, NEW start \in BOOLEAN, Trigger(start)
  PROVE  Sequence!Begin
<1> USE StepsAreTasks, TaskAssumption DEF Places
<1>1. \A t \in Steps : PhaseOf[t] = "none"
  BY Phases DEF Trigger, PlaceInv, PhaseOf
<1>2. ASSUME NEW t \in Steps
      PROVE  state'[t] = "planned" \/ (state'[t] = "open" /\ t = Template[1])
  <2>1. t \in Tasks /\ t # Main
    OBVIOUS
  <2> QED BY <2>1 DEF Trigger
<1>3. ~ \E i \in 2..Len(Template) : Template[i] = Template[1]
  BY TemplateAssumption
<1>4. Template[1] \in Steps /\ predecessor'[Template[1]] = None
  <2>1. Template[1] \in Steps
    BY TemplateAssumption DEF Steps
  <2> QED BY <1>3, <2>1 DEF Trigger, PlaceInv
<1>5. FollowsOf' \in [Steps -> Steps \cup {None}]
  BY DEF FollowsOf
<1>6. PhaseOf' \in [Steps -> {"waiting", "active"}]
  BY <1>2, Phases DEF PhaseOf
<1>7. \A t \in Steps : PhaseOf'[t] = "active" => FollowsOf'[t] = None
  BY <1>2, <1>4, Phases DEF PhaseOf, FollowsOf, Tasks, Marked
<1> QED BY <1>1, <1>5, <1>6, <1>7 DEF Sequence!Begin, PhaseOf, FollowsOf

(* A transition is a step of the sequence, or none. *)
LEMMA SequenceTransition ==
  ASSUME Places, States, NEW t \in Tasks, NEW action, NEW s, Guarded(t, action, s)
  PROVE  Sequence!Next \/ (PhaseOf' = PhaseOf /\ FollowsOf' = FollowsOf)
<1> USE StepsAreTasks DEF Places
<1>1. /\ <<state[t], action, s>> \in Workflow
      /\ state'[t] = s
      /\ \A x \in Tasks : x # t =>
           state'[x] = IF x \in open_next_task(t, action) THEN "open"
                       ELSE IF x \in cancel_subtasks(t, action) THEN "cancelled"
                       ELSE state[x]
      /\ predecessor' = predecessor
  BY StatesAfter
<1>2. FollowsOf' = FollowsOf
  BY <1>1 DEF FollowsOf
<1>3. CASE t \in Steps
  <2>1. above[t] = {Main} /\ t \in Marked /\ t # Main
    <3>1. state[t] # "none"
      BY <1>1, WorkflowCases
    <3> QED BY <1>3, <3>1, TaskAssumption DEF PlaceInv, Marked
  <2>2. action # "cancel"
    BY <2>1, TransitionFrom DEF Guarded
  <2>3. \A x \in Tasks : x # t =>
          state'[x] = IF x \in open_next_task(t, action) THEN "open" ELSE state[x]
    BY <1>1, <2>2 DEF cancel_subtasks
  <2>4. CASE <<state[t], action>> \in StartsNext
    <3>1. Phase(state[t]) \in {"waiting", "active"} /\ Phase(s) = "passed"
      BY <1>1, <2>4, WorkflowCases, Phases DEF StartsNext
    <3>2. \A x \in Steps : x \in open_next_task(t, action)
                             <=> FollowsOf[x] = t /\ state[x] = "planned"
      BY <1>3, <2>1, <2>4, TaskAssumption DEF open_next_task, FollowsOf, Tasks, Marked
    <3>3. \A x \in Steps : PhaseOf'[x] =
            IF x = t THEN "passed"
            ELSE IF FollowsOf[x] = t /\ PhaseOf[x] = "waiting" THEN "active"
            ELSE PhaseOf[x]
      BY <1>1, <2>3, <3>1, <3>2, Phases, WaitingIsPlanned DEF PhaseOf
    <3>4. PhaseOf' = [x \in Steps |->
            IF x = t THEN "passed"
            ELSE IF FollowsOf[x] = t /\ PhaseOf[x] = "waiting" THEN "active"
            ELSE PhaseOf[x]]
      BY <3>3 DEF PhaseOf
    <3>5. PhaseOf[t] \in {"waiting", "active"}
      BY <1>3, <3>1 DEF PhaseOf
    <3>6. Sequence!Pass(t)
      BY <1>2, <3>4, <3>5 DEF Sequence!Pass, PhaseOf, FollowsOf
    <3> QED BY <1>3, <3>6 DEF Sequence!Next
  <2>5. CASE <<state[t], action>> \notin StartsNext
    <3>1. open_next_task(t, action) = {}
      BY <2>5 DEF open_next_task
    <3>2. \A x \in Steps : PhaseOf'[x] = IF x = t THEN Phase(s) ELSE PhaseOf[x]
      BY <1>1, <2>3, <3>1 DEF PhaseOf
    <3>3. \/ Phase(s) = Phase(state[t])
          \/ Phase(state[t]) \in {"passed", "dropped"} /\ Phase(s) = "active"
      BY <1>1, <2>2, <2>5, WorkflowCases, Phases DEF StartsNext
    <3>4. CASE Phase(s) = Phase(state[t])
      <4>1. \A x \in Steps : PhaseOf'[x] = PhaseOf[x]
        BY <3>2, <3>4 DEF PhaseOf
      <4> QED BY <1>2, <4>1 DEF PhaseOf
    <3>5. CASE Phase(state[t]) \in {"passed", "dropped"} /\ Phase(s) = "active"
      <4>1. PhaseOf' = [PhaseOf EXCEPT ![t] = "active"]
        BY <3>2, <3>5 DEF PhaseOf
      <4>2. PhaseOf[t] \in {"passed", "dropped"}
        BY <1>3, <3>5 DEF PhaseOf
      <4>3. Sequence!Reopen(t)
        BY <1>2, <4>1, <4>2 DEF Sequence!Reopen, PhaseOf, FollowsOf
      <4> QED BY <1>3, <4>3 DEF Sequence!Next
    <3> QED BY <3>3, <3>4, <3>5
  <2> QED BY <2>4, <2>5
<1>4. CASE t \notin Steps
  <2>1. \A x \in Steps : x \notin open_next_task(t, action)
    BY <1>4, TaskAssumption DEF open_next_task, OrderInv, Marked
  <2>2. CASE action = "cancel" /\ t = Main
    <3>1. state[Main] # "none"
      BY <1>1, <2>2, WorkflowCases
    <3>2. \A x \in Steps : x \in cancel_subtasks(t, action) /\ x # t /\ state[x] # "none"
      BY <2>2, <3>1, Cancelled, TaskAssumption DEF PlaceInv
    <3>3. \A x \in Steps : PhaseOf'[x] = "dropped"
      BY <1>1, <2>1, <3>2, Phases DEF PhaseOf
    <3>4. PhaseOf' = [x \in Steps |-> "dropped"]
      BY <3>3 DEF PhaseOf
    <3>5. \A x \in Steps : PhaseOf[x] # "none"
      BY <3>2, Phases DEF PhaseOf, TypeOK, OpenStates, FinalStates
    <3>6. Sequence!Drop
      BY <1>2, <3>4, <3>5 DEF Sequence!Drop, PhaseOf, FollowsOf
    <3> QED BY <3>6 DEF Sequence!Next
  <2>3. CASE ~ (action = "cancel" /\ t = Main)
    <3>1. \A x \in Steps : x \notin cancel_subtasks(t, action)
      <4>1. CASE t # Main  BY <4>1, Cancelled
      <4>2. CASE action # "cancel"  BY <4>2 DEF cancel_subtasks
      <4> QED BY <2>3, <4>1, <4>2
    <3>2. \A x \in Steps : PhaseOf'[x] = PhaseOf[x]
      BY <1>1, <1>4, <2>1, <3>1 DEF PhaseOf
    <3> QED BY <1>2, <3>2 DEF PhaseOf
  <2> QED BY <2>2, <2>3
<1> QED BY <1>3, <1>4

(* Putting a task in cuts the step behind it off, if there is one. *)
LEMMA SequenceAdd ==
  ASSUME Places, NEW x \in Added, NEW i \in 1..Len(order), AddToOrder(x, i)
  PROVE  Sequence!Next \/ (PhaseOf' = PhaseOf /\ FollowsOf' = FollowsOf)
<1> USE StepsAreTasks, TaskAssumption DEF Places
<1>1. x \notin Steps /\ None \notin Steps
  BY DEF Tasks, Marked
<1>2. PhaseOf' = PhaseOf
  <2>1. \A t \in Tasks : t # x => state'[t] = state[t]
    BY PlaceNew DEF AddToOrder
  <2> QED BY <1>1, <2>1 DEF PhaseOf
<1>3. \A t \in Tasks : \/ predecessor'[t] = predecessor[t]
                       \/ predecessor'[t] = x /\ t \in Steps /\ i + 1 \in 1..Len(order)
                          /\ t = order[i + 1]
  BY SyncedOrder
<1>4. CASE \E t \in Steps : FollowsOf'[t] # FollowsOf[t]
  <2>1. PICK t \in Steps : FollowsOf'[t] # FollowsOf[t]
    BY <1>4
  <2>2. predecessor'[t] = x /\ t = order[i + 1]
    BY <1>3, <2>1 DEF FollowsOf
  <2>3. FollowsOf'[t] = None /\ FollowsOf[t] # None
    BY <1>1, <2>1, <2>2 DEF FollowsOf
  <2>4. \A y \in Steps : y # t => FollowsOf'[y] = FollowsOf[y]
    <3>1. \A y \in Steps : y # t => predecessor'[y] = predecessor[y]
      BY <1>3, <2>2
    <3> QED BY <3>1 DEF FollowsOf
  <2>5. FollowsOf' = [FollowsOf EXCEPT ![t] = None]
    <3>1. \A y \in Steps : FollowsOf'[y] = IF y = t THEN None ELSE FollowsOf[y]
      BY <2>3, <2>4
    <3> QED BY <3>1 DEF FollowsOf
  <2>6. Sequence!Interpose(t)
    BY <1>2, <2>3, <2>5 DEF Sequence!Interpose, PhaseOf, FollowsOf
  <2> QED BY <2>1, <2>6 DEF Sequence!Next
<1>5. CASE \A t \in Steps : FollowsOf'[t] = FollowsOf[t]
  BY <1>2, <1>5 DEF FollowsOf
<1> QED BY <1>4, <1>5

(* Every step of the process is one of the sequence, or leaves it alone. *)
LEMMA SequenceNext == Places /\ States /\ [Next]_vars => [Sequence!Next]_(Sequence!vars)
<1> SUFFICES ASSUME Places, States, [Next]_vars
             PROVE  Sequence!Next \/ (PhaseOf' = PhaseOf /\ FollowsOf' = FollowsOf)
  BY DEF Sequence!vars, PhaseOf, FollowsOf
<1> USE StepsAreTasks, TaskAssumption
<1>1. ASSUME NEW start \in BOOLEAN, Trigger(start) PROVE Sequence!Next
  BY <1>1, SequenceTrigger DEF Sequence!Next
<1>2. ASSUME NEW t \in Tasks, WorkflowStep(t)
      PROVE  Sequence!Next \/ (PhaseOf' = PhaseOf /\ FollowsOf' = FollowsOf)
  <2>1. CASE ReopenSkipped(t)
    <3>1. /\ \A x \in Steps : PhaseOf'[x] = IF x = t THEN "active" ELSE PhaseOf[x]
          /\ FollowsOf' = FollowsOf
      BY <2>1, Phases DEF ReopenSkipped, PhaseOf, FollowsOf, Places, TypeOK
    <3>2. CASE t \in Steps
      <4>1. PhaseOf[t] = "passed" /\ PhaseOf' = [PhaseOf EXCEPT ![t] = "active"]
        BY <2>1, <3>1, <3>2, Phases DEF ReopenSkipped, PhaseOf
      <4>2. Sequence!Reopen(t)
        BY <3>1, <4>1 DEF Sequence!Reopen, PhaseOf, FollowsOf
      <4> QED BY <3>2, <4>2 DEF Sequence!Next
    <3>3. CASE t \notin Steps
      BY <3>1, <3>3 DEF PhaseOf
    <3> QED BY <3>2, <3>3
  <2>2. ASSUME NEW action, NEW s, Guarded(t, action, s)
        PROVE  Sequence!Next \/ (PhaseOf' = PhaseOf /\ FollowsOf' = FollowsOf)
    BY <2>2, SequenceTransition
  <2> QED BY <1>2, <2>1, <2>2, WorkflowShape
<1>3. ASSUME NEW x \in Added, NEW i \in 1..Len(order), AddToOrder(x, i)
      PROVE  Sequence!Next \/ (PhaseOf' = PhaseOf /\ FollowsOf' = FollowsOf)
  BY <1>3, SequenceAdd
<1>4. ASSUME NEW x \in Added, NEW p \in Tasks, AddSubtask(x, p)
      PROVE  PhaseOf' = PhaseOf /\ FollowsOf' = FollowsOf
  <2>1. x \notin Steps
    BY DEF Marked
  <2>2. \A t \in Tasks : t # x => state'[t] = state[t]
    BY <1>4, PlaceNew DEF AddSubtask
  <2> QED BY <1>4, <2>1, <2>2 DEF AddSubtask, PhaseOf, FollowsOf
<1>5. CASE UNCHANGED <<state, predecessor>>
  BY <1>5 DEF PhaseOf, FollowsOf
<1> QED BY <1>1, <1>2, <1>3, <1>4, <1>5
        DEF Next, Reassign, EditResponsible, ResolveDossier, ReactivateDossier, vars

(* The process implements the sequence that TaskSequence promises. *)
THEOREM ProcessIsSequence == Spec => RefinesSequence
  BY SequenceInit, SequenceNext, Invariance, PTL DEF Spec, RefinesSequence, Sequence!Spec

=============================================================================
