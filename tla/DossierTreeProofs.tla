------------------------- MODULE DossierTreeProofs -------------------------
(***************************************************************************)
(* What holds of DossierTree for every set of dossiers, users, tasks and   *)
(* documents, checked by TLAPS.  Each layer is inductive given the ones    *)
(* before it: types with the workflow history (TInv), the path index       *)
(* (PInv), and the inactive trees of what is protected from nobody         *)
(* (SeenInv), from which follows where a dossier is left open in a closed  *)
(* one (OnlyGaps).  WholeInv is what more would hold if every walk reached *)
(* all of its tree.  Items, end dates and documents rest on the types and  *)
(* the paths only.                                                         *)
(***************************************************************************)
EXTENDS DossierTree, TLAPS

-----------------------------------------------------------------------------
(* Types, and what the workflow history says of the present state.         *)

FormerOK ==
  \A d \in Dossiers :
    /\ state[d] \in {"resolved", "inactive"} => former[d] = state[d]
    /\ state[d] = "offered" => former[d] \in {"resolved", "inactive"}

TInv == TypeOK /\ FormerOK

(* The empty repository is well typed. *)
LEMMA TypeInit == Init => TInv
  BY DEF Init, TInv, TypeOK, FormerOK, DossierStates, Containers

(* A request on a dossier keeps the types and the history. *)
LEMMA TypeDossier ==
  ASSUME TInv, NEW u \in Users, NEW d \in Dossiers, DossierRequest(u, d)
  PROVE  TInv'
<1> USE DEF TInv, TypeOK, FormerOK, DossierStates, Existing, itemVars, docVars
<1>1. ASSUME NEW p \in Containers, CreateDossier(u, d, p) PROVE TInv'
  BY <1>1 DEF CreateDossier, PathTo, Containers
<1>2. ASSUME NEW p \in Containers, MoveDossier(u, d, p) PROVE TInv'
  BY <1>2 DEF MoveDossier, PathTo, Containers
<1>3. CASE EditEnd(u, d)
  BY <1>3 DEF EditEnd
<1>4. CASE Resolve(u, d)
  <2>1. TypeOK'
    BY <1>4, FlagsAssumption DEF Resolve, AfterResolveJobs, Cleaned
  <2>2. FormerOK'
    BY <1>4 DEF Resolve
  <2> QED BY <2>1, <2>2
<1>5. CASE Reactivate(u, d)
  BY <1>5 DEF Reactivate, Reopened
<1>6. ASSUME NEW f \in Dossiers, NEW done \in SUBSET Dossiers,
             ReactivateFails(u, d, f, done)
      PROVE TInv'
  BY <1>6 DEF ReactivateFails
<1>7. CASE Deactivate(u, d)
  BY <1>7 DEF Deactivate
<1>8. CASE Activate(u, d)
  BY <1>8 DEF Activate, Reopened
<1> QED BY <1>1, <1>2, <1>3, <1>4, <1>5, <1>6, <1>7, <1>8 DEF DossierRequest

(* A step of a disposition does: retracting restores a state of the        *)
(* history.                                                                *)
LEMMA TypeDisposition ==
  ASSUME TInv, NEW d \in Dossiers, DispositionStep(d)
  PROVE  TInv'
<1> USE DEF TInv, TypeOK, FormerOK, DossierStates, itemVars, docVars, Containers
<1>1. CASE Offer(d)  BY <1>1 DEF Offer
<1>2. CASE Retract(d)  BY <1>2 DEF Retract, get_former_state
<1>3. CASE MarkArchived(d)  BY <1>3 DEF MarkArchived
<1>4. CASE Destroy(d)  BY <1>4 DEF Destroy
<1> QED BY <1>1, <1>2, <1>3, <1>4 DEF DispositionStep

(* Steps on items and documents do. *)
LEMMA TypeItem ==
  ASSUME TInv, NEW u \in Users, NEW i \in Items, ItemRequest(u, i)
  PROVE  TInv'
  BY DEF TInv, TypeOK, FormerOK, Containers, ExistingItem, dossierVars, docVars, ItemRequest,
         AddItem, MoveItem, CloseItem, ReopenItem, SkipTask, OpenSkipped

(* And on documents. *)
LEMMA TypeDocument ==
  ASSUME TInv, NEW u \in Users, NEW doc \in Documents, DocumentRequest(u, doc)
  PROVE  TInv'
<1> USE DEF TInv, TypeOK, FormerOK, Containers, dossierVars, itemVars
<1>1. ASSUME NEW c \in Dossiers \cup Tasks, AddDocument(u, doc, c) PROVE TInv'
  BY <1>1 DEF AddDocument
<1>2. ASSUME NEW old, NEW new \in {"in", "out", "trashed"}, DocumentStep(u, doc, old, new)
      PROVE  TInv'
  BY <1>2 DEF DocumentStep
<1>3. ASSUME NEW d \in Dossiers, MoveDocument(u, doc, d) PROVE TInv'
  BY <1>3 DEF MoveDocument
<1> QED BY <1>1, <1>2, <1>3
        DEF DocumentRequest, Checkout, Checkin, Trash, Untrash, Initialize

(* So does every step. *)
LEMMA TypeStep == TInv /\ [Next]_vars => TInv'
<1> SUFFICES ASSUME TInv, [Next]_vars PROVE TInv'
  OBVIOUS
<1>1. CASE Next
  BY <1>1, TypeDossier, TypeDisposition, TypeItem, TypeDocument DEF Next
<1>2. CASE UNCHANGED vars
  BY <1>2 DEF vars, TInv, TypeOK, FormerOK
<1> QED BY <1>1, <1>2

(* Type correctness of every reachable state. *)
THEOREM Typing == Spec => []TypeOK
<1>1. TInv => TypeOK
  BY DEF TInv
<1> QED BY <1>1, TypeInit, TypeStep, PTL DEF Spec

-----------------------------------------------------------------------------
(* The path index.                                                         *)

PathInv ==
  /\ \A d \in Dossiers : above[d] = PathTo(parent[d])
  /\ \A d \in Dossiers : d \notin above[d]
  /\ \A d \in Dossiers : \A x \in above[d] : above[x] \subseteq above[d]
  /\ \A d \in Dossiers : \A x, y \in above[d] :
       x = y \/ x \in above[y] \/ y \in above[x]
  /\ \A d \in Dossiers : \A x \in above[d] : state[x] \in Existing
  /\ \A d \in Dossiers : state[d] \notin Existing => parent[d] = Repository

PInv == TInv /\ PathInv

(* The empty repository has it. *)
LEMMA PathInit == Init => PathInv
  BY NamesDisjoint DEF Init, PathInv, PathTo

(* Steps that move nothing, and take no dossier out of existence or into   *)
(* it, keep the index.                                                     *)
LEMMA PathKept ==
  ASSUME PInv, UNCHANGED <<parent, above>>,
         \A d \in Dossiers : state[d] \in Existing <=> state'[d] \in Existing
  PROVE  PathInv'
<1>1. \A d \in Dossiers : above[d] \subseteq Dossiers
  BY DEF PInv, TInv, TypeOK
<1>2. \A d \in Dossiers : PathTo(parent[d])' = PathTo(parent[d])
  BY DEF PathTo
<1>3. \A d \in Dossiers : \A x \in above[d] : state'[x] \in Existing
  BY <1>1 DEF PInv, PathInv
<1>4. \A d \in Dossiers : state'[d] \notin Existing => parent[d] = Repository
  BY DEF PInv, PathInv
<1> QED BY <1>2, <1>3, <1>4 DEF PInv, PathInv

(* Creating a dossier gives it the path of its container. *)
LEMMA PathCreate ==
  ASSUME PInv, NEW u \in Users, NEW d \in Dossiers, NEW p \in Containers,
         CreateDossier(u, d, p)
  PROVE  PathInv'
<1>1. /\ state[d] = "none"
      /\ state' = [state EXCEPT ![d] = "active"]
      /\ parent' = [parent EXCEPT ![d] = p]
      /\ above' = [above EXCEPT ![d] = PathTo(p)]
      /\ p # d
      /\ p \in Dossiers => state[p] = "active"
  BY DEF CreateDossier, MayAddTo
<1>2. /\ state \in [Dossiers -> DossierStates] /\ parent \in [Dossiers -> Containers]
      /\ above \in [Dossiers -> SUBSET Dossiers]
  BY DEF PInv, TInv, TypeOK
<1>3. \A x \in Dossiers : d \notin above[x] /\ parent[x] # d
  BY <1>1, <1>2, NamesDisjoint DEF PInv, PathInv, Existing, PathTo
<1>4. PathTo(p) \subseteq Dossiers /\ d \notin PathTo(p) /\ PathTo(p)' = PathTo(p)
  BY <1>1, <1>2, <1>3 DEF PathTo
<1>5. \A x \in PathTo(p) : above[x] \subseteq PathTo(p) /\ state[x] \in Existing
  BY <1>1, <1>2 DEF PInv, PathInv, PathTo, Existing
<1>6. \A x, y \in PathTo(p) : x = y \/ x \in above[y] \/ y \in above[x]
  BY <1>1, <1>2 DEF PInv, PathInv, PathTo
<1>7. \A x \in Dossiers : above'[x] = PathTo(parent[x])'
  <2> SUFFICES ASSUME NEW x \in Dossiers PROVE above'[x] = PathTo(parent[x])'
    OBVIOUS
  <2>1. CASE x = d
    BY <2>1, <1>1, <1>2, <1>4 DEF PathTo
  <2>2. CASE x # d
    BY <2>2, <1>1, <1>2, <1>3 DEF PInv, PathInv, PathTo
  <2> QED BY <2>1, <2>2
<1>8. \A x \in Dossiers : state'[x] \notin Existing => parent'[x] = Repository
  BY <1>1, <1>2 DEF PInv, PathInv, Existing
<1>9. \A x \in Dossiers : x # d => above'[x] = above[x] /\ state'[x] = state[x]
  BY <1>1, <1>2
<1>10. above'[d] = PathTo(p) /\ state'[d] \in Existing
  BY <1>1, <1>2 DEF Existing
<1>11. \A x \in Dossiers : /\ x \notin above'[x]
                          /\ \A y \in above'[x] : /\ above'[y] \subseteq above'[x]
                                                  /\ state'[y] \in Existing
  BY <1>2, <1>3, <1>4, <1>5, <1>9, <1>10 DEF PInv, PathInv
<1>12. \A x \in Dossiers : \A y, z \in above'[x] :
         y = z \/ y \in above'[z] \/ z \in above'[y]
  BY <1>2, <1>3, <1>4, <1>6, <1>9, <1>10 DEF PInv, PathInv
<1> QED BY <1>7, <1>8, <1>11, <1>12 DEF PathInv

(* Moving a dossier gives everything below it a path through the target.   *)
LEMMA PathMove ==
  ASSUME PInv, NEW u \in Users, NEW d \in Dossiers, NEW p \in Containers,
         MoveDossier(u, d, p)
  PROVE  PathInv'
<1> DEFINE moved == {d} \cup Below(d)
<1>1. /\ state[d] \in Existing /\ p \notin moved
      /\ p \in Dossiers => state[p] = "active"
      /\ parent' = [parent EXCEPT ![d] = p]
      /\ above' = [x \in Dossiers |-> IF x \in moved
                                     THEN (above[x] \ above[d]) \cup PathTo(p)
                                     ELSE above[x]]
      /\ state' = state
  BY DEF MoveDossier, MayAddTo
<1>2. /\ state \in [Dossiers -> DossierStates] /\ parent \in [Dossiers -> Containers]
      /\ above \in [Dossiers -> SUBSET Dossiers]
  BY DEF PInv, TInv, TypeOK
<1>3. \A x \in Dossiers : x \in moved <=> x = d \/ d \in above[x]
  BY DEF Below
<1>4. PathTo(p) \subseteq Dossiers \ moved
  BY <1>1, <1>2, <1>3 DEF PInv, PathInv, PathTo
<1>5. \A x \in PathTo(p) : above[x] \subseteq PathTo(p) /\ state[x] \in Existing
  BY <1>1, <1>2 DEF PInv, PathInv, PathTo, Existing
<1>6. \A x, y \in PathTo(p) : x = y \/ x \in above[y] \/ y \in above[x]
  BY <1>1, <1>2 DEF PInv, PathInv, PathTo
<1>7. \A x \in moved : above'[x] = (above[x] \ above[d]) \cup PathTo(p)
  BY <1>1, <1>2, <1>3 DEF Below
<1>8. \A x \in Dossiers \ moved : above'[x] = above[x] /\ above[x] \cap moved = {}
  BY <1>1, <1>2, <1>3 DEF PInv, PathInv
<1>9. \A x \in moved : above[x] \ above[d] \subseteq moved
  <2> SUFFICES ASSUME NEW x \in moved, NEW y \in above[x] \ above[d] PROVE y \in moved
    OBVIOUS
  <2>1. x \in Dossiers /\ y \in Dossiers /\ x # d /\ d \in above[x]
    BY <1>2, <1>3 DEF Below
  <2>2. y = d \/ d \in above[y]
    BY <2>1 DEF PInv, PathInv
  <2> QED BY <2>1, <2>2, <1>3
<1>10. \A x \in moved : x \in Dossiers
  BY DEF Below
<1>11. \A x \in Dossiers : x \notin above'[x]
  BY <1>4, <1>7, <1>8, <1>10 DEF PInv, PathInv
<1>12. \A x \in Dossiers : \A y \in above'[x] : above'[y] \subseteq above'[x]
  <2> SUFFICES ASSUME NEW x \in Dossiers, NEW y \in above'[x]
               PROVE  above'[y] \subseteq above'[x]
    OBVIOUS
  <2>1. CASE x \notin moved
    BY <2>1, <1>2, <1>8 DEF PInv, PathInv
  <2>2. CASE x \in moved /\ y \in PathTo(p)
    BY <2>2, <1>4, <1>5, <1>7, <1>8
  <2>3. CASE x \in moved /\ y \in above[x] \ above[d]
    BY <2>3, <1>2, <1>7, <1>9 DEF PInv, PathInv
  <2> QED BY <2>1, <2>2, <2>3, <1>7
<1>13. \A x \in Dossiers : \A y, z \in above'[x] :
         y = z \/ y \in above'[z] \/ z \in above'[y]
  <2> SUFFICES ASSUME NEW x \in Dossiers, NEW y \in above'[x], NEW z \in above'[x]
               PROVE  y = z \/ y \in above'[z] \/ z \in above'[y]
    OBVIOUS
  <2>1. CASE x \notin moved
    BY <2>1, <1>2, <1>8 DEF PInv, PathInv
  <2>2. CASE x \in moved /\ y \in PathTo(p) /\ z \in PathTo(p)
    BY <2>2, <1>4, <1>6, <1>8
  <2>3. CASE x \in moved /\ y \in above[x] \ above[d] /\ z \in PathTo(p)
    BY <2>3, <1>7, <1>9
  <2>4. CASE x \in moved /\ y \in PathTo(p) /\ z \in above[x] \ above[d]
    BY <2>4, <1>7, <1>9
  <2>5. CASE x \in moved /\ y \in above[x] \ above[d] /\ z \in above[x] \ above[d]
    BY <2>5, <1>2, <1>7, <1>9 DEF PInv, PathInv
  <2> QED BY <2>1, <2>2, <2>3, <2>4, <2>5, <1>7
<1>14. \A x \in Dossiers : \A y \in above'[x] : state'[y] \in Existing
  BY <1>1, <1>5, <1>7, <1>8, <1>10 DEF PInv, PathInv
<1>15. \A x \in Dossiers : above'[x] = PathTo(parent[x])'
  <2> SUFFICES ASSUME NEW x \in Dossiers PROVE above'[x] = PathTo(parent[x])'
    OBVIOUS
  <2>1. CASE x = d
    <3>1. above'[d] = PathTo(p)
      BY <1>7
    <3>2. PathTo(p)' = PathTo(p)
      BY <1>1, <1>8 DEF PathTo
    <3> QED BY <2>1, <3>1, <3>2, <1>1, <1>2 DEF PathTo
  <2>2. CASE x # d /\ x \notin moved
    <3>1. parent'[x] = parent[x] /\ parent[x] \notin moved
      BY <2>2, <1>1, <1>2, <1>8, <1>10 DEF PInv, PathInv, PathTo
    <3> QED BY <2>2, <3>1, <1>8 DEF PInv, PathInv, PathTo
  <2>3. CASE x # d /\ x \in moved
    <3>1. parent'[x] = parent[x] /\ parent[x] \in Dossiers
          /\ above[x] = above[parent[x]] \cup {parent[x]}
      BY <2>3, <1>1, <1>2, <1>3 DEF PInv, PathInv, PathTo
    <3>2. parent[x] \in moved
      BY <2>3, <3>1, <1>3
    <3>3. parent[x] \notin above[d]
      BY <3>2, <1>3, <1>2 DEF PInv, PathInv
    <3> QED BY <2>3, <3>1, <3>2, <3>3, <1>7 DEF PathTo
  <2> QED BY <2>1, <2>2, <2>3
<1>16. \A x \in Dossiers : state'[x] \notin Existing => parent'[x] = Repository
  BY <1>1, <1>2 DEF PInv, PathInv
<1> QED BY <1>11, <1>12, <1>13, <1>14, <1>15, <1>16 DEF PathInv
(* Destroying a dossier takes a whole subtree out of the index. *)
LEMMA PathDestroy ==
  ASSUME PInv, NEW d \in Dossiers, Destroy(d)
  PROVE  PathInv'
<1> DEFINE gone == {d} \cup Below(d)
<1>1. /\ state' = [x \in Dossiers |-> IF x \in gone THEN "destroyed" ELSE state[x]]
      /\ parent' = [x \in Dossiers |-> IF x \in gone THEN Repository ELSE parent[x]]
      /\ above' = [x \in Dossiers |-> IF x \in gone THEN {} ELSE above[x]]
  BY DEF Destroy
<1>2. above \in [Dossiers -> SUBSET Dossiers]
  BY DEF PInv, TInv, TypeOK
<1>3. \A x \in Dossiers \ gone : above[x] \cap gone = {}
  BY <1>2 DEF Below, PInv, PathInv
<1>4. \A x \in gone : x \in Dossiers /\ above'[x] = {} /\ parent'[x] = Repository
                     /\ state'[x] = "destroyed"
  BY <1>1 DEF Below
<1>5. \A x \in Dossiers \ gone : /\ above'[x] = above[x] /\ parent'[x] = parent[x]
                                /\ state'[x] = state[x]
  BY <1>1
<1>6. \A x \in Dossiers : above'[x] = PathTo(parent[x])'
  <2> SUFFICES ASSUME NEW x \in Dossiers PROVE above'[x] = PathTo(parent[x])'
    OBVIOUS
  <2>1. CASE x \in gone
    BY <2>1, <1>4, NamesDisjoint DEF PathTo
  <2>2. CASE x \notin gone
    <3>1. parent[x] \in Dossiers => parent[x] \notin gone
      BY <2>2, <1>3 DEF PInv, PathInv, PathTo
    <3>2. above'[x] = above[x] /\ parent'[x] = parent[x]
      BY <2>2, <1>5
    <3>3. parent[x] \in Dossiers => above'[parent[x]] = above[parent[x]]
      BY <3>1, <1>5
    <3>4. above[x] = PathTo(parent[x])
      BY DEF PInv, PathInv
    <3> HIDE DEF gone
    <3> QED BY <3>2, <3>3, <3>4 DEF PathTo
  <2> QED BY <2>1, <2>2
<1>7. \A x \in Dossiers : \A y \in above'[x] : x \notin gone /\ y \notin gone
  BY <1>2, <1>3, <1>4, <1>5
<1>8. \A x \in Dossiers : \A y \in above'[x] : state'[y] \in Existing
  BY <1>2, <1>5, <1>7 DEF PInv, PathInv
<1>9. \A x \in Dossiers : state'[x] \notin Existing => parent'[x] = Repository
  BY <1>4, <1>5 DEF PInv, PathInv
<1>10. \A x \in Dossiers : x \notin above'[x]
  BY <1>4, <1>5 DEF PInv, PathInv
<1>11. \A x \in Dossiers : \A y \in above'[x] : above'[y] \subseteq above'[x]
  BY <1>2, <1>5, <1>7 DEF PInv, PathInv
<1>12. \A x \in Dossiers : \A y, z \in above'[x] :
         y = z \/ y \in above'[z] \/ z \in above'[y]
  BY <1>2, <1>5, <1>7 DEF PInv, PathInv
<1> QED BY <1>6, <1>8, <1>9, <1>10, <1>11, <1>12 DEF PathInv

(* Every step keeps the index. *)
LEMMA PathStep == PInv /\ [Next]_vars => PathInv'
<1> SUFFICES ASSUME PInv, [Next]_vars PROVE PathInv'
  OBVIOUS
<1> USE DEF Existing
<1>1. ASSUME NEW u \in Users, NEW d \in Dossiers, DossierRequest(u, d) PROVE PathInv'
  <2>1. ASSUME NEW p \in Containers, CreateDossier(u, d, p) PROVE PathInv'
    BY <2>1, PathCreate
  <2>2. ASSUME NEW p \in Containers, MoveDossier(u, d, p) PROVE PathInv'
    BY <2>2, PathMove
  <2>3. CASE EditEnd(u, d)
    BY <2>3, PathKept DEF EditEnd
  <2>4. CASE Resolve(u, d)
    BY <2>4, PathKept DEF Resolve, is_open
  <2>5. CASE Reactivate(u, d)
    BY <2>5, PathKept DEF Reactivate, Reopened, ToReactivate
  <2>6. ASSUME NEW f \in Dossiers, NEW done \in SUBSET Dossiers,
               ReactivateFails(u, d, f, done)
        PROVE PathInv'
    BY <2>6, PathKept DEF ReactivateFails, ToReactivate
  <2>7. CASE Deactivate(u, d)
    BY <2>7, PathKept DEF Deactivate, Tree, Visible, is_open
  <2>8. CASE Activate(u, d)
    BY <2>8, PathKept DEF Activate, Reopened
  <2> QED BY <1>1, <2>1, <2>2, <2>3, <2>4, <2>5, <2>6, <2>7, <2>8 DEF DossierRequest
<1>2. ASSUME NEW d \in Dossiers, DispositionStep(d) PROVE PathInv'
  <2>1. CASE Offer(d)
    BY <2>1, PathKept DEF Offer, PInv, TInv, TypeOK
  <2>2. CASE Retract(d)
    BY <2>2, PathKept DEF Retract, get_former_state, PInv, TInv, TypeOK, FormerOK
  <2>3. CASE MarkArchived(d)
    BY <2>3, PathKept DEF MarkArchived, PInv, TInv, TypeOK
  <2>4. CASE Destroy(d)
    BY <2>4, PathDestroy
  <2> QED BY <1>2, <2>1, <2>2, <2>3, <2>4 DEF DispositionStep
<1>3. ASSUME NEW u \in Users, NEW i \in Items, ItemRequest(u, i) PROVE PathInv'
  BY <1>3, PathKept
     DEF ItemRequest, AddItem, MoveItem, CloseItem, ReopenItem, SkipTask, OpenSkipped, dossierVars
<1>4. ASSUME NEW u \in Users, NEW doc \in Documents, DocumentRequest(u, doc) PROVE PathInv'
  BY <1>4, PathKept
     DEF DocumentRequest, AddDocument, MoveDocument, DocumentStep, Checkout, Checkin,
         Trash, Untrash, Initialize, dossierVars
<1>5. CASE UNCHANGED vars
  BY <1>5, PathKept DEF vars
<1> QED BY <1>1, <1>2, <1>3, <1>4, <1>5 DEF Next

(* The index is an invariant, for any rights and any moves. *)
LEMMA PathInvariant == Spec => []PInv
<1>1. Init => PInv
  BY TypeInit, PathInit DEF PInv
<1>2. PInv /\ [Next]_vars => PInv'
  BY TypeStep, PathStep DEF PInv
<1> QED BY <1>1, <1>2, PTL DEF Spec

(* However dossiers are created, moved and destroyed, by whom and with     *)
(* what rights, the path index agrees with the containers (the queries of  *)
(* get_subdossiers return exactly what is below).                          *)
THEOREM Paths == Spec => []PathsAgree
<1>1. PInv => PathsAgree
  BY DEF PInv, PathInv, PathsAgree, PathTo
<1> QED BY <1>1, PathInvariant, PTL
-----------------------------------------------------------------------------
(* Inactive trees.  InactiveTree speaks of a dossier and its container;    *)
(* deactivating and activating walk whole trees, so what is kept is the    *)
(* same of every pair on a path whose upper dossier is in S.  S is what is *)
(* protected from nobody, or all dossiers where every walk is whole.       *)

InactiveTrees(S) ==
  \A x \in Dossiers : \A a \in above[x] \cap S : IsInactive(a) => IsInactive(x)

\* Whoever activates a tree sees what is in S of it.
ActivatesAll(S) ==
  \A u \in Users, d \in Dossiers : Activate(u, d) => Below(d) \cap S \subseteq Visible(u, d)

\* What is protected from nobody.
Seen == {d \in Dossiers : SeenByAll(d)}

(* Everybody sees what is protected from nobody. *)
LEMMA SeenActivates == ActivatesAll(Seen)
  BY DEF ActivatesAll, Seen, SeenByAll, Visible

(* No dossier of S on the path to an open container is inactive. *)
LEMMA PathNotInactive ==
  ASSUME NEW S, InactiveTrees(S), NEW p \in Containers, p \in Dossiers => is_open(p)
  PROVE  \A a \in PathTo(p) \cap S : ~ IsInactive(a)
<1>1. p \in Dossiers => ~ IsInactive(p)
  BY DEF is_open, IsInactive, IsHeld
<1> QED BY <1>1 DEF PathTo, InactiveTrees

(* A step that moves nothing and changes no IsInactive keeps the trees. *)
LEMMA InactiveKept ==
  ASSUME NEW S, PInv, InactiveTrees(S), UNCHANGED above,
         \A x \in Dossiers : IsInactive(x)' <=> IsInactive(x)
  PROVE  InactiveTrees(S)'
<1>1. \A x \in Dossiers : above[x] \subseteq Dossiers
  BY DEF PInv, TInv, TypeOK
<1> HIDE DEF IsInactive
<1> QED BY <1>1 DEF InactiveTrees

(* New dossiers, and moved ones, sit in an open container. *)
LEMMA InactiveMove ==
  ASSUME NEW S, PInv, InactiveTrees(S),
         NEW u \in Users, NEW d \in Dossiers, NEW p \in Containers,
         CreateDossier(u, d, p) \/ MoveDossier(u, d, p)
  PROVE  InactiveTrees(S)'
<1>1. p \in Dossiers => is_open(p)
  BY DEF CreateDossier, MoveDossier, MayAddTo, is_open
<1>2. \A a \in PathTo(p) \cap S : ~ IsInactive(a)
  BY <1>1, PathNotInactive
<1>3. /\ state \in [Dossiers -> DossierStates] /\ above \in [Dossiers -> SUBSET Dossiers]
      /\ former' = former
      /\ \A x \in Dossiers : \/ state'[x] = state[x]
                             \/ state[x] = "none" /\ state'[x] = "active"
  BY DEF CreateDossier, MoveDossier, PInv, TInv, TypeOK
<1>4. \A x \in Dossiers : IsInactive(x)' <=> IsInactive(x)
  BY <1>3 DEF IsInactive, IsHeld
<1>5. \A x \in Dossiers : above'[x] \subseteq Dossiers /\ above'[x] \subseteq above[x] \cup PathTo(p)
  BY <1>1, <1>3 DEF CreateDossier, MoveDossier, PathTo
<1> HIDE DEF IsInactive
<1> QED BY <1>2, <1>4, <1>5 DEF InactiveTrees

(* Deactivating makes a whole tree inactive. *)
LEMMA InactiveDeactivate ==
  ASSUME NEW S, PInv, InactiveTrees(S), NEW u \in Users, NEW d \in Dossiers, Deactivate(u, d)
  PROVE  InactiveTrees(S)'
<1> DEFINE tree == {d} \cup Below(d)
<1>1. /\ state \in [Dossiers -> DossierStates] /\ above \in [Dossiers -> SUBSET Dossiers]
      /\ \A x \in Dossiers : state[x] = "inactive" => former[x] = "inactive"
  BY DEF PInv, TInv, TypeOK, FormerOK
<1>2. \A x \in tree : state'[x] = "inactive" /\ former'[x] = "inactive"
  BY <1>1 DEF Deactivate, Tree, Visible, Below, is_open
<1>3. /\ \A x \in Dossiers \ tree : state'[x] = state[x] /\ former'[x] = former[x]
      /\ UNCHANGED above
  BY DEF Deactivate, Tree, Visible
<1>4. \A x \in Dossiers : \A a \in above[x] : a \in Dossiers /\ (a \in tree => x \in tree)
  BY DEF PInv, PathInv, TInv, TypeOK, Below
<1> HIDE DEF tree
<1>5. \A x \in tree : IsInactive(x)'
  BY <1>2 DEF IsInactive
<1>6. \A x \in Dossiers \ tree : IsInactive(x)' <=> IsInactive(x)
  BY <1>3 DEF IsInactive, IsHeld
<1>7. \A x \in Dossiers : IsInactive(x) => IsInactive(x)'
  BY <1>5, <1>6
<1> HIDE DEF IsInactive
<1> QED BY <1>3, <1>4, <1>5, <1>6, <1>7 DEF InactiveTrees

(* Activating opens what is in S of a tree, below an open dossier. *)
LEMMA InactiveActivate ==
  ASSUME NEW S, PInv, InactiveTrees(S), ActivatesAll(S),
         NEW u \in Users, NEW d \in Dossiers, Activate(u, d)
  PROVE  InactiveTrees(S)'
<1>1. /\ state \in [Dossiers -> DossierStates] /\ above \in [Dossiers -> SUBSET Dossiers]
      /\ d \in Tree(u, d) /\ Tree(u, d) \subseteq {d} \cup Below(d)
      /\ Below(d) \cap S \subseteq Tree(u, d)
  BY DEF PInv, TInv, TypeOK, ActivatesAll, Tree, Visible
<1>2. /\ ParentIsOpen(d) /\ UNCHANGED <<above, former>>
      /\ \A x \in Dossiers : state'[x] = IF x \in Tree(u, d) THEN "active" ELSE state[x]
  BY DEF Activate, Reopened
<1>3. \A a \in above[d] \cap S : ~ IsInactive(a)
  BY <1>2, PathNotInactive DEF ParentIsOpen, PInv, PathInv, TInv, TypeOK
<1>4. \A x \in Tree(u, d) : \A a \in above[x] : a \in {d} \cup Below(d) \/ a \in above[d]
  BY <1>1 DEF Below, PInv, PathInv, TInv, TypeOK
<1>5. \A x \in Dossiers : IsInactive(x)' <=> x \notin Tree(u, d) /\ IsInactive(x)
  BY <1>2 DEF IsInactive, IsHeld
<1> HIDE DEF IsInactive
<1>6. ASSUME NEW x \in Dossiers, NEW a \in above[x] \cap S, IsInactive(a)'
      PROVE  IsInactive(x)'
  <2>1. a \in Dossiers /\ a \notin Tree(u, d) /\ IsInactive(a)
    BY <1>1, <1>2, <1>5, <1>6
  <2>2. IsInactive(x)
    BY <1>2, <1>6, <2>1 DEF InactiveTrees
  <2>3. x \notin Tree(u, d)
    BY <1>1, <1>2, <1>3, <1>4, <1>6, <2>1
  <2> QED BY <1>5, <2>2, <2>3
<1> QED BY <1>2, <1>6 DEF InactiveTrees

(* An offer is made from, and retracted into, a state of the history; what *)
(* is destroyed takes all that is below it along.                          *)
LEMMA InactiveDisposition ==
  ASSUME NEW S, PInv, InactiveTrees(S), NEW d \in Dossiers, DispositionStep(d)
  PROVE  InactiveTrees(S)'
<1>1. /\ state \in [Dossiers -> DossierStates] /\ above \in [Dossiers -> SUBSET Dossiers]
      /\ \A x \in Dossiers : state[x] \in {"resolved", "inactive"} => former[x] = state[x]
      /\ \A x \in Dossiers : state[x] = "offered" => former[x] \in {"resolved", "inactive"}
  BY DEF PInv, TInv, TypeOK, FormerOK
<1>2. CASE Offer(d)
  <2>1. \A x \in Dossiers : IsInactive(x)' <=> IsInactive(x)
    BY <1>1, <1>2 DEF Offer, IsInactive, IsHeld
  <2> QED BY <1>2, <2>1, InactiveKept DEF Offer
<1>3. CASE Retract(d)
  <2>1. \A x \in Dossiers : IsInactive(x)' <=> IsInactive(x)
    BY <1>1, <1>3 DEF Retract, get_former_state, IsInactive, IsHeld
  <2> QED BY <1>3, <2>1, InactiveKept DEF Retract
<1>4. CASE MarkArchived(d)
  <2>1. \A x \in Dossiers : IsInactive(x)' <=> IsInactive(x)
    BY <1>1, <1>4 DEF MarkArchived, IsInactive, IsHeld
  <2> QED BY <1>4, <2>1, InactiveKept DEF MarkArchived
<1>5. CASE Destroy(d)
  <2> DEFINE gone == {d} \cup Below(d)
  <2>1. /\ \A x \in gone : above'[x] = {}
        /\ \A x \in Dossiers \ gone : above'[x] = above[x] /\ state'[x] = state[x]
                                     /\ former'[x] = former[x]
    BY <1>5 DEF Destroy, Below
  <2>2. \A x \in Dossiers \ gone : above[x] \cap gone = {}
    BY <1>1 DEF Below, PInv, PathInv
  <2> HIDE DEF gone
  <2>3. \A x \in Dossiers \ gone : IsInactive(x)' <=> IsInactive(x)
    BY <2>1 DEF IsInactive, IsHeld
  <2> HIDE DEF IsInactive
  <2> QED BY <1>1, <2>1, <2>2, <2>3 DEF InactiveTrees
<1> QED BY <1>2, <1>3, <1>4, <1>5 DEF DispositionStep

(* Every step keeps the inactive trees. *)
LEMMA InactiveStep ==
  ASSUME NEW S, PInv, InactiveTrees(S), ActivatesAll(S), [Next]_vars
  PROVE  InactiveTrees(S)'
<1>1. ASSUME NEW u \in Users, NEW d \in Dossiers, DossierRequest(u, d)
      PROVE  InactiveTrees(S)'
  <2>0. /\ state \in [Dossiers -> DossierStates]
        /\ former \in [Dossiers -> {None, "resolved", "inactive"}]
    BY DEF PInv, TInv, TypeOK
  <2>1. ASSUME NEW p \in Containers, CreateDossier(u, d, p) \/ MoveDossier(u, d, p)
        PROVE InactiveTrees(S)'
    BY <2>1, InactiveMove
  <2>2. CASE EditEnd(u, d)
    BY <2>2, InactiveKept DEF EditEnd, IsInactive, IsHeld
  <2>3. CASE Resolve(u, d)
    <3>1. \A x \in Dossiers : IsInactive(x)' <=> IsInactive(x)
      BY <2>0, <2>3 DEF Resolve, is_open, IsInactive, IsHeld
    <3> QED BY <2>3, <3>1, InactiveKept DEF Resolve
  <2>4. CASE Reactivate(u, d)
    <3>1. \A x \in Dossiers : IsInactive(x)' <=> IsInactive(x)
      BY <2>0, <2>4 DEF Reactivate, Reopened, ToReactivate, IsInactive, IsHeld
    <3> QED BY <2>4, <3>1, InactiveKept DEF Reactivate
  <2>5. ASSUME NEW f \in Dossiers, NEW done \in SUBSET Dossiers,
               ReactivateFails(u, d, f, done)
        PROVE InactiveTrees(S)'
    <3>1. \A x \in Dossiers : IsInactive(x)' <=> IsInactive(x)
      BY <2>0, <2>5 DEF ReactivateFails, ToReactivate, IsInactive, IsHeld
    <3> QED BY <2>5, <3>1, InactiveKept DEF ReactivateFails
  <2>6. CASE Deactivate(u, d)
    BY <2>6, InactiveDeactivate
  <2>7. CASE Activate(u, d)
    BY <2>7, InactiveActivate
  <2> QED BY <1>1, <2>1, <2>2, <2>3, <2>4, <2>5, <2>6, <2>7 DEF DossierRequest
<1>2. ASSUME NEW d \in Dossiers, DispositionStep(d) PROVE InactiveTrees(S)'
  BY <1>2, InactiveDisposition
<1>3. CASE UNCHANGED <<above, state, former>>
  BY <1>3, InactiveKept DEF IsInactive, IsHeld
<1>4. ASSUME NEW u \in Users, NEW i \in Items, ItemRequest(u, i)
      PROVE  UNCHANGED <<above, state, former>>
  BY <1>4
     DEF ItemRequest, AddItem, MoveItem, CloseItem, ReopenItem, SkipTask, OpenSkipped,
         dossierVars
<1>5. ASSUME NEW u \in Users, NEW doc \in Documents, DocumentRequest(u, doc)
      PROVE  UNCHANGED <<above, state, former>>
  BY <1>5
     DEF DocumentRequest, AddDocument, MoveDocument, DocumentStep, Checkout, Checkin,
         Trash, Untrash, Initialize, dossierVars
<1> QED BY <1>1, <1>2, <1>3, <1>4, <1>5 DEF Next, vars

\* The path index and the inactive trees of what is protected from nobody.
SeenInv == PInv /\ InactiveTrees(Seen)

(* It holds of the empty repository. *)
LEMMA SeenInit == Init => SeenInv
<1>1. Init => PInv
  BY TypeInit, PathInit DEF PInv
<1>2. Init => InactiveTrees(Seen)
  BY DEF Init, InactiveTrees
<1> QED BY <1>1, <1>2 DEF SeenInv

(* Every step keeps it, whatever rights there are. *)
LEMMA SeenStep == SeenInv /\ [Next]_vars => SeenInv'
<1> SUFFICES ASSUME SeenInv, [Next]_vars PROVE SeenInv'
  OBVIOUS
<1>1. InactiveTrees(Seen)'
  <2> DEFINE S == Seen
  <2>1. PInv /\ InactiveTrees(S) /\ ActivatesAll(S)
    BY SeenActivates DEF SeenInv
  <2> HIDE DEF S
  <2>2. InactiveTrees(S)'
    BY <2>1, InactiveStep
  <2> QED BY <2>2 DEF S
<1> QED BY <1>1, TypeStep, PathStep DEF SeenInv, PInv

(* Everything below an inactive dossier that is protected from nobody is   *)
(* inactive or was offered from there, so that DossierActivator never      *)
(* meets a subdossier it cannot activate but for offers, whatever is moved *)
(* and offered, and by whom.                                               *)
THEOREM InactiveBelowInactive == Spec => []InactiveTree
<1>1. SeenInv => InactiveTree
  BY DEF SeenInv, InactiveTrees, Seen, PInv, TInv, TypeOK, PathInv, PathTo,
         InactiveTree, is_subdossier, Containers
<1> QED BY <1>1, SeenInit, SeenStep, PTL DEF Spec

-----------------------------------------------------------------------------
(* Open dossiers in closed ones.                                           *)

\* What the walks do not reach: the alternatives of OnlyGapsLeaveActive.
Gap(x) ==
  \/ state[x] = "resolved" /\ IsHeld(parent'[x])
  \/ ~ SeenByAll(x) \/ ~ SeenByAll(parent'[x])
  \/ HalfReactivation

\* x gets to be active in a closed dossier by this step.
LeftActive(x) == ActiveInClosed(x)' /\ ~ ActiveInClosed(x)

(* The container of a subdossier is a dossier on its path, and exists. *)
LEMMA ContainerFacts ==
  ASSUME PInv, NEW x \in Dossiers, parent[x] # Repository
  PROVE  /\ parent[x] \in Dossiers /\ parent[x] # x
         /\ above[x] = above[parent[x]] \cup {parent[x]}
         /\ above[x] \subseteq Dossiers
         /\ state[parent[x]] \in Existing
  BY DEF PInv, TInv, TypeOK, Containers, PathInv, PathTo

(* A step that changes no container, opens nothing and closes no container *)
(* of an open dossier leaves nothing active in a closed one.               *)
LEMMA LeftActiveNeeds ==
  ASSUME NEW x \in Dossiers, LeftActive(x), UNCHANGED parent
  PROVE  /\ parent[x] # Repository /\ state'[x] = "active" /\ state'[parent[x]] # "active"
         /\ state[x] = "active" => state[parent[x]] = "active"
  BY DEF LeftActive, ActiveInClosed, is_open, is_subdossier

(* New and moved dossiers get an open container. *)
LEMMA GapMove ==
  ASSUME PInv, NEW u \in Users, NEW d \in Dossiers, NEW p \in Containers,
         CreateDossier(u, d, p) \/ MoveDossier(u, d, p), NEW x \in Dossiers
  PROVE  ~ LeftActive(x)
<1> SUFFICES ASSUME LeftActive(x) PROVE FALSE
  OBVIOUS
<1>1. /\ state \in [Dossiers -> DossierStates] /\ parent \in [Dossiers -> Containers]
      /\ p # d /\ parent' = [parent EXCEPT ![d] = p]
      /\ p \in Dossiers => state[p] = "active"
      /\ \/ state' = state
         \/ state[d] = "none" /\ state' = [state EXCEPT ![d] = "active"]
  BY DEF PInv, TInv, TypeOK, CreateDossier, MoveDossier, MayAddTo
<1>2. CASE x = d
  BY <1>1, <1>2 DEF LeftActive, ActiveInClosed, is_open, is_subdossier, Containers
<1>3. CASE x # d
  <2>1. parent'[x] = parent[x] /\ parent[x] # Repository
    BY <1>1, <1>3 DEF LeftActive, ActiveInClosed, is_subdossier
  <2>2. parent[x] \in Dossiers /\ state[parent[x]] \in Existing
    BY <2>1, ContainerFacts
  <2>3. state'[x] = state[x] /\ state'[parent[x]] = state[parent[x]]
    BY <1>1, <1>3, <2>2 DEF Existing
  <2> QED BY <2>1, <2>3 DEF LeftActive, ActiveInClosed, is_open, is_subdossier
<1> QED BY <1>2, <1>3

(* Resolving closes what it sees of a tree. *)
LEMMA GapResolve ==
  ASSUME PInv, NEW u \in Users, NEW d \in Dossiers, Resolve(u, d),
         NEW x \in Dossiers, LeftActive(x)
  PROVE  ~ SeenByAll(x)
<1>1. /\ UNCHANGED parent
      /\ \A y \in Dossiers : state'[y] = IF y \in Tree(u, d) /\ state[y] = "active"
                                         THEN "resolved" ELSE state[y]
  BY DEF Resolve, is_open
<1>2. /\ parent[x] # Repository /\ state'[x] = "active" /\ state'[parent[x]] # "active"
      /\ state[x] = "active" => state[parent[x]] = "active"
  BY <1>1, LeftActiveNeeds
<1>3. /\ parent[x] \in Dossiers
      /\ above[x] = above[parent[x]] \cup {parent[x]}
  BY <1>2, ContainerFacts
<1>4. parent[x] \in Tree(u, d) /\ x \notin Tree(u, d)
  BY <1>1, <1>2, <1>3
<1>5. x \in Below(d)
  BY <1>3, <1>4 DEF Tree, Visible, Below
<1> QED BY <1>4, <1>5 DEF Tree, Visible, SeenByAll

(* Reactivating opens what is resolved of what it sees: a container that   *)
(* stays closed is not seen, or held, or inactive with all that is below   *)
(* it.                                                                     *)
LEMMA GapReactivate ==
  ASSUME SeenInv, NEW u \in Users, NEW d \in Dossiers, Reactivate(u, d),
         NEW x \in Dossiers, LeftActive(x)
  PROVE  \/ state[x] = "resolved" /\ IsHeld(parent[x])
         \/ ~ SeenByAll(parent[x])
<1>0. PInv
  BY DEF SeenInv
<1>1. /\ UNCHANGED parent /\ state[d] = "resolved" /\ ParentIsOpen(d)
      /\ \A y \in Dossiers : state'[y] = IF y \in Tree(u, d) /\ state[y] = "resolved"
                                         THEN "active" ELSE state[y]
      /\ d \in Tree(u, d)
  BY DEF Reactivate, Reopened, ToReactivate, Tree
<1> DEFINE g == parent[x]
<1>2. /\ g # Repository /\ state'[x] = "active" /\ state'[g] # "active"
      /\ state[x] = "active" => state[g] = "active"
  BY <1>1, LeftActiveNeeds
<1>3. /\ g \in Dossiers /\ above[x] = above[g] \cup {g} /\ state[g] \in Existing
  BY <1>0, <1>2, ContainerFacts
<1>4. x \in Tree(u, d) /\ state[x] = "resolved"
  BY <1>1, <1>2, <1>3
<1>5. x # d
  BY <1>1, <1>2, <1>3 DEF ParentIsOpen, is_open
<1>6. g \in Below(d)
  <2>1. d \in above[x]
    BY <1>4, <1>5 DEF Tree, Visible, Below
  <2>2. d # g
    BY <1>1, <1>2
  <2> QED BY <1>3, <2>1, <2>2 DEF Below
<1>7. CASE g \notin Tree(u, d)
  BY <1>6, <1>7 DEF Tree, Visible, SeenByAll
<1>8. CASE g \in Tree(u, d) /\ state[g] = "inactive"
  <2> SUFFICES ASSUME SeenByAll(g) PROVE FALSE
    OBVIOUS
  <2>1. IsInactive(g) /\ ~ IsInactive(x)
    BY <1>3, <1>4, <1>8 DEF IsInactive, IsHeld, PInv, TInv, FormerOK, SeenInv
  <2>2. g \in above[x] \cap Seen
    BY <1>3 DEF Seen
  <2> QED BY <2>1, <2>2 DEF SeenInv, InactiveTrees
<1>9. CASE g \in Tree(u, d) /\ state[g] # "inactive"
  <2>1. state[g] # "active" /\ state[g] # "resolved"
    BY <1>1, <1>2, <1>3, <1>9
  <2> QED BY <1>3, <1>4, <1>9, <2>1 DEF Existing, IsHeld
<1> QED BY <1>7, <1>8, <1>9

(* Activating opens all it sees of a tree, or nothing. *)
LEMMA GapActivate ==
  ASSUME PInv, NEW u \in Users, NEW d \in Dossiers, Activate(u, d),
         NEW x \in Dossiers, LeftActive(x)
  PROVE  ~ SeenByAll(parent[x])
<1>1. /\ UNCHANGED parent /\ ParentIsOpen(d) /\ d \in Tree(u, d)
      /\ \A y \in Dossiers : state'[y] = IF y \in Tree(u, d) THEN "active" ELSE state[y]
  BY DEF Activate, Reopened, Tree
<1> DEFINE g == parent[x]
<1>2. /\ g # Repository /\ state'[x] = "active" /\ state'[g] # "active"
      /\ state[x] = "active" => state[g] = "active"
  BY <1>1, LeftActiveNeeds
<1>3. /\ g \in Dossiers /\ above[x] = above[g] \cup {g}
  BY <1>2, ContainerFacts
<1>4. x \in Tree(u, d) /\ g \notin Tree(u, d)
  BY <1>1, <1>2, <1>3
<1>5. x # d
  BY <1>1, <1>2, <1>3 DEF ParentIsOpen, is_open
<1>6. g \in Below(d)
  <2>1. d \in above[x]
    BY <1>4, <1>5 DEF Tree, Visible, Below
  <2>2. d # g
    BY <1>1, <1>4
  <2> QED BY <1>3, <2>1, <2>2 DEF Below
<1> QED BY <1>4, <1>6 DEF Tree, Visible, SeenByAll

(* Deactivating fails where it cannot close something; dispositions open   *)
(* nothing, and hold or destroy nothing that is open with what is in it.   *)
LEMMA GapElse ==
  ASSUME PInv, NEW d \in Dossiers,
         (\E u \in Users : Deactivate(u, d)) \/ DispositionStep(d), NEW x \in Dossiers
  PROVE  ~ LeftActive(x)
<1> SUFFICES ASSUME LeftActive(x) PROVE FALSE
  OBVIOUS
<1>0. /\ state \in [Dossiers -> DossierStates] /\ parent \in [Dossiers -> Containers]
      /\ \A y \in Dossiers : state[y] = "offered" => former[y] \in {"resolved", "inactive"}
  BY DEF PInv, TInv, TypeOK, FormerOK
<1>1. ASSUME NEW u \in Users, Deactivate(u, d) PROVE FALSE
  <2>1. /\ UNCHANGED parent
        /\ \A y \in Dossiers : state'[y] = IF y \in Tree(u, d) THEN "inactive" ELSE state[y]
        /\ \A y \in Below(d) : state[y] = "inactive" \/ y \in Tree(u, d)
    BY <1>1 DEF Deactivate, Tree, Visible
  <2>2. /\ parent[x] # Repository /\ state'[x] = "active" /\ state'[parent[x]] # "active"
        /\ state[x] = "active" => state[parent[x]] = "active"
    BY <2>1, LeftActiveNeeds
  <2>3. parent[x] \in Dossiers /\ above[x] = above[parent[x]] \cup {parent[x]}
    BY <2>2, ContainerFacts
  <2>4. parent[x] \in Tree(u, d) /\ x \notin Tree(u, d) /\ state[x] = "active"
    BY <2>1, <2>2, <2>3
  <2>5. x \in Below(d)
    BY <2>3, <2>4 DEF Tree, Visible, Below
  <2> QED BY <2>1, <2>4, <2>5
<1>2. ASSUME Offer(d) \/ Retract(d) \/ MarkArchived(d) PROVE FALSE
  <2>1. /\ UNCHANGED parent /\ state[d] # "active"
        /\ \E s \in DossierStates \ {"active"} : state' = [state EXCEPT ![d] = s]
    BY <1>0, <1>2 DEF Offer, Retract, MarkArchived, get_former_state, DossierStates
  <2>2. /\ parent[x] # Repository /\ state'[x] = "active" /\ state'[parent[x]] # "active"
        /\ state[x] = "active" => state[parent[x]] = "active"
    BY <2>1, LeftActiveNeeds
  <2>3. parent[x] \in Dossiers
    BY <2>2, ContainerFacts
  <2> QED BY <1>0, <2>1, <2>2, <2>3
<1>3. ASSUME Destroy(d) PROVE FALSE
  <2> DEFINE gone == {d} \cup Below(d)
  <2>1. /\ \A y \in gone : y \in Dossiers /\ state'[y] = "destroyed"
        /\ \A y \in Dossiers \ gone : state'[y] = state[y] /\ parent'[y] = parent[y]
    BY <1>3 DEF Destroy, Below
  <2>2. x \notin gone /\ parent[x] # Repository
    BY <2>1 DEF LeftActive, ActiveInClosed, is_open, is_subdossier
  <2>3. parent[x] \in Dossiers /\ above[x] = above[parent[x]] \cup {parent[x]}
    BY <2>2, ContainerFacts
  <2>4. parent[x] \notin gone
    BY <2>2, <2>3 DEF Below
  <2> HIDE DEF gone
  <2> QED BY <2>1, <2>2, <2>3, <2>4 DEF LeftActive, ActiveInClosed, is_open, is_subdossier
<1> QED BY <1>1, <1>2, <1>3 DEF DispositionStep

(* Every step leaves active in closed only what the walks do not reach. *)
LEMMA GapStep ==
  ASSUME SeenInv, [Next]_vars, NEW x \in Dossiers, LeftActive(x)
  PROVE  Gap(x)
<1>0. PInv
  BY DEF SeenInv
<1>1. ASSUME NEW u \in Users, NEW d \in Dossiers, DossierRequest(u, d)
      PROVE  Gap(x)
  <2>1. ASSUME NEW p \in Containers, CreateDossier(u, d, p) \/ MoveDossier(u, d, p)
        PROVE  FALSE
    BY <1>0, <2>1, GapMove
  <2>2. CASE EditEnd(u, d)
    BY <2>2 DEF EditEnd, LeftActive, ActiveInClosed, is_open, is_subdossier
  <2>3. CASE Resolve(u, d)
    BY <1>0, <2>3, GapResolve DEF Gap
  <2>4. CASE Reactivate(u, d)
    <3>1. UNCHANGED parent
      BY <2>4 DEF Reactivate
    <3>2. (state[x] = "resolved" /\ IsHeld(parent[x])) \/ ~ SeenByAll(parent[x])
      BY <2>4, GapReactivate
    <3> QED BY <3>1, <3>2 DEF Gap, IsHeld, SeenByAll
  <2>5. ASSUME NEW f \in Dossiers, NEW done \in SUBSET Dossiers,
               ReactivateFails(u, d, f, done)
        PROVE  Gap(x)
    BY <2>5 DEF Gap, HalfReactivation
  <2>6. CASE Deactivate(u, d)
    BY <1>0, <2>6, GapElse
  <2>7. CASE Activate(u, d)
    <3>1. UNCHANGED parent
      BY <2>7 DEF Activate
    <3>2. ~ SeenByAll(parent[x])
      BY <1>0, <2>7, GapActivate
    <3> QED BY <3>1, <3>2 DEF Gap, SeenByAll
  <2> QED BY <1>1, <2>1, <2>2, <2>3, <2>4, <2>5, <2>6, <2>7 DEF DossierRequest
<1>2. ASSUME NEW d \in Dossiers, DispositionStep(d) PROVE FALSE
  BY <1>0, <1>2, GapElse
<1>3. ASSUME UNCHANGED <<parent, state>> PROVE FALSE
  BY <1>3 DEF LeftActive, ActiveInClosed, is_open, is_subdossier
<1>4. ASSUME NEW u \in Users, NEW i \in Items, ItemRequest(u, i) PROVE FALSE
  BY <1>3, <1>4
     DEF ItemRequest, AddItem, MoveItem, CloseItem, ReopenItem, SkipTask, OpenSkipped,
         dossierVars
<1>5. ASSUME NEW u \in Users, NEW doc \in Documents, DocumentRequest(u, doc) PROVE FALSE
  BY <1>3, <1>5
     DEF DocumentRequest, AddDocument, MoveDocument, DocumentStep, Checkout, Checkin,
         Trash, Untrash, Initialize, dossierVars
<1> QED BY <1>1, <1>2, <1>3, <1>4, <1>5 DEF Next, vars

(* The body of OnlyGapsLeaveActive. *)
GapsOnly == \A d \in Dossiers : LeftActive(d) => Gap(d)

(* Whatever is moved, offered and reactivated, by whom and with what       *)
(* rights, a dossier gets to be active in a closed one only where the      *)
(* walks do not reach: below what a disposition holds, at what is          *)
(* protected, or in a walk that failed and was committed.                  *)
THEOREM OnlyGaps == Spec => OnlyGapsLeaveActive
<1>1. SeenInv /\ [Next]_vars => [GapsOnly]_vars
  BY GapStep DEF GapsOnly
<1> QED BY <1>1, SeenInit, SeenStep, PTL
        DEF Spec, OnlyGapsLeaveActive, GapsOnly, LeftActive, Gap

-----------------------------------------------------------------------------
(* What the half open trees depend on: the same system where every walk is *)
(* whole.                                                                  *)

\* Resolving, reactivating and activating reach all that is below; reactivating
\* meets nothing that a disposition holds, and none that fails is committed.
WholeWalks ==
  /\ ~ HalfReactivation
  /\ \A u \in Users, d \in Dossiers :
       Resolve(u, d) \/ Reactivate(u, d) \/ Activate(u, d) => Below(d) \subseteq Visible(u, d)
  /\ \A u \in Users, d \in Dossiers :
       Reactivate(u, d) => \A x \in Below(d) : ~ IsHeld(x)

WholeWalkSpec == Init /\ [][Next /\ WholeWalks]_vars

\* Everything on the path of an open dossier is open.
ClosedTrees == \A x \in Dossiers : \A a \in above[x] : is_open(x) => is_open(a)
WholeInv == PInv /\ InactiveTrees(Dossiers) /\ ClosedTrees

(* Everything on the path through an open container is open. *)
LEMMA PathOpen ==
  ASSUME WholeInv, NEW p \in Containers, p \in Dossiers => is_open(p)
  PROVE  \A a \in PathTo(p) : a \in Dossiers /\ is_open(a)
  BY DEF WholeInv, ClosedTrees, PathTo, PInv, TInv, TypeOK

(* A step that leaves states and paths alone leaves the trees closed. *)
LEMMA ClosedKept ==
  ASSUME WholeInv, UNCHANGED <<state, above>>
  PROVE  ClosedTrees'
  BY DEF WholeInv, ClosedTrees, is_open

(* A new dossier, and one that is moved, sits in an open one. *)
LEMMA ClosedMove ==
  ASSUME WholeInv, NEW u \in Users, NEW d \in Dossiers, NEW p \in Containers,
         CreateDossier(u, d, p) \/ MoveDossier(u, d, p)
  PROVE  ClosedTrees'
<1>1. p \in Dossiers => is_open(p)
  BY DEF CreateDossier, MoveDossier, MayAddTo, is_open
<1>2. \A a \in PathTo(p) : a \in Dossiers /\ is_open(a)
  BY <1>1, PathOpen
<1>3. /\ state \in [Dossiers -> DossierStates] /\ above \in [Dossiers -> SUBSET Dossiers]
      /\ \A x \in Dossiers : \A a \in above[x] : state[a] # "none"
  BY DEF WholeInv, PInv, TInv, TypeOK, PathInv, Existing
<1>4. CASE CreateDossier(u, d, p)
  <2>1. /\ state[d] = "none" /\ state'[d] = "active" /\ above'[d] = PathTo(p)
        /\ \A x \in Dossiers \ {d} : state'[x] = state[x] /\ above'[x] = above[x]
    BY <1>3, <1>4 DEF CreateDossier
  <2> QED BY <1>2, <1>3, <2>1 DEF WholeInv, ClosedTrees, is_open
<1>5. CASE MoveDossier(u, d, p)
  <2>1. /\ state' = state
        /\ \A x \in Dossiers : above'[x] \subseteq above[x] \cup PathTo(p)
    BY <1>3, <1>5 DEF MoveDossier
  <2> QED BY <1>2, <2>1 DEF WholeInv, ClosedTrees, is_open
<1> QED BY <1>4, <1>5

(* Resolving and deactivating close all of a tree. *)
LEMMA ClosedClose ==
  ASSUME WholeInv, WholeWalks, NEW u \in Users, NEW d \in Dossiers,
         Resolve(u, d) \/ Deactivate(u, d)
  PROVE  ClosedTrees'
<1> DEFINE tree == {d} \cup Below(d)
<1>1. CASE Resolve(u, d)
  <2>1. Tree(u, d) = tree
    BY <1>1 DEF WholeWalks, Tree, Visible, Below
  <2> QED BY <1>1, <2>1 DEF Resolve, is_open, WholeInv, ClosedTrees, PInv, PathInv, TInv,
                            TypeOK, Below
<1>2. CASE Deactivate(u, d)
  <2>1. /\ \A x \in Dossiers : state'[x] = IF x \in Tree(u, d) THEN "inactive" ELSE state[x]
        /\ \A x \in tree : state[x] = "inactive" \/ x \in Tree(u, d)
        /\ Tree(u, d) \subseteq tree /\ tree \subseteq Dossiers
        /\ UNCHANGED above
    BY <1>2 DEF Deactivate, Tree, Visible, Below
  <2>2. \A x \in Dossiers : \A a \in above[x] : a \in Dossiers /\ (a \in tree => x \in tree)
    BY DEF WholeInv, PInv, PathInv, TInv, TypeOK, Below
  <2> HIDE DEF tree
  <2> QED BY <2>1, <2>2 DEF WholeInv, ClosedTrees, is_open
<1> QED BY <1>1, <1>2

(* Reactivating and activating open, of a tree below an open dossier, all  *)
(* that is on the path of what they open.                                  *)
LEMMA ClosedOpen ==
  ASSUME WholeInv, WholeWalks, NEW u \in Users, NEW d \in Dossiers,
         Reactivate(u, d) \/ Activate(u, d)
  PROVE  ClosedTrees'
<1> DEFINE tree == {d} \cup Below(d)
<1>1. Tree(u, d) = tree
  BY DEF WholeWalks, Tree, Visible, Below
<1>2. /\ ParentIsOpen(d) /\ UNCHANGED above
      /\ \A x \in Dossiers : state[x] = "active" => state'[x] = "active"
      /\ \A x \in Dossiers \ tree : state'[x] = state[x]
  BY <1>1 DEF Reactivate, Activate, Reopened, ToReactivate
<1>3. \A a \in above[d] : a \in Dossiers /\ is_open(a)
  BY <1>2, PathOpen DEF ParentIsOpen, WholeInv, PInv, PathInv, TInv, TypeOK
<1>4. \A x \in tree : \A a \in above[x] : x \in Dossiers /\ a \in Dossiers
                                          /\ (a \in tree \/ a \in above[d])
  BY DEF Below, WholeInv, PInv, PathInv, TInv, TypeOK
<1>5. ASSUME NEW x \in tree, NEW a \in above[x], a \in tree,
             state'[x] = "active", state[x] # "active"
      PROVE  state'[a] = "active"
  <2>1. CASE Activate(u, d)
    BY <1>1, <1>4, <1>5, <2>1 DEF Activate, Reopened
  <2>2. CASE Reactivate(u, d)
    <3>1. /\ state[d] = "resolved"
          /\ \A y \in Dossiers : state'[y] = IF y \in tree /\ state[y] = "resolved"
                                             THEN "active" ELSE state[y]
      BY <1>1, <2>2 DEF Reactivate, Reopened, ToReactivate
    <3>2. x \in Dossiers /\ a \in Dossiers /\ state[a] \in Existing /\ state[x] = "resolved"
      BY <1>4, <1>5, <3>1 DEF WholeInv, PInv, PathInv
    <3>3. state[a] # "inactive"
      BY <1>5, <3>2 DEF WholeInv, InactiveTrees, IsInactive, IsHeld, PInv, TInv, FormerOK
    <3>4. a = d \/ ~ IsHeld(a)
      BY <1>5, <2>2 DEF WholeWalks
    <3> QED BY <1>5, <3>1, <3>2, <3>3, <3>4 DEF IsHeld, Existing
  <2> QED BY <2>1, <2>2
<1> HIDE DEF tree
<1>6. \A x \in Dossiers : above[x] \subseteq Dossiers
  BY DEF WholeInv, PInv, TInv, TypeOK
<1>7. ASSUME NEW x \in Dossiers, NEW a \in above[x], state'[x] = "active"
      PROVE  state'[a] = "active"
  <2>1. CASE state[x] = "active"
    BY <1>2, <1>6, <1>7, <2>1 DEF WholeInv, ClosedTrees, is_open
  <2>2. CASE state[x] # "active"
    BY <1>2, <1>3, <1>4, <1>5, <1>7, <2>2 DEF is_open
  <2> QED BY <2>1, <2>2
<1> QED BY <1>2, <1>7 DEF ClosedTrees, is_open

(* A disposition opens nothing and closes only what it destroys. *)
LEMMA ClosedDisposition ==
  ASSUME WholeInv, NEW d \in Dossiers, DispositionStep(d)
  PROVE  ClosedTrees'
<1>0. /\ state \in [Dossiers -> DossierStates] /\ above \in [Dossiers -> SUBSET Dossiers]
      /\ \A y \in Dossiers : state[y] = "offered" => former[y] \in {"resolved", "inactive"}
  BY DEF WholeInv, PInv, TInv, TypeOK, FormerOK
<1>1. CASE Offer(d) \/ Retract(d) \/ MarkArchived(d)
  <2>1. /\ UNCHANGED above /\ state[d] # "active"
        /\ \E s \in DossierStates \ {"active"} : state' = [state EXCEPT ![d] = s]
    BY <1>0, <1>1 DEF Offer, Retract, MarkArchived, get_former_state, DossierStates
  <2> QED BY <1>0, <2>1 DEF WholeInv, ClosedTrees, is_open
<1>2. CASE Destroy(d)
  <2> DEFINE gone == {d} \cup Below(d)
  <2>1. /\ \A y \in gone : y \in Dossiers /\ state'[y] = "destroyed"
        /\ \A y \in Dossiers \ gone : state'[y] = state[y] /\ above'[y] = above[y]
    BY <1>2 DEF Destroy, Below
  <2>2. \A x \in Dossiers \ gone : above[x] \cap gone = {}
    BY <1>0 DEF Below, WholeInv, PInv, PathInv
  <2> HIDE DEF gone
  <2> QED BY <1>0, <2>1, <2>2 DEF WholeInv, ClosedTrees, is_open
<1> QED BY <1>1, <1>2 DEF DispositionStep

(* Every step of the system with whole walks keeps the trees. *)
LEMMA WholeStep == WholeInv /\ [Next /\ WholeWalks]_vars => WholeInv'
<1> SUFFICES ASSUME WholeInv, [Next /\ WholeWalks]_vars PROVE WholeInv'
  OBVIOUS
<1>1. CASE UNCHANGED vars
  BY <1>1 DEF vars, WholeInv, PInv, TInv, TypeOK, FormerOK, PathInv, PathTo, InactiveTrees,
             IsInactive, IsHeld, ClosedTrees, is_open
<1>2. CASE Next /\ WholeWalks
  <2>1. PInv'
    BY <1>2, TypeStep, PathStep DEF WholeInv, PInv
  <2>2. InactiveTrees(Dossiers)'
    <3>1. ActivatesAll(Dossiers)
      BY <1>2 DEF WholeWalks, ActivatesAll
    <3> QED BY <1>2, <3>1, InactiveStep DEF WholeInv
  <2>3. ASSUME NEW u \in Users, NEW d \in Dossiers, DossierRequest(u, d)
        PROVE  ClosedTrees'
    <3>1. ASSUME NEW p \in Containers, CreateDossier(u, d, p) \/ MoveDossier(u, d, p)
          PROVE  ClosedTrees'
      BY <3>1, ClosedMove
    <3>2. CASE EditEnd(u, d)
      BY <3>2, ClosedKept DEF EditEnd
    <3>3. CASE Resolve(u, d) \/ Deactivate(u, d)
      BY <1>2, <3>3, ClosedClose
    <3>4. CASE Reactivate(u, d) \/ Activate(u, d)
      BY <1>2, <3>4, ClosedOpen
    <3>5. ASSUME NEW f \in Dossiers, NEW done \in SUBSET Dossiers,
                 ReactivateFails(u, d, f, done)
          PROVE  FALSE
      BY <1>2, <3>5 DEF WholeWalks, HalfReactivation
    <3> QED BY <2>3, <3>1, <3>2, <3>3, <3>4, <3>5 DEF DossierRequest
  <2>4. ASSUME NEW d \in Dossiers, DispositionStep(d) PROVE ClosedTrees'
    BY <2>4, ClosedDisposition
  <2>5. ASSUME NEW u \in Users, NEW i \in Items, ItemRequest(u, i) PROVE ClosedTrees'
    BY <2>5, ClosedKept
       DEF ItemRequest, AddItem, MoveItem, CloseItem, ReopenItem, SkipTask, OpenSkipped,
           dossierVars
  <2>6. ASSUME NEW u \in Users, NEW doc \in Documents, DocumentRequest(u, doc)
        PROVE  ClosedTrees'
    BY <2>6, ClosedKept
       DEF DocumentRequest, AddDocument, MoveDocument, DocumentStep, Checkout, Checkin,
           Trash, Untrash, Initialize, dossierVars
  <2> QED BY <1>2, <2>1, <2>2, <2>3, <2>4, <2>5, <2>6 DEF Next, WholeInv
<1> QED BY <1>1, <1>2

(* The empty repository has nothing in a closed tree. *)
LEMMA WholeInit == Init => WholeInv
<1>1. Init => PInv
  BY TypeInit, PathInit DEF PInv
<1>2. Init => InactiveTrees(Dossiers) /\ ClosedTrees
  BY DEF Init, InactiveTrees, ClosedTrees
<1> QED BY <1>1, <1>2 DEF WholeInv

(* If every walk were whole, nothing would be open below a closed dossier, *)
(* whatever is moved, offered and retracted: nothing but the gaps of the   *)
(* walks is to be mended for the manual to be right.                       *)
THEOREM WholeWalksLeaveNoneActive == WholeWalkSpec => []NoActiveInClosed
<1>1. WholeInv => NoActiveInClosed
  BY DEF WholeInv, ClosedTrees, PInv, TInv, TypeOK, PathInv, PathTo,
         NoActiveInClosed, ActiveInClosed, is_subdossier, Containers
<1> QED BY <1>1, WholeInit, WholeStep, PTL DEF WholeWalkSpec

(* A request on a dossier destroys none. *)
LEMMA RequestDestroysNothing ==
  ASSUME TInv, NEW u \in Users, NEW d \in Dossiers, DossierRequest(u, d),
         NEW x \in Dossiers, state'[x] = "destroyed"
  PROVE  state[x] = "destroyed"
<1> USE DEF TInv, TypeOK
<1>1. ASSUME NEW p \in Containers, CreateDossier(u, d, p) PROVE state[x] = "destroyed"
  BY <1>1 DEF CreateDossier
<1>2. ASSUME NEW p \in Containers, MoveDossier(u, d, p) PROVE state[x] = "destroyed"
  BY <1>2 DEF MoveDossier
<1>3. CASE EditEnd(u, d)  BY <1>3 DEF EditEnd
<1>4. CASE Resolve(u, d)  BY <1>4 DEF Resolve
<1>5. CASE Reactivate(u, d)  BY <1>5 DEF Reactivate, Reopened
<1>6. ASSUME NEW f \in Dossiers, NEW done \in SUBSET Dossiers,
             ReactivateFails(u, d, f, done)
      PROVE  state[x] = "destroyed"
  BY <1>6 DEF ReactivateFails
<1>7. CASE Deactivate(u, d)  BY <1>7 DEF Deactivate
<1>8. CASE Activate(u, d)  BY <1>8 DEF Activate, Reopened
<1> QED BY <1>1, <1>2, <1>3, <1>4, <1>5, <1>6, <1>7, <1>8 DEF DossierRequest

(* Destroying a tree that is closed throughout takes only closed dossiers. *)
LEMMA DestroysClosed ==
  ASSUME WholeInv, NEW d \in Dossiers, Destroy(d), NEW x \in Dossiers,
         state'[x] = "destroyed"
  PROVE  state[x] \in Closed \cup {"destroyed"}
<1>1. CASE x = d
  BY <1>1 DEF Destroy, Closed
<1>2. CASE x # d /\ d \in above[x]
  <2>1. ~ is_open(x)
    BY <1>2 DEF WholeInv, ClosedTrees, is_open, Destroy
  <2>2. parent[x] # Repository
    BY <1>2, NamesDisjoint DEF WholeInv, PInv, PathInv, PathTo
  <2>3. state[x] \in Existing
    BY <2>2 DEF WholeInv, PInv, PathInv
  <2> QED BY <2>1, <2>3 DEF Existing, Closed, is_open
<1>3. CASE x # d /\ d \notin above[x]
  BY <1>3 DEF Destroy, Below, Closed
<1> QED BY <1>1, <1>2, <1>3

(* A step destroys what was closed: the body of DestroysOnlyClosed. *)
DestroyedWereClosed ==
  \A d \in Dossiers : state'[d] = "destroyed" => state[d] \in Closed \cup {"destroyed"}

(* No other step than the destruction of an archived tree destroys         *)
(* anything.                                                               *)
LEMMA DestroysStep ==
  ASSUME WholeInv, [Next]_vars
  PROVE  [DestroyedWereClosed]_vars
<1> USE DEF WholeInv, PInv, DestroyedWereClosed
<1>1. ASSUME NEW u \in Users, NEW d \in Dossiers, DossierRequest(u, d) PROVE DestroyedWereClosed
  BY <1>1, RequestDestroysNothing
<1>2. ASSUME NEW d \in Dossiers, DispositionStep(d) PROVE DestroyedWereClosed
  <2>1. CASE Destroy(d)
    BY <2>1, DestroysClosed
  <2>2. CASE Offer(d) \/ Retract(d) \/ MarkArchived(d)
    BY <2>2 DEF Offer, Retract, get_former_state, MarkArchived, TInv, TypeOK, FormerOK
  <2> QED BY <1>2, <2>1, <2>2 DEF DispositionStep
<1>3. ASSUME NEW u \in Users, NEW i \in Items, ItemRequest(u, i) PROVE DestroyedWereClosed
  BY <1>3 DEF ItemRequest, AddItem, MoveItem, CloseItem, ReopenItem, SkipTask, OpenSkipped,
              dossierVars
<1>4. ASSUME NEW u \in Users, NEW doc \in Documents, DocumentRequest(u, doc)
      PROVE  DestroyedWereClosed
  BY <1>4
     DEF DocumentRequest, AddDocument, MoveDocument, DocumentStep, Checkout, Checkin,
         Trash, Untrash, Initialize, dossierVars
<1> QED BY <1>1, <1>2, <1>3, <1>4 DEF Next

(* If every walk were whole, a disposition would destroy only what was     *)
(* closed, for subdossiers that are offered and offered dossiers that are  *)
(* moved too: destroy_dossiers asks for the state of the dossiers it       *)
(* names, and what is below them depends on the walks.                     *)
THEOREM WholeWalksDestroyClosed == WholeWalkSpec => DestroysOnlyClosed
<1>1. WholeInv /\ [Next /\ WholeWalks]_vars => [DestroyedWereClosed]_vars
  BY DestroysStep
<1> QED BY <1>1, WholeInit, WholeStep, PTL
        DEF WholeWalkSpec, DestroysOnlyClosed, DestroyedWereClosed

-----------------------------------------------------------------------------
(* Tasks and proposals.                                                    *)

\* Every item there is, is in a dossier.
ItemsIn == \A i \in Items : itemState[i] \in ExistingItem => itemIn[i] \in Dossiers

(* Items are added and moved into dossiers, and destroyed with them. *)
LEMMA ItemsInStep == TInv /\ ItemsIn /\ [Next]_vars => ItemsIn'
<1> SUFFICES ASSUME TInv, ItemsIn, [Next]_vars PROVE ItemsIn'
  OBVIOUS
<1> USE DEF ItemsIn, ExistingItem
<1>1. CASE UNCHANGED itemVars
  BY <1>1 DEF itemVars
<1>2. ASSUME NEW u \in Users, NEW d \in Dossiers, DossierRequest(u, d) PROVE ItemsIn'
  BY <1>1, <1>2 DEF DossierRequest, CreateDossier, MoveDossier, EditEnd, Resolve, Reactivate,
                    ReactivateFails, Deactivate, Activate, itemVars
<1>3. ASSUME NEW d \in Dossiers, DispositionStep(d) PROVE ItemsIn'
  <2>1. CASE Destroy(d)
    BY <2>1 DEF Destroy
  <2> QED BY <1>1, <1>3, <2>1 DEF DispositionStep, Offer, Retract, MarkArchived
<1>4. ASSUME NEW u \in Users, NEW i \in Items, ItemRequest(u, i) PROVE ItemsIn'
  BY <1>4 DEF ItemRequest, AddItem, MoveItem, CloseItem, ReopenItem, SkipTask, OpenSkipped,
              TInv, TypeOK, Items
<1>5. ASSUME NEW u \in Users, NEW doc \in Documents, DocumentRequest(u, doc) PROVE ItemsIn'
  BY <1>1, <1>5
     DEF DocumentRequest, AddDocument, MoveDocument, DocumentStep, Checkout, Checkin,
         Trash, Untrash, Initialize
<1> QED BY <1>1, <1>2, <1>3, <1>4, <1>5 DEF Next, vars, itemVars

(* A dossier that is open and closed by a step was resolved or deactivated *)
(* by a request on a dossier of its tree, or destroyed.                    *)
LEMMA WhatCloses ==
  ASSUME TInv, [Next]_vars, NEW x \in Dossiers, is_open(x), ~ is_open(x)'
  PROVE  \/ \E u \in Users, d \in Dossiers : /\ Resolve(u, d) \/ Deactivate(u, d)
                                            /\ x \in Tree(u, d)
         \/ \E d \in Dossiers : Destroy(d) /\ x \in Below(d)
<1> USE DEF TInv, TypeOK, is_open
<1>1. ASSUME NEW u \in Users, NEW d \in Dossiers, DossierRequest(u, d)
      PROVE  (Resolve(u, d) \/ Deactivate(u, d)) /\ x \in Tree(u, d)
  <2>1. ASSUME NEW p \in Containers, CreateDossier(u, d, p) \/ MoveDossier(u, d, p)
        PROVE  FALSE
    BY <2>1 DEF CreateDossier, MoveDossier
  <2>2. CASE EditEnd(u, d)
    BY <2>2 DEF EditEnd
  <2>3. CASE Resolve(u, d)
    BY <2>3 DEF Resolve
  <2>4. CASE Reactivate(u, d) \/ Activate(u, d)
    BY <2>4 DEF Reactivate, Activate, Reopened
  <2>5. ASSUME NEW f \in Dossiers, NEW done \in SUBSET Dossiers,
               ReactivateFails(u, d, f, done)
        PROVE  FALSE
    BY <2>5 DEF ReactivateFails
  <2>6. CASE Deactivate(u, d)
    BY <2>6 DEF Deactivate
  <2> QED BY <1>1, <2>1, <2>2, <2>3, <2>4, <2>5, <2>6 DEF DossierRequest
<1>2. ASSUME NEW d \in Dossiers, DispositionStep(d) PROVE Destroy(d) /\ x \in Below(d)
  BY <1>2 DEF DispositionStep, Offer, Retract, get_former_state, MarkArchived, Destroy
<1>3. ASSUME NEW u \in Users, NEW i \in Items, ItemRequest(u, i) PROVE FALSE
  BY <1>3 DEF ItemRequest, AddItem, MoveItem, CloseItem, ReopenItem, SkipTask, OpenSkipped, dossierVars
<1>4. ASSUME NEW u \in Users, NEW doc \in Documents, DocumentRequest(u, doc)
      PROVE  FALSE
  BY <1>4
     DEF DocumentRequest, AddDocument, MoveDocument, DocumentStep, Checkout, Checkin,
         Trash, Untrash, Initialize, dossierVars
<1>5. CASE UNCHANGED vars
  BY <1>5 DEF vars
<1> QED BY <1>1, <1>2, <1>3, <1>4, <1>5 DEF Next

(* The body of OnlySkippedOpensInClosed. *)
SkippedOnly ==
  \A i \in Items : OpenInClosed(i)' /\ ~ OpenInClosed(i) => itemState[i] = "skipped"

(* An item that is open stays in its dossier, or goes into an open one. *)
LEMMA ItemRequestOpens ==
  ASSUME TInv, NEW u \in Users, NEW j \in Items, ItemRequest(u, j),
         NEW i \in Items, OpenInClosed(i)', ~ OpenInClosed(i)
  PROVE  itemState[i] = "skipped"
<1> USE DEF TInv, TypeOK, OpenInClosed, is_open
<1>1. state' = state
  BY DEF ItemRequest, AddItem, MoveItem, CloseItem, ReopenItem, SkipTask, OpenSkipped,
         dossierVars
<1>2. ASSUME NEW d \in Dossiers, AddItem(u, j, d) \/ MoveItem(u, j, d) PROVE FALSE
  <2>1. /\ state[d] = "active" /\ itemIn' = [itemIn EXCEPT ![j] = d]
        /\ i # j => itemState'[i] = itemState[i]
    BY <1>2 DEF AddItem, MoveItem
  <2> QED BY <1>1, <2>1
<1>3. CASE CloseItem(j) \/ SkipTask(j)
  BY <1>1, <1>3 DEF CloseItem, SkipTask
<1>4. CASE ReopenItem(j) \/ OpenSkipped(j)
  BY <1>1, <1>4 DEF ReopenItem, OpenSkipped
<1> QED BY <1>2, <1>3, <1>4 DEF ItemRequest

(* Whoever closes a dossier asks for what is open in all that is closed. *)
LEMMA SkippedStep ==
  ASSUME TInv, ItemsIn, [Next]_vars
  PROVE  SkippedOnly
<1> SUFFICES ASSUME NEW i \in Items, OpenInClosed(i)', ~ OpenInClosed(i)
             PROVE  itemState[i] = "skipped"
  BY DEF SkippedOnly
<1>1. ASSUME NEW u \in Users, NEW j \in Items, ItemRequest(u, j)
      PROVE  itemState[i] = "skipped"
  BY <1>1, ItemRequestOpens
<1>2. ASSUME itemState[i] = "open", itemIn'[i] = itemIn[i] PROVE FALSE
  <2>1. is_open(itemIn[i]) /\ itemIn[i] \in Dossiers
    BY <1>2 DEF OpenInClosed, ItemsIn, ExistingItem
  <2>2. PICK x \in Dossiers : x = itemIn[i]
    BY <2>1
  <2>3. is_open(x) /\ ~ is_open(x)'
    BY <1>2, <2>1, <2>2 DEF OpenInClosed, is_open
  <2>4. \/ \E u \in Users, d \in Dossiers : /\ Resolve(u, d) \/ Deactivate(u, d)
                                           /\ x \in Tree(u, d)
        \/ \E d \in Dossiers : Destroy(d) /\ x \in Below(d)
    BY <2>3, WhatCloses
  <2>5. ASSUME NEW u \in Users, NEW d \in Dossiers, Resolve(u, d) \/ Deactivate(u, d)
        PROVE  x \notin Tree(u, d)
    BY <1>2, <2>2, <2>5 DEF Resolve, ResolveConditions, Deactivate, has_active_tasks,
                            has_active_proposals, has_active, Items
  <2>6. ASSUME NEW d \in Dossiers, Destroy(d), x \in Below(d) PROVE FALSE
    BY <2>2, <2>6 DEF Destroy, OpenInClosed
  <2> QED BY <2>4, <2>5, <2>6
<1>3. ASSUME UNCHANGED itemVars PROVE FALSE
  BY <1>2, <1>3 DEF itemVars, OpenInClosed
<1>4. ASSUME NEW u \in Users, NEW d \in Dossiers, DossierRequest(u, d) PROVE FALSE
  BY <1>3, <1>4 DEF DossierRequest, CreateDossier, MoveDossier, EditEnd, Resolve, Reactivate,
                    ReactivateFails, Deactivate, Activate, itemVars
<1>5. ASSUME NEW d \in Dossiers, DispositionStep(d) PROVE FALSE
  <2>1. CASE Destroy(d)
    BY <1>2, <2>1 DEF Destroy, OpenInClosed, TInv, TypeOK
  <2> QED BY <1>3, <1>5, <2>1 DEF DispositionStep, Offer, Retract, MarkArchived
<1>6. ASSUME NEW u \in Users, NEW doc \in Documents, DocumentRequest(u, doc) PROVE FALSE
  BY <1>3, <1>6
     DEF DocumentRequest, AddDocument, MoveDocument, DocumentStep, Checkout, Checkin,
         Trash, Untrash, Initialize
<1> QED BY <1>1, <1>3, <1>4, <1>5, <1>6 DEF Next, vars, itemVars

(* For any rights of whoever closes and moves, an open task or proposal    *)
(* comes to be in a closed dossier only when a skipped task is opened: no  *)
(* other request leaves one in the trees that resolve.py and deactivate.py *)
(* close.                                                                  *)
THEOREM OnlySkippedOpens == Spec => OnlySkippedOpensInClosed
<1>1. Init => TInv /\ ItemsIn
  BY TypeInit DEF Init, ItemsIn, ExistingItem
<1>2. TInv /\ ItemsIn /\ [Next]_vars => [SkippedOnly]_vars
  BY SkippedStep
<1> QED BY <1>1, <1>2, TypeStep, ItemsInStep, PTL
        DEF Spec, OnlySkippedOpensInClosed, SkippedOnly
-----------------------------------------------------------------------------
(* End dates.                                                              *)

(* The transitions that empty the end date reopen the dossier, but for a   *)
(* reactivation that fails at it.                                          *)
LEMMA EndStep ==
  ASSUME TInv, ResolvedHasEnd, [Next]_vars
  PROVE  ResolvedHasEnd'
<1> USE DEF TInv, TypeOK, ResolvedHasEnd, ReopenedByAll
<1>1. ASSUME NEW u \in Users, NEW d \in Dossiers, DossierRequest(u, d)
      PROVE  ResolvedHasEnd'
  <2>1. ASSUME NEW p \in Containers, CreateDossier(u, d, p) \/ MoveDossier(u, d, p)
        PROVE  ResolvedHasEnd'
    BY <2>1 DEF CreateDossier, MoveDossier
  <2>2. CASE EditEnd(u, d)
    BY <2>2 DEF EditEnd, is_open
  <2>3. CASE Resolve(u, d)
    BY <2>3 DEF Resolve
  <2>4. CASE Reactivate(u, d) \/ Activate(u, d)
    BY <2>4 DEF Reactivate, Activate, Reopened
  <2>5. ASSUME NEW f \in Dossiers, NEW done \in SUBSET Dossiers,
               ReactivateFails(u, d, f, done)
        PROVE  ResolvedHasEnd'
    BY <2>5 DEF ReactivateFails
  <2>6. CASE Deactivate(u, d)
    BY <2>6 DEF Deactivate
  <2> QED BY <1>1, <2>1, <2>2, <2>3, <2>4, <2>5, <2>6 DEF DossierRequest
<1>2. ASSUME NEW d \in Dossiers, DispositionStep(d) PROVE ResolvedHasEnd'
  BY <1>2 DEF DispositionStep, Offer, Retract, get_former_state, MarkArchived, Destroy,
              FormerOK
<1>3. ASSUME NEW u \in Users, NEW i \in Items, ItemRequest(u, i) PROVE ResolvedHasEnd'
  BY <1>3 DEF ItemRequest, AddItem, MoveItem, CloseItem, ReopenItem, SkipTask, OpenSkipped,
         dossierVars
<1>4. ASSUME NEW u \in Users, NEW doc \in Documents, DocumentRequest(u, doc)
      PROVE  ResolvedHasEnd'
  BY <1>4
     DEF DocumentRequest, AddDocument, MoveDocument, DocumentStep, Checkout, Checkin,
         Trash, Untrash, Initialize, dossierVars
<1>5. CASE UNCHANGED vars
  BY <1>5 DEF vars
<1> QED BY <1>1, <1>2, <1>3, <1>4, <1>5 DEF Next

(* Every resolved dossier that everybody may reopen can be offered once    *)
(* its retention period is over: resolve.py sets the end date, and what    *)
(* empties it reopens the dossier.                                         *)
THEOREM EndDates == Spec => []ResolvedHasEnd
<1>1. Init => TInv /\ ResolvedHasEnd
  BY TypeInit DEF Init, ResolvedHasEnd
<1>2. TInv /\ ResolvedHasEnd /\ [Next]_vars => (TInv /\ ResolvedHasEnd)'
  BY TypeStep, EndStep
<1> QED BY <1>1, <1>2, PTL DEF Spec

-----------------------------------------------------------------------------
(* Documents.                                                              *)

(* The query for checked out documents finds what is within reach of it    *)
(* from any dossier of the path.                                           *)
LEMMA FindsWithinReach ==
  ASSUME TInv, NEW u, NEW d \in Dossiers, NEW doc \in Documents,
         is_all_checked_in(u, d), docState[doc] = "out", WithinReach(doc)
  PROVE  DossierOf(doc) \notin Tree(u, d)
<1> DEFINE x == DossierOf(doc)
<1> SUFFICES ASSUME x \in Tree(u, d) PROVE DepthBelow(doc, d) <= 2
  BY DEF is_all_checked_in
<1>0. x \in Dossiers
  BY DEF WithinReach
<1>1. CASE x = d
  <2>1. Level(doc) <= 2
    BY DEF WithinReach, Level
  <2> QED BY <1>1, <2>1 DEF DepthBelow
<1>2. CASE x # d
  <2>1. d \in above[x]
    BY <1>2 DEF Tree, Visible, Below
  <2>2. parent[x] = d /\ Level(doc) = 1
    BY <2>1 DEF WithinReach
  <2> QED BY <1>0, <1>2, <2>2 DEF DepthBelow
<1> QED BY <1>1, <1>2

(* Resolving and deactivating leave documents where they are; destroying   *)
(* takes them.                                                             *)
LEMMA WhereDocumentsAre ==
  ASSUME NEW doc \in Documents,
         \/ \E u \in Users, d \in Dossiers : Resolve(u, d) \/ Deactivate(u, d)
         \/ \E d \in Dossiers : Destroy(d)
  PROVE  DossierOf(doc)' = DossierOf(doc)
  BY DEF Resolve, Deactivate, Destroy, DossierOf, itemVars, docVars

(* A document that is checked out stays in its dossier, or goes with its   *)
(* task into an open one.                                                  *)
LEMMA OpenWhereMoved ==
  ASSUME TInv, [Next]_vars, NEW doc \in Documents, DossierOf(doc) \in Dossiers,
         is_open(DossierOf(doc)), docState[doc] = "out", docState'[doc] = "out"
  PROVE  \/ DossierOf(doc)' = DossierOf(doc)
         \/ DossierOf(doc)' \in Dossiers /\ is_open(DossierOf(doc))'
<1> USE DEF TInv, TypeOK, DossierOf, is_open, Items
<1>1. ASSUME NEW u \in Users, NEW d \in Dossiers, DossierRequest(u, d)
      PROVE  DossierOf(doc)' = DossierOf(doc)
  BY <1>1 DEF DossierRequest, CreateDossier, MoveDossier, EditEnd, Resolve, Reactivate,
              ReactivateFails, Deactivate, Activate, itemVars, docVars
<1>2. ASSUME NEW d \in Dossiers, DispositionStep(d)
      PROVE  DossierOf(doc)' = DossierOf(doc)
  BY <1>2 DEF DispositionStep, Offer, Retract, MarkArchived, Destroy, itemVars, docVars
<1>3. ASSUME NEW u \in Users, NEW i \in Items, ItemRequest(u, i)
      PROVE  \/ DossierOf(doc)' = DossierOf(doc)
             \/ DossierOf(doc)' \in Dossiers /\ is_open(DossierOf(doc))'
  <2>1. UNCHANGED <<docIn, state>>
    BY <1>3 DEF ItemRequest, AddItem, MoveItem, CloseItem, ReopenItem, SkipTask, OpenSkipped,
         dossierVars, docVars
  <2>2. ASSUME NEW d \in Dossiers, AddItem(u, i, d) \/ MoveItem(u, i, d)
        PROVE  \/ DossierOf(doc)' = DossierOf(doc)
               \/ DossierOf(doc)' \in Dossiers /\ is_open(DossierOf(doc))'
    <3>1. is_open(d) /\ itemIn' = [itemIn EXCEPT ![i] = d]
      BY <2>2 DEF AddItem, MoveItem
    <3>2. CASE docIn[doc] = i /\ i \in Tasks
      BY <2>1, <3>1, <3>2
    <3>3. CASE docIn[doc] # i \/ i \notin Tasks
      BY <2>1, <3>1, <3>3
    <3> QED BY <3>2, <3>3
  <2>3. CASE CloseItem(i) \/ ReopenItem(i) \/ SkipTask(i) \/ OpenSkipped(i)
    BY <2>1, <2>3 DEF CloseItem, ReopenItem, SkipTask, OpenSkipped
  <2> QED BY <1>3, <2>2, <2>3 DEF ItemRequest
<1>4. ASSUME NEW u \in Users, NEW e \in Documents, DocumentRequest(u, e)
      PROVE  DossierOf(doc)' = DossierOf(doc)
  <2>1. UNCHANGED itemIn
    BY <1>4
       DEF DocumentRequest, AddDocument, MoveDocument, DocumentStep, Checkout, Checkin,
           Trash, Untrash, Initialize, itemVars
  <2>2. docIn'[doc] = docIn[doc]
    <3>1. ASSUME NEW c \in Dossiers \cup Tasks, AddDocument(u, e, c)
          PROVE  docIn'[doc] = docIn[doc]
      BY <3>1 DEF AddDocument
    <3>2. ASSUME NEW d \in Dossiers, MoveDocument(u, e, d) PROVE docIn'[doc] = docIn[doc]
      BY <3>2 DEF MoveDocument
    <3> QED BY <1>4, <3>1, <3>2
            DEF DocumentRequest, DocumentStep, Checkout, Checkin, Trash, Untrash, Initialize
  <2> QED BY <2>1, <2>2
<1>5. CASE UNCHANGED vars
  BY <1>5 DEF vars
<1> QED BY <1>1, <1>2, <1>3, <1>4, <1>5 DEF Next

(* A step that closes a dossier leaves no checked out document within      *)
(* reach of the query in it.                                               *)
LocksNothingIn ==
  \A doc \in Documents :
    WithinReach(doc) /\ is_open(DossierOf(doc))
      /\ docState[doc] = "out" /\ docState'[doc] = "out"
      => is_open(DossierOf(doc))'

(* Resolving and deactivating ask for what is within reach. *)
LEMMA LocksStep ==
  ASSUME TInv, [Next]_vars
  PROVE  LocksNothingIn
<1> SUFFICES ASSUME NEW doc \in Documents, WithinReach(doc), is_open(DossierOf(doc)),
                    docState[doc] = "out", docState'[doc] = "out",
                    ~ is_open(DossierOf(doc))'
             PROVE  FALSE
  BY DEF LocksNothingIn
<1> DEFINE x == DossierOf(doc)
<1>1. x \in Dossiers
  BY DEF WithinReach
<1>2. DossierOf(doc)' = DossierOf(doc)
  BY <1>1, OpenWhereMoved
<1>3. is_open(x) /\ state'[x] # "active"
  BY <1>2 DEF is_open
<1>4. PICK y \in Dossiers : y = x
  BY <1>1
<1>5. \/ \E u \in Users, d \in Dossiers : /\ Resolve(u, d) \/ Deactivate(u, d)
                                         /\ y \in Tree(u, d)
      \/ \E d \in Dossiers : Destroy(d) /\ y \in Below(d)
  <2>1. is_open(y) /\ ~ is_open(y)'
    BY <1>3, <1>4 DEF is_open
  <2> QED BY <2>1, WhatCloses
<1>6. ASSUME NEW u \in Users, NEW d \in Dossiers, Resolve(u, d) \/ Deactivate(u, d),
             x \in Tree(u, d)
      PROVE  FALSE
  <2>1. is_all_checked_in(u, d)
    BY <1>6 DEF Resolve, ResolveConditions, Deactivate
  <2> QED BY <1>6, <2>1, FindsWithinReach
<1>7. ASSUME NEW d \in Dossiers, Destroy(d), x \in Below(d) PROVE FALSE
  BY <1>7 DEF Destroy
<1> QED BY <1>4, <1>5, <1>6, <1>7

(* The depth of the query in is_all_checked_in is enough for main          *)
(* dossiers, their tasks and their direct subdossiers: no dossier is       *)
(* closed around such a document while it is checked out, for any rights   *)
(* of whoever closes it.                                                   *)
THEOREM CheckedOutStaysOpen == Spec => NoneLockedIn
<1>1. TInv /\ [Next]_vars => [LocksNothingIn]_vars
  BY LocksStep
<1> QED BY <1>1, TypeInit, TypeStep, PTL DEF Spec, NoneLockedIn, LocksNothingIn

(* A document is checked out in an open dossier, and by nothing else. *)
LEMMA WhereCheckedOut ==
  ASSUME TInv, [Next]_vars, NEW doc \in Documents, docState[doc] # "out",
         docState'[doc] = "out"
  PROVE  DossierOf(doc)' \in Dossiers /\ is_open(DossierOf(doc))'
<1> USE DEF TInv, TypeOK
<1>1. ASSUME NEW u \in Users, NEW d \in Dossiers, DossierRequest(u, d) PROVE FALSE
  <2>1. CASE Resolve(u, d)
    BY <2>1 DEF Resolve, AfterResolveJobs, Cleaned
  <2> QED BY <1>1, <2>1 DEF DossierRequest, CreateDossier, MoveDossier, EditEnd, Reactivate,
                            ReactivateFails, Deactivate, Activate, docVars
<1>2. ASSUME NEW d \in Dossiers, DispositionStep(d) PROVE FALSE
  BY <1>2 DEF DispositionStep, Offer, Retract, MarkArchived, Destroy, docVars
<1>3. ASSUME NEW u \in Users, NEW i \in Items, ItemRequest(u, i) PROVE FALSE
  BY <1>3 DEF ItemRequest, AddItem, MoveItem, CloseItem, ReopenItem, SkipTask, OpenSkipped, docVars
<1>4. ASSUME NEW u \in Users, NEW e \in Documents, DocumentRequest(u, e)
      PROVE  DossierOf(doc)' \in Dossiers /\ is_open(DossierOf(doc))'
  <2>1. ASSUME NEW c \in Dossiers \cup Tasks, AddDocument(u, e, c) PROVE FALSE
    BY <2>1 DEF AddDocument
  <2>2. ASSUME NEW d \in Dossiers, MoveDocument(u, e, d) PROVE FALSE
    BY <2>2 DEF MoveDocument
  <2>3. ASSUME NEW old, NEW new \in {"in", "out", "trashed"}, DocumentStep(u, e, old, new)
        PROVE  DossierOf(doc)' \in Dossiers /\ is_open(DossierOf(doc))'
    <3>1. e = doc /\ DossierOf(doc) \in Dossiers /\ is_open(DossierOf(doc))
      BY <2>3 DEF DocumentStep
    <3>2. DossierOf(doc)' = DossierOf(doc) /\ state' = state
      BY <2>3 DEF DocumentStep, DossierOf, dossierVars, itemVars
    <3> QED BY <3>1, <3>2 DEF is_open
  <2> QED BY <1>4, <2>1, <2>2, <2>3
          DEF DocumentRequest, Checkout, Checkin, Trash, Untrash, Initialize
<1>5. ~ UNCHANGED vars
  BY DEF vars
<1> QED BY <1>1, <1>2, <1>3, <1>4, <1>5 DEF Next

(* The query for checked out documents, if its depth were not limited.     *)
WholeQuery ==
  \A u \in Users, d \in Dossiers :
    Resolve(u, d) \/ Deactivate(u, d) =>
      \A doc \in Documents : docState[doc] = "out" => DossierOf(doc) \notin Tree(u, d)

(* Every checked out document is in an open dossier. *)
OutInOpen ==
  \A doc \in Documents :
    docState[doc] = "out" => DossierOf(doc) \in Dossiers /\ is_open(DossierOf(doc))

(* Then no document is locked in, at whatever depth and with whatever      *)
(* rights: the depth of the query in is_all_checked_in is the only way to  *)
(* close a dossier around a checked out document.                          *)
THEOREM WholeQueryLocksNothingIn ==
  Init /\ [][Next /\ WholeQuery]_vars => []NoCheckedOutInClosed
<1> DEFINE Inv == TInv /\ OutInOpen
<1>1. Init => Inv
  BY TypeInit DEF Init, OutInOpen
<1>2. Inv /\ [Next /\ WholeQuery]_vars => Inv'
  <2> SUFFICES ASSUME Inv, [Next /\ WholeQuery]_vars PROVE OutInOpen'
    BY TypeStep
  <2>0. TInv /\ [Next]_vars
    OBVIOUS
  <2> SUFFICES ASSUME NEW doc \in Documents, docState'[doc] = "out"
               PROVE  DossierOf(doc)' \in Dossiers /\ is_open(DossierOf(doc))'
    BY DEF OutInOpen, DossierOf, is_open
  <2>1. CASE docState[doc] # "out"
    BY <2>0, <2>1, WhereCheckedOut
  <2>2. CASE docState[doc] = "out"
    <3> DEFINE x == DossierOf(doc)
    <3>1. x \in Dossiers /\ is_open(x)
      BY <2>2 DEF OutInOpen
    <3>2. CASE DossierOf(doc)' \in Dossiers /\ is_open(DossierOf(doc))'
      BY <3>2
    <3>3. CASE DossierOf(doc)' = x /\ state'[x] # "active"
      <4>1. PICK y \in Dossiers : y = x
        BY <3>1
      <4>2. is_open(y) /\ ~ is_open(y)'
        BY <3>1, <3>3, <4>1 DEF is_open
      <4>3. \/ \E u \in Users, d \in Dossiers : /\ Resolve(u, d) \/ Deactivate(u, d)
                                               /\ y \in Tree(u, d)
            \/ \E d \in Dossiers : Destroy(d) /\ y \in Below(d)
        BY <2>0, <4>2, WhatCloses
      <4>4. WholeQuery
        BY <4>2 DEF vars, is_open
      <4>5. ASSUME NEW d \in Dossiers, Destroy(d), x \in Below(d) PROVE FALSE
        BY <4>5 DEF Destroy
      <4> QED BY <2>2, <4>1, <4>3, <4>4, <4>5 DEF WholeQuery
    <3>4. CASE DossierOf(doc)' = x /\ state'[x] = "active"
      BY <3>1, <3>4 DEF is_open
    <3> QED BY <2>0, <2>2, <3>1, <3>2, <3>3, <3>4, OpenWhereMoved
  <2> QED BY <2>1, <2>2
<1>3. Inv => NoCheckedOutInClosed
  BY DEF OutInOpen, NoCheckedOutInClosed
<1> QED BY <1>1, <1>2, <1>3, PTL

(* What the after-resolve jobs delete lies in a tree that was resolved     *)
(* whole.                                                                  *)
LEMMA ResolveDeletes ==
  ASSUME PInv, NEW u \in Users, NEW d \in Dossiers, Below(d) \subseteq Visible(u, d),
         Resolve(u, d), NEW doc \in Documents,
         docState[doc] # "gone", docState'[doc] = "gone"
  PROVE  ~ is_open(DossierOf(doc))'
<1> DEFINE x == DossierOf(doc)
<1> DEFINE resolved == {y \in Tree(u, d) : is_open(y)}
<1>1. x \in resolved \cup UNION {Below(y) : y \in resolved}
  BY DEF Resolve, AfterResolveJobs, Cleaned
<1>2. x \in Dossiers
  BY <1>1 DEF Tree, Visible, Below
<1>3. PICK y \in Tree(u, d) : x = y \/ x \in Below(y)
  BY <1>1
<1>4. y = d \/ d \in above[y]
  BY DEF Tree, Visible, Below
<1>5. x = d \/ d \in above[x]
  BY <1>2, <1>3, <1>4 DEF Below, PInv, PathInv
<1>6. x \in Tree(u, d)
  BY <1>2, <1>5 DEF Tree, Visible, Below
<1>7. state'[x] # "active"
  BY <1>2, <1>6 DEF Resolve, is_open
<1>8. DossierOf(doc)' = DossierOf(doc)
  BY WhereDocumentsAre
<1> QED BY <1>7, <1>8 DEF is_open

(* A step deletes no document in a dossier that is open after it. *)
DeletesWhatIsClosed ==
  \A doc \in Documents :
    docState[doc] # "gone" /\ docState'[doc] = "gone" => ~ is_open(DossierOf(doc))'

(* Documents are deleted by a resolve, or with the dossier they are in. *)
LEMMA DeletesStep ==
  ASSUME \A u \in Users, d \in Dossiers : Resolve(u, d) => Below(d) \subseteq Visible(u, d),
         PInv, [Next]_vars
  PROVE  DeletesWhatIsClosed
<1> SUFFICES ASSUME NEW doc \in Documents, docState[doc] # "gone",
                    docState'[doc] = "gone"
             PROVE  ~ is_open(DossierOf(doc))'
  BY DEF DeletesWhatIsClosed
<1> USE DEF PInv, TInv, TypeOK
<1>1. ASSUME NEW u \in Users, NEW d \in Dossiers, DossierRequest(u, d)
      PROVE  Resolve(u, d)
  BY <1>1 DEF DossierRequest, CreateDossier, MoveDossier, EditEnd, Reactivate,
              ReactivateFails, Deactivate, Activate, docVars
<1>2. ASSUME NEW d \in Dossiers, DispositionStep(d) PROVE ~ is_open(DossierOf(doc))'
  <2>1. Destroy(d)
    BY <1>2 DEF DispositionStep, Offer, Retract, MarkArchived, docVars
  <2>2. DossierOf(doc) \in {d} \cup Below(d)
    BY <2>1 DEF Destroy
  <2>3. DossierOf(doc) \in Dossiers
    BY <2>2 DEF Below
  <2>4. state'[DossierOf(doc)] = "destroyed"
    BY <2>1, <2>2, <2>3 DEF Destroy
  <2>5. DossierOf(doc)' = DossierOf(doc)
    BY <2>1, WhereDocumentsAre
  <2> QED BY <2>4, <2>5 DEF is_open
<1>3. ASSUME NEW u \in Users, NEW i \in Items, ItemRequest(u, i) PROVE FALSE
  BY <1>3 DEF ItemRequest, AddItem, MoveItem, CloseItem, ReopenItem, SkipTask, OpenSkipped, docVars
<1>4. ASSUME NEW u \in Users, NEW e \in Documents, DocumentRequest(u, e) PROVE FALSE
  <2>1. ASSUME NEW c \in Dossiers \cup Tasks, AddDocument(u, e, c) PROVE FALSE
    BY <2>1 DEF AddDocument
  <2>2. ASSUME NEW old, NEW new \in {"in", "out", "trashed"},
               DocumentStep(u, e, old, new)
        PROVE  FALSE
    BY <2>2 DEF DocumentStep
  <2>3. ASSUME NEW d \in Dossiers, MoveDocument(u, e, d) PROVE FALSE
    BY <2>3 DEF MoveDocument
  <2> QED BY <1>4, <2>1, <2>2, <2>3
          DEF DocumentRequest, Checkout, Checkin, Trash, Untrash, Initialize
<1>5. CASE UNCHANGED vars
  BY <1>5 DEF vars
<1> QED BY <1>1, <1>2, <1>3, <1>4, <1>5, ResolveDeletes DEF Next

(* Without the night jobs nothing is deleted in an open dossier: the purge *)
(* of AfterResolveJobs at the resolve, the deletion of an archived tree,   *)
(* and nothing else takes documents, when whoever resolves sees the whole  *)
(* tree.                                                                   *)
THEOREM DeletedInClosed ==
  ASSUME Users \X Dossiers \subseteq Sees
  PROVE  Spec => DeletesOnlyInClosed
<1>1. PInv /\ [Next]_vars => [DeletesWhatIsClosed]_vars
  BY DeletesStep DEF Visible, Below
<1> QED BY <1>1, PathInvariant, PTL DEF Spec, DeletesOnlyInClosed, DeletesWhatIsClosed
=============================================================================
