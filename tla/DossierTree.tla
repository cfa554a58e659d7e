---------------------------- MODULE DossierTree ----------------------------
(***************************************************************************)
(* The dossier tree of opengever.dossier: main dossiers in the repository, *)
(* subdossiers below them, and the tasks, proposals and documents whose    *)
(* states decide whether a dossier may be closed.  One action is one       *)
(* request: it runs in one ZODB transaction, and an exception that leaves  *)
(* the view aborts it, so a refused request is a step that is not taken.   *)
(*                                                                         *)
(* Abstracted: dates (only whether an end date is set), titles, journal    *)
(* and PDF documents.  A document hangs directly in a dossier or in a      *)
(* task; a task at depth n stands for its chain of parent tasks, which     *)
(* moves with it.                                                          *)
(***************************************************************************)
EXTENDS Naturals, FiniteSets

CONSTANTS
  Dossiers, Tasks, Proposals, Documents, Users,
  Repository,          \* the repository folder main dossiers live in
  None,                \* no value
  MaxDepth,            \* maximum_dossier_depth, levels of subdossiers
  TaskDepth,           \* levels between a task and its dossier, 1 = top level
  Sees,                \* <<user, dossier>>: may view it and change its state
  MayReopen,           \* <<user, dossier>>: Publisher or Administrator on it
  Nightly,             \* the nightly jobs feature is enabled
  PurgeTrash,          \* purge_trash_enabled
  Strict               \* StrictDossierResolver, else the lenient one

ASSUME NamesDisjoint == /\ Dossiers \cap Tasks = {}
                        /\ Repository \notin Dossiers
                        /\ None \notin {"resolved", "inactive"}
ASSUME DepthAssumption == TaskDepth \in [Tasks -> Nat \ {0}]
ASSUME MaxDepthAssumption == MaxDepth \in Nat
ASSUME FlagsAssumption == {Nightly, PurgeTrash, Strict} \subseteq BOOLEAN

VARIABLES
  state,      \* review_state of every dossier, "none" before it exists
  parent,     \* the container of a dossier
  above,      \* every dossier on its physical path
  former,     \* the last end state in its workflow history
  hasEnd,     \* IDossier(dossier).end is set
  pending,    \* after_resolve_jobs_pending
  itemState,  \* "none", "open", "closed", "gone", and "skipped" for tasks
  itemIn,     \* the dossier they are in
  docState,   \* documents: "none", "in", "out", "trashed", "shadow", "gone"
  docIn       \* the dossier or task they are in

dossierVars == <<state, parent, above, former, hasEnd, pending>>
itemVars == <<itemState, itemIn>>
docVars == <<docState, docIn>>
vars == <<state, parent, above, former, hasEnd, pending,
          itemState, itemIn, docState, docIn>>

Items == Tasks \cup Proposals
ExistingItem == {"open", "closed", "skipped"}
DossierStates == {"none", "active", "inactive", "resolved", "offered",
                  "archived", "destroyed"}
Existing == {"active", "inactive", "resolved", "offered", "archived"}
Closed == {"inactive", "resolved", "offered", "archived"}
Containers == Dossiers \cup {Repository}

TypeOK ==
  /\ state \in [Dossiers -> DossierStates]
  /\ parent \in [Dossiers -> Containers]
  /\ above \in [Dossiers -> SUBSET Dossiers]
  /\ former \in [Dossiers -> {None, "resolved", "inactive"}]
  /\ hasEnd \in [Dossiers -> BOOLEAN]
  /\ pending \in [Dossiers -> BOOLEAN]
  /\ itemState \in [Items -> {"none", "gone"} \cup ExistingItem]
  /\ itemIn \in [Items -> Containers]
  /\ docState \in [Documents -> {"none", "in", "out", "trashed", "shadow", "gone"}]
  /\ docIn \in [Documents -> Containers \cup Tasks]

-----------------------------------------------------------------------------
(* The queries the views make against the catalog.                         *)

\* get_subdossiers(unrestricted=True): everything on a path below d.
Below(d) == {x \in Dossiers : d \in above[x]}
\* get_subdossiers(): of these, the ones the user may view.
Visible(u, d) == {x \in Below(d) : <<u, x>> \in Sees}
\* Mutant: get_subdossiers with depth 1.
TreeMutant(u, d) == {d} \cup {x \in Visible(u, d) : parent[x] = d}
Tree(u, d) == {d} \cup Visible(u, d)

is_open(d) == state[d] = "active"
is_subdossier(d) == parent[d] # Repository

DossierOf(doc) == IF docIn[doc] \in Tasks THEN itemIn[docIn[doc]] ELSE docIn[doc]
\* How many path levels below its dossier a document is.
Level(doc) == IF docIn[doc] \in Tasks THEN 1 + TaskDepth[docIn[doc]] ELSE 1
\* How many path levels below dossier d it is, as far as a query of depth 2
\* can tell: 3 stands for everything deeper.
DepthBelow(doc, d) ==
  IF DossierOf(doc) = d THEN Level(doc)
  ELSE IF DossierOf(doc) \in Dossiers /\ parent[DossierOf(doc)] = d
       THEN 1 + Level(doc) ELSE 3

\* Mutant: the query does not go into subdossiers.
has_activeMutant(u, d, kind) ==
  \E i \in kind : itemState[i] = "open" /\ itemIn[i] = d
has_active(u, d, kind) ==
  \E i \in kind : itemState[i] = "open" /\ itemIn[i] \in Tree(u, d)
has_active_tasks(u, d) == has_active(u, d, Tasks)
has_active_proposals(u, d) == has_active(u, d, Proposals)

\* Mutant: the query has depth 1.
is_all_checked_inMutant(u, d) ==
  ~ \E doc \in Documents : docState[doc] = "out" /\ docIn[doc] = d

\* The catalog query has depth 2, counted from the dossier.
is_all_checked_in(u, d) ==
  ~ \E doc \in Documents : /\ docState[doc] = "out"
                           /\ DossierOf(doc) \in Tree(u, d)
                           /\ DepthBelow(doc, d) <= 2

is_all_supplied(u, d) ==
  (\E s \in Visible(u, d) : parent[s] = d /\ state[s] # "inactive") =>
    /\ \A t \in Tasks : ~ (itemState[t] \in ExistingItem
                           /\ itemIn[t] = d /\ TaskDepth[t] = 1)
    /\ \A doc \in Documents : ~ (docState[doc] \in {"in", "out"} /\ docIn[doc] = d)

-----------------------------------------------------------------------------
Init ==
  /\ state = [d \in Dossiers |-> "none"]
  /\ parent = [d \in Dossiers |-> Repository]
  /\ above = [d \in Dossiers |-> {}]
  /\ former = [d \in Dossiers |-> None]
  /\ hasEnd = [d \in Dossiers |-> FALSE]
  /\ pending = [d \in Dossiers |-> FALSE]
  /\ itemState = [i \in Items |-> "none"]
  /\ itemIn = [i \in Items |-> Repository]
  /\ docState = [doc \in Documents |-> "none"]
  /\ docIn = [doc \in Documents |-> Repository]

\* Mutant: inactive dossiers grant the add permissions too.
MayAddToMutant(u, p) ==
  p \in Dossiers => state[p] \in {"active", "inactive"} /\ <<u, p>> \in Sees
\* The add and modify permissions are granted in the active state only.
MayAddTo(u, p) == p \in Dossiers => state[p] = "active" /\ <<u, p>> \in Sees
PathTo(p) == IF p \in Dossiers THEN above[p] \cup {p} ELSE {}

CreateDossier(u, d, p) ==
  /\ state[d] = "none" /\ p # d /\ MayAddTo(u, p)
  /\ Cardinality(PathTo(p)) <= MaxDepth
  /\ state' = [state EXCEPT ![d] = "active"]
  /\ parent' = [parent EXCEPT ![d] = p]
  /\ above' = [above EXCEPT ![d] = PathTo(p)]
  /\ UNCHANGED <<former, hasEnd, pending, itemVars, docVars>>

\* Mutant: what is below the moved dossier is not reindexed.
MoveDossierMutant(u, d, p) ==
  /\ state[d] \in Existing /\ <<u, d>> \in Sees
  /\ p \notin {d} \cup Below(d) /\ MayAddTo(u, p)
  /\ parent' = [parent EXCEPT ![d] = p]
  /\ above' = [above EXCEPT ![d] = PathTo(p)]
  /\ UNCHANGED <<state, former, hasEnd, pending, itemVars, docVars>>

\* Cut and paste: neither a permission on the old container nor the state of d
\* is asked for, nor the depth of what is below it, and all of it gets a new
\* path.
MoveDossier(u, d, p) ==
  /\ state[d] \in Existing /\ <<u, d>> \in Sees
  /\ p \notin {d} \cup Below(d) /\ MayAddTo(u, p)
  /\ parent' = [parent EXCEPT ![d] = p]
  /\ above' = [x \in Dossiers |->
                 IF x \in {d} \cup Below(d)
                 THEN (above[x] \ above[d]) \cup PathTo(p) ELSE above[x]]
  /\ UNCHANGED <<state, former, hasEnd, pending, itemVars, docVars>>

\* The edit form of an open dossier lets the end date be set or emptied.
EditEnd(u, d) ==
  /\ is_open(d) /\ <<u, d>> \in Sees
  /\ \E set \in BOOLEAN : hasEnd' = [hasEnd EXCEPT ![d] = set]
  /\ UNCHANGED <<state, parent, above, former, pending, itemVars, docVars>>

-----------------------------------------------------------------------------
(* Resolving.                                                              *)

\* AfterResolveJobs.execute for the dossiers in ds: shadowed documents go,
\* and trashed ones the caller can find; the PDFs are not modelled.
Cleaned(ds, seen) ==
  [doc \in Documents |->
    IF /\ DossierOf(doc) \in ds \cup UNION {Below(d) : d \in ds}
       /\ \/ docState[doc] = "shadow"
          \/ PurgeTrash /\ docState[doc] = "trashed" /\ DossierOf(doc) \in seen
    THEN "gone" ELSE docState[doc]]

\* execute(nightly_run=False), called by the workflow for every dossier it
\* resolves: deferred to the night when the feature is on.
AfterResolveJobs(u, ds) ==
  /\ pending' = [d \in Dossiers |-> IF d \in ds THEN Nightly ELSE pending[d]]
  /\ docState' = IF Nightly THEN docState
                 ELSE Cleaned(ds, {d \in Dossiers : <<u, d>> \in Sees})

ResolveConditions(u, d) ==
  /\ is_open(d)
  /\ Strict /\ ~ is_subdossier(d) => is_all_supplied(u, d)
  /\ is_all_checked_in(u, d)
  /\ ~ has_active_tasks(u, d)
  /\ ~ has_active_proposals(u, d)

\* Invalid end dates refuse the request too; they are a choice not to step.
Resolve(u, d) ==
  LET resolved == {x \in Tree(u, d) : is_open(x)} IN
  /\ <<u, d>> \in Sees /\ ResolveConditions(u, d)
  /\ state' = [x \in Dossiers |-> IF x \in resolved THEN "resolved" ELSE state[x]]
  /\ former' = [x \in Dossiers |-> IF x \in resolved THEN "resolved" ELSE former[x]]
  /\ hasEnd' = [x \in Dossiers |-> hasEnd[x] \/ x \in Tree(u, d)]
  /\ AfterResolveJobs(u, resolved)
  /\ UNCHANGED <<parent, above, itemVars, docIn>>

-----------------------------------------------------------------------------
(* Reactivating, deactivating, activating.                                 *)

ParentIsOpen(d) == parent[d] \in Dossiers => is_open(parent[d])

Reopened(ds) ==
  /\ state' = [x \in Dossiers |-> IF x \in ds THEN "active" ELSE state[x]]
  /\ hasEnd' = [x \in Dossiers |-> hasEnd[x] /\ x \notin ds]

ToReactivate(u, d) == {x \in Tree(u, d) : state[x] = "resolved"}

Reactivate(u, d) ==
  /\ <<u, d>> \in Sees /\ state[d] = "resolved" /\ ParentIsOpen(d)
  /\ \A x \in ToReactivate(u, d) : <<u, x>> \in MayReopen
  /\ Reopened(ToReactivate(u, d))
  /\ UNCHANGED <<parent, above, former, pending, itemVars, docVars>>

\* The REST API turns the WorkflowException of a subdossier f the user may not
\* reactivate into an answer with status 400 and commits: the subdossiers that
\* came before f stay active, and f has lost its end date.
ReactivateFails(u, d, f, done) ==
  LET all == ToReactivate(u, d) IN
  /\ <<u, d>> \in Sees /\ state[d] = "resolved" /\ ParentIsOpen(d)
  /\ <<u, d>> \in MayReopen
  /\ f \in all /\ <<u, f>> \notin MayReopen
  /\ done \subseteq {x \in all : <<u, x>> \in MayReopen}
  /\ \A x \in done \cup {f} : Below(x) \cap all \subseteq done
  /\ f \notin UNION {Below(x) : x \in done}
  /\ state' = [x \in Dossiers |-> IF x \in done THEN "active" ELSE state[x]]
  /\ hasEnd' = [x \in Dossiers |-> hasEnd[x] /\ x \notin done \cup {f}]
  /\ UNCHANGED <<parent, above, former, pending, itemVars, docVars>>

Deactivate(u, d) ==
  LET deactivated == {x \in Tree(u, d) : state[x] # "inactive"} IN
  /\ <<u, d>> \in Sees /\ is_open(d)
  /\ is_all_checked_in(u, d)
  /\ ~ has_active_proposals(u, d)
  /\ \A x \in Below(d) : state[x] = "inactive" \/ (is_open(x) /\ <<u, x>> \in Sees)
  /\ ~ has_active_tasks(u, d)
  /\ state' = [x \in Dossiers |-> IF x \in deactivated THEN "inactive" ELSE state[x]]
  /\ former' = [x \in Dossiers |-> IF x \in deactivated THEN "inactive" ELSE former[x]]
  /\ hasEnd' = [hasEnd EXCEPT ![d] = TRUE]
  /\ UNCHANGED <<parent, above, pending, itemVars, docVars>>

\* One visible subdossier that is not inactive makes the request fail.
Activate(u, d) ==
  /\ <<u, d>> \in Sees
  /\ ParentIsOpen(d)
  /\ \A x \in Tree(u, d) : state[x] = "inactive" /\ <<u, x>> \in MayReopen
  /\ Reopened(Tree(u, d))
  /\ UNCHANGED <<parent, above, former, pending, itemVars, docVars>>

-----------------------------------------------------------------------------
(* What a disposition does to its dossiers.                                *)

\* Mutant: the retention period is not asked for.
OfferMutant(d) ==
  /\ state[d] \in {"resolved", "inactive"}
  /\ state' = [state EXCEPT ![d] = "offered"]
  /\ UNCHANGED <<parent, above, former, hasEnd, pending, itemVars, docVars>>

\* The field of a disposition admits subdossiers as well as main dossiers.
Offer(d) ==
  /\ state[d] \in {"resolved", "inactive"} /\ hasEnd[d]
  /\ state' = [state EXCEPT ![d] = "offered"]
  /\ UNCHANGED <<parent, above, former, hasEnd, pending, itemVars, docVars>>

\* Mutant: only resolving is looked for in the workflow history.
get_former_stateMutant(d) == IF former[d] = "resolved" THEN former[d] ELSE None
\* The last end state in the workflow history.
get_former_state(d) == former[d]

Retract(d) ==
  /\ state[d] = "offered"
  /\ state' = [state EXCEPT ![d] = get_former_state(d)]
  /\ UNCHANGED <<parent, above, former, hasEnd, pending, itemVars, docVars>>

MarkArchived(d) ==
  /\ state[d] = "offered"
  /\ state' = [state EXCEPT ![d] = "archived"]
  /\ UNCHANGED <<parent, above, former, hasEnd, pending, itemVars, docVars>>

\* Deleting a dossier deletes everything in it, in whatever state.
Destroy(d) ==
  LET gone == {d} \cup Below(d) IN
  /\ state[d] = "archived"
  /\ state' = [x \in Dossiers |-> IF x \in gone THEN "destroyed" ELSE state[x]]
  /\ parent' = [x \in Dossiers |-> IF x \in gone THEN Repository ELSE parent[x]]
  /\ above' = [x \in Dossiers |-> IF x \in gone THEN {} ELSE above[x]]
  /\ former' = [x \in Dossiers |-> IF x \in gone THEN None ELSE former[x]]
  /\ hasEnd' = [x \in Dossiers |-> hasEnd[x] /\ x \notin gone]
  /\ pending' = [x \in Dossiers |-> pending[x] /\ x \notin gone]
  /\ itemState' = [i \in Items |-> IF itemIn[i] \in gone THEN "gone" ELSE itemState[i]]
  /\ docState' = [doc \in Documents |->
                   IF DossierOf(doc) \in gone THEN "gone" ELSE docState[doc]]
  /\ UNCHANGED <<itemIn, docIn>>
-----------------------------------------------------------------------------
(* Tasks and proposals, as far as closing a dossier depends on them:       *)
(* "open" stands for the states the catalog query asks for.                *)

AddItem(u, i, d) ==
  /\ itemState[i] = "none" /\ is_open(d) /\ <<u, d>> \in Sees
  /\ itemState' = [itemState EXCEPT ![i] = "open"]
  /\ itemIn' = [itemIn EXCEPT ![i] = d]
  /\ UNCHANGED <<dossierVars, docVars>>

\* Closing asks for roles on the task, not for an open dossier.
CloseItem(i) ==
  /\ itemState[i] = "open"
  /\ itemState' = [itemState EXCEPT ![i] = "closed"]
  /\ UNCHANGED <<dossierVars, itemIn, docVars>>

\* cancelled-open of a task, reactivate of a proposal.
ReopenItem(i) ==
  /\ itemState[i] = "closed" /\ is_open(itemIn[i])
  /\ itemState' = [itemState EXCEPT ![i] = "open"]
  /\ UNCHANGED <<dossierVars, itemIn, docVars>>

\* rejected-skipped of a task in a sequential process.
SkipTask(t) ==
  /\ t \in Tasks /\ itemState[t] = "open"
  /\ itemState' = [itemState EXCEPT ![t] = "skipped"]
  /\ UNCHANGED <<dossierVars, itemIn, docVars>>

\* skipped-open asks for the issuer only, not for the state of the dossier.
OpenSkipped(t) ==
  /\ itemState[t] = "skipped"
  /\ itemState' = [itemState EXCEPT ![t] = "open"]
  /\ UNCHANGED <<dossierVars, itemIn, docVars>>

MoveItem(u, i, d) ==
  /\ itemState[i] \in ExistingItem /\ itemIn[i] # d
  /\ <<u, itemIn[i]>> \in Sees /\ is_open(d) /\ <<u, d>> \in Sees
  /\ itemIn' = [itemIn EXCEPT ![i] = d]
  /\ UNCHANGED <<dossierVars, itemState, docVars>>

-----------------------------------------------------------------------------
(* Documents.                                                              *)

\* A rejected or cancelled task lets documents be added in a closed dossier;
\* documents in the shadow state are made in dossiers only.
AddDocument(u, doc, c) ==
  /\ docState[doc] = "none"
  /\ IF c \in Tasks THEN itemState[c] \in {"open", "closed"} /\ <<u, itemIn[c]>> \in Sees
     ELSE c \in Dossiers /\ MayAddTo(u, c)
  /\ \E s \in IF c \in Tasks THEN {"in"} ELSE {"in", "shadow"} :
       docState' = [docState EXCEPT ![doc] = s]
  /\ docIn' = [docIn EXCEPT ![doc] = c]
  /\ UNCHANGED <<dossierVars, itemVars>>

\* The document permissions come from the dossier, which grants them when open.
DocumentStep(u, doc, old, new) ==
  /\ docState[doc] = old /\ <<u, DossierOf(doc)>> \in Sees
  /\ DossierOf(doc) \in Dossiers /\ is_open(DossierOf(doc))
  /\ docState' = [docState EXCEPT ![doc] = new]
  /\ UNCHANGED <<dossierVars, itemVars, docIn>>
Checkout(u, doc) == DocumentStep(u, doc, "in", "out")
Checkin(u, doc) == DocumentStep(u, doc, "out", "in")
Trash(u, doc) == DocumentStep(u, doc, "in", "trashed")
Untrash(u, doc) == DocumentStep(u, doc, "trashed", "in")
Initialize(u, doc) == DocumentStep(u, doc, "shadow", "in")

\* A checked out document cannot be pasted, one in a task is not movable.
MoveDocument(u, doc, d) ==
  /\ docState[doc] = "in" /\ docIn[doc] \in Dossiers \ {d}
  /\ <<u, docIn[doc]>> \in Sees /\ is_open(d) /\ <<u, d>> \in Sees
  /\ docIn' = [docIn EXCEPT ![doc] = d]
  /\ UNCHANGED <<dossierVars, itemVars, docState>>

-----------------------------------------------------------------------------
DossierRequest(u, d) ==
  \/ \E p \in Containers : CreateDossier(u, d, p) \/ MoveDossier(u, d, p)
  \/ EditEnd(u, d)
  \/ Resolve(u, d)
  \/ Reactivate(u, d)
  \/ \E f \in Dossiers, done \in SUBSET Dossiers : ReactivateFails(u, d, f, done)
  \/ Deactivate(u, d)
  \/ Activate(u, d)

DispositionStep(d) == Offer(d) \/ Retract(d) \/ MarkArchived(d) \/ Destroy(d)

ItemRequest(u, i) ==
  \/ \E d \in Dossiers : AddItem(u, i, d) \/ MoveItem(u, i, d)
  \/ CloseItem(i) \/ ReopenItem(i) \/ SkipTask(i) \/ OpenSkipped(i)

DocumentRequest(u, doc) ==
  \/ \E c \in Dossiers \cup Tasks : AddDocument(u, doc, c)
  \/ Checkout(u, doc) \/ Checkin(u, doc)
  \/ Trash(u, doc) \/ Untrash(u, doc) \/ Initialize(u, doc)
  \/ \E d \in Dossiers : MoveDocument(u, doc, d)

Next ==
  \/ \E u \in Users, d \in Dossiers : DossierRequest(u, d)
  \/ \E d \in Dossiers : DispositionStep(d)
  \/ \E u \in Users, i \in Items : ItemRequest(u, i)
  \/ \E u \in Users, doc \in Documents : DocumentRequest(u, doc)

Spec == Init /\ [][Next]_vars

-----------------------------------------------------------------------------
(* Properties.                                                             *)

(* The path index agrees with the containers, however dossiers are moved:  *)
(* the recursive views find exactly the dossiers that are below.           *)
PathsAgree ==
  \A d \in Dossiers :
    /\ above[d] = PathTo(parent[d])
    /\ d \notin above[d]
    /\ parent[d] \in Dossiers => state[parent[d]] \in Existing

\* The dossier is not protected from anybody.
SeenByAll(d) == \A u \in Users : <<u, d>> \in Sees
\* In the hands of a disposition.
IsHeld(d) == state[d] \in {"offered", "archived"}
\* Inactive, or offered from there.
IsInactive(d) == former[d] = "inactive" /\ (state[d] = "inactive" \/ IsHeld(d))
ActiveInClosed(d) == is_open(d) /\ is_subdossier(d) /\ ~ is_open(parent[d])
\* The REST API commits a reactivation that fails at a subdossier.
HalfReactivation ==
  \E u \in Users, d, f \in Dossiers, done \in SUBSET Dossiers : ReactivateFails(u, d, f, done)

(* Nothing is open below a dossier that is closed: the user manual has a   *)
(* subdossier reopened only after its main dossier.  The code does not     *)
(* keep to it, see the run half_open.                                      *)
NoActiveInClosed ==
  \A d \in Dossiers : ~ ActiveInClosed(d)

(* Resolve, deactivate, reactivate and activate walk a tree, which moves,  *)
(* offers and other walks have changed before.  A dossier gets to be       *)
(* active in a closed one by the gaps of these walks and by nothing else:  *)
(* it is reactivated past a dossier that a disposition holds, it or its    *)
(* container is protected from somebody, or the walk fails and is          *)
(* committed.                                                              *)
OnlyGapsLeaveActive ==
  [][\A d \in Dossiers :
       ActiveInClosed(d)' /\ ~ ActiveInClosed(d) =>
         \/ state[d] = "resolved" /\ IsHeld(parent'[d])
         \/ ~ SeenByAll(d) \/ ~ SeenByAll(parent'[d])
         \/ HalfReactivation]_vars

(* An open task or proposal gets into a closed dossier, by a step of its   *)
(* own or because the dossier is closed around it, in one way only,        *)
(* whatever rights there are: a skipped task is opened.                    *)
OpenInClosed(i) == itemState[i] = "open" /\ ~ is_open(itemIn[i])
OnlySkippedOpensInClosed ==
  [][\A i \in Items :
       OpenInClosed(i)' /\ ~ OpenInClosed(i) => itemState[i] = "skipped"]_vars

(* Below an inactive dossier everything is inactive, or was when it was    *)
(* offered, unless the inactive dossier is protected from somebody:        *)
(* activating it, which fails on the first subdossier in another state, is *)
(* possible once the offers are retracted.                                 *)
InactiveTree ==
  \A d \in Dossiers :
    is_subdossier(d) /\ SeenByAll(parent[d]) /\ IsInactive(parent[d]) => IsInactive(d)

\* Nobody lacks the right to reactivate it.
ReopenedByAll(d) == \A u \in Users : <<u, d>> \in MayReopen

(* A dossier that is resolved or was offered from there has an end date:   *)
(* the retention period, and with it every offer, is computed from it.     *)
(* Left out are dossiers somebody may not reactivate: a reactivation that  *)
(* fails at one over the REST API empties the end date and is committed.   *)
ResolvedHasEnd ==
  \A d \in Dossiers :
    ReopenedByAll(d) /\ state[d] \in {"resolved", "offered", "archived"} => hasEnd[d]

(* No document is checked out in a closed dossier, where it could not be   *)
(* checked in again.                                                       *)
NoCheckedOutInClosed ==
  \A doc \in Documents :
    docState[doc] = "out" /\ DossierOf(doc) \in Dossiers => is_open(DossierOf(doc))

(* Only a dossier that was closed is destroyed: the administrator manual   *)
(* has nothing else disposed of.  The code destroys what lies below an     *)
(* archived dossier in whatever state it is, see the run destroyed.        *)
DestroysOnlyClosed ==
  [][\A d \in Dossiers :
       state'[d] = "destroyed" => state[d] \in Closed \cup {"destroyed"}]_vars

(* What the query for checked out documents reaches from a main dossier:   *)
(* two levels of its path.                                                 *)
WithinReach(doc) ==
  LET d == DossierOf(doc) IN
  /\ d \in Dossiers
  /\ \/ above[d] = {} /\ Level(doc) <= 2
     \/ above[d] = {parent[d]} /\ Level(doc) = 1

(* No dossier is closed around a document that is checked out within reach *)
(* of the query of is_all_checked_in, whichever dossier of the path is     *)
(* closed and by whom; nobody could check it in there any more.            *)
NoneLockedIn ==
  [][\A doc \in Documents :
       WithinReach(doc) /\ is_open(DossierOf(doc))
         /\ docState[doc] = "out" /\ docState'[doc] = "out"
         => is_open(DossierOf(doc))']_vars

(* A document goes for good only when its dossier is closed after the      *)
(* step.                                                                   *)
DeletesOnlyInClosed ==
  [][\A doc \in Documents :
       docState[doc] # "gone" /\ docState'[doc] = "gone"
         => ~ is_open(DossierOf(doc))']_vars
=============================================================================
