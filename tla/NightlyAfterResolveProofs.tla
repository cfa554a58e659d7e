---------------------- MODULE NightlyAfterResolveProofs ----------------------
(***************************************************************************)
(* What the flag after_resolve_jobs_pending says, for every tree and every *)
(* order of requests and nightly jobs: a resolved dossier without the flag *)
(* holds nothing the jobs would delete.                                    *)
(***************************************************************************)
EXTENDS NightlyAfterResolve, DossierTreeProofs

(* A step of the night is one of DossierTree, or a job, which changes      *)
(* documents and flags only.                                               *)
LEMMA NightSteps ==
  ASSUME [NightNext]_nightVars
  PROVE  \/ [Next]_vars
         \/ \E d \in Dossiers :
              RunJob(d) /\ UNCHANGED <<state, parent, above, former, hasEnd, itemVars, docIn>>
  BY DEF NightNext, StartRun, PathIsGone, Interrupted, nightVars, RunJob

(* A job changes no type and no path. *)
LEMMA JobKeepsPaths ==
  ASSUME PInv, NEW d \in Dossiers, RunJob(d)
  PROVE  PInv'
<1>1. TInv'
  BY DEF RunJob, Cleaned, PInv, TInv, TypeOK, FormerOK, itemVars
<1>2. PathInv'
  BY PathKept DEF RunJob
<1> QED BY <1>1, <1>2 DEF PInv

(* Types are kept by users and by the night. *)
LEMMA NightTypes == TInv /\ [NightNext]_nightVars => TInv'
<1> SUFFICES ASSUME TInv, [NightNext]_nightVars PROVE TInv'
  OBVIOUS
<1>1. ASSUME NEW d \in Dossiers, RunJob(d) PROVE TInv'
  BY <1>1 DEF RunJob, Cleaned, TInv, TypeOK, FormerOK, itemVars
<1> QED BY <1>1, NightSteps, TypeStep

-----------------------------------------------------------------------------
(* Retracting an offer resolves a dossier again, with the flag it had: so  *)
(* what is kept speaks of offered dossiers as well.                        *)

Dirt == {"shadow", "trashed"}
Restorable(d) == state[d] = "resolved" \/ (state[d] = "offered" /\ former[d] = "resolved")

CleanInv ==
  \A d \in Dossiers : Restorable(d) /\ ~ pending[d] =>
    \A doc \in Documents : DossierOf(doc) = d => docState[doc] \notin Dirt

(* A step that brings no dossier to where the flag counts, and nothing to  *)
(* delete into such a dossier, keeps it.                                   *)
LEMMA CleanKept ==
  ASSUME CleanInv,
         \A d \in Dossiers : (Restorable(d) /\ ~ pending[d])' => Restorable(d) /\ ~ pending[d],
         \A d \in Dossiers, doc \in Documents :
           Restorable(d)' /\ DossierOf(doc)' = d /\ docState'[doc] \in Dirt
             => DossierOf(doc) = d /\ docState[doc] \in Dirt
  PROVE  CleanInv'
  BY DEF CleanInv, Dirt

(* Requests on dossiers: a resolve sets the flag on all it resolves. *)
LEMMA CleanDossier ==
  ASSUME TInv, Nightly, CleanInv, NEW u \in Users, NEW d \in Dossiers, DossierRequest(u, d)
  PROVE  CleanInv'
<1>0. /\ state \in [Dossiers -> DossierStates]
      /\ former \in [Dossiers -> {None, "resolved", "inactive"}]
      /\ pending \in [Dossiers -> BOOLEAN]
  BY DEF TInv, TypeOK
<1>1. UNCHANGED <<docState, docIn, itemIn>>
  BY DEF DossierRequest, CreateDossier, MoveDossier, EditEnd, Resolve, AfterResolveJobs,
         Reactivate, ReactivateFails, Deactivate, Activate, itemVars, docVars
<1>2. \A doc \in Documents : DossierOf(doc)' = DossierOf(doc)
  BY <1>1 DEF DossierOf
<1>3. ASSUME \A x \in Dossiers :
               (Restorable(x) /\ ~ pending[x])' => Restorable(x) /\ ~ pending[x]
      PROVE  CleanInv'
  BY <1>1, <1>2, <1>3, CleanKept
<1>4. ASSUME \A x \in Dossiers : state'[x] = state[x] \/ state'[x] = "active",
             UNCHANGED <<former, pending>>
      PROVE  CleanInv'
  BY <1>3, <1>4 DEF Restorable
<1>5. ASSUME NEW p \in Containers, CreateDossier(u, d, p) \/ MoveDossier(u, d, p)
      PROVE  CleanInv'
  BY <1>0, <1>4, <1>5 DEF CreateDossier, MoveDossier
<1>6. CASE EditEnd(u, d)
  BY <1>4, <1>6 DEF EditEnd
<1>7. CASE Resolve(u, d)
  <2>1. \A x \in Dossiers : pending'[x] \/ (/\ state'[x] = state[x] /\ former'[x] = former[x]
                                           /\ pending'[x] = pending[x])
    BY <1>7 DEF Resolve, AfterResolveJobs
  <2> QED BY <1>3, <2>1 DEF Restorable
<1>8. CASE Reactivate(u, d) \/ Activate(u, d)
  BY <1>4, <1>8 DEF Reactivate, Activate, Reopened
<1>9. ASSUME NEW f \in Dossiers, NEW done \in SUBSET Dossiers,
             ReactivateFails(u, d, f, done)
      PROVE  CleanInv'
  BY <1>4, <1>9 DEF ReactivateFails
<1>10. CASE Deactivate(u, d)
  <2>1. /\ \A x \in Dossiers : \/ state'[x] = "inactive"
                               \/ state'[x] = state[x] /\ former'[x] = former[x]
        /\ UNCHANGED pending
    BY <1>10 DEF Deactivate
  <2> QED BY <1>3, <2>1 DEF Restorable
<1> QED BY <1>5, <1>6, <1>7, <1>8, <1>9, <1>10 DEF DossierRequest

(* Dispositions: an offer is retracted into the state it was made from. *)
LEMMA CleanDisposition ==
  ASSUME TInv, CleanInv, NEW d \in Dossiers, DispositionStep(d)
  PROVE  CleanInv'
<1>0. /\ state \in [Dossiers -> DossierStates]
      /\ pending \in [Dossiers -> BOOLEAN]
      /\ \A x \in Dossiers : state[x] \in {"resolved", "inactive"} => former[x] = state[x]
      /\ \A x \in Dossiers : state[x] = "offered" => former[x] \in {"resolved", "inactive"}
  BY DEF TInv, TypeOK, FormerOK
<1>1. CASE Offer(d) \/ Retract(d) \/ MarkArchived(d)
  <2>1. UNCHANGED <<former, pending, docState, docIn, itemIn>>
    BY <1>1 DEF Offer, Retract, MarkArchived, itemVars, docVars
  <2>2. \A x \in Dossiers : Restorable(x)' => Restorable(x)
    <3>1. CASE Offer(d)
      <4>1. state[d] \in {"resolved", "inactive"} /\ former[d] = state[d]
        BY <1>0, <3>1 DEF Offer
      <4>2. \A x \in Dossiers : state'[x] = IF x = d THEN "offered" ELSE state[x]
        BY <1>0, <3>1 DEF Offer
      <4> QED BY <2>1, <4>1, <4>2 DEF Restorable
    <3>2. CASE Retract(d)
      <4>1. \A x \in Dossiers : state'[x] = IF x = d THEN former[d] ELSE state[x]
        BY <1>0, <3>2 DEF Retract, get_former_state
      <4>2. state[d] = "offered" /\ former[d] \in {"resolved", "inactive"}
        BY <1>0, <3>2 DEF Retract
      <4> QED BY <2>1, <4>1, <4>2 DEF Restorable
    <3>3. CASE MarkArchived(d)
      <4>1. \A x \in Dossiers : state'[x] = IF x = d THEN "archived" ELSE state[x]
        BY <1>0, <3>3 DEF MarkArchived
      <4> QED BY <2>1, <4>1 DEF Restorable
    <3> QED BY <1>1, <3>1, <3>2, <3>3
  <2>3. \A doc \in Documents : DossierOf(doc)' = DossierOf(doc)
    BY <2>1 DEF DossierOf
  <2> QED BY <2>1, <2>2, <2>3, CleanKept
<1>2. CASE Destroy(d)
  <2>1. /\ \A x \in Dossiers : \/ state'[x] = "destroyed"
                               \/ /\ state'[x] = state[x] /\ former'[x] = former[x]
                                  /\ pending'[x] = pending[x]
        /\ \A doc \in Documents : docState'[doc] = "gone" \/ docState'[doc] = docState[doc]
        /\ UNCHANGED <<docIn, itemIn>>
    BY <1>0, <1>2 DEF Destroy
  <2>2. \A doc \in Documents : DossierOf(doc)' = DossierOf(doc)
    BY <2>1 DEF DossierOf
  <2>3. \A x \in Dossiers :
          (Restorable(x) /\ ~ pending[x])' => Restorable(x) /\ ~ pending[x]
    BY <2>1 DEF Restorable
  <2>4. \A doc \in Documents : docState'[doc] \in Dirt => docState[doc] \in Dirt
    BY <2>1 DEF Dirt
  <2> QED BY <2>2, <2>3, <2>4, CleanKept
<1> QED BY <1>1, <1>2 DEF DispositionStep

(* A document goes with its task, into an open dossier. *)
LEMMA CleanItem ==
  ASSUME TInv, CleanInv, NEW u \in Users, NEW i \in Items, ItemRequest(u, i)
  PROVE  CleanInv'
<1>1. UNCHANGED <<state, former, pending, docState, docIn>>
  BY DEF ItemRequest, AddItem, MoveItem, CloseItem, ReopenItem, SkipTask, OpenSkipped,
         dossierVars, docVars
<1>2. \/ UNCHANGED itemIn
      \/ \E x \in Dossiers : is_open(x) /\ itemIn' = [itemIn EXCEPT ![i] = x]
  BY DEF ItemRequest, AddItem, MoveItem, CloseItem, ReopenItem, SkipTask, OpenSkipped
<1>3. itemIn \in [Items -> Containers]
  BY DEF TInv, TypeOK
<1>4. ASSUME NEW d \in Dossiers, NEW doc \in Documents, Restorable(d), DossierOf(doc)' = d
      PROVE  DossierOf(doc) = d
  <2>1. DossierOf(doc)' = DossierOf(doc) \/ \E x \in Dossiers : is_open(x) /\ DossierOf(doc)' = x
    BY <1>1, <1>2, <1>3 DEF DossierOf, Items
  <2>2. ~ is_open(d)
    BY <1>4 DEF Restorable, is_open
  <2> QED BY <1>4, <2>1, <2>2
<1>5. \A d \in Dossiers : Restorable(d)' = Restorable(d)
  BY <1>1 DEF Restorable
<1> QED BY <1>1, <1>4, <1>5, CleanKept

(* Documents are put into the trash, and made in the shadow state, in open *)
(* dossiers.                                                               *)
LEMMA CleanDocument ==
  ASSUME TInv, CleanInv, NEW u \in Users, NEW e \in Documents, DocumentRequest(u, e)
  PROVE  CleanInv'
<1>1. UNCHANGED <<state, former, pending, itemIn>>
  BY DEF DocumentRequest, AddDocument, MoveDocument, DocumentStep, Checkout, Checkin,
         Trash, Untrash, Initialize, dossierVars, itemVars
<1>2. \A d \in Dossiers : Restorable(d)' = Restorable(d)
  BY <1>1 DEF Restorable
<1>3. /\ docState \in [Documents -> {"none", "in", "out", "trashed", "shadow", "gone"}]
      /\ docIn \in [Documents -> Containers \cup Tasks]
  BY DEF TInv, TypeOK
<1>4. \A doc \in Documents \ {e} : docState'[doc] = docState[doc] /\ docIn'[doc] = docIn[doc]
  BY <1>3 DEF DocumentRequest, AddDocument, MoveDocument, DocumentStep, Checkout, Checkin,
              Trash, Untrash, Initialize
<1>5. docState'[e] \in Dirt =>
        \E x \in Dossiers : is_open(x) /\ DossierOf(e)' = x
  <2>1. ASSUME NEW c \in Dossiers \cup Tasks, AddDocument(u, e, c), docState'[e] \in Dirt
        PROVE  \E x \in Dossiers : is_open(x) /\ DossierOf(e)' = x
    <3>1. c \notin Tasks /\ c \in Dossiers /\ is_open(c)
      BY <1>3, <2>1 DEF AddDocument, Dirt, MayAddTo, is_open
    <3>2. docIn'[e] = c
      BY <1>3, <2>1 DEF AddDocument
    <3> QED BY <3>1, <3>2 DEF DossierOf
  <2>2. ASSUME NEW old, NEW new, DocumentStep(u, e, old, new)
        PROVE  \E x \in Dossiers : is_open(x) /\ DossierOf(e)' = x
    <3>1. DossierOf(e)' = DossierOf(e)
      BY <2>2 DEF DocumentStep, DossierOf, itemVars
    <3> QED BY <2>2, <3>1 DEF DocumentStep
  <2>3. ASSUME NEW d \in Dossiers, MoveDocument(u, e, d) PROVE docState'[e] \notin Dirt
    BY <1>3, <2>3 DEF MoveDocument, Dirt
  <2> QED BY <2>1, <2>2, <2>3
          DEF DocumentRequest, Checkout, Checkin, Trash, Untrash, Initialize
<1>6. ASSUME NEW d \in Dossiers, NEW doc \in Documents, Restorable(d), DossierOf(doc)' = d,
             docState'[doc] \in Dirt
      PROVE  DossierOf(doc) = d /\ docState[doc] \in Dirt
  <2>1. CASE doc # e
    BY <1>1, <1>4, <1>6, <2>1 DEF DossierOf
  <2>2. CASE doc = e
    BY <1>5, <1>6, <2>2 DEF Restorable, is_open
  <2> QED BY <2>1, <2>2
<1> QED BY <1>1, <1>2, <1>6, CleanKept

(* A job takes all there is to delete in the tree it drops the flag of. *)
LEMMA CleanJob ==
  ASSUME TInv, PurgeTrash, CleanInv, NEW d \in Dossiers, RunJob(d)
  PROVE  CleanInv'
<1>1. /\ UNCHANGED <<state, former, docIn, itemIn>>
      /\ docState' = Cleaned({d}, Dossiers)
      /\ pending' = [pending EXCEPT ![d] = FALSE]
  BY DEF RunJob, itemVars
<1>2. \A doc \in Documents : DossierOf(doc) = d => docState'[doc] \notin Dirt
  BY <1>1 DEF Cleaned, Dirt
<1>3. \A doc \in Documents : docState'[doc] \in Dirt => docState[doc] \in Dirt
  BY <1>1 DEF Cleaned, Dirt
<1>4. \A doc \in Documents : DossierOf(doc)' = DossierOf(doc)
  BY <1>1 DEF DossierOf
<1>5. \A x \in Dossiers : /\ Restorable(x)' = Restorable(x)
                          /\ x # d => pending'[x] = pending[x]
  BY <1>1 DEF Restorable, TInv, TypeOK
<1> QED BY <1>2, <1>3, <1>4, <1>5 DEF CleanInv

(* Every step of users and of the night keeps it. *)
LEMMA CleanStep ==
  ASSUME Nightly, PurgeTrash, TInv, CleanInv, [NightNext]_nightVars
  PROVE  CleanInv'
<1>1. ASSUME NEW d \in Dossiers, RunJob(d) PROVE CleanInv'
  BY <1>1, CleanJob
<1>2. CASE Next
  BY <1>2, CleanDossier, CleanDisposition, CleanItem, CleanDocument DEF Next
<1>3. CASE UNCHANGED vars
  BY <1>3 DEF vars, CleanInv, Restorable, DossierOf
<1> QED BY <1>1, <1>2, <1>3 DEF NightNext, StartRun, PathIsGone, Interrupted, nightVars

(* The flag does not claim too much: with the night jobs enabled and the   *)
(* purge of the trash on, a resolved dossier whose jobs are not pending    *)
(* holds no shadowed and no trashed document, whoever resolves, moves,     *)
(* offers, retracts and reactivates what, and whatever rights he has       *)
(* below.                                                                  *)
THEOREM CleanWhenDone ==
  ASSUME Nightly, PurgeTrash
  PROVE  NightSpec => []ResolvedIsClean
<1>1. NightInit => TInv /\ CleanInv
  BY TypeInit DEF NightInit, Init, CleanInv, Restorable
<1>2. TInv /\ CleanInv /\ [NightNext]_nightVars => (TInv /\ CleanInv)'
  BY NightTypes, CleanStep
<1>3. CleanInv => ResolvedIsClean
  BY DEF CleanInv, Restorable, Dirt, ResolvedIsClean
<1> QED BY <1>1, <1>2, <1>3, PTL DEF NightSpec

-----------------------------------------------------------------------------
(* The night and the properties of DossierTree.                            *)

(* What is promised of the dossier tree, for any rights, moves and offers, *)
(* is promised beside the night jobs, too: a job run in whatever state its *)
(* dossier is in now, which may have been reopened, moved or offered since *)
(* the listing, disturbs none of it.                                       *)
THEOREM NightLeavesTreesAlone ==
  NightSpec =>
    /\ [](PathsAgree /\ InactiveTree /\ ResolvedHasEnd)
    /\ OnlyGapsLeaveActive /\ OnlySkippedOpensInClosed /\ NoneLockedIn
<1> DEFINE Inv == SeenInv /\ ItemsIn /\ ResolvedHasEnd
<1>1. NightInit => Inv
  BY SeenInit DEF NightInit, Init, ItemsIn, ExistingItem, ResolvedHasEnd
<1>2. Inv /\ [NightNext]_nightVars => Inv'
  <2> SUFFICES ASSUME Inv, [NightNext]_nightVars PROVE Inv'
    OBVIOUS
  <2>1. CASE [Next]_vars
    <3>1. SeenInv' /\ ItemsIn'
      BY <2>1, SeenStep, ItemsInStep DEF SeenInv, PInv
    <3>2. ResolvedHasEnd'
      BY <2>1, EndStep DEF SeenInv, PInv
    <3> QED BY <3>1, <3>2
  <2>2. ASSUME NEW d \in Dossiers, RunJob(d),
               UNCHANGED <<state, parent, above, former, hasEnd, itemVars, docIn>>
        PROVE  Inv'
    <3>1. PInv'
      BY <2>2, JobKeepsPaths DEF SeenInv
    <3>2. InactiveTrees(Seen)'
      BY <2>2 DEF SeenInv, InactiveTrees, Seen, SeenByAll, IsInactive, IsHeld
    <3>3. ItemsIn' /\ ResolvedHasEnd'
      BY <2>2 DEF ItemsIn, ResolvedHasEnd, itemVars
    <3> QED BY <3>1, <3>2, <3>3 DEF SeenInv
  <2> QED BY <2>1, <2>2, NightSteps
<1>3. Inv => PathsAgree /\ InactiveTree /\ ResolvedHasEnd
  <2>1. SeenInv => PathsAgree
    BY DEF SeenInv, PInv, PathInv, PathsAgree, PathTo
  <2>2. SeenInv => InactiveTree
    BY DEF SeenInv, InactiveTrees, Seen, PInv, TInv, TypeOK, PathInv, PathTo,
           InactiveTree, is_subdossier, Containers
  <2> QED BY <2>1, <2>2
<1>4. Inv /\ [NightNext]_nightVars =>
        [GapsOnly]_vars /\ [SkippedOnly]_vars /\ [LocksNothingIn]_vars
  <2> SUFFICES ASSUME Inv, [NightNext]_nightVars
               PROVE  [GapsOnly]_vars /\ [SkippedOnly]_vars /\ [LocksNothingIn]_vars
    OBVIOUS
  <2>1. CASE [Next]_vars
    BY <2>1, GapStep, SkippedStep, LocksStep DEF GapsOnly, SeenInv, PInv
  <2>2. ASSUME UNCHANGED <<state, parent, above, former, hasEnd, itemVars, docIn>>
        PROVE  GapsOnly /\ SkippedOnly /\ LocksNothingIn
    <3>1. GapsOnly /\ SkippedOnly
      BY <2>2 DEF GapsOnly, LeftActive, ActiveInClosed, is_subdossier, SkippedOnly,
                  OpenInClosed, is_open, itemVars
    <3>2. \A doc \in Documents : DossierOf(doc)' = DossierOf(doc)
      BY <2>2 DEF DossierOf, itemVars
    <3>3. LocksNothingIn
      BY <2>2, <3>2 DEF LocksNothingIn, is_open
    <3> QED BY <3>1, <3>3
  <2> QED BY <2>1, <2>2, NightSteps
<1> QED BY <1>1, <1>2, <1>3, <1>4, PTL
        DEF NightSpec, OnlyGapsLeaveActive, OnlySkippedOpensInClosed, NoneLockedIn,
            GapsOnly, LeftActive, Gap, SkippedOnly, LocksNothingIn

-----------------------------------------------------------------------------
(* Deletions.                                                              *)

\* The night if a job looked at the state of its dossier once more, beside
\* requests whose walks are whole.
LooksAgain ==
  \/ Next /\ WholeWalks /\ UNCHANGED jobs
  \/ StartRun \/ PathIsGone \/ Interrupted
  \/ \E d \in Dossiers : RunJob(d) /\ ~ is_open(d)

(* Then the night deletes in closed dossiers only, whatever is moved and   *)
(* offered since the listing: what lies below a dossier that is closed     *)
(* needs no look of its own.  The two causes of the deletions in open      *)
(* dossiers are that a listed job does not look again (the run             *)
(* night_stale) and the gaps of the walks (the run half_open).             *)
THEOREM LookingAgainSuffices ==
  NightInit /\ [][LooksAgain]_nightVars => NightDeletesOnlyInClosed
<1>1. NightInit => WholeInv
  BY WholeInit DEF NightInit
<1>2. ASSUME WholeInv, NEW d \in Dossiers, RunJob(d) PROVE WholeInv'
  <2>1. PInv'
    BY <1>2, JobKeepsPaths DEF WholeInv
  <2>2. UNCHANGED <<state, above, former>>
    BY <1>2 DEF RunJob
  <2>3. InactiveTrees(Dossiers)'
    BY <1>2, <2>2 DEF WholeInv, InactiveTrees, IsInactive, IsHeld
  <2>4. ClosedTrees'
    BY <1>2, <2>2, ClosedKept
  <2> QED BY <2>1, <2>3, <2>4 DEF WholeInv
<1>3. WholeInv /\ [LooksAgain]_nightVars => WholeInv'
  BY <1>2, WholeStep DEF LooksAgain, StartRun, PathIsGone, Interrupted, nightVars
<1>4. ASSUME WholeInv, LooksAgain PROVE DeletesWhatIsClosed
  <2>1. CASE Next /\ WholeWalks
    BY <1>4, <2>1, DeletesStep DEF WholeWalks, WholeInv
  <2>2. CASE UNCHANGED vars
    BY <2>2 DEF vars, DeletesWhatIsClosed
  <2>3. ASSUME NEW d \in Dossiers, RunJob(d), ~ is_open(d) PROVE DeletesWhatIsClosed
    <3> SUFFICES ASSUME NEW doc \in Documents, docState[doc] # "gone",
                        docState'[doc] = "gone"
                 PROVE  ~ is_open(DossierOf(doc))'
      BY DEF DeletesWhatIsClosed
    <3>1. DossierOf(doc) \in {d} \cup Below(d)
      BY <2>3 DEF RunJob, Cleaned
    <3>2. ~ is_open(DossierOf(doc))
      BY <1>4, <2>3, <3>1 DEF Below, WholeInv, ClosedTrees
    <3>3. DossierOf(doc)' = DossierOf(doc) /\ state' = state
      BY <2>3 DEF RunJob, DossierOf, itemVars
    <3> QED BY <3>2, <3>3 DEF is_open
  <2> QED BY <1>4, <2>1, <2>2, <2>3 DEF LooksAgain, StartRun, PathIsGone, Interrupted
<1>5. WholeInv /\ [LooksAgain]_nightVars => [DeletesWhatIsClosed]_nightVars
  BY <1>4
<1> QED BY <1>1, <1>3, <1>5, PTL DEF NightDeletesOnlyInClosed, DeletesWhatIsClosed
=============================================================================
