---------------------------- MODULE Disposition -----------------------------
(***************************************************************************)
(* opengever.disposition: closed dossiers are offered to the archive,      *)
(* appraised, delivered as a package (SIP) and destroyed.  One action is   *)
(* one request: a transition of the workflow of the disposition with what  *)
(* disposition_state_changed does after it, or the edit form.              *)
(*                                                                         *)
(* Left out: who acts (the guards ask for the role of records managers or  *)
(* archivists only), the retention period, history, activities, and a      *)
(* disposition that names a dossier together with one of its subdossiers.  *)
(***************************************************************************)
EXTENDS Naturals, FiniteSets

CONSTANTS
  Dispositions, Dossiers,
  Above,         \* the dossiers above a dossier
  Former,        \* "resolved" or "inactive", how it was closed
  Value,         \* its archival value when it is offered first
  Transports,    \* the names of the SIP transports
  Choice,        \* bound: the dossiers that are offered with a disposition
  MaxRefused,    \* bound: how often a disposition is refused
  Reviewed,      \* bound: the dossiers whose appraisal is changed
  Switched       \* bound: the transports that get enabled in between

ASSUME TreeAssumption ==
  /\ Above \in [Dossiers -> SUBSET Dossiers]
  /\ \A d \in Dossiers : d \notin Above[d] /\ \A e \in Above[d] : Above[e] \subseteq Above[d]
ASSUME ValueAssumption ==
  /\ Former \in [Dossiers -> {"resolved", "inactive"}]
  /\ Value \in [Dossiers -> {"worthy", "unworthy", "unchecked"}]
ASSUME BoundAssumption ==
  MaxRefused \in [Dispositions -> Nat] /\ Choice \in [Dispositions -> SUBSET Dossiers]

VARIABLES
  review_state,     \* of a disposition, "none" before it is added
  dossiers,         \* its relations; a closed disposition keeps them
  appraisal,        \* its appraisal storage, "none" without an entry, "open" for None
  sip,              \* _sip_package: the dossiers in it, {} without a package
  status,           \* its transport statuses
  refused,          \* how often it was refused after it was disposed
  dossier_state,    \* review_state of a dossier, "gone" when it is deleted
  archival_value,
  enabled           \* the transports enabled in the registry

papers == <<review_state, dossiers, appraisal, sip, refused>>
stock == <<dossier_state, archival_value>>
dispositionVars == <<papers, status, stock, enabled>>

States == {"none", "in-progress", "appraised", "disposed", "archived", "closed"}
Open(p) == review_state[p] \notin {"none", "closed"}

DispositionTypeOK ==
  /\ review_state \in [Dispositions -> States]
  /\ dossiers \in [Dispositions -> SUBSET Dossiers]
  /\ appraisal \in [Dispositions -> [Dossiers -> {"none", "open", "worthy", "unworthy"}]]
  /\ sip \in [Dispositions -> SUBSET Dossiers]
  /\ status \in [Dispositions -> [Transports -> {"none", "scheduled", "success", "failed"}]]
  /\ refused \in [Dispositions -> Nat]
  /\ dossier_state \in [Dossiers -> {"resolved", "inactive", "offered", "archived", "gone"}]
  /\ archival_value \in [Dossiers -> {"worthy", "unworthy", "unchecked"}]
  /\ enabled \subseteq Transports

DispositionInit ==
  /\ review_state = [p \in Dispositions |-> "none"]
  /\ dossiers = [p \in Dispositions |-> {}]
  /\ appraisal = [p \in Dispositions |-> [d \in Dossiers |-> "none"]]
  /\ sip = [p \in Dispositions |-> {}]
  /\ status = [p \in Dispositions |-> [t \in Transports |-> "none"]]
  /\ refused = [p \in Dispositions |-> 0]
  /\ dossier_state = Former
  /\ archival_value = Value
  /\ enabled = Transports \ Switched

-----------------------------------------------------------------------------
(* The dossiers of a disposition.                                          *)

\* Mutant: the archival value as it is.
get_pre_appraisalMutant(d) == archival_value[d]
\* Only a worthy or unworthy value decides, and what was deactivated is unworthy.
get_pre_appraisal(d) ==
  IF Former[d] = "inactive" \/ archival_value[d] = "unworthy" THEN "unworthy"
  ELSE IF archival_value[d] = "worthy" THEN "worthy" ELSE "open"

Separate(D) == \A d \in D : Above[d] \cap D = {}

\* No transition gets past a relation whose dossier is gone: the history
\* that each of them writes reads every dossier.
Whole(p) == \A d \in dossiers[p] : dossier_state[d] # "gone"

\* Mutant: a dossier may be offered with a second disposition.
SetDossiersMutant(p, D) ==
  /\ D \subseteq Choice[p] /\ D # {} /\ Separate(D) /\ D # dossiers[p] /\ Whole(p)
  /\ \A d \in D \ dossiers[p] : dossier_state[d] \in {"resolved", "inactive", "offered"}
  /\ dossiers' = [dossiers EXCEPT ![p] = D]
  /\ dossier_state' = [d \in Dossiers |->
       IF d \in D \ dossiers[p] THEN "offered"
       ELSE IF d \in dossiers[p] \ D THEN Former[d] ELSE dossier_state[d]]
  /\ appraisal' = [appraisal EXCEPT ![p] = [d \in Dossiers |->
       IF d \in D \ dossiers[p] THEN get_pre_appraisal(d)
       ELSE IF d \in dossiers[p] \ D THEN "none" ELSE @[d]]]
  /\ UNCHANGED <<sip, refused, status, archival_value, enabled>>

\* The setter of dossiers: what is added is offered and gets an appraisal,
\* what is dropped goes back to the state it was closed in.
SetDossiers(p, D) ==
  /\ D \subseteq Choice[p] /\ D # {} /\ Separate(D) /\ D # dossiers[p] /\ Whole(p)
  /\ \A d \in D \ dossiers[p] : dossier_state[d] \in {"resolved", "inactive"}
  /\ dossiers' = [dossiers EXCEPT ![p] = D]
  /\ dossier_state' = [d \in Dossiers |->
       IF d \in D \ dossiers[p] THEN "offered"
       ELSE IF d \in dossiers[p] \ D THEN Former[d] ELSE dossier_state[d]]
  /\ appraisal' = [appraisal EXCEPT ![p] = [d \in Dossiers |->
       IF d \in D \ dossiers[p] THEN get_pre_appraisal(d)
       ELSE IF d \in dossiers[p] \ D THEN "none" ELSE @[d]]]
  /\ UNCHANGED <<sip, refused, status, archival_value, enabled>>

Add(p, D) ==
  /\ review_state[p] = "none" /\ SetDossiers(p, D)
  /\ review_state' = [review_state EXCEPT ![p] = "in-progress"]

\* Mutant: the dossiers of a disposition can be changed as long as it is open.
EditMutant(p, D) == Open(p) /\ SetDossiers(p, D) /\ UNCHANGED review_state
\* The workflow gives the permission to modify in no other state.
Edit(p, D) ==
  /\ review_state[p] = "in-progress" /\ SetDossiers(p, D)
  /\ UNCHANGED review_state

\* UpdateAppraisalView asks for no state: the overview shows its buttons for
\* a disposition in progress, but the page may be an old one.
UpdateAppraisal(p, d, value) ==
  /\ Open(p) /\ d \in dossiers[p] \cap Reviewed
  /\ appraisal' = [appraisal EXCEPT ![p][d] = value]
  /\ UNCHANGED <<review_state, dossiers, sip, refused, status, stock, enabled>>

-----------------------------------------------------------------------------
(* The transitions.                                                        *)

Transition(p, from, to) ==
  /\ review_state[p] = from /\ Whole(p)
  /\ review_state' = [review_state EXCEPT ![p] = to]
  /\ UNCHANGED <<dossiers, appraisal, enabled>>

has_dossiers_to_archive(p) == \E d \in Dossiers : appraisal[p][d] = "worthy"

\* AppraiseView asks whether the appraisal is complete and redirects; the
\* transition itself does not ask.
Appraise(p) ==
  /\ Transition(p, "in-progress", "appraised")
  /\ archival_value' = [d \in Dossiers |->
       IF d \notin dossiers[p] THEN archival_value[d]
       ELSE IF appraisal[p][d] = "worthy" THEN "worthy" ELSE "unworthy"]
  /\ UNCHANGED <<sip, refused, status, dossier_state>>

\* Mutant: what a transport has been tried with is scheduled again.
schedule_deliveryMutant(p) ==
  [t \in Transports |-> IF t \in enabled THEN "scheduled" ELSE status[p][t]]
\* Without force a transport is scheduled once and never again.
schedule_delivery(p) ==
  [t \in Transports |->
    IF t \in enabled /\ status[p][t] = "none" THEN "scheduled" ELSE status[p][t]]

Dispose(p) ==
  /\ has_dossiers_to_archive(p)
  /\ Transition(p, "appraised", "disposed")
  /\ sip' = [sip EXCEPT ![p] = dossiers[p]]
  /\ status' = [status EXCEPT ![p] = schedule_delivery(p)]
  /\ UNCHANGED <<refused, stock>>

\* The package and the statuses stay.  Refusing one in progress writes nothing
\* but the history.
RefuseDisposed(p) ==
  /\ refused[p] < MaxRefused[p] /\ Transition(p, "disposed", "in-progress")
  /\ refused' = [refused EXCEPT ![p] = @ + 1]
  /\ UNCHANGED <<sip, status, stock>>

Archive(p) ==
  /\ Transition(p, "disposed", "archived")
  /\ dossier_state' = [d \in Dossiers |->
       IF d \in dossiers[p] THEN "archived" ELSE dossier_state[d]]
  /\ UNCHANGED <<sip, refused, status, archival_value>>

\* A dossier is deleted with everything below it.
destroy_dossiers(p) ==
  [d \in Dossiers |->
    IF (Above[d] \cup {d}) \cap dossiers[p] # {} THEN "gone" ELSE dossier_state[d]]

Close(p) ==
  /\ Transition(p, "archived", "closed")
  /\ dossier_state' = destroy_dossiers(p)
  /\ sip' = [sip EXCEPT ![p] = {}]
  /\ UNCHANGED <<refused, status, archival_value>>

\* Mutant: the guard asks for what the appraisal has written to the dossiers.
CloseAppraisedMutant(p) ==
  /\ \A d \in dossiers[p] : archival_value[d] = "unworthy"
  /\ Transition(p, "appraised", "closed")
  /\ dossier_state' = destroy_dossiers(p)
  /\ sip' = [sip EXCEPT ![p] = {}]
  /\ UNCHANGED <<refused, status, archival_value>>

\* Nothing is to be archived: the dossiers are marked as archived, destroyed.
CloseAppraised(p) ==
  /\ ~ has_dossiers_to_archive(p)
  /\ Transition(p, "appraised", "closed")
  /\ dossier_state' = destroy_dossiers(p)
  /\ sip' = [sip EXCEPT ![p] = {}]
  /\ UNCHANGED <<refused, status, archival_value>>

\* The registry record of the transport's settings.
SetEnabled(t) ==
  /\ t \in Switched /\ enabled' = enabled \cup {t}
  /\ UNCHANGED <<papers, status, stock>>

DispositionNext ==
  \/ \E p \in Dispositions, D \in SUBSET Dossiers : Add(p, D) \/ Edit(p, D)
  \/ \E p \in Dispositions, d \in Dossiers, value \in {"worthy", "unworthy"} :
       UpdateAppraisal(p, d, value)
  \/ \E p \in Dispositions :
       \/ Appraise(p) \/ Dispose(p) \/ RefuseDisposed(p) \/ Archive(p)
       \/ Close(p) \/ CloseAppraised(p)
  \/ \E t \in Transports : SetEnabled(t)

-----------------------------------------------------------------------------
(* Properties.                                                             *)

(* An offered dossier is in exactly one open disposition, and the dossiers *)
(* of an open disposition are offered, or archived with it; it loses one   *)
(* only by the end of another disposition that named a dossier above.      *)
DossiersFollow ==
  \A d \in Dossiers :
    /\ dossier_state[d] \in {"offered", "archived"} =>
         Cardinality({p \in Dispositions : Open(p) /\ d \in dossiers[p]}) = 1
    /\ \A p \in Dispositions : Open(p) /\ d \in dossiers[p] =>
         \/ dossier_state[d] = IF review_state[p] = "archived" THEN "archived" ELSE "offered"
         \/ dossier_state[d] = "gone" /\ \E q \in Dispositions :
              review_state[q] = "closed" /\ dossiers[q] \cap Above[d] # {}

(* No dossier is destroyed that could be worth keeping and was not put in  *)
(* a package: it goes with a disposition that was archived with a package  *)
(* that has it or the dossier above it, or that had nothing to archive.    *)
DestroyedWasOffered ==
  [][\A d \in Dossiers : dossier_state[d] # "gone" /\ dossier_state'[d] = "gone" =>
       \E p \in Dispositions :
         /\ (Above[d] \cup {d}) \cap dossiers[p] # {}
         /\ \/ review_state[p] = "archived" /\ sip[p] = dossiers[p]
            \/ \A e \in dossiers[p] : appraisal[p][e] \in {"open", "unworthy"}]_dispositionVars
=============================================================================
