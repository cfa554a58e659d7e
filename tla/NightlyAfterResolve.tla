------------------------- MODULE NightlyAfterResolve -------------------------
(***************************************************************************)
(* ExecuteNightlyAfterResolveJobs, run by the NightlyJobRunner beside the  *)
(* requests of DossierTree.  The provider lists the paths of the resolved  *)
(* dossiers whose jobs are pending once, at the begin of the run; each job *)
(* is one transaction, and what users do is committed between two jobs.    *)
(* The run is made as the system user, who sees everything.                *)
(***************************************************************************)
EXTENDS DossierTree

VARIABLE jobs   \* what the run has listed and not executed yet

nightVars == <<vars, jobs>>

\* Mutant: the query finds main dossiers only.
PendingMutant == {d \in Dossiers : state[d] = "resolved" /\ pending[d] /\ ~ is_subdossier(d)}
\* The query of the provider.
Pending == {d \in Dossiers : state[d] = "resolved" /\ pending[d]}

NightInit == Init /\ jobs = {}

\* Mutant: the flags are dropped when the dossiers are listed.
StartRunMutant ==
  /\ Nightly /\ jobs = {} /\ Pending # {}
  /\ jobs' = {[dossier |-> d, path |-> above[d]] : d \in Pending}
  /\ pending' = [d \in Dossiers |-> pending[d] /\ d \notin Pending]
  /\ UNCHANGED <<state, parent, above, former, hasEnd, itemVars, docVars>>

StartRun ==
  /\ Nightly /\ jobs = {} /\ Pending # {}
  /\ jobs' = {[dossier |-> d, path |-> above[d]] : d \in Pending}
  /\ UNCHANGED vars

\* A dossier that was moved or destroyed since is not at its path any more.
StillThere(job) ==
  state[job.dossier] \in Existing /\ above[job.dossier] = job.path

\* run_job: execute(nightly_run=True), in whatever state the dossier is now.
RunJob(d) ==
  \E job \in jobs :
    /\ job.dossier = d /\ StillThere(job)
    /\ docState' = Cleaned({d}, Dossiers)
    /\ pending' = [pending EXCEPT ![d] = FALSE]
    /\ jobs' = jobs \ {job}
    /\ UNCHANGED <<state, parent, above, former, hasEnd, itemVars, docIn>>

\* The path cannot be traversed: the KeyError ends the whole run.
PathIsGone ==
  /\ \E job \in jobs : ~ StillThere(job)
  /\ jobs' = {}
  /\ UNCHANGED vars

\* The end of the time window, or the system load: the rest waits.
Interrupted ==
  /\ jobs # {}
  /\ jobs' = {}
  /\ UNCHANGED vars

NightNext ==
  \/ Next /\ UNCHANGED jobs
  \/ StartRun
  \/ \E d \in Dossiers : RunJob(d)
  \/ PathIsGone
  \/ Interrupted

NightSpec == NightInit /\ [][NightNext]_nightVars

\* Nights come, a path that is gone is noticed, and no job is interrupted, or
\* its dossier moved away, in every night.
FairNightSpec ==
  /\ NightSpec
  /\ WF_nightVars(StartRun) /\ WF_nightVars(PathIsGone)
  /\ \A d \in Dossiers : SF_nightVars(RunJob(d))

-----------------------------------------------------------------------------
(* Properties.                                                             *)

(* A resolved dossier whose jobs are not pending holds no shadowed and no  *)
(* trashed document, in it or in its tasks: whatever was reopened, moved,  *)
(* resolved again, offered and retracted, or interrupted at night          *)
(* meanwhile, the flag does not claim too much.  (Of the dossiers below,   *)
(* each has its own flag; one that an offer has kept from being resolved   *)
(* has none.)                                                              *)
ResolvedIsClean ==
  \A d \in Dossiers : state[d] = "resolved" /\ ~ pending[d] =>
    ~ \E doc \in Documents : DossierOf(doc) = d /\ docState[doc] \in {"shadow", "trashed"}

(* A dossier that stays resolved gets its jobs executed some night.        *)
PendingIsProcessed ==
  \A d \in Dossiers :
    state[d] = "resolved" /\ pending[d] ~> ~ pending[d] \/ state[d] # "resolved"

(* An archived dossier has had its after-resolve jobs.  It does not hold:  *)
(* see the README.                                                         *)
ArchivedIsCleaned ==
  \A d \in Dossiers : state[d] = "archived" => ~ pending[d]

(* The night, too, deletes documents in closed dossiers only.              *)
NightDeletesOnlyInClosed ==
  [][\A doc \in Documents :
       docState[doc] # "gone" /\ docState'[doc] = "gone"
         => ~ is_open(DossierOf(doc))']_nightVars
=============================================================================
