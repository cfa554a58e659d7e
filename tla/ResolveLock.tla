----------------------------- MODULE ResolveLock -----------------------------
(***************************************************************************)
(* Requests that resolve dossiers at the same time, down to their          *)
(* transactions: LockingResolveManager, ResolveLock, the archive form that *)
(* resolves without a lock, and ZPublisher, which runs a request again     *)
(* after a ConflictError.                                                  *)
(*                                                                         *)
(* The ZODB gives every transaction a snapshot and refuses its commit when *)
(* an object it writes was committed by another one since.  A snapshot is  *)
(* represented by what the request read from it (work, sawLock) and by     *)
(* what others have committed since it was taken (touched).  Preconditions *)
(* other than "the dossier is open" are taken to be satisfied.             *)
(***************************************************************************)
EXTENDS Naturals, FiniteSets

CONSTANTS
  Dossiers,
  Above,       \* for every dossier the set of dossiers it lies in
  Requests,
  Target,      \* the dossier a request resolves
  FromForm,    \* the requests that come from the archive form
  MaxRetries,  \* retry_max_count of the publisher
  MayCrash,    \* the requests whose process may die
  None         \* no lock

ASSUME TreeAssumption ==
  /\ Above \in [Dossiers -> SUBSET Dossiers]
  /\ \A d \in Dossiers : \A x \in Above[d] : Above[x] \subseteq Above[d]
ASSUME TargetAssumption == /\ Target \in [Requests -> Dossiers]
                           /\ FromForm \subseteq Requests
                           /\ None \notin Requests
ASSUME BoundAssumption == MaxRetries \in Nat /\ MayCrash \subseteq Requests

VARIABLES
  lock,         \* the request whose lock is stored on a dossier, or None
  expired,      \* dossiers whose lock is older than RESOLVE_LOCK_LIFETIME
  resolutions,  \* resolve entries in the workflow history of a dossier
  pc,           \* where a request is
  touched,      \* objects committed by others since its snapshot
  work,         \* the open dossiers of the tree, as its snapshot has them
  sawLock,      \* at the release: its snapshot has a lock to delete
  error,        \* what is propagating: "none", "conflict", "refused", "key"
  retries       \* how often it was run again

request == <<touched, work, sawLock, error, retries>>
vars == <<lock, expired, resolutions, pc, touched, work, sawLock, error, retries>>

Tree(d) == {x \in Dossiers : x = d \/ d \in Above[x]}
LockOf(d) == <<"lock", d>>
StateOf(d) == <<"state", d>>
Objects == {"lock", "state"} \X Dossiers
\* Mutant: is_open is not asked before a subdossier is resolved.
OpenInMutant(d) == Tree(d)
OpenIn(d) == {x \in Tree(d) : resolutions[x] = 0}

TypeOK ==
  /\ lock \in [Dossiers -> Requests \cup {None}]
  /\ expired \subseteq Dossiers
  /\ resolutions \in [Dossiers -> Nat]
  /\ pc \in [Requests -> {"new", "acquire", "work", "release", "done", "dead"}]
  /\ touched \in [Requests -> SUBSET Objects]
  /\ work \in [Requests -> SUBSET Dossiers]
  /\ sawLock \in [Requests -> BOOLEAN]
  /\ error \in [Requests -> {"none", "conflict", "refused", "key"}]
  /\ retries \in [Requests -> 0..MaxRetries]

Init ==
  /\ lock = [d \in Dossiers |-> None]
  /\ expired = {}
  /\ resolutions = [d \in Dossiers |-> 0]
  /\ pc = [r \in Requests |-> "new"]
  /\ touched = [r \in Requests |-> {}]
  /\ work = [r \in Requests |-> {}]
  /\ sawLock = [r \in Requests |-> FALSE]
  /\ error = [r \in Requests |-> "none"]
  /\ retries = [r \in Requests |-> 0]

-----------------------------------------------------------------------------
\* d or a dossier it lies in has a lock that is not expired.
is_locked(d) == \E x \in {d} \cup Above[d] : lock[x] # None /\ x \notin expired

GoTo(r, label) == pc' = [pc EXCEPT ![r] = label]
Snapshot(r) == touched' = [touched EXCEPT ![r] = {}]
\* r commits: the others have an older snapshot now, r gets a new one.
Committed(r, objects) ==
  touched' = [q \in Requests |-> IF q = r THEN {} ELSE touched[q] \cup objects]

\* Mutant: the commit does not look for conflicts.
ConflictsMutant(r, objects) == FALSE
Conflicts(r, objects) == touched[r] \cap objects # {}

\* Mutants: the request is run again without a limit, or not at all.
RetryUnbounded(r) == GoTo(r, "new") /\ retries' = [retries EXCEPT ![r] = @ + 1]
RetryNever(r) == GoTo(r, "done") /\ UNCHANGED retries
\* A ConflictError reached the publisher: it runs the request again, three
\* times at most.
Retry(r) ==
  IF retries[r] < MaxRetries
  THEN GoTo(r, "new") /\ retries' = [retries EXCEPT ![r] = @ + 1]
  ELSE GoTo(r, "done") /\ UNCHANGED retries

-----------------------------------------------------------------------------
\* A new transaction: the views look at the dossier and at the locks.
Enter(r) ==
  /\ pc[r] = "new"
  /\ Snapshot(r)
  /\ error' = [error EXCEPT ![r] = "none"]
  /\ IF resolutions[Target[r]] > 0 THEN GoTo(r, "done") /\ UNCHANGED work
     ELSE IF r \in FromForm
          THEN GoTo(r, "work") /\ work' = [work EXCEPT ![r] = OpenIn(Target[r])]
          ELSE /\ GoTo(r, IF is_locked(Target[r]) THEN "done" ELSE "acquire")
               /\ UNCHANGED work
  /\ UNCHANGED <<lock, expired, resolutions, sawLock, retries>>

\* An exception inside the try: abort, and the finally clause begins.
ToRelease(r, e) ==
  /\ GoTo(r, "release")
  /\ error' = [error EXCEPT ![r] = e]
  /\ sawLock' = [sawLock EXCEPT ![r] = lock[Target[r]] # None]

\* acquire(commit=True) and, in the transaction it begins, the reads of
\* execute_recursive_resolve.
Acquire(r) ==
  LET d == Target[r] IN
  /\ pc[r] = "acquire" /\ ~ Conflicts(r, {LockOf(d)})
  /\ lock' = [lock EXCEPT ![d] = r]
  /\ expired' = expired \ {d}
  /\ Committed(r, {LockOf(d)})
  /\ work' = [work EXCEPT ![r] = OpenIn(d)]
  /\ GoTo(r, "work")
  /\ UNCHANGED <<resolutions, sawLock, error, retries>>

AcquireConflict(r) ==
  /\ pc[r] = "acquire" /\ Conflicts(r, {LockOf(Target[r])})
  /\ Snapshot(r) /\ ToRelease(r, "conflict")
  /\ UNCHANGED <<lock, expired, resolutions, work, retries>>

\* MAIN_DOSSIER_NOT_ACTIVE: it was resolved between the two snapshots.
Refuse(r) ==
  /\ pc[r] = "work" /\ Target[r] \notin work[r]
  /\ Snapshot(r) /\ ToRelease(r, "refused")
  /\ UNCHANGED <<lock, expired, resolutions, work, retries>>

\* Mutant: the subdossiers are not resolved.
ResolveMutant(r) ==
  /\ pc[r] = "work" /\ Target[r] \in work[r]
  /\ ~ Conflicts(r, {StateOf(Target[r])})
  /\ resolutions' = [resolutions EXCEPT ![Target[r]] = @ + 1]
  /\ Committed(r, {StateOf(Target[r])})
  /\ IF r \in FromForm THEN GoTo(r, "done") /\ UNCHANGED <<sawLock, error>>
     ELSE ToRelease(r, "none")
  /\ UNCHANGED <<lock, expired, work, retries>>
\* The tree is resolved and committed; the archive form is done then.
Resolve(r) ==
  LET objects == {StateOf(x) : x \in work[r]} IN
  /\ pc[r] = "work" /\ Target[r] \in work[r] /\ ~ Conflicts(r, objects)
  /\ resolutions' = [x \in Dossiers |->
                      IF x \in work[r] THEN resolutions[x] + 1 ELSE resolutions[x]]
  /\ Committed(r, objects)
  /\ IF r \in FromForm THEN GoTo(r, "done") /\ UNCHANGED <<sawLock, error>>
     ELSE ToRelease(r, "none")
  /\ UNCHANGED <<lock, expired, work, retries>>

\* Mutant: the commit is made by the publisher, after the finally clause.
ResolveConflictMutant(r) ==
  /\ pc[r] = "work" /\ Target[r] \in work[r]
  /\ Conflicts(r, {StateOf(x) : x \in Dossiers})
  /\ Snapshot(r) /\ Retry(r)
  /\ UNCHANGED <<lock, expired, resolutions, work, sawLock, error>>
\* Two commits that write the same dossiers conflict; so may, in the catalog,
\* two that resolve different ones.
ResolveConflict(r) ==
  /\ pc[r] = "work" /\ Target[r] \in work[r]
  /\ Conflicts(r, {StateOf(x) : x \in Dossiers})
  /\ Snapshot(r)
  /\ IF r \in FromForm
     THEN Retry(r) /\ UNCHANGED <<sawLock, error>>
     ELSE ToRelease(r, "conflict") /\ UNCHANGED retries
  /\ UNCHANGED <<lock, expired, resolutions, work>>

\* release(commit=True): whatever lock is there is deleted.  Without an error
\* to propagate the request is done.
Release(r) ==
  LET d == Target[r] IN
  /\ pc[r] = "release" /\ sawLock[r] /\ ~ Conflicts(r, {LockOf(d)})
  /\ lock' = [lock EXCEPT ![d] = None]
  /\ expired' = expired \ {d}
  /\ Committed(r, {LockOf(d)})
  /\ IF error[r] = "conflict" THEN Retry(r) ELSE GoTo(r, "done") /\ UNCHANGED retries
  /\ UNCHANGED <<resolutions, work, sawLock, error>>

\* Mutant: the release is tried again in the same transaction.
ReleaseConflictMutant(r) ==
  pc[r] = "release" /\ sawLock[r] /\ Conflicts(r, {LockOf(Target[r])}) /\ UNCHANGED vars
\* Another commit changed the lock meanwhile.
ReleaseConflict(r) ==
  /\ pc[r] = "release" /\ sawLock[r] /\ Conflicts(r, {LockOf(Target[r])})
  /\ Retry(r)
  /\ UNCHANGED <<lock, expired, resolutions, touched, work, sawLock, error>>

\* The lock is gone already: a KeyError leaves the finally clause and takes
\* the place of the error that was propagating.
ReleaseKeyError(r) ==
  /\ pc[r] = "release" /\ ~ sawLock[r]
  /\ GoTo(r, "done")
  /\ error' = [error EXCEPT ![r] = "key"]
  /\ UNCHANGED <<lock, expired, resolutions, touched, work, sawLock, retries>>

-----------------------------------------------------------------------------
Crash(r) ==
  /\ r \in MayCrash /\ pc[r] \in {"acquire", "work", "release"}
  /\ GoTo(r, "dead")
  /\ UNCHANGED <<lock, expired, resolutions, request>>

\* A day has passed; no resolve takes that long.
Expire(d) ==
  /\ lock[d] # None /\ d \notin expired
  /\ pc[lock[d]] \in {"done", "dead"}
  /\ expired' = expired \cup {d}
  /\ UNCHANGED <<lock, resolutions, pc, request>>

Step(r) ==
  \/ Enter(r) \/ Acquire(r) \/ AcquireConflict(r)
  \/ Refuse(r) \/ Resolve(r) \/ ResolveConflict(r)
  \/ Release(r) \/ ReleaseConflict(r) \/ ReleaseKeyError(r)

Next ==
  \/ \E r \in Requests : Step(r) \/ Crash(r)
  \/ \E d \in Dossiers : Expire(d)

Spec == Init /\ [][Next]_vars
\* A process that does not die runs its request to the end.
FairSpec == Spec /\ \A r \in Requests : WF_vars(Step(r))

-----------------------------------------------------------------------------
(* Properties.                                                             *)

(* A dossier is resolved once, its after-resolve jobs run once, whatever   *)
(* requests meet, because the commits of two that resolve it conflict.     *)
ResolvedOnce == \A d \in Dossiers : resolutions[d] <= 1

(* A subdossier is not left open in a resolved dossier, even when it and   *)
(* the main dossier are being resolved at the same time.                   *)
WholeTrees ==
  \A d \in Dossiers : resolutions[d] > 0 => \A x \in Tree(d) : resolutions[x] > 0

(* Each lock belongs to a request that is still at it, or that died: no    *)
(* combination of conflicts leaves one behind, which would reject          *)
(* everybody for a day.                                                    *)
NoLeftoverLock ==
  \A d \in Dossiers : lock[d] # None => pc[lock[d]] \in {"work", "release", "dead"}

(* A main dossier that was asked for gets resolved: when the requests are  *)
(* over and none died, they have not all rejected or aborted one another.  *)
(* It takes one request that nobody takes the lock from, as the archive    *)
(* form's, and fewer conflicts with subdossiers than attempts: without it  *)
(* the locking ones may delete each other's locks until the last gives up. *)
NotAllFail ==
  \A r \in Requests :
    (\A q \in Requests : pc[q] = "done") /\ Above[Target[r]] = {}
      => resolutions[Target[r]] > 0

(* Every request gets an answer or dies: no two run each other in circles. *)
EveryRequestEnds == \A r \in Requests : <>(pc[r] \in {"done", "dead"})

(* While one request with a lock is resolving a dossier, no other one is   *)
(* (the docstring of ResolveLock).  It does not hold: see the README.      *)
MutualExclusion ==
  \A r, q \in Requests \ FromForm :
    r # q /\ Target[r] = Target[q] => ~ (pc[r] = "work" /\ pc[q] = "work")

(* After a conflict the request is run again, as long as the publisher     *)
(* does that (the comment in LockingResolveManager.resolve).               *)
ConflictIsRetried ==
  [][\A r \in Requests :
       pc[r] = "release" /\ error[r] = "conflict" /\ retries[r] < MaxRetries
         => pc'[r] \in {"release", "new", "dead"}]_vars

(* The transactions implement resolving in one step. *)
Abstract == INSTANCE ResolveOnce WITH entries <- resolutions
RefinesResolveOnce == Abstract!Spec
=============================================================================
