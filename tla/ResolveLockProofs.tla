-------------------------- MODULE ResolveLockProofs --------------------------
(***************************************************************************)
(* Resolving under optimistic transactions, for any dossier tree and any   *)
(* requests: each dossier is resolved once, trees are resolved whole, and  *)
(* the transactions implement ResolveOnce.                                 *)
(***************************************************************************)
EXTENDS ResolveLock, FiniteSetTheorems, TLAPS

(* What a request that is about to commit has read is still so, or         *)
(* somebody committed it since and the commit will conflict.               *)
WorkOK ==
  \A r \in Requests : pc[r] = "work" =>
    /\ work[r] \subseteq Tree(Target[r])
    /\ \A x \in Tree(Target[r]) \ work[r] : resolutions[x] > 0
    /\ \A x \in work[r] : resolutions[x] = 0 \/ StateOf(x) \in touched[r]

LInv == TypeOK /\ WorkOK /\ ResolvedOnce /\ WholeTrees

(* Before any request there is nothing to relate. *)
LEMMA LockInit == Init => LInv
  BY BoundAssumption
     DEF Init, LInv, TypeOK, WorkOK, ResolvedOnce, WholeTrees, Tree

(* Retrying keeps the types. *)
LEMMA RetryTypes ==
  ASSUME TypeOK, NEW r \in Requests, Retry(r)
  PROVE  /\ pc' \in [Requests -> {"new", "acquire", "work", "release", "done", "dead"}]
         /\ retries' \in [Requests -> 0..MaxRetries]
         /\ pc'[r] # "work"
         /\ \A q \in Requests : q # r => pc'[q] = pc[q]
  BY BoundAssumption DEF TypeOK, Retry, GoTo

(* A step that resolves nothing keeps the invariant if the requests that   *)
(* are about to commit have read the same as before, or read it just now.  *)
LEMMA LockKept ==
  ASSUME LInv, TypeOK', UNCHANGED resolutions, NEW r \in Requests,
         pc'[r] = "work" => work'[r] = OpenIn(Target[r]),
         \A q \in Requests : q # r /\ pc'[q] = "work" =>
           pc[q] = "work" /\ work'[q] = work[q] /\ touched[q] \subseteq touched'[q]
  PROVE  LInv'
<1>1. ResolvedOnce' /\ WholeTrees'
  BY DEF LInv, ResolvedOnce, WholeTrees
<1>2. ASSUME NEW q \in Requests, pc'[q] = "work"
      PROVE  /\ work'[q] \subseteq Tree(Target[q])
             /\ \A x \in Tree(Target[q]) \ work'[q] : resolutions'[x] > 0
             /\ \A x \in work'[q] : resolutions'[x] = 0 \/ StateOf(x) \in touched'[q]
  <2>1. CASE q = r
    BY <2>1, <1>2 DEF OpenIn, Tree, LInv, TypeOK
  <2>2. CASE q # r
    BY <2>2, <1>2 DEF LInv, WorkOK
  <2> QED BY <2>1, <2>2
<1>3. WorkOK'
  BY <1>2 DEF WorkOK, Tree, StateOf
<1> QED BY <1>1, <1>3 DEF LInv

(* A commit that meets no conflict resolves what is open in the whole      *)
(* tree.                                                                   *)
LEMMA ResolvesOpen ==
  ASSUME LInv, NEW r \in Requests, Resolve(r)
  PROVE  /\ resolutions[Target[r]] = 0
         /\ resolutions' = [x \in Dossiers |->
                             IF x \in Tree(Target[r]) /\ resolutions[x] = 0 THEN 1
                             ELSE resolutions[x]]
<1>1. \A x \in work[r] : resolutions[x] = 0
  BY DEF Resolve, Conflicts, LInv, WorkOK
<1>2. \A x \in Dossiers : x \in work[r] <=> x \in Tree(Target[r]) /\ resolutions[x] = 0
  BY <1>1 DEF Resolve, LInv, WorkOK, TypeOK
<1>3. resolutions' = [x \in Dossiers |->
                       IF x \in work[r] THEN resolutions[x] + 1 ELSE resolutions[x]]
  BY DEF Resolve
<1>4. resolutions[Target[r]] = 0
  BY <1>1 DEF Resolve
<1>5. \A x \in Dossiers :
        (IF x \in work[r] THEN resolutions[x] + 1 ELSE resolutions[x])
          = (IF x \in Tree(Target[r]) /\ resolutions[x] = 0 THEN 1 ELSE resolutions[x])
  BY <1>1, <1>2
<1> QED BY <1>3, <1>4, <1>5

(* A commit that meets no conflict keeps the invariant: what it resolved   *)
(* is in the way of every other commit of the same dossiers.               *)
LEMMA LockResolve ==
  ASSUME LInv, NEW r \in Requests, Resolve(r)
  PROVE  LInv'
<1> DEFINE d == Target[r]
<1>0. d \in Dossiers
  BY TargetAssumption
<1>1. \A x \in Dossiers : resolutions'[x] = IF x \in Tree(d) /\ resolutions[x] = 0 THEN 1
                                            ELSE resolutions[x]
  BY ResolvesOpen
<1>2. TypeOK'
  <2>1. resolutions' \in [Dossiers -> Nat]
    BY ResolvesOpen DEF LInv, TypeOK
  <2>2. {StateOf(x) : x \in work[r]} \subseteq Objects
    BY DEF LInv, TypeOK, StateOf, Objects
  <2>3. touched' \in [Requests -> SUBSET Objects]
    BY <2>2 DEF Resolve, Committed, LInv, TypeOK
  <2>4. pc' \in [Requests -> {"new", "acquire", "work", "release", "done", "dead"}]
    BY DEF Resolve, ToRelease, GoTo, LInv, TypeOK
  <2>5. /\ sawLock' \in [Requests -> BOOLEAN]
        /\ error' \in [Requests -> {"none", "conflict", "refused", "key"}]
    BY DEF Resolve, ToRelease, LInv, TypeOK
  <2> QED BY <2>1, <2>3, <2>4, <2>5 DEF Resolve, LInv, TypeOK
<1>3. ResolvedOnce'
  BY <1>1 DEF LInv, TypeOK, ResolvedOnce
<1>4. \A x \in Tree(d) : Tree(x) \subseteq Tree(d)
  BY TreeAssumption DEF Tree
<1>5. WholeTrees'
  <2> SUFFICES ASSUME NEW x \in Dossiers, resolutions'[x] > 0, NEW y \in Tree(x)
               PROVE  resolutions'[y] > 0
    BY DEF WholeTrees, Tree
  <2>1. y \in Dossiers /\ resolutions[x] \in Nat /\ resolutions[y] \in Nat
    BY DEF Tree, LInv, TypeOK
  <2>2. CASE x \in Tree(d)
    BY <2>1, <2>2, <1>1, <1>4
  <2>3. CASE x \notin Tree(d)
    BY <2>1, <2>3, <1>1 DEF LInv, WholeTrees
  <2> QED BY <2>2, <2>3
<1>6. ASSUME NEW q \in Requests, pc'[q] = "work"
      PROVE  /\ work'[q] \subseteq Tree(Target[q])
             /\ \A x \in Tree(Target[q]) \ work'[q] : resolutions'[x] > 0
             /\ \A x \in work'[q] : resolutions'[x] = 0 \/ StateOf(x) \in touched'[q]
  <2>1. q # r /\ pc[q] = "work" /\ work'[q] = work[q]
    BY <1>6 DEF Resolve, ToRelease, GoTo, LInv, TypeOK
  <2>2. touched'[q] = touched[q] \cup {StateOf(x) : x \in work[r]}
    BY <2>1 DEF Resolve, Committed
  <2>3. \A x \in Dossiers : resolutions'[x] = resolutions[x] \/ x \in work[r]
    BY <1>1 DEF Resolve, LInv, TypeOK, WorkOK
  <2>4. \A x \in Tree(Target[q]) \ work[q] : x \in Dossiers /\ resolutions'[x] > 0
    BY <2>1, <1>1 DEF LInv, WorkOK, Tree
  <2>5. \A x \in work[q] : resolutions'[x] = 0 \/ StateOf(x) \in touched'[q]
    BY <2>1, <2>2, <2>3 DEF LInv, WorkOK, TypeOK
  <2> QED BY <2>1, <2>4, <2>5 DEF LInv, WorkOK
<1>7. WorkOK'
  BY <1>6 DEF WorkOK, Tree, StateOf
<1> QED BY <1>2, <1>3, <1>5, <1>7 DEF LInv

(* Every step keeps it. *)
LEMMA LockStep == LInv /\ [Next]_vars => LInv'
<1> SUFFICES ASSUME LInv, [Next]_vars PROVE LInv'
  OBVIOUS
<1> USE TargetAssumption DEF TypeOK, request
<1>a. \A d \in Dossiers : LockOf(d) \in Objects
  BY DEF LockOf, Objects
<1>1. ASSUME NEW r \in Requests, Enter(r) PROVE LInv'
  <2>1. TypeOK'
    BY <1>1 DEF Enter, Snapshot, GoTo, OpenIn, Tree, LInv
  <2> QED BY <1>1, <2>1, LockKept DEF Enter, Snapshot, GoTo, LInv
<1>2. ASSUME NEW r \in Requests, Acquire(r) PROVE LInv'
  <2>1. TypeOK'
    BY <1>2, <1>a DEF Acquire, Committed, GoTo, OpenIn, Tree, LInv
  <2> QED BY <1>2, <2>1, LockKept DEF Acquire, Committed, GoTo, LInv
<1>3. ASSUME NEW r \in Requests, AcquireConflict(r) \/ Refuse(r) PROVE LInv'
  <2>1. TypeOK'
    BY <1>3 DEF AcquireConflict, Refuse, Snapshot, ToRelease, GoTo, LInv
  <2> QED BY <1>3, <2>1, LockKept
          DEF AcquireConflict, Refuse, Snapshot, ToRelease, GoTo, LInv
<1>4. ASSUME NEW r \in Requests, Resolve(r) PROVE LInv'
  BY <1>4, LockResolve
<1>5. ASSUME NEW r \in Requests, ResolveConflict(r) PROVE LInv'
  <2>1. CASE r \in FromForm
    <3>1. TypeOK'
      BY <1>5, <2>1, RetryTypes DEF ResolveConflict, Snapshot, LInv
    <3> QED BY <1>5, <2>1, <3>1, RetryTypes, LockKept DEF ResolveConflict, Snapshot, LInv
  <2>2. CASE r \notin FromForm
    <3>1. TypeOK'
      BY <1>5, <2>2 DEF ResolveConflict, Snapshot, ToRelease, GoTo, LInv
    <3> QED BY <1>5, <2>2, <3>1, LockKept
            DEF ResolveConflict, Snapshot, ToRelease, GoTo, LInv
  <2> QED BY <2>1, <2>2
<1>6. ASSUME NEW r \in Requests, Release(r) PROVE LInv'
  <2>1. touched' \in [Requests -> SUBSET Objects]
    BY <1>6, <1>a DEF Release, Committed, LInv
  <2>2. CASE error[r] = "conflict"
    <3>1. TypeOK'
      BY <1>6, <2>1, <2>2, RetryTypes DEF Release, LInv
    <3> QED BY <1>6, <2>2, <3>1, RetryTypes, LockKept DEF Release, Committed, LInv
  <2>3. CASE error[r] # "conflict"
    <3>1. TypeOK'
      BY <1>6, <2>1, <2>3 DEF Release, GoTo, LInv
    <3> QED BY <1>6, <2>3, <3>1, LockKept DEF Release, Committed, GoTo, LInv
  <2> QED BY <2>2, <2>3
<1>7. ASSUME NEW r \in Requests, ReleaseConflict(r) PROVE LInv'
  <2>1. TypeOK'
    BY <1>7, RetryTypes DEF ReleaseConflict, LInv
  <2> QED BY <1>7, <2>1, RetryTypes, LockKept DEF ReleaseConflict, LInv
<1>8. ASSUME NEW r \in Requests, ReleaseKeyError(r) \/ Crash(r) PROVE LInv'
  <2>1. TypeOK'
    BY <1>8 DEF ReleaseKeyError, Crash, GoTo, LInv
  <2> QED BY <1>8, <2>1, LockKept DEF ReleaseKeyError, Crash, GoTo, LInv
<1>9. ASSUME NEW d \in Dossiers, Expire(d) PROVE LInv'
  BY <1>9 DEF Expire, LInv, WorkOK, ResolvedOnce, WholeTrees, Tree, StateOf
<1>10. CASE UNCHANGED vars
  BY <1>10 DEF vars, LInv, WorkOK, ResolvedOnce, WholeTrees, Tree, StateOf
<1> QED BY <1>1, <1>2, <1>3, <1>4, <1>5, <1>6, <1>7, <1>8, <1>9, <1>10 DEF Next, Step

(* The invariant of all reachable states. *)
LEMMA LockInvariant == Spec => []LInv
  BY LockInit, LockStep, PTL DEF Spec

(* Type correctness, with the bound on the retries. *)
THEOREM LockTyping == Spec => []TypeOK
<1>1. LInv => TypeOK
  BY DEF LInv
<1> QED BY <1>1, LockInvariant, PTL

(* However requests interleave, crash and are run again, and although the  *)
(* lock does not keep two of them apart, a dossier is resolved once.       *)
THEOREM Once == Spec => []ResolvedOnce
<1>1. LInv => ResolvedOnce
  BY DEF LInv
<1> QED BY <1>1, LockInvariant, PTL

(* No crash and no conflict leaves a tree resolved in part. *)
THEOREM Whole == Spec => []WholeTrees
<1>1. LInv => WholeTrees
  BY DEF LInv
<1> QED BY <1>1, LockInvariant, PTL

(* The transactions implement resolving in one step: a commit is the       *)
(* abstract step and everything else a stutter.                            *)
THEOREM Refinement == Spec => RefinesResolveOnce
<1>1. Init => Abstract!Init
  BY DEF Init, Abstract!Init
<1>2. ASSUME LInv, [Next]_vars PROVE [Abstract!Next]_resolutions
  <2>1. ASSUME NEW r \in Requests, Resolve(r) PROVE Abstract!Next
    <3>1. Abstract!Tree(Target[r]) = Tree(Target[r])
      BY DEF Abstract!Tree, Tree
    <3>2. Abstract!ResolveTree(Target[r])
      BY <1>2, <2>1, <3>1, ResolvesOpen DEF Abstract!ResolveTree
    <3> QED BY <3>2, TargetAssumption DEF Abstract!Next
  <2>2. CASE UNCHANGED resolutions
    BY <2>2
  <2>3. CASE UNCHANGED vars
    BY <2>3, <2>2 DEF vars
  <2>4. ASSUME NEW r \in Requests, Step(r) \/ Crash(r), ~ Resolve(r)
        PROVE  UNCHANGED resolutions
    BY <2>4 DEF Step, Enter, Acquire, AcquireConflict, Refuse, ResolveConflict, Release,
                ReleaseConflict, ReleaseKeyError, Crash
  <2>5. ASSUME NEW d \in Dossiers, Expire(d) PROVE UNCHANGED resolutions
    BY <2>5 DEF Expire
  <2> QED BY <1>2, <2>1, <2>2, <2>3, <2>4, <2>5 DEF Next
<1>3. LInv /\ [Next]_vars => [Abstract!Next]_resolutions
  BY <1>2
<1> QED BY <1>1, <1>3, LockInvariant, PTL DEF Spec, RefinesResolveOnce, Abstract!Spec

-----------------------------------------------------------------------------
(* Locks.  The one who set a lock is still at work, or on its way to the   *)
(* release, sees the lock there and meets no conflict over it; or it died. *)

HolderOK ==
  \A d \in Dossiers : lock[d] # None =>
    LET r == lock[d] IN
    /\ Target[r] = d /\ r \notin FromForm
    /\ pc[r] \in {"work", "release", "dead"}
    /\ pc[r] \in {"work", "release"} => LockOf(d) \notin touched[r]
    /\ pc[r] = "release" => sawLock[r]
FormOK == \A r \in FromForm : pc[r] # "acquire"

(* A step of another request that leaves a lock there, and does not write  *)
(* it, keeps it in order.                                                  *)
LEMMA HolderKept ==
  ASSUME TypeOK, HolderOK, NEW r \in Requests,
         \A d \in Dossiers : lock'[d] = None \/ lock'[d] = lock[d] \/ lock'[d] = r,
         \A q \in Requests : q # r => pc'[q] = pc[q] /\ sawLock'[q] = sawLock[q],
         \A q \in Requests, d \in Dossiers :
           /\ q # r /\ lock'[d] = q
           /\ LockOf(d) \notin touched[q]
           => LockOf(d) \notin touched'[q],
         \A d \in Dossiers : lock'[d] = r =>
           /\ Target[r] = d /\ r \notin FromForm
           /\ pc'[r] \in {"work", "release", "dead"}
           /\ pc'[r] \in {"work", "release"} => LockOf(d) \notin touched'[r]
           /\ pc'[r] = "release" => sawLock'[r]
  PROVE  HolderOK'
<1> SUFFICES ASSUME NEW d \in Dossiers, lock'[d] # None
             PROVE  /\ Target[lock'[d]] = d /\ lock'[d] \notin FromForm
                    /\ pc'[lock'[d]] \in {"work", "release", "dead"}
                    /\ pc'[lock'[d]] \in {"work", "release"} => LockOf(d) \notin touched'[lock'[d]]
                    /\ pc'[lock'[d]] = "release" => sawLock'[lock'[d]]
  BY DEF HolderOK, LockOf
<1>1. CASE lock'[d] = r
  BY <1>1
<1>2. CASE lock'[d] # r
  <2>1. PICK q \in Requests : q = lock[d] /\ q = lock'[d] /\ q # r
    BY <1>2 DEF TypeOK
  <2>2. /\ Target[q] = d /\ q \notin FromForm
        /\ pc[q] \in {"work", "release", "dead"}
        /\ pc[q] \in {"work", "release"} => LockOf(d) \notin touched[q]
        /\ pc[q] = "release" => sawLock[q]
    BY <2>1 DEF HolderOK
  <2>3. pc'[q] = pc[q] /\ sawLock'[q] = sawLock[q]
    BY <2>1
  <2>4. pc[q] \in {"work", "release"} => LockOf(d) \notin touched'[q]
    BY <2>1, <2>2
  <2> QED BY <2>1, <2>2, <2>3, <2>4
<1> QED BY <1>1, <1>2

(* Every step of a request keeps the locks in order. *)
LEMMA HolderStep ==
  ASSUME TypeOK, HolderOK, FormOK, NEW r \in Requests, Step(r) \/ Crash(r)
  PROVE  HolderOK'
<1> DEFINE D == Target[r]
<1>0. D \in Dossiers /\ r # None
  BY TargetAssumption
<1>1. \A d \in Dossiers : lock[d] = r =>
        /\ D = d /\ r \notin FromForm
        /\ pc[r] \in {"work", "release", "dead"}
        /\ pc[r] \in {"work", "release"} => LockOf(d) \notin touched[r]
        /\ pc[r] = "release" => sawLock[r]
  BY TargetAssumption DEF HolderOK
<1>2. \A d, e \in Dossiers : LockOf(d) = LockOf(e) => d = e
  BY DEF LockOf
<1>3. \A d, e \in Dossiers : LockOf(d) # StateOf(e)
  BY DEF LockOf, StateOf
<1> USE DEF TypeOK
<1>4. CASE Enter(r)
  <2>1. \A q \in Requests : q # r => pc'[q] = pc[q] /\ touched'[q] = touched[q]
    BY <1>4 DEF Enter, Snapshot, GoTo
  <2>2. \A d \in Dossiers : lock[d] # r
    BY <1>1, <1>4 DEF Enter
  <2>3. UNCHANGED <<lock, sawLock>>
    BY <1>4 DEF Enter
  <2> QED BY <2>1, <2>2, <2>3, HolderKept
<1>5. CASE Acquire(r)
  <2>1. /\ \A d \in Dossiers : lock'[d] = IF d = D THEN r ELSE lock[d]
        /\ \A q \in Requests : q # r => touched'[q] = touched[q] \cup {LockOf(D)}
        /\ touched'[r] = {}
        /\ \A q \in Requests : q # r => pc'[q] = pc[q]
        /\ pc'[r] = "work" /\ UNCHANGED sawLock
    BY <1>5 DEF Acquire, Committed, GoTo
  <2>2. r \notin FromForm
    BY <1>5 DEF FormOK, Acquire
  <2> QED BY <1>0, <1>1, <1>2, <2>1, <2>2, HolderKept
<1>6. CASE AcquireConflict(r) \/ Refuse(r)
  <2>1. /\ UNCHANGED lock
        /\ \A q \in Requests : q # r => /\ pc'[q] = pc[q] /\ touched'[q] = touched[q]
                                        /\ sawLock'[q] = sawLock[q]
        /\ touched'[r] = {} /\ pc'[r] = "release" /\ sawLock'[r] = (lock[D] # None)
    BY <1>6 DEF AcquireConflict, Refuse, Snapshot, ToRelease, GoTo
  <2>2. \A d \in Dossiers : lock[d] = r => d = D /\ r \notin FromForm /\ sawLock'[r]
    BY <1>0, <1>1, <2>1
  <2> QED BY <2>1, <2>2, HolderKept
<1>7. CASE Resolve(r)
  <2>1. /\ UNCHANGED lock
        /\ \A q \in Requests : q # r => /\ pc'[q] = pc[q] /\ sawLock'[q] = sawLock[q]
                                        /\ touched'[q] \subseteq touched[q] \cup {StateOf(x) : x \in Dossiers}
        /\ touched'[r] = {}
        /\ r \notin FromForm => pc'[r] = "release" /\ sawLock'[r] = (lock[D] # None)
    BY <1>7 DEF Resolve, Committed, ToRelease, GoTo
  <2>2. \A d \in Dossiers : lock[d] = r => d = D /\ r \notin FromForm /\ sawLock'[r]
    BY <1>0, <1>1, <2>1
  <2> QED BY <1>3, <2>1, <2>2, HolderKept
<1>8. CASE ResolveConflict(r)
  <2>1. /\ UNCHANGED lock
        /\ \A q \in Requests : q # r => /\ pc'[q] = pc[q] /\ sawLock'[q] = sawLock[q]
                                        /\ touched'[q] = touched[q]
        /\ touched'[r] = {}
        /\ r \notin FromForm => pc'[r] = "release" /\ sawLock'[r] = (lock[D] # None)
    BY <1>8 DEF ResolveConflict, Snapshot, Retry, ToRelease, GoTo
  <2>2. \A d \in Dossiers : lock[d] = r => d = D /\ r \notin FromForm /\ sawLock'[r]
    BY <1>0, <1>1, <2>1
  <2> QED BY <2>1, <2>2, HolderKept
<1>9. CASE Release(r)
  <2>1. /\ \A d \in Dossiers : lock'[d] = IF d = D THEN None ELSE lock[d]
        /\ \A q \in Requests : q # r => touched'[q] = touched[q] \cup {LockOf(D)}
        /\ \A q \in Requests : q # r => pc'[q] = pc[q]
        /\ UNCHANGED sawLock
    BY <1>9 DEF Release, Committed, Retry, GoTo
  <2>2. \A d \in Dossiers : lock'[d] # r
    BY <1>0, <1>1, <2>1
  <2> QED BY <1>0, <1>2, <2>1, <2>2, HolderKept, TargetAssumption
<1>10. CASE ReleaseConflict(r) \/ ReleaseKeyError(r)
  <2>1. /\ UNCHANGED <<lock, touched, sawLock>>
        /\ \A q \in Requests : q # r => pc'[q] = pc[q]
    BY <1>10 DEF ReleaseConflict, ReleaseKeyError, Retry, GoTo
  <2>2. \A d \in Dossiers : lock[d] # r
    BY <1>0, <1>1, <1>10 DEF ReleaseConflict, ReleaseKeyError, Conflicts
  <2> QED BY <2>1, <2>2, HolderKept
<1>11. CASE Crash(r)
  <2>1. /\ UNCHANGED <<lock, touched, sawLock>>
        /\ \A q \in Requests : q # r => pc'[q] = pc[q]
        /\ pc'[r] = "dead"
    BY <1>11 DEF Crash, GoTo, request
  <2> QED BY <1>1, <2>1, HolderKept
<1> QED BY <1>4, <1>5, <1>6, <1>7, <1>8, <1>9, <1>10, <1>11 DEF Step

(* The archive form goes straight to work. *)
LEMMA FormStep ==
  ASSUME TypeOK, FormOK, [Next]_vars
  PROVE  FormOK'
<1> USE TargetAssumption DEF TypeOK, FormOK
<1>1. ASSUME NEW r \in Requests, Step(r) \/ Crash(r) PROVE FormOK'
  <2>1. \A q \in Requests : q # r => pc'[q] = pc[q]
    BY <1>1 DEF Step, Enter, Acquire, AcquireConflict, Refuse, Resolve, ResolveConflict,
                Release, ReleaseConflict, ReleaseKeyError, Crash, Retry, ToRelease, GoTo
  <2>2. pc'[r] = "acquire" => r \notin FromForm
    BY <1>1 DEF Step, Enter, Acquire, AcquireConflict, Refuse, Resolve, ResolveConflict,
                Release, ReleaseConflict, ReleaseKeyError, Crash, Retry, ToRelease, GoTo
  <2> QED BY <2>1, <2>2
<1>2. ASSUME NEW d \in Dossiers, Expire(d) PROVE FormOK'
  BY <1>2 DEF Expire
<1>3. CASE UNCHANGED vars
  BY <1>3 DEF vars
<1> QED BY <1>1, <1>2, <1>3 DEF Next

(* No lock is left by a request that is over: not by one whose commit met  *)
(* a conflict, not by one whose lock another took over or deleted, not by  *)
(* one whose release failed.  Only the dead leave theirs, for a day.       *)
THEOREM OnlyTheDeadLeaveLocks == Spec => []NoLeftoverLock
<1> DEFINE Inv == LInv /\ HolderOK /\ FormOK
<1>1. Init => Inv
  BY LockInit, TargetAssumption DEF Init, HolderOK, FormOK
<1>2. Inv /\ [Next]_vars => Inv'
  <2> SUFFICES ASSUME Inv, [Next]_vars PROVE HolderOK'
    BY LockStep, FormStep DEF LInv
  <2>1. ASSUME NEW r \in Requests, Step(r) \/ Crash(r) PROVE HolderOK'
    BY <2>1, HolderStep DEF LInv
  <2>2. ASSUME NEW d \in Dossiers, Expire(d) PROVE HolderOK'
    BY <2>2 DEF Expire, HolderOK, LockOf, request
  <2>3. CASE UNCHANGED vars
    BY <2>3 DEF vars, HolderOK, LockOf
  <2> QED BY <2>1, <2>2, <2>3 DEF Next
<1>3. Inv => NoLeftoverLock
  BY DEF HolderOK, NoLeftoverLock
<1> QED BY <1>1, <1>2, <1>3, PTL DEF Spec

-----------------------------------------------------------------------------
(* Progress.  A request has a number of steps left: at most five for each  *)
(* time the publisher may run it again, and those of the attempt it is in. *)

Rank == [new |-> 4, acquire |-> 3, work |-> 2, release |-> 1, done |-> 0, dead |-> 0]
StepsLeft(r) == 5 * (MaxRetries - retries[r]) + Rank[pc[r]]

(* Each step of a request, whatever the others did before it, brings it    *)
(* nearer to its end, and none of the others sets it back: a request that  *)
(* is not stopped ends after at most 5 * MaxRetries + 4 steps of its own.  *)
StepsRunOut ==
  [][\A r \in Requests :
       /\ StepsLeft(r)' \in Nat /\ StepsLeft(r)' <= StepsLeft(r)
       /\ Step(r) => StepsLeft(r)' < StepsLeft(r)]_vars

(* The steps left are those the publisher grants. *)
LEMMA StepsLeftBound ==
  ASSUME TypeOK, NEW r \in Requests
  PROVE  StepsLeft(r) \in 0..(5 * MaxRetries + 4)
<1>1. retries[r] \in 0..MaxRetries /\ Rank[pc[r]] \in 0..4
  BY DEF TypeOK, Rank
<1> QED BY <1>1, BoundAssumption DEF StepsLeft

(* A step counts down for its own request and leaves the others alone. *)
LEMMA StepCounts ==
  ASSUME TypeOK, NEW r \in Requests, Step(r)
  PROVE  /\ StepsLeft(r)' < StepsLeft(r)
         /\ \A q \in Requests : q # r => pc'[q] = pc[q] /\ retries'[q] = retries[q]
<1> USE DEF TypeOK, GoTo
<1>1. retries[r] \in 0..MaxRetries
  OBVIOUS
<1>2. \A q \in Requests : q # r => pc'[q] = pc[q] /\ retries'[q] = retries[q]
  BY DEF Step, Enter, Acquire, AcquireConflict, Refuse, Resolve, ResolveConflict, Release,
         ReleaseConflict, ReleaseKeyError, ToRelease, Retry
<1>3. \/ /\ retries'[r] = retries[r] /\ Rank[pc'[r]] < Rank[pc[r]]
         /\ pc'[r] \in {"acquire", "work", "release", "done"}
      \/ retries'[r] = retries[r] + 1 /\ pc'[r] = "new" /\ pc[r] \in {"work", "release"}
  <2>1. CASE Enter(r)
    BY <2>1 DEF Enter, Rank
  <2>2. CASE Acquire(r) \/ AcquireConflict(r) \/ Refuse(r) \/ ReleaseKeyError(r)
    BY <2>2 DEF Acquire, AcquireConflict, Refuse, ReleaseKeyError, ToRelease, Rank
  <2>3. CASE Resolve(r)
    BY <2>3 DEF Resolve, ToRelease, Rank
  <2>4. CASE ResolveConflict(r)
    BY <2>4 DEF ResolveConflict, ToRelease, Retry, Rank
  <2>5. CASE Release(r) \/ ReleaseConflict(r)
    BY <2>5 DEF Release, ReleaseConflict, Retry, Rank
  <2> QED BY <2>1, <2>2, <2>3, <2>4, <2>5 DEF Step
<1>4. Rank[pc'[r]] \in 0..4 /\ Rank[pc[r]] \in 0..4 /\ (pc[r] \in {"work", "release"} => Rank[pc[r]] >= 1)
  BY <1>3 DEF Rank
<1>5. StepsLeft(r)' = 5 * (MaxRetries - retries'[r]) + Rank[pc'[r]]
  BY DEF StepsLeft
<1> HIDE DEF TypeOK, GoTo
<1>6. pc'[r] = "new" => Rank[pc'[r]] = 4
  BY DEF Rank
<1>7. StepsLeft(r)' < StepsLeft(r)
  BY <1>1, <1>3, <1>4, <1>5, <1>6, BoundAssumption DEF StepsLeft
<1> QED BY <1>2, <1>7

(* No two requests run each other in circles: the retries of one are not   *)
(* given back by what another does (the safety half of EveryRequestEnds).  *)
THEOREM RequestsRunOut == Spec => StepsRunOut
<1>1. ASSUME LInv, LInv', [Next]_vars, NEW r \in Requests
      PROVE  /\ StepsLeft(r)' \in Nat /\ StepsLeft(r)' <= StepsLeft(r)
             /\ Step(r) => StepsLeft(r)' < StepsLeft(r)
  <2>1. StepsLeft(r) \in Nat /\ StepsLeft(r)' \in Nat
    <3>1. StepsLeft(r) \in 0..(5 * MaxRetries + 4)
      BY <1>1, StepsLeftBound DEF LInv
    <3>2. StepsLeft(r)' \in 0..(5 * MaxRetries + 4)
      <4>1. retries'[r] \in 0..MaxRetries /\ Rank[pc'[r]] \in 0..4
        BY <1>1 DEF LInv, TypeOK, Rank
      <4> QED BY <4>1, BoundAssumption DEF StepsLeft
    <3> QED BY <3>1, <3>2, BoundAssumption
  <2>2. Step(r) => StepsLeft(r)' < StepsLeft(r)
    BY <1>1, StepCounts DEF LInv
  <2>3. CASE pc'[r] = pc[r] /\ retries'[r] = retries[r]
    BY <2>1, <2>2, <2>3 DEF StepsLeft
  <2>4. ASSUME NEW q \in Requests, Step(q) PROVE StepsLeft(r)' <= StepsLeft(r)
    BY <1>1, <2>1, <2>2, <2>3, <2>4, StepCounts DEF LInv
  <2>5. ASSUME NEW q \in Requests, Crash(q) PROVE StepsLeft(r)' <= StepsLeft(r)
    <3>1. CASE q = r
      <4>1. pc'[r] = "dead" /\ retries'[r] = retries[r] /\ Rank[pc[r]] \in 0..4
        BY <1>1, <2>5, <3>1 DEF Crash, GoTo, request, LInv, TypeOK, Rank
      <4>2. retries[r] \in 0..MaxRetries /\ Rank["dead"] = 0
        BY <1>1 DEF LInv, TypeOK, Rank
      <4> QED BY <4>1, <4>2, BoundAssumption DEF StepsLeft
    <3>2. CASE q # r
      BY <1>1, <2>3, <2>5, <3>2 DEF Crash, GoTo, request, LInv, TypeOK
    <3> QED BY <3>1, <3>2
  <2>6. ASSUME NEW d \in Dossiers, Expire(d) PROVE StepsLeft(r)' <= StepsLeft(r)
    BY <2>3, <2>6 DEF Expire, request
  <2>7. CASE UNCHANGED vars
    BY <2>3, <2>7 DEF vars
  <2>8. StepsLeft(r)' <= StepsLeft(r)
    BY <1>1, <2>4, <2>5, <2>6, <2>7 DEF Next
  <2> QED BY <2>1, <2>2, <2>8
<1>2. LInv /\ LInv' /\ [Next]_vars =>
        [\A r \in Requests :
           /\ StepsLeft(r)' \in Nat /\ StepsLeft(r)' <= StepsLeft(r)
           /\ Step(r) => StepsLeft(r)' < StepsLeft(r)]_vars
  BY <1>1
<1> QED BY <1>2, LockInvariant, PTL DEF Spec, StepsRunOut

-----------------------------------------------------------------------------
(* What the lock does for a locking request when no other one wants the    *)
(* same dossier.  (Form requests take no lock and may meet any dossier.)   *)

Alone(r) == \A q \in Requests \ FromForm : q # r => Target[q] # Target[r]

(* The lock of the target is the request's own, is there from the acquire  *)
(* to the release and is seen there.                                       *)
StraightToWork(r) ==
  /\ pc[r] \notin {"acquire", "release"}
  /\ pc[r] = "work" => Target[r] \in work[r]
HoldsOwn(r) ==
  /\ pc[r] \in {"work", "release"} => lock[Target[r]] = r
  /\ pc[r] \in {"new", "acquire", "done"} => lock[Target[r]] = None
  /\ lock[Target[r]] \in {None, r}
  /\ LockOf(Target[r]) \notin touched[r]
  /\ pc[r] = "release" => sawLock[r]
OwnLock ==
  /\ \A r \in FromForm : StraightToWork(r)
  /\ \A r \in Requests \ FromForm : Alone(r) => HoldsOwn(r)

(* A step of a request moves its own program counter and its own reads,    *)
(* writes at most the lock of its own target, and that only if it is a     *)
(* locking one.                                                            *)
LEMMA StepFrame ==
  ASSUME TypeOK, OwnLock, NEW r \in Requests, Step(r) \/ Crash(r)
  PROVE  /\ \A q \in Requests : q # r => /\ pc'[q] = pc[q] /\ sawLock'[q] = sawLock[q]
                                        /\ work'[q] = work[q]
         /\ \A d \in Dossiers : lock'[d] # lock[d] => d = Target[r] /\ r \notin FromForm
         /\ \A q \in Requests, d \in Dossiers :
              LockOf(d) \in touched'[q] /\ LockOf(d) \notin touched[q]
                => q # r /\ d = Target[r] /\ r \notin FromForm
<1> USE DEF TypeOK, GoTo
<1>1. \A q \in Requests : q # r => /\ pc'[q] = pc[q] /\ sawLock'[q] = sawLock[q]
                                  /\ work'[q] = work[q]
  BY DEF Step, Enter, Acquire, AcquireConflict, Refuse, Resolve, ResolveConflict, Release,
         ReleaseConflict, ReleaseKeyError, ToRelease, Retry, Crash, request
<1>2. Target[r] \in Dossiers /\ (Acquire(r) \/ Release(r) => r \notin FromForm)
  BY TargetAssumption DEF OwnLock, StraightToWork, Acquire, Release
<1>3. \A d \in Dossiers : lock'[d] # lock[d] => d = Target[r] /\ r \notin FromForm
  BY <1>2 DEF Step, Enter, Acquire, AcquireConflict, Refuse, Resolve, ResolveConflict, Release,
              ReleaseConflict, ReleaseKeyError, Crash, request
<1>4. \A d, e \in Dossiers : LockOf(d) # StateOf(e) /\ (LockOf(d) = LockOf(e) => d = e)
  BY DEF LockOf, StateOf
<1>5. ASSUME NEW q \in Requests, NEW d \in Dossiers,
             LockOf(d) \in touched'[q], LockOf(d) \notin touched[q]
      PROVE  q # r /\ d = Target[r] /\ r \notin FromForm
  <2>1. CASE Acquire(r) \/ Release(r)
    BY <1>2, <1>4, <1>5, <2>1 DEF Acquire, Release, Committed
  <2>2. CASE Resolve(r)
    <3>1. q # r /\ touched'[q] = touched[q] \cup {StateOf(x) : x \in work[r]}
      BY <1>5, <2>2 DEF Resolve, Committed
    <3>2. work[r] \subseteq Dossiers
      OBVIOUS
    <3> QED BY <1>4, <1>5, <3>1, <3>2
  <2>3. CASE ~ (Acquire(r) \/ Release(r) \/ Resolve(r))
    <3>1. touched'[q] = touched[q] \/ touched'[q] = {}
      BY <2>3 DEF Step, Enter, AcquireConflict, Refuse, ResolveConflict, ReleaseConflict,
                  ReleaseKeyError, Snapshot, Crash, request
    <3> QED BY <1>5, <3>1
  <2> QED BY <2>1, <2>2, <2>3
<1> QED BY <1>1, <1>3, <1>5

(* Nobody gets in the way of the lock of a request that is alone. *)
LEMMA OwnLockStep ==
  ASSUME TypeOK, OwnLock, [Next]_vars
  PROVE  OwnLock'
<1> USE TargetAssumption DEF TypeOK
<1>1. ASSUME NEW r \in Requests, Step(r) \/ Crash(r) PROVE OwnLock'
  <2> DEFINE D == Target[r]
  <2>0. /\ D \in Dossiers /\ r # None
        /\ LockOf(D) \in {LockOf(D)}
        /\ \A x \in Dossiers : StateOf(x) # LockOf(D)
    BY DEF LockOf, StateOf
  <2>1. ASSUME r \in FromForm PROVE StraightToWork(r)'
    <3> USE DEF StraightToWork
    <3>1. StraightToWork(r)
      BY <2>1 DEF OwnLock
    <3>2. CASE Enter(r)
      BY <2>1, <3>2 DEF Enter, GoTo, OpenIn, Tree
    <3>3. CASE Resolve(r) \/ ResolveConflict(r) \/ Crash(r)
      BY <2>1, <3>1, <3>3 DEF Resolve, ResolveConflict, Retry, Crash, GoTo
    <3> QED BY <1>1, <3>1, <3>2, <3>3
            DEF Step, Acquire, AcquireConflict, Refuse, Release, ReleaseConflict,
                ReleaseKeyError
  <2>2. ASSUME r \notin FromForm, Alone(r) PROVE HoldsOwn(r)'
    <3> USE DEF HoldsOwn
    <3>1. HoldsOwn(r)
      BY <2>2 DEF OwnLock
    <3>2. CASE Enter(r)
      BY <2>2, <3>1, <3>2 DEF Enter, Snapshot, GoTo
    <3>3. CASE Acquire(r)
      BY <2>0, <3>3 DEF Acquire, Committed, GoTo
    <3>4. CASE AcquireConflict(r)
      BY <3>1, <3>4 DEF AcquireConflict, Conflicts
    <3>5. CASE Refuse(r)
      BY <2>0, <3>1, <3>5 DEF Refuse, Snapshot, ToRelease, GoTo
    <3>6. CASE Resolve(r)
      BY <2>0, <2>2, <3>1, <3>6 DEF Resolve, Committed, ToRelease, GoTo
    <3>7. CASE ResolveConflict(r)
      BY <2>0, <2>2, <3>1, <3>7 DEF ResolveConflict, Snapshot, ToRelease, GoTo
    <3>8. CASE Release(r)
      BY <2>0, <3>1, <3>8 DEF Release, Committed, Retry, GoTo
    <3>9. CASE ReleaseConflict(r) \/ ReleaseKeyError(r)
      BY <3>1, <3>9 DEF ReleaseConflict, ReleaseKeyError, Conflicts
    <3>10. CASE Crash(r)
      BY <3>1, <3>10 DEF Crash, GoTo, request
    <3> QED BY <1>1, <3>2, <3>3, <3>4, <3>5, <3>6, <3>7, <3>8, <3>9, <3>10 DEF Step
  <2>3. ASSUME NEW q \in FromForm, q # r PROVE StraightToWork(q)'
    BY <1>1, <2>3, StepFrame DEF OwnLock, StraightToWork
  <2>4. ASSUME NEW q \in Requests \ FromForm, Alone(q), q # r PROVE HoldsOwn(q)'
    <3>1. r \notin FromForm => Target[q] # D
      BY <2>4 DEF Alone
    <3>2. HoldsOwn(q) /\ Target[q] \in Dossiers
      BY <2>4 DEF OwnLock
    <3>3. pc'[q] = pc[q] /\ sawLock'[q] = sawLock[q]
      BY <1>1, <2>4, StepFrame
    <3>4. lock'[Target[q]] = lock[Target[q]]
      BY <1>1, <3>1, <3>2, StepFrame
    <3>5. LockOf(Target[q]) \notin touched'[q]
      BY <1>1, <2>4, <3>1, <3>2, StepFrame DEF HoldsOwn
    <3> QED BY <3>2, <3>3, <3>4, <3>5 DEF HoldsOwn
  <2> QED BY <2>1, <2>2, <2>3, <2>4 DEF OwnLock
<1>2. ASSUME NEW d \in Dossiers, Expire(d) PROVE OwnLock'
  BY <1>2 DEF Expire, request, OwnLock, StraightToWork, HoldsOwn, LockOf
<1>3. CASE UNCHANGED vars
  BY <1>3 DEF vars, OwnLock, StraightToWork, HoldsOwn, LockOf
<1> QED BY <1>1, <1>2, <1>3 DEF Next

(* So it is in every reachable state. *)
LEMMA OwnLockInvariant == Spec => [](LInv /\ OwnLock)
<1>1. Init => OwnLock
  BY TargetAssumption DEF Init, OwnLock, StraightToWork, HoldsOwn
<1>2. LInv /\ OwnLock /\ [Next]_vars => OwnLock'
  BY OwnLockStep DEF LInv
<1> QED BY <1>1, <1>2, LockInvariant, PTL DEF Spec

OwnDossiers == \A r \in Requests \ FromForm : Alone(r)

(* The comment in LockingResolveManager.resolve is true as long as no two  *)
(* locking requests want the same dossier: then a request that is          *)
(* releasing its lock finds it, and a conflict reaches the publisher.  The *)
(* run that refutes it has two of them.                                    *)
THEOREM RetriedWhenAlone ==
  ASSUME OwnDossiers
  PROVE  Spec => ConflictIsRetried
<1>1. ASSUME LInv, OwnLock, [Next]_vars, NEW r \in Requests,
             pc[r] = "release", error[r] = "conflict", retries[r] < MaxRetries
      PROVE  pc'[r] \in {"release", "new", "dead"}
  <2>1. r \notin FromForm /\ sawLock[r]
    BY <1>1 DEF OwnLock, OwnDossiers, StraightToWork, HoldsOwn
  <2>2. pc \in [Requests -> {"new", "acquire", "work", "release", "done", "dead"}]
    BY <1>1 DEF LInv, TypeOK
  <2>3. CASE Step(r) \/ Crash(r)
    <3>1. Release(r) \/ ReleaseConflict(r) \/ Crash(r)
      BY <1>1, <2>1, <2>3 DEF Step, Enter, Acquire, AcquireConflict, Refuse, Resolve,
                              ResolveConflict, ReleaseKeyError
    <3> QED BY <1>1, <2>2, <3>1 DEF Release, ReleaseConflict, Crash, Retry, GoTo
  <2>4. ASSUME NEW q \in Requests, q # r, Step(q) \/ Crash(q) PROVE pc'[r] = pc[r]
    BY <1>1, <2>4, StepFrame DEF LInv
  <2>5. ASSUME NEW d \in Dossiers, Expire(d) PROVE pc' = pc
    BY <2>5 DEF Expire
  <2>6. CASE UNCHANGED vars
    BY <1>1, <2>6 DEF vars
  <2> QED BY <1>1, <2>3, <2>4, <2>5, <2>6 DEF Next
<1>2. LInv /\ OwnLock /\ [Next]_vars =>
        [\A r \in Requests :
           pc[r] = "release" /\ error[r] = "conflict" /\ retries[r] < MaxRetries
             => pc'[r] \in {"release", "new", "dead"}]_vars
  BY <1>1
<1> QED BY <1>2, OwnLockInvariant, PTL DEF Spec, ConflictIsRetried

-----------------------------------------------------------------------------
(* Who gets a main dossier resolved.  The conflicts of a request are       *)
(* counted by the requests for other dossiers that have resolved theirs.   *)

Elsewhere(r) == {q \in Requests : Target[q] # Target[r]}
Others(r) == {q \in Elsewhere(r) : resolutions[Target[q]] > 0}
\* A conflict over the state of a dossier that the request has not met yet.
Ahead(r) == IF \E x \in Dossiers : StateOf(x) \in touched[r] THEN 1 ELSE 0
\* One it has met and not been run again for.
Pending(r) == IF pc[r] = "release" THEN 1 ELSE 0

(* A request whose main dossier is still open has not given up, and each   *)
(* time it was run again a request for another dossier had resolved that.  *)
Counted(r) ==
  resolutions[Target[r]] = 0 =>
    /\ pc[r] # "done"
    /\ pc[r] = "release" => error[r] = "conflict"
    /\ retries[r] + Pending(r) + Ahead(r) <= Cardinality(Others(r))

\* A request for a main dossier whose lock nobody takes from it, with no more
\* requests for other dossiers than the publisher runs it again.
Favoured(r) ==
  /\ Above[Target[r]] = {}
  /\ r \in FromForm \/ Alone(r)
  /\ IsFiniteSet(Elsewhere(r)) /\ Cardinality(Elsewhere(r)) <= MaxRetries

(* The others are fewer than the attempts. *)
LEMMA OthersBound ==
  ASSUME NEW r \in Requests, Favoured(r)
  PROVE  /\ IsFiniteSet(Others(r)) /\ Cardinality(Others(r)) \in Nat
         /\ Cardinality(Others(r)) <= MaxRetries
<1>1. Others(r) \in SUBSET Elsewhere(r)
  BY DEF Others
<1>2. IsFiniteSet(Elsewhere(r)) /\ Cardinality(Elsewhere(r)) <= MaxRetries
  BY DEF Favoured
<1>3. /\ IsFiniteSet(Others(r))
      /\ Cardinality(Others(r)) <= Cardinality(Elsewhere(r))
  BY <1>1, <1>2, FS_Subset
<1>4. Cardinality(Others(r)) \in Nat /\ Cardinality(Elsewhere(r)) \in Nat
  BY <1>2, <1>3, FS_CardinalityType
<1> QED BY <1>2, <1>3, <1>4, BoundAssumption

(* A request that resolves another dossier joins the others. *)
LEMMA OthersGrow ==
  ASSUME LInv, NEW r \in Requests, Favoured(r), NEW q \in Elsewhere(r), Resolve(q)
  PROVE  /\ Cardinality(Others(r)') \in Nat
         /\ Cardinality(Others(r)') >= Cardinality(Others(r)) + 1
<1>0. q \in Requests /\ Others(r)' \in SUBSET Elsewhere(r) /\ IsFiniteSet(Elsewhere(r))
  BY DEF Elsewhere, Others, Favoured
<1>1. /\ resolutions[Target[q]] = 0
      /\ \A x \in Dossiers : resolutions'[x] = IF x \in Tree(Target[q]) /\ resolutions[x] = 0
                                               THEN 1 ELSE resolutions[x]
  BY <1>0, ResolvesOpen
<1>2. \A p \in Requests : Target[p] \in Dossiers /\ resolutions[Target[p]] \in Nat
  BY TargetAssumption DEF LInv, TypeOK
<1>3. Target[q] \in Tree(Target[q])
  BY <1>0, <1>2 DEF Tree
<1>4. q \notin Others(r) /\ Others(r) \cup {q} \subseteq Others(r)'
  BY <1>0, <1>1, <1>2, <1>3 DEF Others, Elsewhere
<1>5. Cardinality(Others(r) \cup {q}) = Cardinality(Others(r)) + 1
  BY <1>4, OthersBound, FS_AddElement
<1>6. IsFiniteSet(Others(r)') /\ Cardinality(Others(r)') \in Nat
  BY <1>0, FS_Subset, FS_CardinalityType
<1>7. Cardinality(Others(r) \cup {q}) <= Cardinality(Others(r)')
  BY <1>4, <1>6, FS_Subset
<1> QED BY <1>5, <1>6, <1>7

(* A step that resolves nothing leaves the others as they are, and tells a *)
(* request of no conflict that it did not have ahead.                      *)
LEMMA NothingResolved ==
  ASSUME TypeOK, NEW r \in Requests, NEW q \in Requests, Step(q) \/ Crash(q), ~ Resolve(q)
  PROVE  /\ UNCHANGED resolutions /\ Others(r)' = Others(r)
         /\ q # r => error'[r] = error[r]
         /\ Ahead(r)' <= Ahead(r)
<1>1. UNCHANGED resolutions
  BY DEF Step, Enter, Acquire, AcquireConflict, Refuse, ResolveConflict, Release,
         ReleaseConflict, ReleaseKeyError, Crash
<1>2. q # r => error'[r] = error[r]
  BY DEF Step, Enter, Acquire, AcquireConflict, Refuse, ResolveConflict, Release,
         ReleaseConflict, ReleaseKeyError, ToRelease, Crash, request, TypeOK
<1>3. touched'[r] \subseteq touched[r] \cup {LockOf(Target[q])}
  BY DEF Step, Enter, Acquire, AcquireConflict, Refuse, ResolveConflict, Release,
         ReleaseConflict, ReleaseKeyError, Snapshot, Committed, Crash, request, TypeOK
<1>4. \A x \in Dossiers : StateOf(x) # LockOf(Target[q])
  BY DEF StateOf, LockOf
<1>5. \A x \in Dossiers : StateOf(x) \in touched'[r] => StateOf(x) \in touched[r]
  BY <1>3, <1>4
<1>6. Ahead(r)' <= Ahead(r)
  BY <1>5 DEF Ahead
<1>7. Others(r)' = Others(r)
  BY <1>1 DEF Others
<1> QED BY <1>1, <1>2, <1>6, <1>7

(* The counting: every step of the request, and of the others, keeps it.   *)
LEMMA CountStep ==
  ASSUME LInv, OwnLock, [Next]_vars, NEW r \in Requests, Favoured(r), Counted(r)
  PROVE  Counted(r)'
<1> DEFINE D == Target[r]
           C == Cardinality(Others(r))
<1>0. /\ D \in Dossiers /\ resolutions[D] \in Nat
      /\ retries[r] \in 0..MaxRetries /\ Ahead(r) \in 0..1 /\ Pending(r) \in 0..1
      /\ C \in Nat /\ C <= MaxRetries /\ MaxRetries \in Nat
      /\ pc \in [Requests -> {"new", "acquire", "work", "release", "done", "dead"}]
      /\ error \in [Requests -> {"none", "conflict", "refused", "key"}]
  BY TargetAssumption, BoundAssumption, OthersBound DEF LInv, TypeOK, Ahead, Pending
<1>a. Ahead(r)' \in 0..1 /\ (touched'[r] = {} => Ahead(r)' = 0)
  BY DEF Ahead
<1>b. Pending(r)' = IF pc'[r] = "release" THEN 1 ELSE 0
  BY DEF Pending
<1>1. ASSUME NEW q \in Requests, Resolve(q) PROVE Counted(r)'
  <2> SUFFICES ASSUME resolutions'[D] = 0 PROVE Counted(r)'
    BY DEF Counted
  <2>1. D \notin Tree(Target[q])
    BY <1>0, <1>1, ResolvesOpen DEF LInv, TypeOK
  <2>2. q # r /\ q \in Elsewhere(r) /\ resolutions[D] = 0
    BY <1>0, <1>1, <2>1, ResolvesOpen DEF Tree, Elsewhere, LInv, TypeOK
  <2>3. Cardinality(Others(r)') \in Nat /\ Cardinality(Others(r)') >= C + 1
    BY <1>1, <2>2, OthersGrow
  <2>4. /\ pc'[r] = pc[r] /\ retries'[r] = retries[r] /\ error'[r] = error[r]
    BY <1>1, <2>2 DEF Resolve, ToRelease, GoTo, LInv, TypeOK
  <2>6. pc[r] # "done" /\ (pc[r] = "release" => error[r] = "conflict")
        /\ retries[r] + Pending(r) + Ahead(r) <= C
    BY <2>2 DEF Counted
  <2>7. Pending(r)' = Pending(r)
    BY <2>4 DEF Pending
  <2>8. retries'[r] + Pending(r)' + Ahead(r)' <= Cardinality(Others(r)')
    BY <1>0, <1>a, <2>3, <2>4, <2>6, <2>7
  <2> QED BY <2>4, <2>6, <2>8 DEF Counted
<1>2. ASSUME NEW q \in Requests, q # r, Step(q) \/ Crash(q), ~ Resolve(q)
      PROVE  Counted(r)'
  <2>1. /\ UNCHANGED resolutions /\ Others(r)' = Others(r)
        /\ error'[r] = error[r] /\ Ahead(r)' <= Ahead(r)
    BY <1>2, NothingResolved DEF LInv
  <2>2. pc'[r] = pc[r] /\ retries'[r] = retries[r]
    BY <1>2, StepCounts DEF Crash, GoTo, request, LInv, TypeOK
  <2>3. Pending(r)' = Pending(r)
    BY <2>2 DEF Pending
  <2> QED BY <1>0, <1>a, <2>1, <2>2, <2>3 DEF Counted
<1>3. ASSUME Step(r) \/ Crash(r), ~ Resolve(r) PROVE Counted(r)'
  <2> SUFFICES ASSUME resolutions'[D] = 0 PROVE Counted(r)'
    BY DEF Counted
  <2>1. UNCHANGED resolutions /\ Others(r)' = Others(r)
    BY <1>3, NothingResolved DEF LInv
  <2>2. /\ pc[r] # "done" /\ (pc[r] = "release" => error[r] = "conflict")
        /\ retries[r] + Pending(r) + Ahead(r) <= C
    BY <2>1 DEF Counted
  <2>3. ASSUME pc'[r] # "done", pc'[r] # "release", touched'[r] = {},
               retries'[r] = retries[r]
        PROVE  Counted(r)'
    <3>1. Pending(r)' = 0 /\ Ahead(r)' = 0
      BY <1>a, <2>3 DEF Pending
    <3> QED BY <1>0, <2>1, <2>2, <2>3, <3>1 DEF Counted
  <2>4. r \notin FromForm => HoldsOwn(r)
    BY DEF OwnLock, Favoured
  <2>5. r \in FromForm => StraightToWork(r)
    BY DEF OwnLock
  <2>6. CASE Enter(r)
    <3>1. touched'[r] = {} /\ retries'[r] = retries[r] /\ pc[r] = "new"
      BY <2>6 DEF Enter, Snapshot, LInv, TypeOK
    <3>2. r \notin FromForm => ~ is_locked(D)
      BY <2>4, <3>1 DEF is_locked, HoldsOwn, Favoured
    <3>3. pc'[r] \in {"work", "acquire"}
      BY <1>0, <2>1, <2>6, <3>2 DEF Enter, GoTo
    <3> QED BY <2>3, <3>1, <3>3
  <2>7. CASE Acquire(r)
    BY <1>0, <2>3, <2>7 DEF Acquire, Committed, GoTo
  <2>8. CASE AcquireConflict(r) \/ ReleaseConflict(r) \/ ReleaseKeyError(r)
    BY <2>4, <2>5, <2>8 DEF AcquireConflict, ReleaseConflict, ReleaseKeyError, Conflicts,
                            HoldsOwn, StraightToWork
  <2>9. CASE Refuse(r)
    BY <1>0, <2>1, <2>9 DEF Refuse, LInv, WorkOK, Tree
  <2>10. CASE ResolveConflict(r)
    <3>1. Ahead(r) = 1 /\ Pending(r) = 0
      BY <2>10 DEF ResolveConflict, Conflicts, Ahead, Pending
    <3>2. retries[r] + 1 <= C
      BY <1>0, <2>2, <3>1
    <3>3. touched'[r] = {} /\ Ahead(r)' = 0
      BY <1>a, <2>10 DEF ResolveConflict, Snapshot, LInv, TypeOK
    <3>4. CASE r \in FromForm
      <4>1. pc'[r] = "new" /\ retries'[r] = retries[r] + 1
        BY <1>0, <2>10, <3>2, <3>4 DEF ResolveConflict, Retry, GoTo, LInv, TypeOK
      <4>2. Pending(r)' = 0
        BY <4>1 DEF Pending
      <4> QED BY <1>0, <2>1, <3>2, <3>3, <4>1, <4>2 DEF Counted
    <3>5. CASE r \notin FromForm
      <4>1. pc'[r] = "release" /\ retries'[r] = retries[r] /\ error'[r] = "conflict"
        BY <1>0, <2>10, <3>5 DEF ResolveConflict, ToRelease, GoTo
      <4>2. Pending(r)' = 1
        BY <4>1 DEF Pending
      <4> QED BY <1>0, <2>1, <3>2, <3>3, <4>1, <4>2 DEF Counted
    <3> QED BY <3>4, <3>5
  <2>11. CASE Release(r)
    <3>1. Pending(r) = 1 /\ error[r] = "conflict"
      BY <2>2, <2>11 DEF Release, Pending
    <3>2. retries[r] + 1 <= C
      BY <1>0, <2>2, <3>1
    <3>3. touched'[r] = {} /\ Ahead(r)' = 0
      BY <1>a, <2>11 DEF Release, Committed
    <3>4. pc'[r] = "new" /\ retries'[r] = retries[r] + 1
      BY <1>0, <2>11, <3>1, <3>2 DEF Release, Retry, GoTo, LInv, TypeOK
    <3>5. Pending(r)' = 0
      BY <3>4 DEF Pending
    <3> QED BY <1>0, <2>1, <3>2, <3>3, <3>4, <3>5 DEF Counted
  <2>12. CASE Crash(r)
    <3>1. /\ pc'[r] = "dead" /\ retries'[r] = retries[r] /\ touched'[r] = touched[r]
      BY <1>0, <2>12 DEF Crash, GoTo, request
    <3>2. Pending(r)' = 0 /\ Ahead(r)' = Ahead(r)
      BY <3>1 DEF Pending, Ahead
    <3> QED BY <1>0, <2>1, <2>2, <3>1, <3>2 DEF Counted
  <2> QED BY <1>3, <2>6, <2>7, <2>8, <2>9, <2>10, <2>11, <2>12 DEF Step
<1>4. ASSUME UNCHANGED <<resolutions, pc, request>> PROVE Counted(r)'
  <2>1. Ahead(r)' = Ahead(r) /\ Pending(r)' = Pending(r) /\ Others(r)' = Others(r)
    BY <1>4 DEF Ahead, Pending, Others, request
  <2> QED BY <1>4, <2>1 DEF Counted, request
<1>5. ASSUME NEW d \in Dossiers, Expire(d) PROVE Counted(r)'
  BY <1>4, <1>5 DEF Expire
<1>6. CASE UNCHANGED vars
  BY <1>4, <1>6 DEF vars, request
<1> QED BY <1>1, <1>2, <1>3, <1>5, <1>6 DEF Next, Step

(* The favoured requests: each one that reaches its end has its main       *)
(* dossier resolved, by itself or by somebody else.  The dossiers that     *)
(* others resolve meanwhile cost it an attempt each, and it has enough of  *)
(* them.                                                                   *)
THEOREM FavouredSucceed ==
  Spec => [](\A r \in Requests :
               Favoured(r) /\ pc[r] = "done" => resolutions[Target[r]] > 0)
<1> DEFINE Count == \A r \in Requests : Favoured(r) => Counted(r)
<1>1. Init => Count
  <2> SUFFICES ASSUME Init, NEW r \in Requests, Favoured(r) PROVE Counted(r)
    OBVIOUS
  <2>1. Ahead(r) = 0 /\ Pending(r) = 0 /\ retries[r] = 0 /\ pc[r] = "new"
    BY DEF Init, Ahead, Pending
  <2> QED BY <2>1, OthersBound DEF Counted
<1>2. LInv /\ OwnLock /\ Count /\ [Next]_vars => Count'
  BY CountStep
<1>3. LInv /\ Count => \A r \in Requests :
                          Favoured(r) /\ pc[r] = "done" => resolutions[Target[r]] > 0
  <2> SUFFICES ASSUME LInv, Count, NEW r \in Requests, Favoured(r), pc[r] = "done"
               PROVE  resolutions[Target[r]] > 0
    OBVIOUS
  <2>1. resolutions[Target[r]] # 0
    BY DEF Counted
  <2>2. resolutions[Target[r]] \in Nat
    BY TargetAssumption DEF LInv, TypeOK
  <2> QED BY <2>1, <2>2
<1> QED BY <1>1, <1>2, <1>3, OwnLockInvariant, PTL DEF Spec

(* One favoured request for each main dossier that is asked for is enough, *)
(* whatever the others do: with and without locks, for the same dossier or *)
(* for others.  It is what the run of NotAllFail has in its archive form.  *)
THEOREM MainDossiersGetResolved ==
  ASSUME \A r \in Requests : Above[Target[r]] = {} =>
           \E q \in Requests : Target[q] = Target[r] /\ Favoured(q)
  PROVE  Spec => []NotAllFail
<1>1. (\A r \in Requests : Favoured(r) /\ pc[r] = "done" => resolutions[Target[r]] > 0)
        => NotAllFail
  BY DEF NotAllFail
<1> QED BY <1>1, FavouredSucceed, PTL

-----------------------------------------------------------------------------
(* However many requests want the same dossier, one of them resolves it.   *)

OneDossier == \A r, q \in Requests : Target[r] = Target[q]

Resolved == \E r \in Requests : resolutions[Target[r]] > 0
\* Somebody is resolving it, or died.
Underway == \E r \in Requests : pc[r] \in {"work", "dead"}
\* Nobody has written anything.
Untouched == \A r \in Requests : /\ pc[r] \in {"new", "acquire"}
                                 /\ LockOf(Target[r]) \notin touched[r]
                                 /\ lock[Target[r]] = None

(* The first to get its lock works on the dossier, with nothing to         *)
(* conflict with but the commit that resolves it; until then nobody is     *)
(* turned away.                                                            *)
SomebodyDoes ==
  /\ \A r \in Requests, x \in Dossiers : StateOf(x) \in touched[r] => Resolved
  /\ Resolved \/ Underway \/ Untouched

(* Every step of a request keeps it. *)
LEMMA SomebodyStep ==
  ASSUME OneDossier, LInv, LInv', HolderOK, SomebodyDoes,
         NEW r \in Requests, Step(r) \/ Crash(r)
  PROVE  SomebodyDoes'
<1> DEFINE D == Target[r]
<1>0. /\ D \in Dossiers /\ \A q \in Requests : Target[q] = D
      /\ resolutions[D] \in Nat
      /\ pc \in [Requests -> {"new", "acquire", "work", "release", "done", "dead"}]
      /\ touched \in [Requests -> SUBSET Objects]
      /\ lock \in [Dossiers -> Requests \cup {None}] /\ None \notin Requests
  BY TargetAssumption DEF OneDossier, LInv, TypeOK
<1>1. Resolved <=> resolutions[D] > 0
  BY <1>0 DEF Resolved
<1>2. Resolved' <=> resolutions'[D] > 0
  BY <1>0 DEF Resolved
<1>3. CASE Resolve(r)
  <2>1. resolutions'[D] > 0
    BY <1>0, <1>3, ResolvesOpen DEF Tree
  <2> QED BY <1>2, <2>1 DEF SomebodyDoes
<1>4. CASE Resolved /\ ~ Resolve(r)
  <2>1. UNCHANGED resolutions
    BY <1>4, NothingResolved DEF LInv
  <2> QED BY <1>1, <1>2, <1>4, <2>1 DEF SomebodyDoes
<1>5. CASE ~ Resolved /\ ~ Resolve(r)
  <2>1. UNCHANGED resolutions /\ resolutions[D] = 0
    BY <1>0, <1>1, <1>5, NothingResolved DEF LInv
  <2>2. \A q \in Requests, x \in Dossiers : StateOf(x) \notin touched[q]
    BY <1>5 DEF SomebodyDoes
  <2>3. \A q \in Requests, x \in Dossiers : StateOf(x) \notin touched'[q]
    <3>1. ASSUME NEW q \in Requests PROVE touched'[q] \subseteq touched[q] \cup {LockOf(D)}
      BY <1>0, <1>5, <3>1
         DEF Step, Enter, Acquire, AcquireConflict, Refuse, ResolveConflict, Release,
             ReleaseConflict, ReleaseKeyError, Snapshot, Committed, Crash, request
    <3>2. \A x \in Dossiers : StateOf(x) # LockOf(D)
      BY DEF StateOf, LockOf
    <3> QED BY <2>2, <3>1, <3>2
  <2>4. ~ Refuse(r) /\ ~ ResolveConflict(r)
    <3>1. ~ Refuse(r)
      BY <1>0, <2>1 DEF Refuse, LInv, WorkOK, Tree
    <3>2. ~ ResolveConflict(r)
      BY <2>2 DEF ResolveConflict, Conflicts
    <3> QED BY <3>1, <3>2
  <2>5. ASSUME NEW q \in Requests, q # r PROVE pc'[q] = pc[q]
    BY <1>0, <2>5 DEF Step, Enter, Acquire, AcquireConflict, Refuse, Resolve, ResolveConflict,
            Release, ReleaseConflict, ReleaseKeyError, Crash, Retry, ToRelease, GoTo
  <2>6. ASSUME Underway PROVE Underway'
    <3>1. PICK q \in Requests : pc[q] \in {"work", "dead"}
      BY <2>6 DEF Underway
    <3>2. CASE q # r
      BY <2>5, <3>1, <3>2 DEF Underway
    <3>3. CASE q = r
      <4>1. Crash(r)
        BY <1>5, <2>4, <3>1, <3>3 DEF Step, Enter, Acquire, AcquireConflict, Release,
                                      ReleaseConflict, ReleaseKeyError
      <4>2. pc'[r] = "dead"
        BY <1>0, <4>1 DEF Crash, GoTo
      <4> QED BY <4>2 DEF Underway
    <3> QED BY <3>2, <3>3
  <2>7. ASSUME Untouched PROVE Underway' \/ Untouched'
    <3>1. \A q \in Requests : /\ pc[q] \in {"new", "acquire"} /\ LockOf(D) \notin touched[q]
                              /\ lock[D] = None
      BY <1>0, <2>7 DEF Untouched
    <3>2. CASE Enter(r)
      <4>1. \A x \in Dossiers : lock[x] # None => x = D
        BY <1>0 DEF HolderOK
      <4>2. ~ is_locked(D)
        <5>1. {D} \cup Above[D] \subseteq Dossiers
          BY <1>0, TreeAssumption
        <5> QED BY <3>1, <4>1, <5>1 DEF is_locked
      <4>3. pc'[r] \in {"work", "acquire"} /\ touched'[r] = {} /\ UNCHANGED lock
            /\ \A q \in Requests : q # r => touched'[q] = touched[q]
        BY <1>0, <2>1, <3>2, <4>2 DEF Enter, GoTo, Snapshot
      <4>4. CASE pc'[r] = "work"
        BY <4>4 DEF Underway
      <4>5. CASE pc'[r] = "acquire"
        <5> SUFFICES ASSUME NEW q \in Requests
                     PROVE  /\ pc'[q] \in {"new", "acquire"}
                            /\ LockOf(Target[q]) \notin touched'[q]
                            /\ lock'[Target[q]] = None
          BY DEF Untouched, LockOf
        <5> QED BY <1>0, <2>5, <3>1, <4>3, <4>5
      <4> QED BY <4>3, <4>4, <4>5
    <3>3. CASE Acquire(r)
      <4>1. pc'[r] = "work"
        BY <1>0, <3>3 DEF Acquire, GoTo
      <4> QED BY <4>1 DEF Underway
    <3>4. CASE Crash(r)
      <4>1. pc'[r] = "dead"
        BY <1>0, <3>4 DEF Crash, GoTo
      <4> QED BY <4>1 DEF Underway
    <3>5. Enter(r) \/ Acquire(r) \/ Crash(r)
      BY <1>5, <2>4, <3>1 DEF Step, AcquireConflict, Conflicts, Release, ReleaseConflict,
                              ReleaseKeyError
    <3> QED BY <3>2, <3>3, <3>4, <3>5
  <2> QED BY <1>5, <2>3, <2>6, <2>7 DEF SomebodyDoes, StateOf
<1> QED BY <1>3, <1>4, <1>5

(* Requests that all want one dossier do not reject and abort one another  *)
(* until none is left: for any number of them, with or without a lock, and *)
(* whatever the publisher's limit, when all are over it is resolved.       *)
THEOREM NotAllFailOnOneDossier ==
  ASSUME OneDossier
  PROVE  Spec => []NotAllFail
<1> DEFINE Inv == LInv /\ HolderOK /\ FormOK /\ SomebodyDoes
<1>1. Init => Inv
  BY LockInit, TargetAssumption DEF Init, HolderOK, FormOK, SomebodyDoes, Untouched
<1>2. Inv /\ [Next]_vars => Inv'
  <2> SUFFICES ASSUME Inv, [Next]_vars PROVE HolderOK' /\ SomebodyDoes'
    BY LockStep, FormStep DEF LInv
  <2>1. LInv'
    BY LockStep
  <2>2. ASSUME NEW r \in Requests, Step(r) \/ Crash(r) PROVE HolderOK' /\ SomebodyDoes'
    BY <2>1, <2>2, HolderStep, SomebodyStep DEF LInv
  <2>3. ASSUME UNCHANGED <<lock, resolutions, pc, request>>
        PROVE  HolderOK' /\ SomebodyDoes'
    BY <2>3 DEF HolderOK, SomebodyDoes, Resolved, Underway, Untouched, LockOf, StateOf, request
  <2>4. ASSUME NEW d \in Dossiers, Expire(d) PROVE HolderOK' /\ SomebodyDoes'
    BY <2>3, <2>4 DEF Expire
  <2>5. CASE UNCHANGED vars
    BY <2>3, <2>5 DEF vars, request
  <2> QED BY <2>2, <2>4, <2>5 DEF Next
<1>3. Inv => NotAllFail
  <2> SUFFICES ASSUME Inv, NEW r \in Requests, \A q \in Requests : pc[q] = "done"
               PROVE  resolutions[Target[r]] > 0
    BY DEF NotAllFail
  <2>1. Resolved
    BY DEF SomebodyDoes, Underway, Untouched
  <2> QED BY <2>1 DEF Resolved, OneDossier
<1> QED BY <1>1, <1>2, <1>3, PTL DEF Spec
=============================================================================
