# TLA+ models of opengever.core (OneGov GEVER)

OneGov GEVER is a records management system on Plone. A repository holds
dossiers, dossiers hold subdossiers, documents, tasks and proposals, and each of
these has a workflow. Requests run in parallel in several Zope processes, each
in one ZODB transaction (with an SQL transaction for tasks and meetings); a cron
job runs the nightly jobs beside them. This directory models

- the life of a dossier: how it is created, moved, resolved, reactivated,
  deactivated, offered to the archive and destroyed, and what must be true of
  its contents at each of these steps;
- how the requests and nightly jobs that do this meet, down to transactions,
  conflicts, retries and processes that die;
- the tasks of a sequential process in a dossier;
- dispositions, and the delivery of their packages at night;
- the meetings of a committee, where the locking is that of the SQL database.

## Inventory of the system

| Component | State | Operations | Meets | Hard behaviour | Correct when |
|---|---|---|---|---|---|
| Dossier tree (`dossier/`) | review state, container, path index, end date, workflow history | create, move, edit, resolve, reactivate, deactivate, activate | tasks, proposals, documents through catalog queries; dispositions | recursion over a tree that changes, rights that differ within it, partial failure | nothing open in something closed |
| Resolve lock (`dossier/resolve_lock.py`, `resolve.py`) | a lock annotation per dossier | acquire, release, expire, is_locked | the publisher's retries, the archive form | three transactions per request, conflicts, crashes | resolved once and wholly, no lock left over |
| After-resolve jobs (`dossier/resolve.py`, `nightly_after_resolve_job.py`) | a pending flag per dossier | execute at resolve or at night | requests between two jobs | stale listing, interruption | no deletion in an open dossier, all pending dossiers processed |
| Nightly runner (`nightlyjobs/`) | a volatile queue of preview tasks; the providers list work | run, interrupt, commit, abort | every provider | window over midnight, load, failing jobs and tasks | begins in the window only, loses no job, starves none |
| Tasks (`task/`, `tasktemplates/`) | workflow state, order of a sequence, local roles, a column in SQL | 20 transitions, open next, cancel subtasks, delegate, reassign | dossiers | sequences changed while they run, event handlers whose order matters | the sequence advances, roles last as long as the work |
| Dispositions (`disposition/`) | dossiers, appraisal, package, workflow | offer, edit, appraise, dispose, refuse, archive, close | dossiers, SIP delivery, other dispositions | one transaction over many dossiers, destruction | destroys only what was packed or is worthless |
| SIP delivery (`disposition/delivery.py`) | a status per transport | schedule, deliver | the nightly runner, external servers | effect outside of the transaction, stale listing | delivered once, and what is current |
| Meetings (`meeting/`) | SQL rows of meetings, items, proposals, sequence numbers; a history in ZODB | schedule, decide, reopen, return, close, cancel, reject | two databases | READ COMMITTED: checks on what was read before | unique numbers, a proposal on one agenda, closed means decided |
| Checkout (`document/checkout/`) | who has it checked out, WebDAV locks, versions | checkout, checkin, cancel, revert | trash, moves, resolve | locks that outlive a checkout | no edit is lost |
| Trash (`trash/`) | a marker | trash, untrash, remove | after-resolve jobs | purge against untrash | only what is in the trash is purged |
| SQL locks (`locking/`) | rows with an expiry | lock, refresh, unlock, steal | protocol editors | no check before insert | one holder |
| Notification center (`activity/`) | watchers, notifications | add, dispatch, digest | all of the above | dispatch errors | each watcher notified once |

Task successors on other admin units, inbox, workspaces, private dossiers,
repository, journal, global index, OGDS synchronisation, bumblebee, contacts,
imports and the front end are listed in `PROJECT.json` with the reason they are
not modelled. The models cover a small part of the repository by its lines: a
quarter of them are generated bindings of the eCH schemas, and most of the rest
is forms, views, tabs, upgrade steps, profiles and the REST serialization, which
keep no state of their own.

## Modules

| Module | Models | Used by |
|---|---|---|
| `DossierTree` | the dossier tree, one action per request | `MCDossierTree`, `DossierTreeProofs`, `NightlyAfterResolve` |
| `ResolveOnce` | abstract: a tree becomes resolved in one step | `ResolveLock` |
| `ResolveLock` | resolving down to its transactions: lock, snapshots, conflicts, retries, crashes | `MCResolveLock`, `ResolveLockProofs` |
| `NightlyAfterResolve` | the nightly after-resolve jobs composed with all requests of `DossierTree` | `MCNightly`, `NightlyAfterResolveProofs` |
| `NightlyRunner` | the runner over all providers, with the clock | `MCNightlyRunner`, `NightlyRunnerProofs` |
| `TaskSequence` | abstract: what a sequential process promises of its steps | `TaskProcess` |
| `TaskProcess` | the task workflow, its handlers, sequences and local roles | `MCTaskProcess`, `TaskProcessProofs` |
| `Disposition` | the workflow of dispositions, one action per request | `SIPDelivery` |
| `SIPDelivery` | the nightly delivery composed with `Disposition` | `MCSIPDelivery`, `SIPDeliveryProofs` |
| `NumberSequence` | abstract: what the sequence numbers of a period promise | `Meeting`, twice |
| `Meeting` | meetings, agenda items and proposals, two steps per request | `MCMeeting`, `MeetingProofs` |

An `MC` module holds the constants of the instances; several `.cfg` files may use
one. A `Proofs` module holds the theorems about a module and their lemmas.

### DossierTree

`state` is the review state, `parent` the container and `above` the path index of
the catalog, which `MoveDossier` has to rewrite for everything below the dossier
it moves. `former` is what `get_former_state` finds in the workflow history;
`hasEnd` tells whether an end date is set, `pending` is the flag of
`AfterResolveJobs`. Tasks and proposals are items in the states "open" (what the
catalog queries of `has_active_tasks` and `has_active_proposals` ask for),
"closed", or, a task of a sequential process, "skipped"; documents are "in", checked "out", "trashed", "shadow" or "gone".

An action is a request with everything it calls: `Resolve` is the precondition
check, the recursion, the end dates and `AfterResolveJobs.execute`. A request
that is refused aborts its transaction and is not a step, with one exception:
the REST endpoint turns a `WorkflowException` into an answer and commits, so
`ReactivateFails` is an action. Rights are constants: `Sees` is who may view a
dossier and change it (queries through `portal_catalog` return these only),
`MayReopen` who passes the guard of reactivate and activate. The guards of the
views of `base.py` are the operators with the same names.

A move asks for no state of what is moved: an offered or archived dossier may
be cut and pasted below an open one, as `api/move.py` and `verify_object_paste.py`
let it, and a disposition may hold a subdossier. So a walk may meet dossiers
that a disposition holds, and passes them by.

Abstracted: dates, titles, the PDFs the after-resolve jobs make, and the tasks'
own workflow, of which an item has what bears on the dossier: it is added, closed
and moved, a closed one is reopened in an open dossier only, and a skipped one
(`SkipTask`) is opened in any dossier (`OpenSkipped`), since that guard does not
look at it. Planned tasks are left to `TaskProcess`, and the rest of the workflow
of an item to it and to `Meeting`; a task at `TaskDepth` n stands for its parent
tasks too. A proposal is an item like a task, without skipping.

### ResolveLock

`Enter` is the view up to `is_locked`, in the first transaction; `Acquire` the
commit of the lock; `Refuse`, `Resolve` and `ResolveConflict` the second
transaction; the `Release` actions the finally clause in the third. ZODB is
external: a request's snapshot is what it has read (`work`, `sawLock`) and the
set `touched` of what others have committed since; a commit that writes
something touched conflicts. ZPublisher is external: a `ConflictError` that
reaches it puts the request back to "new", `MaxRetries` times. `FromForm` are
requests of the archive form, which resolves without a lock. `MayCrash` are the
requests whose process may die; `Expire` lets a lock grow older than a day when
its request is over (no resolve takes a day).

### NightlyAfterResolve

EXTENDS `DossierTree` with `jobs`, the listing that the provider makes once.
Every action of `DossierTree` may happen between two jobs. A job finds its
dossier by path; a dossier moved or destroyed since ends the run (`PathIsGone`,
a KeyError), and so may the window or the load (`Interrupted`).

### NightlyRunner

Providers in some sequence (the code's is that of a dictionary), each listed
when its turn comes (`NextProvider`). `MayGoOn` and `SystemLoadCritical` are the
two halves of `interrupt_if_necessary`, which the runner calls before a job and
the job may call itself; the load is a choice at any time. A run that was
`forced` (`--force`) is never interrupted. `JobFails` is any other exception,
which leaves `execute_pending_jobs` and ends the process. After the commit of a
job the runner works off the tasks the job has put into the volatile queue
(`queued`, `process_task_queue`); one that is not answered with 200 ends the
process (`TaskFails`), though the job stays done and the rest of the queue is
lost. The clock counts hours and passes while a job runs or no run is on.

### TaskProcess

A main task, the steps of its template and tasks added later, in one dossier.
`state` is the review state, `above` the tasks on the path of a task, `order` the
annotation TASK_PROCESS_ORDER of the main task, `predecessor` the column of the
global index (of which the other columns are copies, written in the same
transaction), `granted` whom a task has given local roles. `Transition` is one
step of the workflow with what happens in its transaction: the next task is
opened (`start_next_task`, `open_next_task`), subtasks are cancelled past guards
and events (`cancel_subtasks`), and roles are revoked or set (`set_roles`). The
latter two meet in one order: the event handler of a final transition revokes,
then the response the extender adds triggers the setter, which skips final
states. `Accept`, `ResolveOpen` and so on are the transitions with the guards
of `TaskTransitionController`; `Trigger` is `TaskTemplateFolderTrigger.generate`,
`AddToOrder` the add form of the main task with its position, `AddSubtask`
delegation and the add form of other tasks.

`TaskSequence` is the promise: a step waits until the step it follows is passed,
passing starts what waits for it, and nothing else does. The refinement mapping
takes `phase` from the review state (planned is waiting, resolved, closed and
skipped are passed, cancelled is dropped, the rest active) and `follows` from
`predecessor`, as far as that is a step.

### Disposition and SIPDelivery

`Disposition` has the workflow of dispositions: `SetDossiers` is the setter of the
relation with the transitions and appraisals it makes, `Appraise` the transition
that writes the archival values back, `Dispose` makes the package and schedules
the transports, `Close` and `CloseAppraised` destroy. A second disposition may
name a subdossier of a dossier of the first, so that one disposition destroys
what the other still holds. `UpdateAppraisal` has no guard on the state since its
view has none.

`SIPDelivery` is the provider's night beside these requests. A night lists the
disposed and scheduled dispositions once; a transaction per disposition reads
`seen`, the database as the transaction before it left it; `Deliver` and
`DeliverFails` hand the package to the next transport by name (the effect,
`received`, outlives an abort; a transport that fails may have been received
all the same); `Commit` writes the statuses unless they are in `Conflict`;
`Abort` ends the process. `TimeWindowExceeded` ends the night between two jobs.

### Meeting

A request is two steps, as the SQL session reads first and flushes at the end:
a `Load` action reads and checks the guards, an action named for the operation
writes. Between them any other request may commit; READ COMMITTED does not
object, so the write goes ahead (`outdated`, and then the meeting is `stale`)
unless a row it updates is deleted (`RowsAreThere`), or both write the
workflow history of the same proposal in ZODB (`InConflict`). `LockPeriod` is
`get_current_for_update`, the one row lock: it lasts until the commit.
`CloseFails` is a protocol that cannot be generated after the meeting was held.
Whether a request has to hold its meeting (`holds`) is read at the begin, before
it waits for the row of the period, as `hold()` asks for the state of the object
the session has loaded.

`NumberSequence` is the promise of the two counters of a period: whoever asks gets
the next numbers, each its own and none skipped; a number that is dropped is not
given again. `Meeting` implements it with its meetings and, in blocks, with its
agenda items: holding a meeting takes numbers, deleting an item drops one. It
allows that what has a number takes another one; that this happens only when a
meeting is held twice is `NumbersAreKept`.

## What the runs check

| Run | Instance | Shows |
|---|---|---|
| `tree` | 3 dossiers, 1 task, 2 users, one dossier that one of them may not view and both may not reopen, depth 2; 173,000 states | `TypeOK`, `PathsAgree`, `InactiveTree`, `ResolvedHasEnd`, `OnlyGapsLeaveActive`, `OnlySkippedOpensInClosed` |
| `lock` | main dossier, subdossier, 4 requests, 1 retry, 1 process that may die; 150,000 states | `ResolvedOnce`, `WholeTrees`, `NotAllFail`, `NoLeftoverLock`, `EveryRequestEnds`, and that `ResolveOnce` is implemented |
| `night` | 2 dossiers, 1 user with all rights, 1 task, 1 document; 407,000 states | `ResolvedIsClean`, `PendingIsProcessed`, `NoneLockedIn` |
| `runner` | 2 providers, 3 jobs of which the last always fails, a window from 5 to 7 of a six-hour day; 6,000 states | `BegunInWindow`, `EveryJobIsDone` |
| `tasks` | main task, 2 steps, 1 added task, 2 users; 239,000 states | `NoneLeftBehind`, `PlannedIsRunning`, `RevokedWhenClosed`, `RolesAreKept`, `OnlySkippedReopens`, and that `TaskSequence` is implemented |
| `delivery` | 2 dispositions over a dossier and its subdossier, 2 transports of which one fails and is enabled late, 1 refusal, 1 process that dies; 153,000 states | `DossiersFollow`, `DestroyedWasOffered`, `DeliveredOnce`, `DeliveredIsCurrent`, `ScheduledIsTried` |
| `meeting` | 2 meetings, 1 proposal, 1 ad hoc item, 2 requests at a time; 695,000 states | `NumbersAreUnique`, `ScheduledOnce`, `AgendaIsSound`, `NumbersAreKept`, and that `NumberSequence` is implemented |
| `half_open` | violated: `NoActiveInClosed` | a reactivation over REST fails at a subdossier the user may not reopen and leaves the ones below it open |
| `destroyed` | violated: `DestroysOnlyClosed` | a main dossier is reactivated while a disposition holds one of its subdossiers; what lies below that is active again when the disposition destroys it, though the manual has closed dossiers disposed of only |
| `retry` | violated: `ConflictIsRetried` | a `KeyError` of the release hides the `ConflictError` the comment says is retried |
| `night_stale` | violated: `NightDeletesOnlyInClosed` | a dossier reactivated after the listing has its trash purged |
| `added` | violated: `EveryTurnComes` | a task put behind the first step of a sequence stays planned when that step is closed, though the manual has it started in its turn |

Each property is stated at the end of its module, after a comment that says
what it means. Some belong together, as what the code promises and what a
document says of it: `OnlyGapsLeaveActive` and `NoActiveInClosed`, `NoneLockedIn`
and `NoCheckedOutInClosed`, `NoneLeftBehind` and `EveryTurnComes`.

`OnlyGapsLeaveActive` names the gaps of the recursive walks: a walk passes by
what a disposition holds, does not see what is protected, or fails halfway and is
committed. Each of them leaves an active dossier below a closed one; the
property says that nothing else does, and only in the step where it happens.
`InactiveTree` speaks of dossiers that nobody is kept from viewing, for the same
reason.

### Why the bounds are enough

Three dossiers are a main dossier, a subdossier and one below it: every property
of the tree relates a dossier to its container, and three levels are the fewest
in which a walk can pass over the middle one, be it protected, offered or moved
there. One task is enough for a property of each item; no instance has a
proposal, of which the model says what it says of a task without skipping. Two users, of whom one may view and one may not,
are enough for rights that differ; with a dossier that neither may reopen,
reactivations of a tree fail halfway and are committed. The two dossiers with the
same rights are symmetric. In `night` two dossiers are enough, as each has its own flag and
its own job. Four
requests are two on the same dossier, one on a subdossier and one without a
lock; one retry is the least with which a request meets the lock it left, and
`NoLeftoverLock` is as well checked with none to spare. `NotAllFail` holds of this
instance because of the request without a lock; the section on proofs says of
which requests it holds in general. Three
jobs of two providers let a run be cut before, between and after them. The six
hour day has a window over midnight.

Two steps and an added task let the task come before, between, behind or below
the steps, and the three categories decide which transitions there are. Two
dispositions are the fewest that compete for a dossier; a dossier with its
subdossier is the least that one destroys under another. One refusal
(`MaxRefused`), one process that dies (`MaxAborts`), one appraisal that changes
(`Reviewed`), one transport that fails (`Unreliable`) and one enabled late
(`Switched`) are the least with which each of these happens, and the theorems
about them hold for any number. Two meetings that both may take the proposal, and two
requests at a time, are the fewest that race for a number, for a proposal and
for a meeting; `Topics` keeps the ad hoc item in one of them.

### Fairness

No fairness is assumed of what users do.

- `ResolveLock`: WF on the steps of each request, since a process that does not
  die runs its request to the end; dying is a step too.
- `NightlyAfterResolve`: WF on `StartRun` (cron) and `PathIsGone` (the exception
  is raised), SF on `RunJob(d)`: a dossier is not moved, and the window not
  over, in every single night just before its job.
- `NightlyRunner`: WF on the clock and the runner's own steps. SF on
  `StartRun(FALSE)` (cron runs in the window), on `BeginJob(j)` (the load is not
  critical at every attempt) and on `FinishJob` (no job takes longer than the
  window, or meets an overload, in every night).
- `SIPDelivery`: SF on `StartNight`, on beginning a job, on delivering and on
  `Commit` (neither the window nor the process ends in each night at this
  point), WF on the abort of a conflict.

### What does not hold

Besides the five violations above, each of these follows from the code and can
be seen by changing a constant or a property of a run; none is a run.

Dossiers:

- `MutualExclusion` of `ResolveLock` (on `MCResolveRetry.cfg`): `acquire` is
  inside the `try`, so a request that lost the race deletes the winner's lock,
  and a third one gets in. `ResolvedOnce` holds in spite of it, because the
  second commit conflicts.
- `NotAllFail` without the request of the archive form (`Requests = {r1, r2, r3}`,
  `MayCrash = {}` on `MCResolveLock.cfg`): two locking requests for a main dossier,
  a double click, and one for its subdossier. The second one deletes the lock of
  the first and spends its retry on that; when the subdossier is committed both
  are in conflict, the second has no retry left, the first finds no lock to
  release and ends with a `KeyError`. All three requests are over and the main
  dossier is open. With the publisher's three retries it takes more requests
  (none of the instances with three or four does it), and
  `MainDossiersGetResolved` says what is enough for it never to happen.
- `NoActiveInClosed` in the instance of `tree`: a user who cannot view a subdossier
  resolves the main dossier around it; and an offered subdossier stays closed
  while its main dossier, and what lies below it, is reactivated.
- A skipped task can be opened in a closed dossier, and is then an open task in
  it; `OnlySkippedOpensInClosed` says that nothing else brings that about.
- `NoCheckedOutInClosed`, what the docstring of `is_all_checked_in` says ("all
  documents in this path"): the query has depth 2, so a dossier is resolved
  around a document that is checked out in a task of a subdossier.
- `DeletesOnlyInClosed` with a protected subdossier (`Nightly = FALSE`): it stays
  open when a user who cannot view it resolves the main dossier, and loses its
  shadowed documents with it.
- `ResolvedIsClean` is about a dossier, not about what lies below it: a main
  dossier that was offered, moved below an open one and retracted after that
  one was reactivated may have open subdossiers with a full trash.
- An end date of every resolved dossier, in the instance of `tree`: a
  reactivation that fails at a dossier the user may not reopen has already reset
  its end date, and the dossier stays resolved. `ResolvedHasEnd` therefore speaks
  of dossiers that everybody may reopen.
- `dossier/deactivate.py:101`: the loop that looks for a dossier the user knows, to
  name it in a message, never ends when the parent of the blocking subdossier
  is hidden from the user as well: it assigns the same parent again. It writes
  nothing, so `DossierTree` has the request as refused.

For each of the violations a theorem says which change is enough: an endpoint
that aborts when a reactivation fails, and walks that see and reactivate all
there is below, or refuse (`WholeWalksLeaveNoneActive`, and with the same change
`WholeWalksDestroyClosed` for `destroyed`), nobody else's lock in the way
(`RetriedWhenAlone`), a job that asks for the state again, beside such walks
(`LookingAgainSuffices`), and an order nothing is put into
(`TurnsComeUnlessPutIn`). A query without a depth is enough for
`NoCheckedOutInClosed` (`WholeQueryLocksNothingIn`).

The night:

- `run_job` does not look at the state again (`night_stale`). A dossier offered
  before the night has left the state the provider asks for: its jobs never
  run, and what was shadowed or trashed goes to the archive
  (`ArchivedIsCleaned`).
- `EveryJobIsDone` with `Broken = {j1}`: a job that fails every night is first in
  its listing every night, and what comes after it is never reached. A preview
  task that fails ends the night's run as well, and loses the tasks after it in
  the queue.

Tasks:

- A skipped task can be opened in a resolved dossier (`OnlySkippedReopens` says
  it is the only way), and its responsible has no roles then (`RolesAreKept`).
- A task that is added to a sequence is never started (the run `added`, and
  `AddedWaits`, which is proved): it lacks the marker and therefore a
  predecessor. The step behind it gets it for a predecessor, which opens
  nothing since it has no marker; so that step stays planned, too, until it is
  skipped, from where it can be opened by hand. `NoneLeftBehind` therefore speaks of steps that are right behind one another
  in the order, and `EveryTurnComes` of all.

Dispositions:

- A disposition that was refused and disposed again has a new package, which no
  transport that was tried before gets: the status is kept (`DeliveredIsCurrent`
  excludes it). The name of the file has the date in it, so a second delivery is
  a second file.
- A delivery that is received and then fails or is not committed is marked as
  failed, or made again (`DeliveredOnce` counts the processes that died).
- An appraisal from an old page changes what was decided after the archival
  values have been written; what counts for the guards is the appraisal. The
  transition itself does not ask for a complete appraisal: a dossier that is not
  appraised can be closed and destroyed by it (the value "open" in
  `DestroyedWasOffered`).
- A disposition that holds a subdossier of a dossier which another one destroyed
  cannot be edited or led to its end any more (`Whole`).

Meetings (all of them make a meeting `stale`, or find it so):

- Two requests that both read a meeting as pending, two decisions, a decision and
  a close, or a double click, both run `hold()`: it asks for the state of the
  object in the session before it waits for the row of the period, and not again
  after it. The second one gives the meeting and its items new numbers;
  `NumbersAreKept` says that nothing else changes a number.
- Closing while an item is reopened violates what `close()` asserts; scheduling
  while another request decides leaves an item without a number in a held
  meeting; cancelling while scheduling leaves a cancelled meeting with an item;
  deleting while an item is decided leaves a held meeting whose numbers have a
  gap. `AgendaIsSound` speaks of the meetings to which none of this happened.

## What is proved

For every value of the constants (tlapm with SMT, Zenon and LS4):

| Module | Theorem | Property | Assumes |
|---|---|---|---|
| `DossierTreeProofs` | `Typing` | `TypeOK` | |
| | `Paths` | `PathsAgree` | |
| | `InactiveBelowInactive` | `InactiveTree` | |
| | `OnlyGaps` | `OnlyGapsLeaveActive` | |
| | `WholeWalksLeaveNoneActive` | `NoActiveInClosed` | of behaviours with `WholeWalks` |
| | `WholeWalksDestroyClosed` | `DestroysOnlyClosed` | of behaviours with `WholeWalks` |
| | `OnlySkippedOpens` | `OnlySkippedOpensInClosed` | |
| | `EndDates` | `ResolvedHasEnd` | |
| | `CheckedOutStaysOpen` | `NoneLockedIn` | |
| | `DeletedInClosed` | `DeletesOnlyInClosed` | users see all dossiers |
| | `WholeQueryLocksNothingIn` | `NoCheckedOutInClosed` | of behaviours with `WholeQuery` |
| `ResolveLockProofs` | `LockTyping` | `TypeOK` | |
| | `Once` | `ResolvedOnce` | |
| | `Whole` | `WholeTrees` | |
| | `OnlyTheDeadLeaveLocks` | `NoLeftoverLock` | |
| | `Refinement` | `ResolveLock` implements `ResolveOnce` | |
| | `RequestsRunOut` | no step gives a request more steps, its own take one | |
| | `RetriedWhenAlone` | `ConflictIsRetried` | no two locking requests for one dossier |
| | `FavouredSucceed` | a favoured request ends only when its dossier is resolved | |
| | `MainDossiersGetResolved` | `NotAllFail` | a favoured request for each main dossier that is asked for |
| | `NotAllFailOnOneDossier` | `NotAllFail` | all requests want one dossier |
| `NightlyAfterResolveProofs` | `CleanWhenDone` | `ResolvedIsClean` | nightly jobs and purge enabled |
| | `NightLeavesTreesAlone` | what the run `tree` checks, and `NoneLockedIn`, of the composition | |
| | `LookingAgainSuffices` | `NightDeletesOnlyInClosed` | of behaviours with `LooksAgain` |
| `NightlyRunnerProofs` | `Typing` | `TypeOK` | |
| | `BeginsInWindow` | `BegunInWindow` | |
| `TaskProcessProofs` | `Typing` | `TypeOK` | |
| | `StepsAreStarted` | `NoneLeftBehind` | |
| | `PlannedRuns` | `PlannedIsRunning` | |
| | `ClosedIsRevoked` | `RevokedWhenClosed` | |
| | `RolesStay` | `RolesAreKept` | |
| | `ResolvedStays` | `OnlySkippedReopens` | |
| | `TurnsComeUnlessPutIn` | `EveryTurnComes` | of behaviours with `NothingPutIn` |
| | `AddedWaits` | `AddedIsNeverStarted` | |
| | `ProcessIsSequence` | `TaskProcess` implements `TaskSequence` | |
| `SIPDeliveryProofs` | `Typing` | `TypeOK` | |
| | `DossiersAreHeld` | `DossiersFollow` | |
| | `DestroyedRightly` | `DestroyedWasOffered` | |
| | `OneDelivery` | `DeliveredOnce` | |
| | `DeliversThePackage` | `DeliveredIsCurrent` | |
| `MeetingProofs` | `Typing` | `TypeOK` | |
| | `NumbersApart` | `NumbersAreUnique` | |
| | `NumbersInSequence` | `Meeting` implements `NumberSequence` twice | |
| | `OnOneAgenda` | `ScheduledOnce` | |
| | `SoundAgenda` | `AgendaIsSound` | |
| | `NumbersStay` | `NumbersAreKept` | |

The assumptions are not for convenience: the list above shows what happens without
them. Beyond them, only the named assumptions of the modules on their constants
are used. A theorem "of behaviours with" something restricts `Next` to steps that
satisfy it, and so tells which change of the code would make the property true
that a run refutes.

**`DossierTreeProofs`.** `TypeOK` needs `FormerOK`: a resolved, inactive, offered or
archived dossier has an end state in its history, else `Retract` would leave it
in none. `PathsAgree` is not inductive: to move a tree one needs that the index
is transitive and has no cycle, and that containers exist (`PathInv`).
The recursive operations work along the index, so invariants about trees are over
`above`: whatever is below an inactive dossier that all may view is inactive, or
was when it was offered (`InactiveTrees(Seen)`), which survives moves of offered
trees because such a dossier cannot be a target. With it `OnlyGapsLeaveActive`
goes step by step: a move needs an open target, what a walk closes it closes with
all it sees and no disposition holds, and what one reopens hangs in something
reopened or open, but for the gaps. `OnlySkippedOpensInClosed` is the same for
items, by the guards of resolve and deactivate, whose query goes over the tree
that the walk closes. Without the gaps (`WholeWalks`: no half reactivation, walks
that see everything, and no reactivation around what a disposition holds) the
stronger `ClosedTrees` is inductive, that whatever is above an active dossier is
active, and from it a destroyed tree is closed throughout. Each step of `Next`
has a lemma. `CheckedOutStaysOpen` is an action property: `WhatCloses` says which
steps close a dossier, and `FindsWithinReach` that the guard of each finds the
document. `WholeQuery` says that no step closes a tree around a document that is
checked out anywhere in it.

**`ResolveLockProofs`.** What keeps two requests apart is not the lock but the
conflict of their commits: `WorkOK` says that a request which is about to commit
and has not been touched by another commit still knows exactly which dossiers
of its tree are open. With it a commit meets only dossiers that nobody has
resolved since, which gives `ResolvedOnce`, `WholeTrees` and the refinement: a
commit is the abstract step, all else stutters. `HolderOK` says where the holder
of a lock may be: on its way to the release, or dead.

`StepsLeft` counts five steps for each attempt a request has left; that it falls
with every step is what `EveryRequestEnds` rests on. `OwnLock` says of a locking
request that is alone on its dossier that the lock it took is there and is seen
until it releases it, and of a form request that it goes straight to work. Such a
request is favoured when it wants a main dossier and there are no more requests
for other dossiers than retries: `Counted` charges each of its retries to another
dossier that was resolved meanwhile, and each of those can be charged once. When
all requests want one dossier there is nothing to count: the first to get its
lock, or to pass without one, meets no conflict but with a commit that resolves
the dossier (`SomebodyDoes`).

**`NightlyAfterResolveProofs`.** `ResolvedIsClean` is not inductive, because
retracting an offer resolves a dossier again with the flag it had. `CleanInv`
therefore speaks of every dossier that is resolved or can be retracted into
resolved (`Restorable`): in a closed dossier nothing is put, trashed or moved, and
a resolve sets the flag. It speaks of one dossier at a time, so that it needs
neither rights nor what is above or below, and survives moves of offered
dossiers. `NightLeavesTreesAlone` is the composition: a job changes documents and
flags only, so every tree invariant and the action properties hold of the night
and the requests together. `LookingAgainSuffices` needs `ClosedTrees`, as a job
deletes below its dossier as well.

**`NightlyRunnerProofs`.** `WindowIsRight` is the arithmetic: comparing the hour,
or the hour of the next day when it is before the window begins, is right for
every window, also one that covers more than a day. `Runs` says that no job is
running while no run is on.

**`TaskProcessProofs`.** `Places` says where tasks can be: steps directly in the
main task, which is in no other, and predecessors as in the order. `States` joins the
properties of states, as they need each other: that no step is left behind the
one before it (`StepsFollow`, `FollowInOrder`: where two steps of the template are
neighbours in the order, the column says so) needs
that planned steps are in a main task that is in progress (whose cancellation
takes all of them at once), and that needs that main tasks finish only after
all tasks below them (`WaitsInActive` is the part about the dossier). The action
properties and the refinement follow step by step from these.

**`SIPDeliveryProofs`.** `PapersInv` is about dispositions: every offered dossier is
held by one open disposition and only one (`Held`, `Alone`, `Follow`), each of its
dossiers is appraised, and a disposed one is packed with its dossiers (`Packed`).
`NightInv` is about the night: a status that it has read as scheduled or tried is
still so, as only the night changes these (`Read`), marks are put on scheduled transports only
(`Tried`), a transport that was never tried has delivered nothing but in
transactions that died (`Untried`, `Copies`). `Fresh` and `First` say of a
disposition that was never refused that every package seen or received is its
only one.

**`MeetingProofs`.** Four layers, each inductive given those before: types
(`Typed`), the numbers under the lock of the period (`Numbered`: who holds the
lock knows the counters, and no number is above them), the places of the
subjects (`Placed`: agendas are disjoint, and what a request read of a proposal
is still so or its commit is in conflict), and what the state of a meeting says
of its agenda (`Sound`, for meetings nobody wrote to from outdated reads). That
numbers stay needs one thing more, of all meetings: a pending one has none
(`PendingHasNone`), so that a request which holds a meeting and was not overtaken
numbers it for the first time. The
refinement of `NumberSequence` follows from the second layer: `Places` says that
the places of the items of a meeting are the numbers from one to their count, so
that with the counter that is known under the lock they are a block (`Block`).

Only model-checked: liveness (`EveryRequestEnds`, `PendingIsProcessed`,
`EveryJobIsDone`, `ScheduledIsTried`), which is beyond the prover. Every invariant and
action property of a passing run has a theorem; `NotAllFail` is not true of all requests,
and its theorems say of which it is (the instance of the run `lock` is one).

## Not modelled

- A request of `DossierTree` and `TaskProcess` is atomic. Adding a task changes the
  modification date of its dossier and is in conflict with a resolve; reopening
  a cancelled task only reads the state of the dossier and is not, so that this
  race is a hazard no model has.
- Two runners at the same time: the cron job starts one a night and waits for
  none, but a conflict aborts the second.
- Dispositions: one that names a dossier together with its subdossier, the
  retention period, and who acts.
- Tasks: successors on other admin units, teams and inbox groups, private tasks,
  deadlines, and who acts.
- Meetings: proposals from another admin unit, paragraphs, the order of the
  agenda, its documents, and the SQL locks of protocol editors.
- Documents: who holds a checkout, WebDAV locks, versions, cancelling and
  reverting; removal by a manager; templates; copies.
- The classic (non REST) error handling, which aborts and so leaves no state.

What is left would be, in this order: the checkout manager with its holders and
versions as a refinement of the document states of `DossierTree`; items with
snapshots in `ResolveLock`; successors of tasks on two admin units.

## Running

    tlc -workers 2 -config MCDossierTree.cfg MCDossierTree
    tlapm DossierTreeProofs.tla
