---------------------------- MODULE SIPDelivery -----------------------------
(***************************************************************************)
(* NightlySIPDelivery and DeliveryScheduler.deliver, run by the nightly    *)
(* runner beside the requests of Disposition.  A night lists what is to be *)
(* delivered once and takes one transaction per disposition; a transaction *)
(* reads the database as it was when the one before it ended.  What a      *)
(* transport has handed over stays with the archive when it is aborted.    *)
(***************************************************************************)
EXTENDS Disposition, Sequences

CONSTANTS
  Names,       \* the transports in the order of their names
  Rank,        \* the place of a disposition in the catalog
  Unreliable,  \* bound: the transports that may fail with a package
  MaxAborts,   \* bound: transactions that end with the process
  NoJob        \* no disposition

ASSUME NamesAssumption ==
  /\ Names \in Seq(Transports)
  /\ \A t \in Transports : \E i \in 1..Len(Names) : Names[i] = t
ASSUME JobAssumption ==
  NoJob \notin Dispositions /\ MaxAborts \in Nat /\ Rank \in [Dispositions -> Nat]

VARIABLES
  listed,      \* what the night has still to deliver
  job,         \* the disposition being delivered, or NoJob
  seen,        \* the packages and statuses its transaction reads
  marks,       \* the statuses it has written, per transport
  received,    \* the packages the archive got, per disposition and transport
  aborted      \* transactions that ended with the process after a delivery

night == <<listed, job, seen, marks, received, aborted>>
vars == <<dispositionVars, night>>

NoMarks == [t \in Transports |-> "none"]
\* Of the listed dispositions only.
Snapshot(L, packages, statuses) ==
  [sip |-> [p \in Dispositions |-> IF p \in L THEN packages[p] ELSE {}],
   status |-> [p \in Dispositions |-> IF p \in L THEN statuses[p] ELSE NoMarks]]

TypeOK ==
  /\ DispositionTypeOK
  /\ listed \subseteq Dispositions
  /\ job \in listed \cup {NoJob}
  /\ seen \in [sip : [Dispositions -> SUBSET Dossiers],
               status : [Dispositions ->
                          [Transports -> {"none", "scheduled", "success", "failed"}]]]
  /\ marks \in [Transports -> {"none", "success", "failed"}]
  /\ received \in [Dispositions -> [Transports -> Seq(SUBSET Dossiers)]]
  /\ aborted \in Nat

Init ==
  /\ DispositionInit
  /\ listed = {} /\ job = NoJob /\ seen = Snapshot({}, sip, status) /\ marks = NoMarks
  /\ received = [p \in Dispositions |-> [t \in Transports |-> <<>>]]
  /\ aborted = 0

\* Mutant: all transports must be scheduled.
is_scheduled_for_deliveryMutant(p) == \A t \in Transports : status[p][t] = "scheduled"
is_scheduled_for_delivery(p) == \E t \in Transports : status[p][t] = "scheduled"

\* The provider lists the dispositions that are disposed and scheduled.
StartNight ==
  /\ listed = {}
  /\ listed' = {p \in Dispositions :
                  review_state[p] = "disposed" /\ is_scheduled_for_delivery(p)}
  /\ listed' # {}
  /\ seen' = Snapshot(listed', sip, status)
  /\ UNCHANGED <<dispositionVars, job, marks, received, aborted>>

\* run_job does not ask for the state again.
BeginJob(p) ==
  /\ job = NoJob /\ p \in listed /\ \A q \in listed : Rank[p] <= Rank[q]
  /\ job' = p
  /\ UNCHANGED <<dispositionVars, listed, seen, marks, received, aborted>>

EndOfNight ==
  listed' = {} /\ job' = NoJob /\ seen' = Snapshot({}, sip, status) /\ marks' = NoMarks

\* The runner asks before each job.
TimeWindowExceeded ==
  /\ job = NoJob /\ listed # {} /\ EndOfNight
  /\ UNCHANGED <<dispositionVars, received, aborted>>

Due(t) ==
  job # NoJob /\ t \in enabled /\ marks[t] = "none" /\ seen.status[job][t] = "scheduled"
IsNext(i) == Due(Names[i]) /\ \A j \in 1..(i - 1) : ~ Due(Names[j])

Deliver(i) ==
  /\ IsNext(i) /\ seen.sip[job] # {}
  /\ received' = [received EXCEPT ![job][Names[i]] = Append(@, seen.sip[job])]
  /\ marks' = [marks EXCEPT ![Names[i]] = "success"]
  /\ UNCHANGED <<dispositionVars, listed, job, seen, aborted>>

\* Any exception but a ConflictError; the file may have been written before it.
\* Without a package there is nothing to write.
DeliverFails(i) ==
  /\ IsNext(i) /\ (seen.sip[job] = {} \/ Names[i] \in Unreliable)
  /\ marks' = [marks EXCEPT ![Names[i]] = "failed"]
  /\ \/ UNCHANGED received
     \/ /\ seen.sip[job] # {}
        /\ received' = [received EXCEPT ![job][Names[i]] = Append(@, seen.sip[job])]
  /\ UNCHANGED <<dispositionVars, listed, job, seen, aborted>>

\* The statuses are one persistent object, which nobody else may have written.
Conflict == marks # NoMarks /\ status[job] # seen.status[job]

Commit ==
  /\ job # NoJob /\ ~ Conflict /\ \A t \in Transports : ~ Due(t)
  /\ status' = [status EXCEPT ![job] =
       [t \in Transports |-> IF marks[t] # "none" THEN marks[t] ELSE @[t]]]
  /\ IF listed = {job} THEN EndOfNight
     ELSE /\ listed' = listed \ {job} /\ job' = NoJob /\ marks' = NoMarks
          /\ seen' = Snapshot(listed', sip, status')
  /\ UNCHANGED <<papers, stock, enabled, received, aborted>>

\* The process ends: at any time, and when the transaction runs into a conflict.
Abort ==
  /\ job # NoJob /\ (Conflict \/ aborted < MaxAborts)
  /\ EndOfNight
  /\ aborted' = IF marks = NoMarks THEN aborted ELSE aborted + 1
  /\ UNCHANGED <<dispositionVars, received>>

NightNext ==
  \/ StartNight \/ TimeWindowExceeded \/ Commit \/ Abort
  \/ \E p \in Dispositions : BeginJob(p)
  \/ \E i \in 1..Len(Names) : Deliver(i) \/ DeliverFails(i)

Next == (DispositionNext /\ UNCHANGED night) \/ NightNext

Spec == Init /\ [][Next]_vars

\* The cron job starts a night again and again, not every night is over before
\* a delivery, and not in every night does the process end in one.
FairSpec ==
  /\ Spec
  /\ SF_vars(StartNight) /\ SF_vars(\E p \in Dispositions : BeginJob(p))
  /\ SF_vars(\E i \in 1..Len(Names) : Deliver(i) \/ DeliverFails(i))
  /\ SF_vars(Commit) /\ WF_vars(Conflict /\ Abort)

-----------------------------------------------------------------------------
(* Properties.                                                             *)

(* Success means that the archive has got a package, and one only: a       *)
(* second copy takes a process that ended between the delivery and its     *)
(* commit.                                                                 *)
DeliveredOnce ==
  \A p \in Dispositions, t \in Transports :
    /\ status[p][t] = "success" => received[p][t] # <<>>
    /\ Len(received[p][t]) <= 1 + aborted

(* While a disposition is disposed or archived, its package has its        *)
(* dossiers, and what was delivered successfully is that package; unless   *)
(* it was refused before: then the archive keeps the package of the first  *)
(* time with the status of a success, and gets no other.                   *)
DeliveredIsCurrent ==
  \A p \in Dispositions : review_state[p] \in {"disposed", "archived"} =>
    /\ sip[p] = dossiers[p]
    /\ \A t \in Transports : status[p][t] = "success" /\ refused[p] = 0 =>
         \A i \in DOMAIN received[p][t] : received[p][t][i] = sip[p]

(* A disposition that stays disposed is tried with every transport it is   *)
(* scheduled for, once that is enabled, whatever becomes of the others.    *)
ScheduledIsTried ==
  \A p \in Dispositions :
    review_state[p] = "disposed" /\ (\E t \in enabled : status[p][t] = "scheduled")
      ~> \/ review_state[p] # "disposed"
         \/ \A t \in enabled : status[p][t] # "scheduled"
=============================================================================
