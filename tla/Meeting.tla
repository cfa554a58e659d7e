------------------------------ MODULE Meeting -------------------------------
(***************************************************************************)
(* opengever.meeting: the meetings of a committee in its current period,   *)
(* their agenda items and proposals.  Meetings and items are in SQL, where *)
(* READ COMMITTED lets a request overwrite what it read before others      *)
(* changed it; a transition of a proposal also writes its workflow history *)
(* in the ZODB, where that is a conflict.  So a request is two steps: it   *)
(* reads and is refused or not, and it ends by writing what it planned.    *)
(*                                                                         *)
(* Left out: proposals from another admin unit (their transition is a      *)
(* request of its own there), paragraphs, which get no number and no       *)
(* decision, the order of the agenda, documents and who has them checked   *)
(* out, and the transition pending-held, which no page offers: a meeting   *)
(* is held when its first item is decided.                                 *)
(***************************************************************************)
EXTENDS Naturals, FiniteSets

CONSTANTS
  Meetings,
  Proposals, Texts,               \* the subjects of agenda items
  Order,                          \* the place of a subject on an agenda
  Topics,                         \* bound: the subjects that come up in a meeting
  Requests,                       \* requests that run at the same time
  None                            \* no meeting, no subject, no request

Subjects == Proposals \cup Texts

ASSUME SubjectAssumption ==
  Proposals \cap Texts = {} /\ IsFiniteSet(Subjects)
ASSUME OrderAssumption ==
  /\ Order \in [Subjects -> Nat]
  /\ \A s, t \in Subjects : Order[s] = Order[t] => s = t
ASSUME NoneAssumption == None \notin Meetings \cup Subjects \cup Requests

VARIABLES
  meeting_state, meeting_number,     \* of a meeting; 0 is no number
  agenda,                            \* the subjects of its agenda items
  item_state, decision_number,       \* of an agenda item, by its subject; as
                                     \* at first while there is none
  proposal_state,                    \* in both databases
  excerpt,                           \* the proposals with a generated excerpt
  period,                            \* the sequence numbers of the period
  lock,                              \* the request with the lock on its row
  request,                           \* what a request has read and will write
  stale                              \* meetings written from outdated reads

rows == <<meeting_state, agenda, item_state, proposal_state, excerpt>>
numbers == <<meeting_number, decision_number, period>>
vars == <<rows, numbers, lock, request, stale>>

Operations == {"schedule", "delete", "decide", "reopen", "revise", "generate",
  "return", "close", "reopen meeting", "cancel", "reject"}

\* holds: the meeting is to be held; items: the agenda items loaded to do that;
\* counters: the row of the period under the lock; outdated: another request
\* wrote to the meeting in between.
RequestType == [
  op : Operations, meeting : Meetings \cup {None}, subject : Subjects \cup {None},
  holds : BOOLEAN, items : SUBSET Subjects, counters : [meeting : Nat, decision : Nat],
  locked : BOOLEAN, outdated : BOOLEAN]
Idle == None

TypeOK ==
  /\ meeting_state \in [Meetings -> {"pending", "held", "closed", "cancelled"}]
  /\ meeting_number \in [Meetings -> Nat]
  /\ agenda \in [Meetings -> SUBSET Subjects]
  /\ item_state \in [Subjects -> {"pending", "decided", "revision"}]
  /\ decision_number \in [Subjects -> Nat]
  /\ proposal_state \in [Proposals -> {"pending", "submitted", "scheduled", "decided"}]
  /\ excerpt \subseteq Proposals
  /\ period \in [meeting : Nat, decision : Nat]
  /\ lock \in Requests \cup {None}
  /\ \A r \in Requests : request[r] = Idle \/ request[r] \in RequestType
  /\ DOMAIN request = Requests
  /\ stale \subseteq Meetings

Init ==
  /\ meeting_state = [m \in Meetings |-> "pending"]
  /\ meeting_number = [m \in Meetings |-> 0]
  /\ agenda = [m \in Meetings |-> {}]
  /\ item_state = [s \in Subjects |-> "pending"]
  /\ decision_number = [s \in Subjects |-> 0]
  /\ proposal_state = [p \in Proposals |-> "pending"]
  /\ excerpt = {}
  /\ period = [meeting |-> 0, decision |-> 0]
  /\ lock = None
  /\ request = [r \in Requests |-> Idle]
  /\ stale = {}

-----------------------------------------------------------------------------
(* What a request reads first, and what keeps it from going on.            *)

is_agendalist_editable(m) == meeting_state[m] = "pending"
is_editable(m) == meeting_state[m] \in {"pending", "held"}

is_completed(s) ==
  item_state[s] = "decided" /\ (s \in Proposals => proposal_state[s] = "decided")

\* Mutant: the meeting is held again with every item.
HoldsMutant(op, m) == op \in {"decide", "close"}
\* decide() and close() hold the meeting unless it is held.
Holds(op, m) == op \in {"decide", "close"} /\ meeting_state[m] # "held"

Load(r, op, m, s) ==
  /\ request[r] = Idle
  /\ request' = [request EXCEPT ![r] = [
       op |-> op, meeting |-> m, subject |-> s,
       holds |-> m # None /\ Holds(op, m),
       items |-> IF op = "close" /\ Holds(op, m) THEN agenda[m] ELSE {},
       counters |-> [meeting |-> 0, decision |-> 0],
       locked |-> FALSE, outdated |-> FALSE]]
  /\ UNCHANGED <<rows, numbers, lock, stale>>

\* An ad hoc item is a new one.
IsNew(s) ==
  /\ \A m \in Meetings : s \notin agenda[m]
  /\ \A r \in Requests : request[r] # Idle => request[r].subject # s

LoadSchedule(r, m, s) ==
  /\ s \in Topics[m] /\ is_agendalist_editable(m)
  /\ IF s \in Proposals THEN proposal_state[s] = "submitted" ELSE IsNew(s)
  /\ Load(r, "schedule", m, s)

LoadDelete(r, m, s) ==
  /\ is_agendalist_editable(m) /\ s \in agenda[m]
  /\ s \in Proposals => proposal_state[s] = "scheduled"
  /\ Load(r, "delete", m, s)

LoadDecide(r, m, s) ==
  /\ is_editable(m) /\ s \in agenda[m] /\ item_state[s] = "pending"
  /\ Load(r, "decide", m, s)

LoadReopen(r, m, s) ==
  /\ is_editable(m) /\ s \in agenda[m] /\ item_state[s] = "decided"
  /\ Load(r, "reopen", m, s)

LoadRevise(r, m, s) ==
  /\ is_editable(m) /\ s \in agenda[m] /\ item_state[s] = "revision"
  /\ Load(r, "revise", m, s)

LoadGenerate(r, m, s) ==
  /\ is_editable(m) /\ s \in agenda[m] \cap (Proposals \ excerpt)
  /\ item_state[s] = "decided"
  /\ Load(r, "generate", m, s)

\* Neither the state of the meeting nor that of the item is asked for.
LoadReturn(r, m, s) ==
  /\ s \in agenda[m] \cap excerpt /\ proposal_state[s] = "scheduled"
  /\ Load(r, "return", m, s)

\* Mutant: the excerpt of a proposal need not be returned.
LoadCloseMutant(r, m) ==
  /\ is_editable(m)
  /\ \A s \in agenda[m] : item_state[s] = "decided"
  /\ Load(r, "close", m, None)

\* get_undecided_agenda_items is asked before the transition is executed.
LoadClose(r, m) ==
  /\ is_editable(m) /\ \A s \in agenda[m] : is_completed(s)
  /\ Load(r, "close", m, None)

LoadReopenMeeting(r, m) ==
  meeting_state[m] = "closed" /\ Load(r, "reopen meeting", m, None)

LoadCancel(r, m) ==
  meeting_state[m] = "pending" /\ agenda[m] = {} /\ Load(r, "cancel", m, None)

LoadReject(r, p) ==
  proposal_state[p] = "submitted" /\ Load(r, "reject", None, p)

-----------------------------------------------------------------------------
(* What a request writes.                                                  *)

\* Mutant: the row of the period is read without a lock.
LockPeriodMutant(r) ==
  /\ request[r] # Idle /\ request[r].holds /\ ~ request[r].locked
  /\ request' = [request EXCEPT ![r].locked = TRUE, ![r].counters = period,
       ![r].items = IF request[r].op = "decide" THEN agenda[request[r].meeting] ELSE @]
  /\ UNCHANGED <<rows, numbers, lock, stale>>

\* get_current_for_update, and then the items, if they were not loaded before.
LockPeriod(r) ==
  /\ request[r] # Idle /\ request[r].holds /\ ~ request[r].locked
  /\ lock = None /\ lock' = r
  /\ request' = [request EXCEPT ![r].locked = TRUE, ![r].counters = period,
       ![r].items = IF request[r].op = "decide" THEN agenda[request[r].meeting] ELSE @]
  /\ UNCHANGED <<rows, numbers, stale>>

\* Mutant: scheduling leaves the proposal in the dossier as it is.
WritesHistoryMutant(q) == q.subject \in Proposals /\ q.op \in {"delete", "return", "reject"}
WritesHistory(q) ==
  q.subject \in Proposals /\ q.op \in {"schedule", "delete", "return", "reject"}

\* The later one of two that write the same workflow history gets a
\* ConflictError when it ends; it is taken back here as soon as it must be.
InConflict(q, later) ==
  WritesHistory(q) /\ WritesHistory(later) /\ later.subject = q.subject

\* The items a request updates must still be there, also those it numbers.
RowsAreThere(q) ==
  /\ q.op \in {"delete", "decide", "reopen", "revise"} => q.subject \in agenda[q.meeting]
  /\ q.holds => q.items \subseteq agenda[q.meeting]

Commit(r, op) ==
  LET q == request[r]
  IN /\ q # Idle /\ q.op = op /\ (q.holds => q.locked) /\ RowsAreThere(q)
     /\ lock' = IF lock = r THEN None ELSE lock
     /\ stale' = IF q.outdated THEN stale \cup {q.meeting} ELSE stale
     /\ request' = [x \in Requests |->
          IF x = r \/ request[x] = Idle \/ InConflict(q, request[x]) THEN Idle
          ELSE [request[x] EXCEPT
                 !.outdated = @ \/ (q.meeting # None /\ request[x].meeting = q.meeting)]]

\* Mutant: the number before it is added to.
NumberOfMutant(q, s) == q.counters.decision +
  Cardinality({x \in q.items : Order[x] < Order[s]})
NumberOf(q, s) == q.counters.decision +
  Cardinality({x \in q.items : Order[x] <= Order[s]})

\* A number for the meeting and one for each item.
hold(q) ==
  IF ~ q.holds THEN UNCHANGED numbers
  ELSE /\ meeting_number' = [meeting_number EXCEPT ![q.meeting] = q.counters.meeting + 1]
       /\ decision_number' = [s \in Subjects |->
            IF s \in q.items THEN NumberOf(q, s) ELSE decision_number[s]]
       /\ period' = [meeting |-> q.counters.meeting + 1,
            decision |-> q.counters.decision + Cardinality(q.items)]

SetProposal(p, state) ==
  proposal_state' = IF p \in Proposals THEN [proposal_state EXCEPT ![p] = state]
                    ELSE proposal_state

Schedule(r) ==
  LET q == request[r]
  IN /\ Commit(r, "schedule")
     /\ agenda' = [agenda EXCEPT ![q.meeting] = @ \cup {q.subject}]
     /\ SetProposal(q.subject, "scheduled")
     /\ UNCHANGED <<meeting_state, item_state, excerpt, numbers>>

Delete(r) ==
  LET q == request[r]
  IN /\ Commit(r, "delete")
     /\ agenda' = [agenda EXCEPT ![q.meeting] = @ \ {q.subject}]
     /\ item_state' = [item_state EXCEPT ![q.subject] = "pending"]
     /\ decision_number' = [decision_number EXCEPT ![q.subject] = 0]
     /\ SetProposal(q.subject, "submitted")
     /\ UNCHANGED <<meeting_state, meeting_number, excerpt, period>>

Decide(r) ==
  LET q == request[r]
  IN /\ Commit(r, "decide") /\ hold(q)
     /\ meeting_state' = IF q.holds THEN [meeting_state EXCEPT ![q.meeting] = "held"]
                         ELSE meeting_state
     /\ item_state' = [item_state EXCEPT ![q.subject] = "decided"]
     /\ UNCHANGED <<agenda, proposal_state, excerpt>>

\* A proposal that was decided stays decided while its item is revised.
Reopen(r) ==
  /\ Commit(r, "reopen")
  /\ item_state' = [item_state EXCEPT ![request[r].subject] = "revision"]
  /\ UNCHANGED <<meeting_state, agenda, proposal_state, excerpt, numbers>>

Revise(r) ==
  /\ Commit(r, "revise")
  /\ item_state' = [item_state EXCEPT ![request[r].subject] = "decided"]
  /\ UNCHANGED <<meeting_state, agenda, proposal_state, excerpt, numbers>>

GenerateExcerpt(r) ==
  /\ Commit(r, "generate")
  /\ excerpt' = excerpt \cup {request[r].subject}
  /\ UNCHANGED <<meeting_state, agenda, item_state, proposal_state, numbers>>

ReturnExcerpt(r) ==
  /\ Commit(r, "return")
  /\ SetProposal(request[r].subject, "decided")
  /\ UNCHANGED <<meeting_state, agenda, item_state, excerpt, numbers>>

Close(r) ==
  LET q == request[r]
  IN /\ Commit(r, "close") /\ hold(q)
     /\ meeting_state' = [meeting_state EXCEPT ![q.meeting] = "closed"]
     /\ UNCHANGED <<agenda, item_state, proposal_state, excerpt>>

\* The protocol cannot be generated: the meeting is held, and that is committed.
CloseFails(r) ==
  LET q == request[r]
  IN /\ Commit(r, "close") /\ hold(q)
     /\ meeting_state' = IF q.holds THEN [meeting_state EXCEPT ![q.meeting] = "held"]
                         ELSE meeting_state
     /\ UNCHANGED <<agenda, item_state, proposal_state, excerpt>>

ReopenMeeting(r) ==
  /\ Commit(r, "reopen meeting")
  /\ meeting_state' = [meeting_state EXCEPT ![request[r].meeting] = "held"]
  /\ UNCHANGED <<agenda, item_state, proposal_state, excerpt, numbers>>

Cancel(r) ==
  /\ Commit(r, "cancel")
  /\ meeting_state' = [meeting_state EXCEPT ![request[r].meeting] = "cancelled"]
  /\ UNCHANGED <<agenda, item_state, proposal_state, excerpt, numbers>>

\* Mutant: the state has the name that it has in the ZODB.
RejectMutant(r) ==
  /\ Commit(r, "reject")
  /\ SetProposal(request[r].subject, "active")
  /\ excerpt' = excerpt \ {request[r].subject}
  /\ UNCHANGED <<meeting_state, agenda, item_state, numbers>>

\* The submitted proposal is deleted, with its excerpts.
Reject(r) ==
  /\ Commit(r, "reject")
  /\ SetProposal(request[r].subject, "pending")
  /\ excerpt' = excerpt \ {request[r].subject}
  /\ UNCHANGED <<meeting_state, agenda, item_state, numbers>>

\* An error, a conflict, or the end of the process: nothing is written.
Abort(r) ==
  /\ request[r] # Idle
  /\ request' = [request EXCEPT ![r] = Idle]
  /\ lock' = IF lock = r THEN None ELSE lock
  /\ UNCHANGED <<rows, numbers, stale>>

\* Nobody else writes to a proposal that is not submitted.
Submit(p) ==
  /\ proposal_state[p] = "pending" /\ SetProposal(p, "submitted")
  /\ UNCHANGED <<meeting_state, agenda, item_state, excerpt, numbers, lock, request, stale>>

LoadNext(r) ==
  \/ \E m \in Meetings, s \in Subjects :
       \/ LoadSchedule(r, m, s) \/ LoadDelete(r, m, s) \/ LoadDecide(r, m, s)
       \/ LoadReopen(r, m, s) \/ LoadRevise(r, m, s) \/ LoadGenerate(r, m, s)
       \/ LoadReturn(r, m, s)
  \/ \E m \in Meetings : LoadClose(r, m) \/ LoadReopenMeeting(r, m) \/ LoadCancel(r, m)
  \/ \E p \in Proposals : LoadReject(r, p)

WriteNext(r) ==
  \/ LockPeriod(r) \/ Schedule(r) \/ Delete(r) \/ Decide(r) \/ Reopen(r) \/ Revise(r)
  \/ GenerateExcerpt(r) \/ ReturnExcerpt(r) \/ Close(r) \/ CloseFails(r)
  \/ ReopenMeeting(r) \/ Cancel(r) \/ Reject(r) \/ Abort(r)

Next ==
  \/ \E r \in Requests : LoadNext(r) \/ WriteNext(r)
  \/ \E p \in Proposals : Submit(p)

Spec == Init /\ [][Next]_vars

-----------------------------------------------------------------------------
(* Properties.                                                             *)

(* No two meetings of the period and no two items on agendas ever get the  *)
(* same number, however many requests hold meetings at the same time: the  *)
(* lock on the row of the period lasts until the commit.                   *)
NumbersAreUnique ==
  /\ \A m, n \in Meetings :
       meeting_number[m] = meeting_number[n] /\ meeting_number[m] # 0 => m = n
  /\ \A s, t \in UNION {agenda[m] : m \in Meetings} :
       decision_number[s] = decision_number[t] /\ decision_number[s] # 0 => s = t

(* A proposal is on one agenda at most, and on one exactly while it is     *)
(* scheduled or decided: what SQL lets through, the workflow history of    *)
(* the proposal turns into a conflict.                                     *)
ScheduledOnce ==
  \A p \in Proposals :
    Cardinality({m \in Meetings : p \in agenda[m]})
      = IF proposal_state[p] \in {"scheduled", "decided"} THEN 1 ELSE 0

(* The state of a meeting tells the state of its agenda, as long as no     *)
(* request wrote to it from outdated reads: a closed meeting has only      *)
(* decided items and decided proposals (close() asserts that), a held one  *)
(* has a number for every item, a pending one has decided nothing.         *)
AgendaIsSound ==
  \A m \in Meetings \ stale :
    /\ meeting_state[m] = "closed" => \A s \in agenda[m] :
         item_state[s] = "decided" /\ (s \in Proposals => proposal_state[s] = "decided")
    /\ meeting_state[m] \in {"held", "closed"} =>
         \A s \in agenda[m] : decision_number[s] # 0
    /\ meeting_state[m] = "pending" =>
         \A s \in agenda[m] : item_state[s] = "pending" /\ decision_number[s] = 0
    /\ meeting_state[m] = "cancelled" => agenda[m] = {}

(* The numbers of a meeting and of the items that stay on its agenda do    *)
(* not change, whatever is reopened, revised or closed again, but in one   *)
(* case: the meeting is held once more by a request that read it while it  *)
(* was pending and was overtaken.  decide() and close() ask for the state  *)
(* before they wait for the row of the period and not again after it, so   *)
(* two of them number the meeting and its items twice.                     *)
NumbersAreKept ==
  [][\A m \in Meetings :
       \/ meeting_number[m] = 0
       \/ /\ meeting_number'[m] = meeting_number[m]
          /\ \A s \in agenda[m] : s \in agenda'[m] => decision_number'[s] = decision_number[s]
       \/ \E r \in Requests :
            /\ request[r] # Idle /\ request'[r] = Idle
            /\ request[r].meeting = m /\ request[r].holds /\ request[r].outdated]_vars

OfMeetings == INSTANCE NumberSequence WITH
  Things <- Meetings, counter <- period.meeting, number <- meeting_number
OfDecisions == INSTANCE NumberSequence WITH
  Things <- Subjects, counter <- period.decision, number <- decision_number

(* The meetings and the decisions of a period are numbered one after the   *)
(* other: a meeting that is held takes the next number, its items take the *)
(* next ones as a block, and no number is skipped or given again, also     *)
(* when the request had to wait for the row of the period.  What is held   *)
(* twice takes numbers twice: that what has a number keeps it, but for     *)
(* that case, is NumbersAreKept.                                           *)
NumbersRunOn == OfMeetings!Spec /\ OfDecisions!Spec
=============================================================================
