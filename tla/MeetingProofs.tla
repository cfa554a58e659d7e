--------------------------- MODULE MeetingProofs ---------------------------
(***************************************************************************)
(* What holds of Meeting for every set of meetings, subjects and requests, *)
(* checked by TLAPS.  Four layers, each inductive given the ones before:   *)
(* types with what a request is (Typed), the numbers under the lock of the *)
(* period (Numbered), the places of the subjects (Placed), and what the    *)
(* state of a meeting says of its agenda (Sound).  From the second follows *)
(* that NumberSequence is implemented.                                     *)
(***************************************************************************)
EXTENDS Meeting, FiniteSetTheorems, TLAPS

-----------------------------------------------------------------------------
(* Types, and what a request is.                                           *)

RequestOK(q) ==
  /\ q \in RequestType
  /\ q.op # "reject" => q.meeting \in Meetings
  /\ q.op \in {"schedule", "delete", "decide", "reopen", "revise"} => q.subject \in Subjects
  /\ q.op \in {"generate", "return", "reject"} => q.subject \in Proposals
  /\ q.op \in {"close", "reopen meeting", "cancel"} => q.subject = None
  /\ q.op = "reject" => q.meeting = None
  /\ q.holds => q.op \in {"decide", "close"}
  /\ q.outdated => q.op # "reject"

Typed ==
  /\ TypeOK
  /\ \A r \in Requests : request[r] # Idle => RequestOK(request[r])

(* At first there is no request. *)
LEMMA TypeInit == Init => Typed
  BY DEF Init, Typed, TypeOK, Idle

\* Two requests that differ in nothing but in being outdated.
Same(a, b) ==
  /\ a.op = b.op /\ a.meeting = b.meeting /\ a.subject = b.subject /\ a.holds = b.holds
  /\ a.items = b.items /\ a.counters = b.counters /\ a.locked = b.locked

(* A request that is loaded knows what it read, and nothing else changes. *)
LEMMA Loaded ==
  ASSUME Typed, NEW r \in Requests, NEW op \in Operations,
         NEW m \in Meetings \cup {None}, NEW s \in Subjects \cup {None},
         op = "close" => m \in Meetings, Load(r, op, m, s)
  PROVE  /\ UNCHANGED <<rows, numbers, lock, stale>>
         /\ DOMAIN request' = Requests
         /\ request[r] = Idle
         /\ \A x \in Requests : x # r => request'[x] = request[x]
         /\ request'[r] \in RequestType
         /\ request'[r].op = op /\ request'[r].meeting = m /\ request'[r].subject = s
         /\ request'[r].holds = (m # None /\ Holds(op, m))
         /\ request'[r].items = IF op = "close" /\ Holds(op, m) THEN agenda[m] ELSE {}
         /\ ~ request'[r].locked /\ ~ request'[r].outdated
<1> DEFINE q == [op |-> op, meeting |-> m, subject |-> s,
                 holds |-> m # None /\ Holds(op, m),
                 items |-> IF op = "close" /\ Holds(op, m) THEN agenda[m] ELSE {},
                 counters |-> [meeting |-> 0, decision |-> 0],
                 locked |-> FALSE, outdated |-> FALSE]
<1>1. request' = [request EXCEPT ![r] = q] /\ UNCHANGED <<rows, numbers, lock, stale>>
      /\ request[r] = Idle
  BY DEF Load
<1>2. op = "close" => agenda[m] \in SUBSET Subjects
  BY DEF Typed, TypeOK
<1>3. Holds(op, m) \in BOOLEAN
  BY DEF Holds
<1>4. q \in RequestType
  BY <1>2, <1>3 DEF RequestType
<1>5. request'[r] = q /\ DOMAIN request' = Requests
      /\ \A x \in Requests : x # r => request'[x] = request[x]
  BY <1>1 DEF Typed, TypeOK
<1> QED BY <1>1, <1>4, <1>5

(* A request that ends leaves the others as they are, but for the ones     *)
(* that are in conflict with it.                                           *)
LEMMA Committed ==
  ASSUME Typed, NEW r \in Requests, NEW op, Commit(r, op)
  PROVE  /\ request[r] # Idle /\ RequestOK(request[r]) /\ request[r].op = op
         /\ request[r].holds => request[r].locked
         /\ RowsAreThere(request[r])
         /\ DOMAIN request' = Requests
         /\ request'[r] = Idle
         /\ \A x \in Requests : request'[x] # Idle =>
              /\ x # r /\ request[x] # Idle /\ ~ InConflict(request[r], request[x])
              /\ request'[x] \in RequestType
              /\ Same(request'[x], request[x])
              /\ request'[x].outdated = (request[x].outdated \/
                   (request[r].meeting # None /\ request[x].meeting = request[r].meeting))
         /\ lock' = IF lock = r THEN None ELSE lock
         /\ stale' = IF request[r].outdated THEN stale \cup {request[r].meeting} ELSE stale
<1>1. /\ request[r] # Idle /\ request[r].op = op
      /\ request[r].holds => request[r].locked
      /\ RowsAreThere(request[r])
      /\ lock' = IF lock = r THEN None ELSE lock
      /\ stale' = IF request[r].outdated THEN stale \cup {request[r].meeting} ELSE stale
  BY DEF Commit
<1>2. RequestOK(request[r])
  BY <1>1 DEF Typed
<1>3. /\ DOMAIN request' = Requests
      /\ request'[r] = Idle
      /\ \A x \in Requests : request'[x] # Idle =>
           /\ x # r /\ request[x] # Idle /\ ~ InConflict(request[r], request[x])
           /\ request'[x] = [request[x] EXCEPT !.outdated = request[x].outdated \/
                (request[r].meeting # None /\ request[x].meeting = request[r].meeting)]
  BY DEF Commit
<1>4. ASSUME NEW x \in Requests, request'[x] # Idle
      PROVE  /\ request'[x] \in RequestType
             /\ Same(request'[x], request[x])
             /\ request'[x].outdated = (request[x].outdated \/
                  (request[r].meeting # None /\ request[x].meeting = request[r].meeting))
  <2>1. request[x] \in RequestType
    BY <1>3, <1>4 DEF Typed, TypeOK
  <2>2. request'[x] = [request[x] EXCEPT !.outdated = request[x].outdated \/
                (request[r].meeting # None /\ request[x].meeting = request[r].meeting)]
    BY <1>3, <1>4
  <2> QED BY <2>1, <2>2 DEF RequestType, Same
<1> QED BY <1>1, <1>2, <1>3, <1>4

(* The lock: the request has got it, and knows the row of the period. *)
LEMMA Locked ==
  ASSUME Typed, NEW r \in Requests, LockPeriod(r)
  PROVE  /\ request[r] # Idle /\ request[r].holds /\ ~ request[r].locked
         /\ RequestOK(request[r])
         /\ lock = None /\ lock' = r
         /\ UNCHANGED <<rows, numbers, stale>>
         /\ DOMAIN request' = Requests
         /\ \A x \in Requests : x # r => request'[x] = request[x]
         /\ request'[r] \in RequestType /\ request'[r].locked /\ request'[r].counters = period
         /\ request'[r].op = request[r].op /\ request'[r].meeting = request[r].meeting
         /\ request'[r].subject = request[r].subject /\ request'[r].holds
         /\ request'[r].outdated = request[r].outdated
         /\ request'[r].items = IF request[r].op = "decide"
                                THEN agenda[request[r].meeting] ELSE request[r].items
<1> DEFINE q == [request[r] EXCEPT !.locked = TRUE, !.counters = period,
                   !.items = IF request[r].op = "decide" THEN agenda[request[r].meeting] ELSE @]
<1>1. /\ request[r] # Idle /\ request[r].holds /\ ~ request[r].locked
      /\ lock = None /\ lock' = r
      /\ UNCHANGED <<rows, numbers, stale>>
      /\ request' = [request EXCEPT ![r].locked = TRUE, ![r].counters = period,
           ![r].items = IF request[r].op = "decide" THEN agenda[request[r].meeting] ELSE @]
  BY DEF LockPeriod
<1>2. RequestOK(request[r]) /\ request[r] \in RequestType
  BY <1>1 DEF Typed, RequestOK
<1>3. /\ DOMAIN request' = Requests
      /\ \A x \in Requests : x # r => request'[x] = request[x]
      /\ request'[r] = q
  BY <1>1, <1>2 DEF Typed, TypeOK, RequestType
<1>4. period \in [meeting : Nat, decision : Nat]
      /\ (request[r].op = "decide" => agenda[request[r].meeting] \in SUBSET Subjects)
  BY <1>2 DEF Typed, TypeOK, RequestOK
<1> QED BY <1>1, <1>2, <1>3, <1>4 DEF RequestType

(* The numbers that are given are numbers. *)
LEMMA NumberType ==
  ASSUME NEW I \in SUBSET Subjects, NEW s
  PROVE  /\ IsFiniteSet({x \in I : Order[x] <= Order[s]})
         /\ Cardinality({x \in I : Order[x] <= Order[s]}) \in Nat
         /\ Cardinality({x \in I : Order[x] <= Order[s]}) <= Cardinality(I)
         /\ Cardinality(I) \in Nat
<1>1. IsFiniteSet(I)
  BY SubjectAssumption, FS_Subset
<1>2. {x \in I : Order[x] <= Order[s]} \in SUBSET I
  OBVIOUS
<1> QED BY <1>1, <1>2, FS_Subset, FS_CardinalityType

(* Holding a meeting keeps the types. *)
LEMMA HoldType ==
  ASSUME TypeOK, NEW q, RequestOK(q), hold(q)
  PROVE  /\ meeting_number' \in [Meetings -> Nat]
         /\ decision_number' \in [Subjects -> Nat]
         /\ period' \in [meeting : Nat, decision : Nat]
<1>1. CASE ~ q.holds
  BY <1>1 DEF hold, numbers, TypeOK
<1>2. CASE q.holds
  <2>1. /\ meeting_number' = [meeting_number EXCEPT ![q.meeting] = q.counters.meeting + 1]
        /\ decision_number' = [s \in Subjects |->
             IF s \in q.items THEN NumberOf(q, s) ELSE decision_number[s]]
        /\ period' = [meeting |-> q.counters.meeting + 1,
             decision |-> q.counters.decision + Cardinality(q.items)]
    BY <1>2 DEF hold
  <2>2. /\ q.counters.meeting \in Nat /\ q.counters.decision \in Nat
        /\ q.items \in SUBSET Subjects
    BY DEF RequestOK, RequestType
  <2>3. /\ Cardinality(q.items) \in Nat
        /\ \A s \in Subjects : Cardinality({x \in q.items : Order[x] <= Order[s]}) \in Nat
    BY <2>2, NumberType
  <2>4. \A s \in Subjects : NumberOf(q, s) \in Nat
    BY <2>2, <2>3 DEF NumberOf
  <2>5. decision_number' \in [Subjects -> Nat]
    BY <2>1, <2>4 DEF TypeOK
  <2>6. period' \in [meeting : Nat, decision : Nat]
    BY <2>1, <2>2, <2>3
  <2>7. meeting_number' \in [Meetings -> Nat]
    <3>1. q.counters.meeting + 1 \in Nat
      BY <2>2
    <3>2. meeting_number \in [Meetings -> Nat]
      BY DEF TypeOK
    <3> QED BY <2>1, <3>1, <3>2
  <2> QED BY <2>5, <2>6, <2>7
<1> QED BY <1>1, <1>2

\* What ends with a commit, and what it may write.
Writes(r) ==
  \/ Schedule(r) \/ Delete(r) \/ Decide(r) \/ Reopen(r) \/ Revise(r) \/ GenerateExcerpt(r)
  \/ ReturnExcerpt(r) \/ Close(r) \/ CloseFails(r) \/ ReopenMeeting(r) \/ Cancel(r) \/ Reject(r)

(* A request that ends keeps the types of what is in the database. *)
LEMMA TypeWrites ==
  ASSUME Typed, NEW r \in Requests, Writes(r)
  PROVE  /\ \E op : Commit(r, op)
         /\ meeting_state' \in [Meetings -> {"pending", "held", "closed", "cancelled"}]
         /\ meeting_number' \in [Meetings -> Nat]
         /\ agenda' \in [Meetings -> SUBSET Subjects]
         /\ item_state' \in [Subjects -> {"pending", "decided", "revision"}]
         /\ decision_number' \in [Subjects -> Nat]
         /\ proposal_state' \in [Proposals -> {"pending", "submitted", "scheduled", "decided"}]
         /\ excerpt' \subseteq Proposals
         /\ period' \in [meeting : Nat, decision : Nat]
<1>0. ASSUME NEW op, Commit(r, op) PROVE RequestOK(request[r]) /\ request[r].op = op
  BY <1>0, Committed
<1>1. CASE Schedule(r)
  <2>1. Commit(r, "schedule")
        /\ agenda' = [agenda EXCEPT ![request[r].meeting] = @ \cup {request[r].subject}]
    BY <1>1 DEF Schedule
  <2>2. request[r].subject \in Subjects
    BY <1>0, <2>1 DEF RequestOK
  <2>3. agenda' \in [Meetings -> SUBSET Subjects]
    BY <2>1, <2>2 DEF Typed, TypeOK
  <2> QED BY <1>1, <2>1, <2>3 DEF Schedule, Typed, TypeOK, SetProposal, numbers
<1>6. CASE GenerateExcerpt(r)
  <2>1. Commit(r, "generate")
    BY <1>6 DEF GenerateExcerpt
  <2>2. request[r].subject \in Proposals
    BY <1>0, <2>1 DEF RequestOK
  <2> QED BY <1>6, <2>1, <2>2 DEF GenerateExcerpt, Typed, TypeOK, numbers
<1> USE <1>0, HoldType DEF Typed, TypeOK, SetProposal, numbers
<1>2. CASE Delete(r)  BY <1>2 DEF Delete
<1>3. CASE Decide(r)  BY <1>3 DEF Decide
<1>4. CASE Reopen(r)  BY <1>4 DEF Reopen
<1>5. CASE Revise(r)  BY <1>5 DEF Revise
<1>7. CASE ReturnExcerpt(r)  BY <1>7 DEF ReturnExcerpt
<1>8. CASE Close(r)  BY <1>8 DEF Close
<1>9. CASE CloseFails(r)  BY <1>9 DEF CloseFails
<1>10. CASE ReopenMeeting(r)  BY <1>10 DEF ReopenMeeting
<1>11. CASE Cancel(r)  BY <1>11 DEF Cancel
<1>12. CASE Reject(r)  BY <1>12 DEF Reject
<1> QED BY <1>1, <1>2, <1>3, <1>4, <1>5, <1>6, <1>7, <1>8, <1>9, <1>10, <1>11, <1>12
        DEF Writes

(* What a request loads makes it one that is well formed. *)
LEMMA TypeLoad ==
  ASSUME Typed, NEW r \in Requests, LoadNext(r)
  PROVE  \E op \in Operations, m \in Meetings \cup {None}, s \in Subjects \cup {None} :
           /\ Load(r, op, m, s) /\ (op = "close" => m \in Meetings)
           /\ RequestOK(request'[r])
<1>1. ASSUME NEW op \in {"schedule", "delete", "decide", "reopen", "revise"},
             NEW m \in Meetings, NEW s \in Subjects, Load(r, op, m, s)
      PROVE  op \in Operations /\ op # "close" /\ RequestOK(request'[r])
  <2>1. op \in Operations /\ m \in Meetings \cup {None} /\ s \in Subjects \cup {None}
    BY DEF Operations
  <2>2. /\ request'[r] \in RequestType
        /\ request'[r].op = op /\ request'[r].meeting = m /\ request'[r].subject = s
        /\ request'[r].holds = (m # None /\ Holds(op, m))
        /\ ~ request'[r].outdated
    BY <1>1, <2>1, Loaded
  <2> QED BY <2>1, <2>2 DEF RequestOK, Holds
<1>2. ASSUME NEW op \in {"generate", "return"},
             NEW m \in Meetings, NEW s \in Proposals, Load(r, op, m, s)
      PROVE  op \in Operations /\ op # "close" /\ RequestOK(request'[r])
  <2>1. op \in Operations /\ m \in Meetings \cup {None} /\ s \in Subjects \cup {None}
    BY DEF Operations, Subjects
  <2>2. /\ request'[r] \in RequestType
        /\ request'[r].op = op /\ request'[r].meeting = m /\ request'[r].subject = s
        /\ request'[r].holds = (m # None /\ Holds(op, m))
        /\ ~ request'[r].outdated
    BY <1>2, <2>1, Loaded
  <2> QED BY <2>1, <2>2 DEF RequestOK, Holds
<1>3. ASSUME NEW op \in {"close", "reopen meeting", "cancel"},
             NEW m \in Meetings, Load(r, op, m, None)
      PROVE  op \in Operations /\ RequestOK(request'[r])
  <2>1. op \in Operations /\ m \in Meetings \cup {None} /\ None \in Subjects \cup {None}
    BY DEF Operations
  <2>2. /\ request'[r] \in RequestType
        /\ request'[r].op = op /\ request'[r].meeting = m /\ request'[r].subject = None
        /\ request'[r].holds = (m # None /\ Holds(op, m))
        /\ ~ request'[r].outdated
    BY <1>3, <2>1, Loaded
  <2> QED BY <2>1, <2>2 DEF RequestOK, Holds
<1>4. ASSUME NEW p \in Proposals, Load(r, "reject", None, p)
      PROVE  RequestOK(request'[r])
  <2>1. "reject" \in Operations /\ None \in Meetings \cup {None} /\ p \in Subjects \cup {None}
    BY DEF Operations, Subjects
  <2>2. /\ request'[r] \in RequestType
        /\ request'[r].op = "reject" /\ request'[r].meeting = None /\ request'[r].subject = p
        /\ request'[r].holds = (None # None /\ Holds("reject", None))
        /\ ~ request'[r].outdated
    BY <1>4, <2>1, Loaded
  <2> QED BY <2>1, <2>2 DEF RequestOK
<1>5. ASSUME NEW m \in Meetings, NEW s \in Subjects,
             \/ LoadSchedule(r, m, s) \/ LoadDelete(r, m, s) \/ LoadDecide(r, m, s)
             \/ LoadReopen(r, m, s) \/ LoadRevise(r, m, s)
      PROVE  \E op \in Operations : Load(r, op, m, s) /\ op # "close" /\ RequestOK(request'[r])
  <2>1. \E op \in {"schedule", "delete", "decide", "reopen", "revise"} : Load(r, op, m, s)
    BY <1>5 DEF LoadSchedule, LoadDelete, LoadDecide, LoadReopen, LoadRevise
  <2> QED BY <1>1, <2>1
<1>6. ASSUME NEW m \in Meetings, NEW s \in Subjects, LoadGenerate(r, m, s) \/ LoadReturn(r, m, s)
      PROVE  \E op \in Operations : Load(r, op, m, s) /\ op # "close" /\ RequestOK(request'[r])
  <2>1. s \in Proposals /\ \E op \in {"generate", "return"} : Load(r, op, m, s)
    BY <1>6 DEF LoadGenerate, LoadReturn, Typed, TypeOK
  <2> QED BY <1>2, <2>1
<1>7. ASSUME NEW m \in Meetings, LoadClose(r, m) \/ LoadReopenMeeting(r, m) \/ LoadCancel(r, m)
      PROVE  \E op \in Operations : Load(r, op, m, None) /\ RequestOK(request'[r])
  <2>1. \E op \in {"close", "reopen meeting", "cancel"} : Load(r, op, m, None)
    BY <1>7 DEF LoadClose, LoadReopenMeeting, LoadCancel
  <2> QED BY <1>3, <2>1
<1>8. ASSUME NEW p \in Proposals, LoadReject(r, p)
      PROVE  Load(r, "reject", None, p) /\ RequestOK(request'[r])
  BY <1>4, <1>8 DEF LoadReject
<1> QED BY <1>5, <1>6, <1>7, <1>8 DEF LoadNext, Operations, Subjects

(* Every step keeps the types. *)
LEMMA TypeStep == Typed /\ [Next]_vars => Typed'
<1> SUFFICES ASSUME Typed, [Next]_vars PROVE Typed'
  OBVIOUS
<1>1. ASSUME NEW r \in Requests, LoadNext(r) PROVE Typed'
  <2>1. PICK op \in Operations, m \in Meetings \cup {None}, s \in Subjects \cup {None} :
          Load(r, op, m, s) /\ (op = "close" => m \in Meetings) /\ RequestOK(request'[r])
    BY <1>1, TypeLoad
  <2>2. /\ UNCHANGED <<rows, numbers, lock, stale>>
        /\ DOMAIN request' = Requests
        /\ \A x \in Requests : x # r => request'[x] = request[x]
        /\ request'[r] \in RequestType
    BY <2>1, Loaded
  <2> QED BY <2>1, <2>2 DEF Typed, TypeOK, rows, numbers
<1>2. ASSUME NEW r \in Requests, Writes(r) PROVE Typed'
  <2>1. PICK op : Commit(r, op)
    BY <1>2, TypeWrites
  <2>2. stale' \subseteq Meetings /\ lock' \in Requests \cup {None}
    <3>1. /\ lock' = IF lock = r THEN None ELSE lock
          /\ stale' = IF request[r].outdated THEN stale \cup {request[r].meeting} ELSE stale
          /\ RequestOK(request[r])
      BY <2>1, Committed
    <3>2. request[r].outdated => request[r].meeting \in Meetings
      BY <3>1 DEF RequestOK
    <3> QED BY <3>1, <3>2 DEF Typed, TypeOK
  <2>3. ASSUME NEW x \in Requests, request'[x] # Idle
        PROVE  request'[x] \in RequestType /\ RequestOK(request'[x])
    <3>1. /\ request[x] # Idle /\ request'[x] \in RequestType
          /\ Same(request'[x], request[x])
          /\ request'[x].outdated = (request[x].outdated \/
               (request[r].meeting # None /\ request[x].meeting = request[r].meeting))
      BY <2>1, <2>3, Committed
    <3>2. RequestOK(request[x])
      BY <3>1 DEF Typed
    <3> QED BY <3>1, <3>2, NoneAssumption DEF RequestOK, Same
  <2>4. DOMAIN request' = Requests
    BY <2>1, Committed
  <2> QED BY <1>2, <2>2, <2>3, <2>4, TypeWrites DEF Typed, TypeOK
<1>3. ASSUME NEW r \in Requests, LockPeriod(r) PROVE Typed'
  <2>1. ASSUME NEW x \in Requests, request'[x] # Idle
        PROVE  request'[x] \in RequestType /\ RequestOK(request'[x])
    <3>1. CASE x = r
      BY <1>3, <3>1, Locked DEF RequestOK
    <3>2. CASE x # r
      BY <1>3, <2>1, <3>2, Locked DEF Typed, RequestOK
    <3> QED BY <3>1, <3>2
  <2>2. DOMAIN request' = Requests /\ lock' \in Requests \cup {None}
        /\ UNCHANGED <<rows, numbers, stale>>
    BY <1>3, Locked
  <2> QED BY <2>1, <2>2 DEF Typed, TypeOK, rows, numbers
<1>4. ASSUME NEW r \in Requests, Abort(r) PROVE Typed'
  <2>1. /\ DOMAIN request' = Requests /\ request'[r] = Idle
        /\ \A x \in Requests : x # r => request'[x] = request[x]
        /\ lock' \in Requests \cup {None} /\ UNCHANGED <<rows, numbers, stale>>
    BY <1>4 DEF Abort, Typed, TypeOK
  <2> QED BY <2>1 DEF Typed, TypeOK, rows, numbers
<1>5. ASSUME NEW p \in Proposals, Submit(p) PROVE Typed'
  BY <1>5 DEF Submit, SetProposal, Typed, TypeOK, numbers
<1>6. CASE UNCHANGED vars
  BY <1>6 DEF vars, Typed, TypeOK, rows, numbers
<1> QED BY <1>1, <1>2, <1>3, <1>4, <1>5, <1>6 DEF Next, WriteNext, Writes

(* Type correctness of every reachable state. *)
THEOREM Typing == Spec => []TypeOK
<1>1. Typed => TypeOK
  BY DEF Typed
<1> QED BY <1>1, TypeInit, TypeStep, PTL DEF Spec

-----------------------------------------------------------------------------
(* The numbers.                                                            *)

\* Only the request with the lock knows the row of the period, and it knows
\* it as it is.
UnderLock ==
  \A r \in Requests : request[r] # Idle /\ request[r].locked =>
    lock = r /\ request[r].counters = period

MeetingNumbers ==
  /\ \A m \in Meetings : meeting_number[m] <= period.meeting
  /\ \A m, n \in Meetings :
       meeting_number[m] = meeting_number[n] /\ meeting_number[m] # 0 => m = n
DecisionNumbers ==
  /\ \A s \in Subjects : decision_number[s] <= period.decision
  /\ \A s, t \in Subjects :
       decision_number[s] = decision_number[t] /\ decision_number[s] # 0 => s = t

Numbered == UnderLock /\ MeetingNumbers /\ DecisionNumbers

(* The place of an item among those that are numbered with it tells it     *)
(* from the others.                                                        *)
LEMMA Rank ==
  ASSUME NEW I \in SUBSET Subjects, NEW s \in I, NEW t \in I, Order[s] < Order[t]
  PROVE  Cardinality({x \in I : Order[x] <= Order[s]})
           < Cardinality({x \in I : Order[x] <= Order[t]})
<1> DEFINE S == {x \in I : Order[x] <= Order[s]}
           T == {x \in I : Order[x] <= Order[t]}
<1>1. Order \in [Subjects -> Nat]
  BY OrderAssumption
<1>2. t \in T /\ t \notin S
  BY <1>1
<1>3. S \in SUBSET T
  BY <1>1
<1>4. IsFiniteSet(T)
  BY NumberType
<1>5. Cardinality(S) < Cardinality(T)
  BY <1>2, <1>3, <1>4, FS_Subset, FS_CardinalityType
<1> QED BY <1>5

(* The places of a set of items are the numbers from one to their count.   *)
LEMMA Places ==
  ASSUME NEW I \in SUBSET Subjects, NEW R,
         R = [s \in I |-> Cardinality({x \in I : Order[x] <= Order[s]})]
  PROVE  /\ Cardinality(I) \in Nat
         /\ R \in [I -> 1 .. Cardinality(I)]
         /\ \A s, t \in I : R[s] = R[t] => s = t
         /\ \A k \in 1 .. Cardinality(I) : \E s \in I : R[s] = k
<1>1. IsFiniteSet(I) /\ Cardinality(I) \in Nat
  BY SubjectAssumption, FS_Subset, FS_CardinalityType
<1>2. ASSUME NEW s \in I PROVE R[s] \in 1 .. Cardinality(I)
  <2>1. s \in {x \in I : Order[x] <= Order[s]}
    BY OrderAssumption
  <2>2. /\ IsFiniteSet({x \in I : Order[x] <= Order[s]})
        /\ R[s] = Cardinality({x \in I : Order[x] <= Order[s]})
        /\ R[s] \in Nat /\ R[s] <= Cardinality(I)
    BY NumberType
  <2>3. R[s] # 0
    BY <2>1, <2>2, FS_EmptySet
  <2> QED BY <1>1, <2>2, <2>3
<1>3. ASSUME NEW s \in I, NEW t \in I, s # t PROVE R[s] # R[t]
  <2>1. Order[s] \in Nat /\ Order[t] \in Nat /\ Order[s] # Order[t]
    BY <1>3, OrderAssumption
  <2>2. R[s] \in Nat /\ R[t] \in Nat
    BY <1>1, <1>2
  <2>3. CASE Order[s] < Order[t]
    <3>1. R[s] < R[t]  BY <2>3, Rank
    <3> QED BY <2>2, <3>1
  <2>4. CASE Order[t] < Order[s]
    <3>1. R[t] < R[s]  BY <2>4, Rank
    <3> QED BY <2>2, <3>1
  <2> QED BY <2>1, <2>3, <2>4
<1>4. R \in [I -> 1 .. Cardinality(I)]
  BY <1>2
<1>5. R \in Injection(I, 1 .. Cardinality(I))
  BY <1>3, <1>4 DEF Injection, IsInjective
<1>6. IsFiniteSet(1 .. Cardinality(I)) /\ Cardinality(1 .. Cardinality(I)) = Cardinality(I)
  BY <1>1, FS_Interval
<1>7. R \in Surjection(I, 1 .. Cardinality(I))
  BY <1>5, <1>6, FS_Injection
<1> QED BY <1>1, <1>3, <1>4, <1>7 DEF Surjection

(* Who holds a meeting under the lock gives numbers that nobody has.       *)
LEMMA NewNumbers ==
  ASSUME Typed, Numbered, NEW r \in Requests, request[r] # Idle, RequestOK(request[r]),
         request[r].holds => request[r].locked, hold(request[r])
  PROVE  /\ MeetingNumbers' /\ DecisionNumbers'
         /\ ~ request[r].holds => UNCHANGED period
         /\ \A s \in Subjects : request[r].holds /\ s \in request[r].items =>
              decision_number'[s] # 0
<1> DEFINE q == request[r]
<1>1. CASE ~ q.holds
  BY <1>1 DEF hold, numbers, Numbered, MeetingNumbers, DecisionNumbers
<1>2. CASE q.holds
  <2>1. q.counters = period
    BY <1>2 DEF Numbered, UnderLock
  <2>2. /\ meeting_number' = [meeting_number EXCEPT ![q.meeting] = period.meeting + 1]
        /\ decision_number' = [s \in Subjects |->
             IF s \in q.items THEN NumberOf(q, s) ELSE decision_number[s]]
        /\ period' = [meeting |-> period.meeting + 1,
             decision |-> period.decision + Cardinality(q.items)]
    BY <1>2, <2>1 DEF hold
  <2>3. /\ period.meeting \in Nat /\ period.decision \in Nat
        /\ q.items \in SUBSET Subjects /\ q.meeting \in Meetings
        /\ meeting_number \in [Meetings -> Nat]
        /\ decision_number \in [Subjects -> Nat]
    BY <1>2 DEF Typed, TypeOK, RequestOK, RequestType
  <2>4. MeetingNumbers'
    <3>1. /\ meeting_number'[q.meeting] = period.meeting + 1
          /\ \A m \in Meetings : m # q.meeting => meeting_number'[m] = meeting_number[m]
          /\ period'.meeting = period.meeting + 1
      BY <2>2, <2>3
    <3>2. \A m \in Meetings : meeting_number[m] <= period.meeting /\ meeting_number[m] \in Nat
      BY <2>3 DEF Numbered, MeetingNumbers
    <3>3. \A m \in Meetings : meeting_number'[m] <= period'.meeting
      BY <2>3, <3>1, <3>2
    <3>4. ASSUME NEW m \in Meetings, NEW n \in Meetings,
                 meeting_number'[m] = meeting_number'[n], meeting_number'[m] # 0
          PROVE  m = n
      BY <2>3, <3>1, <3>2, <3>4 DEF Numbered, MeetingNumbers
    <3> QED BY <3>3, <3>4 DEF MeetingNumbers
  <2> DEFINE P == [s \in q.items |-> Cardinality({x \in q.items : Order[x] <= Order[s]})]
             R(s) == P[s]
  <2>5. /\ Cardinality(q.items) \in Nat
         /\ P \in [q.items -> 1 .. Cardinality(q.items)]
         /\ \A s, t \in q.items : P[s] = P[t] => s = t
    <3> HIDE DEF P
    <3>1. q.items \in SUBSET Subjects
      BY <2>3
    <3>2. P = [s \in q.items |-> Cardinality({x \in q.items : Order[x] <= Order[s]})]
      BY DEF P
    <3> QED BY <3>1, <3>2, Places
  <2>6. \A s \in q.items : R(s) = Cardinality({x \in q.items : Order[x] <= Order[s]})
    OBVIOUS
  <2> HIDE DEF P
  <2>7. /\ Cardinality(q.items) \in Nat
        /\ \A s \in q.items : R(s) \in Nat /\ R(s) <= Cardinality(q.items) /\ R(s) # 0
        /\ \A s, t \in q.items : R(s) = R(t) => s = t
    BY <2>5
  <2>8. /\ \A s \in Subjects : s \in q.items => decision_number'[s] = period.decision + R(s)
        /\ \A s \in Subjects : s \notin q.items => decision_number'[s] = decision_number[s]
        /\ period'.decision = period.decision + Cardinality(q.items)
    BY <2>1, <2>2, <2>6 DEF NumberOf
  <2> HIDE DEF R
  <2>9. \A s \in Subjects : decision_number[s] <= period.decision /\ decision_number[s] \in Nat
    BY <2>3 DEF Numbered, DecisionNumbers
  <2>10. \A s \in Subjects : decision_number'[s] <= period'.decision
    BY <2>3, <2>7, <2>8, <2>9
  <2>11. ASSUME NEW s \in Subjects, NEW t \in Subjects,
                decision_number'[s] = decision_number'[t], decision_number'[s] # 0
         PROVE  s = t
    <3>1. CASE s \in q.items /\ t \in q.items
      <4>1. R(s) = R(t)
        BY <2>3, <2>7, <2>8, <2>11, <3>1
      <4> QED BY <2>7, <3>1, <4>1
    <3>2. CASE s \in q.items /\ t \notin q.items
      BY <2>3, <2>7, <2>8, <2>9, <2>11, <3>2
    <3>3. CASE s \notin q.items /\ t \in q.items
      BY <2>3, <2>7, <2>8, <2>9, <2>11, <3>3
    <3>4. CASE s \notin q.items /\ t \notin q.items
      BY <2>8, <2>11, <3>4 DEF Numbered, DecisionNumbers
    <3> QED BY <3>1, <3>2, <3>3, <3>4
  <2>12. DecisionNumbers'
    BY <2>10, <2>11 DEF DecisionNumbers
  <2>13. \A s \in Subjects : s \in q.items => decision_number'[s] # 0
    BY <2>3, <2>7, <2>8
  <2> QED BY <1>2, <2>4, <2>12, <2>13
<1> QED BY <1>1, <1>2

(* At first there are no numbers. *)
LEMMA NumberedInit == Init => Numbered
  BY DEF Init, Numbered, UnderLock, MeetingNumbers, DecisionNumbers, Idle

(* A request that ends gives new numbers, takes one back, or leaves them.  *)
LEMMA NumberedWrites ==
  ASSUME Typed, Numbered, NEW r \in Requests, Writes(r)
  PROVE  /\ MeetingNumbers' /\ DecisionNumbers'
         /\ ~ request[r].holds => UNCHANGED period
<1>0. ASSUME NEW op, Commit(r, op), hold(request[r])
      PROVE  /\ MeetingNumbers' /\ DecisionNumbers'
             /\ ~ request[r].holds => UNCHANGED period
  BY <1>0, Committed, NewNumbers
<1>1. CASE Delete(r)
  <2>1. /\ decision_number' = [decision_number EXCEPT ![request[r].subject] = 0]
        /\ UNCHANGED <<meeting_number, period>>
    BY <1>1 DEF Delete
  <2>2. /\ decision_number \in [Subjects -> Nat] /\ period.decision \in Nat
    BY DEF Typed, TypeOK
  <2>3. \A s \in Subjects : decision_number'[s] = decision_number[s] \/ decision_number'[s] = 0
    BY <2>1, <2>2
  <2>4. DecisionNumbers'
    <3>1. \A s \in Subjects : decision_number'[s] <= period'.decision
      BY <2>1, <2>2, <2>3 DEF Numbered, DecisionNumbers
    <3>2. \A s, t \in Subjects :
            decision_number'[s] = decision_number'[t] /\ decision_number'[s] # 0 => s = t
      BY <2>3 DEF Numbered, DecisionNumbers
    <3> QED BY <3>1, <3>2 DEF DecisionNumbers
  <2> QED BY <2>1, <2>4 DEF Numbered, MeetingNumbers
<1>2. CASE Decide(r)  BY <1>0, <1>2 DEF Decide
<1>3. CASE Close(r)  BY <1>0, <1>3 DEF Close
<1>4. CASE CloseFails(r)  BY <1>0, <1>4 DEF CloseFails
<1>5. CASE UNCHANGED numbers
  BY <1>5 DEF numbers, Numbered, MeetingNumbers, DecisionNumbers
<1> QED BY <1>1, <1>2, <1>3, <1>4, <1>5 DEF Writes, Schedule, Reopen, Revise, GenerateExcerpt,
        ReturnExcerpt, ReopenMeeting, Cancel, Reject

(* Every step keeps the numbers apart. *)
LEMMA NumberedStep == Typed /\ Numbered /\ [Next]_vars => Numbered'
<1> SUFFICES ASSUME Typed, Numbered, [Next]_vars PROVE Numbered'
  OBVIOUS
<1>1. ASSUME NEW r \in Requests, LoadNext(r) PROVE Numbered'
  <2>1. PICK op \in Operations, m \in Meetings \cup {None}, s \in Subjects \cup {None} :
          Load(r, op, m, s) /\ (op = "close" => m \in Meetings)
    BY <1>1, TypeLoad
  <2>2. /\ UNCHANGED <<rows, numbers, lock, stale>>
        /\ \A x \in Requests : x # r => request'[x] = request[x]
        /\ ~ request'[r].locked
    BY <2>1, Loaded
  <2>3. UnderLock'
    BY <2>2 DEF Numbered, UnderLock, numbers
  <2> QED BY <2>2, <2>3 DEF Numbered, MeetingNumbers, DecisionNumbers, numbers
<1>2. ASSUME NEW r \in Requests, Writes(r) PROVE Numbered'
  <2>1. PICK op : Commit(r, op)
    BY <1>2, TypeWrites
  <2>2. ASSUME NEW x \in Requests, request'[x] # Idle, request'[x].locked
        PROVE  lock' = x /\ request'[x].counters = period'
    <3>1. /\ x # r /\ request[x] # Idle /\ request[r] # Idle
          /\ request[x].locked /\ request'[x].counters = request[x].counters
      BY <2>1, <2>2, Committed DEF Same
    <3>2. lock = x /\ request[x].counters = period
      BY <3>1 DEF Numbered, UnderLock
    <3>3. ~ request[r].holds
      BY <2>1, <3>1, <3>2, Committed DEF Numbered, UnderLock
    <3>4. lock' = IF lock = r THEN None ELSE lock
      BY <2>1, Committed
    <3> QED BY <1>2, <3>1, <3>2, <3>3, <3>4, NumberedWrites
  <2>3. UnderLock'
    BY <2>2 DEF UnderLock
  <2> QED BY <1>2, <2>3, NumberedWrites DEF Numbered
<1>3. ASSUME NEW r \in Requests, LockPeriod(r) PROVE Numbered'
  <2>1. /\ lock = None /\ lock' = r /\ UNCHANGED <<rows, numbers, stale>>
        /\ \A x \in Requests : x # r => request'[x] = request[x]
        /\ request'[r].counters = period
    BY <1>3, Locked
  <2>2. ASSUME NEW x \in Requests, request'[x] # Idle, request'[x].locked
        PROVE  lock' = x /\ request'[x].counters = period'
    BY <2>1, <2>2, NoneAssumption DEF Numbered, UnderLock, numbers
  <2>3. UnderLock'
    BY <2>2 DEF UnderLock
  <2> QED BY <2>1, <2>3 DEF Numbered, MeetingNumbers, DecisionNumbers, numbers
<1>4. ASSUME NEW r \in Requests, Abort(r) PROVE Numbered'
  <2>1. /\ request'[r] = Idle /\ UNCHANGED <<rows, numbers, stale>>
        /\ \A x \in Requests : x # r => request'[x] = request[x]
        /\ lock' = IF lock = r THEN None ELSE lock
    BY <1>4 DEF Abort, Typed, TypeOK
  <2>2. UnderLock'
    BY <2>1 DEF Numbered, UnderLock, numbers
  <2> QED BY <2>1, <2>2 DEF Numbered, MeetingNumbers, DecisionNumbers, numbers
<1>5. ASSUME NEW p \in Proposals, Submit(p) PROVE Numbered'
  BY <1>5 DEF Submit, Numbered, UnderLock, MeetingNumbers, DecisionNumbers, numbers
<1>6. CASE UNCHANGED vars
  BY <1>6 DEF vars, Numbered, UnderLock, MeetingNumbers, DecisionNumbers, numbers
<1> QED BY <1>1, <1>2, <1>3, <1>4, <1>5, <1>6 DEF Next, WriteNext, Writes

(* However many requests hold meetings, no number is given twice. *)
THEOREM NumbersApart == Spec => []NumbersAreUnique
<1>1. Typed /\ Numbered => NumbersAreUnique
  <2> SUFFICES ASSUME Typed, Numbered PROVE NumbersAreUnique
    OBVIOUS
  <2>1. \A s \in UNION {agenda[m] : m \in Meetings} : s \in Subjects
    BY DEF Typed, TypeOK
  <2> QED BY <2>1 DEF Numbered, MeetingNumbers, DecisionNumbers, NumbersAreUnique
<1> QED BY <1>1, TypeInit, TypeStep, NumberedInit, NumberedStep, PTL DEF Spec

-----------------------------------------------------------------------------
(* The numbers run on: Meeting implements NumberSequence with its meetings *)
(* and with its agenda items.                                              *)

(* The items that are numbered together get a block of numbers, none of    *)
(* them skipped.                                                           *)
LEMMA Block ==
  ASSUME NEW q, q.items \in SUBSET Subjects, q.counters.decision \in Nat
  PROVE  /\ Cardinality(q.items) \in Nat
         /\ {NumberOf(q, s) : s \in q.items}
              = q.counters.decision + 1 .. q.counters.decision + Cardinality(q.items)
<1> DEFINE I == q.items
           R == [s \in I |-> Cardinality({x \in I : Order[x] <= Order[s]})]
           n == Cardinality(I)
           c == q.counters.decision
<1>1. \A s \in I : NumberOf(q, s) = c + R[s]
  BY DEF NumberOf
<1>2. /\ n \in Nat
      /\ R \in [I -> 1 .. n]
      /\ \A k \in 1 .. n : \E s \in I : R[s] = k
  <2> HIDE DEF R
  <2>1. I \in SUBSET Subjects
    OBVIOUS
  <2> HIDE DEF I
  <2>2. R = [s \in I |-> Cardinality({x \in I : Order[x] <= Order[s]})]
    BY DEF R
  <2>3. /\ Cardinality(I) \in Nat
        /\ R \in [I -> 1 .. Cardinality(I)]
        /\ \A s, t \in I : R[s] = R[t] => s = t
        /\ \A k \in 1 .. Cardinality(I) : \E s \in I : R[s] = k
    BY <2>1, <2>2, Places
  <2> QED BY <2>3
<1> HIDE DEF R, n
<1>3. ASSUME NEW s \in I PROVE NumberOf(q, s) \in c + 1 .. c + n
  BY <1>1, <1>2
<1>4. ASSUME NEW k \in c + 1 .. c + n PROVE \E s \in I : NumberOf(q, s) = k
  <2>1. k - c \in 1 .. n /\ k = c + (k - c)
    BY <1>2
  <2>2. PICK s \in I : R[s] = k - c
    BY <1>2, <2>1
  <2> QED BY <1>1, <2>1, <2>2
<1>5. {NumberOf(q, s) : s \in I} = c + 1 .. c + n
  BY <1>3, <1>4
<1> QED BY <1>2, <1>5 DEF n

(* Holding a meeting takes its number and the numbers of its items.        *)
LEMMA HoldTakes ==
  ASSUME Typed, Numbered, NEW r \in Requests, request[r] # Idle, RequestOK(request[r]),
         request[r].holds, request[r].locked, hold(request[r])
  PROVE  /\ OfMeetings!Take({request[r].meeting})
         /\ OfDecisions!Take(request[r].items)
<1> DEFINE q == request[r]
<1>1. /\ q.counters = period
      /\ period.meeting \in Nat /\ period.decision \in Nat
      /\ q.items \in SUBSET Subjects /\ q.meeting \in Meetings
      /\ meeting_number \in [Meetings -> Nat]
      /\ decision_number \in [Subjects -> Nat]
  BY DEF Numbered, UnderLock, Typed, TypeOK, RequestOK, RequestType
<1>2. /\ meeting_number' = [meeting_number EXCEPT ![q.meeting] = period.meeting + 1]
      /\ decision_number' = [s \in Subjects |->
           IF s \in q.items THEN NumberOf(q, s) ELSE decision_number[s]]
      /\ period' = [meeting |-> period.meeting + 1,
           decision |-> period.decision + Cardinality(q.items)]
  BY <1>1 DEF hold
<1>3. /\ MeetingNumbers' /\ DecisionNumbers'
      /\ meeting_number' \in [Meetings -> Nat]
      /\ decision_number' \in [Subjects -> Nat]
  BY NewNumbers, HoldType DEF Typed
<1>4. OfMeetings!Take({q.meeting})
  <2>1. period'.meeting = period.meeting + 1
    BY <1>2
  <2>2. period'.meeting >= period.meeting
    BY <1>1, <2>1
  <2>3. meeting_number' \in [Meetings -> 0 .. period'.meeting]
    BY <1>1, <1>3, <2>1 DEF MeetingNumbers
  <2>4. {meeting_number'[t] : t \in {q.meeting}} = period.meeting + 1 .. period'.meeting
    <3>1. meeting_number'[q.meeting] = period.meeting + 1
      BY <1>1, <1>2
    <3>2. period.meeting + 1 .. period'.meeting = {period.meeting + 1}
      BY <1>1, <2>1
    <3> QED BY <3>1, <3>2
  <2>5. \A t \in Meetings \ {q.meeting} : meeting_number'[t] = meeting_number[t]
    BY <1>1, <1>2
  <2> QED BY <2>2, <2>3, <2>4, <2>5 DEF OfMeetings!Take
<1>5. OfDecisions!Take(q.items)
  <2>1. period'.decision = period.decision + Cardinality(q.items)
    BY <1>2
  <2>2. /\ Cardinality(q.items) \in Nat
        /\ {NumberOf(q, s) : s \in q.items} = period.decision + 1 .. period'.decision
    BY <1>1, <2>1, Block
  <2>3. decision_number' \in [Subjects -> 0 .. period'.decision]
    <3>1. period'.decision \in Nat
      BY <1>1, <2>1, <2>2
    <3> QED BY <1>3, <3>1 DEF DecisionNumbers
  <2>4. {decision_number'[t] : t \in q.items} = {NumberOf(q, s) : s \in q.items}
    <3>1. \A t \in q.items : decision_number'[t] = NumberOf(q, t)
      BY <1>1, <1>2
    <3> QED BY <3>1
  <2>5. \A t \in Subjects \ q.items : decision_number'[t] = decision_number[t]
    BY <1>2
  <2>6. period'.decision >= period.decision
    BY <1>1, <2>1, <2>2
  <2>7. \A s, t \in q.items : decision_number'[s] = decision_number'[t] => s = t
    <3>1. \A s \in q.items : s \in Subjects /\ decision_number'[s] # 0
      BY <1>1, NewNumbers
    <3> QED BY <1>3, <3>1 DEF DecisionNumbers
  <2> QED BY <2>2, <2>3, <2>4, <2>5, <2>6, <2>7 DEF OfDecisions!Take
<1> QED BY <1>4, <1>5

\* Nothing is numbered.
SameNumbers == UNCHANGED <<OfMeetings!vars, OfDecisions!vars>>

(* A step of Meeting is a step of both sequences, or does not change them. *)
LEMMA NumbersStep ==
  Typed /\ Numbered /\ [Next]_vars =>
    [OfMeetings!Next]_(OfMeetings!vars) /\ [OfDecisions!Next]_(OfDecisions!vars)
<1> SUFFICES ASSUME Typed, Numbered, [Next]_vars
             PROVE  [OfMeetings!Next]_(OfMeetings!vars) /\ [OfDecisions!Next]_(OfDecisions!vars)
  OBVIOUS
<1>1. UNCHANGED numbers => SameNumbers
  BY DEF numbers, SameNumbers, OfMeetings!vars, OfDecisions!vars
<1>2. ASSUME NEW r \in Requests, NEW op, Commit(r, op), hold(request[r])
      PROVE  SameNumbers \/ (OfMeetings!Next /\ OfDecisions!Next)
  <2>1. request[r] # Idle /\ RequestOK(request[r]) /\ (request[r].holds => request[r].locked)
    BY <1>2, Committed
  <2>2. CASE ~ request[r].holds
    BY <1>1, <1>2, <2>2 DEF hold
  <2>3. CASE request[r].holds
    <3>1. OfMeetings!Take({request[r].meeting}) /\ OfDecisions!Take(request[r].items)
      BY <1>2, <2>1, <2>3, HoldTakes
    <3>2. {request[r].meeting} \in SUBSET Meetings /\ request[r].items \in SUBSET Subjects
      BY <2>1, <2>3 DEF RequestOK, RequestType
    <3> QED BY <3>1, <3>2 DEF OfMeetings!Next, OfDecisions!Next
  <2> QED BY <2>2, <2>3
<1>3. ASSUME NEW r \in Requests, Delete(r)
      PROVE  UNCHANGED OfMeetings!vars /\ OfDecisions!Next
  <2>1. /\ decision_number' = [decision_number EXCEPT ![request[r].subject] = 0]
        /\ UNCHANGED <<meeting_number, period>>
    BY <1>3 DEF Delete
  <2>2. request[r].subject \in Subjects
    <3>1. Commit(r, "delete")
      BY <1>3 DEF Delete
    <3> QED BY <3>1, Committed DEF RequestOK
  <2> QED BY <2>1, <2>2 DEF OfMeetings!vars, OfDecisions!Next, OfDecisions!Drop
<1>4. ASSUME NEW r \in Requests, Writes(r)
      PROVE  \/ SameNumbers
             \/ OfMeetings!Next /\ OfDecisions!Next
             \/ UNCHANGED OfMeetings!vars /\ OfDecisions!Next
  <2>1. CASE Decide(r)  BY <1>2, <2>1 DEF Decide
  <2>2. CASE Close(r)  BY <1>2, <2>2 DEF Close
  <2>3. CASE CloseFails(r)  BY <1>2, <2>3 DEF CloseFails
  <2>4. CASE Delete(r)  BY <1>3, <2>4
  <2>5. CASE UNCHANGED numbers  BY <1>1, <2>5
  <2> QED BY <1>4, <2>1, <2>2, <2>3, <2>4, <2>5 DEF Writes, Schedule, Reopen, Revise,
          GenerateExcerpt, ReturnExcerpt, ReopenMeeting, Cancel, Reject
<1>5. ASSUME NEW r \in Requests, LoadNext(r) PROVE SameNumbers
  BY <1>1, <1>5, TypeLoad, Loaded
<1>6. ASSUME NEW r \in Requests, LockPeriod(r) \/ Abort(r) PROVE SameNumbers
  BY <1>1, <1>6 DEF LockPeriod, Abort
<1>7. ASSUME NEW p \in Proposals, Submit(p) PROVE SameNumbers
  BY <1>1, <1>7 DEF Submit
<1>8. CASE UNCHANGED vars
  BY <1>1, <1>8 DEF vars, numbers, SameNumbers
<1> QED BY <1>4, <1>5, <1>6, <1>7, <1>8 DEF Next, WriteNext, Writes, SameNumbers

(* The meetings and the decisions of a period are numbered one after the   *)
(* other, for every number of requests.                                    *)
THEOREM NumbersInSequence == Spec => NumbersRunOn
<1>1. Init => OfMeetings!Init /\ OfDecisions!Init
  BY DEF Init, OfMeetings!Init, OfDecisions!Init
<1> QED BY <1>1, TypeInit, TypeStep, NumberedInit, NumberedStep, NumbersStep, PTL
        DEF Spec, NumbersRunOn, OfMeetings!Spec, OfDecisions!Spec

-----------------------------------------------------------------------------
(* The places of the subjects.                                             *)

OnAgenda(s) == \E m \in Meetings : s \in agenda[m]

AgendasAreDisjoint == \A m, n \in Meetings : \A s \in agenda[m] \cap agenda[n] : m = n

StateTellsPlace ==
  \A p \in Proposals : OnAgenda(p) <=> proposal_state[p] \in {"scheduled", "decided"}

\* What a request found of its subject is still so when it ends: who changes
\* it is in conflict with the request.
Placing(q) ==
  /\ q.op = "schedule" /\ q.subject \in Proposals => proposal_state[q.subject] = "submitted"
  /\ q.op = "schedule" /\ q.subject \in Texts => ~ OnAgenda(q.subject)
  /\ q.op = "delete" /\ q.subject \in Proposals => proposal_state[q.subject] = "scheduled"
  /\ q.op = "return" => proposal_state[q.subject] = "scheduled"
  /\ q.op = "reject" => proposal_state[q.subject] = "submitted"

TextsAreNew ==
  \A r, x \in Requests :
    request[r] # Idle /\ request[x] # Idle /\ r # x
      /\ request[r].op = "schedule" /\ request[r].subject \in Texts
    => request[x].subject # request[r].subject

Placed ==
  /\ AgendasAreDisjoint /\ StateTellsPlace /\ TextsAreNew
  /\ \A r \in Requests : request[r] # Idle => Placing(request[r])

(* At first nothing is on an agenda. *)
LEMMA PlacedInit == Init => Placed
  BY DEF Init, Placed, AgendasAreDisjoint, StateTellsPlace, TextsAreNew, OnAgenda, Idle

(* A subject that is to be scheduled is on no agenda. *)
LEMMA ScheduledIsFree ==
  ASSUME Typed, Placed, NEW r \in Requests, request[r] # Idle, request[r].op = "schedule"
  PROVE  request[r].subject \in Subjects /\ ~ OnAgenda(request[r].subject)
<1>1. request[r].subject \in Subjects /\ Placing(request[r])
  BY DEF Typed, RequestOK, Placed
<1> QED BY <1>1 DEF Placing, Subjects, Placed, StateTellsPlace

(* A request that ends keeps subjects on one agenda, and touches nothing   *)
(* of a proposal without a record of it in the history.                    *)
LEMMA PlacedWrites ==
  ASSUME Typed, Placed, NEW r \in Requests, Writes(r)
  PROVE  /\ AgendasAreDisjoint' /\ StateTellsPlace'
         /\ \A p \in Proposals : proposal_state'[p] # proposal_state[p] =>
              WritesHistory(request[r]) /\ request[r].subject = p
         /\ \A s : OnAgenda(s)' /\ ~ OnAgenda(s) =>
              request[r].op = "schedule" /\ request[r].subject = s
<1> DEFINE q == request[r]
<1>0. /\ agenda \in [Meetings -> SUBSET Subjects]
      /\ proposal_state \in [Proposals -> {"pending", "submitted", "scheduled", "decided"}]
      /\ Proposals \cap Texts = {}
  BY SubjectAssumption DEF Typed, TypeOK
<1>1. CASE Schedule(r)
  <2>1. Commit(r, "schedule") /\ SetProposal(q.subject, "scheduled")
        /\ agenda' = [agenda EXCEPT ![q.meeting] = @ \cup {q.subject}]
    BY <1>1 DEF Schedule
  <2>2. /\ q # Idle /\ q.op = "schedule" /\ q.meeting \in Meetings
        /\ q.subject \in Subjects /\ ~ OnAgenda(q.subject)
    <3>1. q # Idle /\ q.op = "schedule" /\ RequestOK(q)
      BY <2>1, Committed
    <3>2. q.subject \in Subjects /\ ~ OnAgenda(q.subject)
      BY <3>1, ScheduledIsFree
    <3> QED BY <3>1, <3>2 DEF RequestOK
  <2>3. /\ agenda'[q.meeting] = agenda[q.meeting] \cup {q.subject}
        /\ \A m \in Meetings : m # q.meeting => agenda'[m] = agenda[m]
    BY <1>0, <2>1, <2>2
  <2>4. AgendasAreDisjoint'
    BY <2>2, <2>3 DEF Placed, AgendasAreDisjoint, OnAgenda
  <2>5. \A s : OnAgenda(s)' <=> OnAgenda(s) \/ s = q.subject
    BY <2>2, <2>3 DEF OnAgenda
  <2>6. \A p \in Proposals :
          proposal_state'[p] = IF p = q.subject THEN "scheduled" ELSE proposal_state[p]
    BY <1>0, <2>1 DEF SetProposal
  <2>7. StateTellsPlace'
    BY <2>5, <2>6 DEF Placed, StateTellsPlace
  <2> QED BY <2>2, <2>4, <2>5, <2>6, <2>7 DEF WritesHistory
<1>2. CASE Delete(r)
  <2>1. Commit(r, "delete") /\ SetProposal(q.subject, "submitted")
        /\ agenda' = [agenda EXCEPT ![q.meeting] = @ \ {q.subject}]
    BY <1>2 DEF Delete
  <2>2. /\ q # Idle /\ q.op = "delete" /\ q.meeting \in Meetings
        /\ q.subject \in Subjects /\ q.subject \in agenda[q.meeting]
    <3>1. q # Idle /\ q.op = "delete" /\ RequestOK(q) /\ RowsAreThere(q)
      BY <2>1, Committed
    <3> QED BY <3>1 DEF RequestOK, RowsAreThere
  <2>3. /\ agenda'[q.meeting] = agenda[q.meeting] \ {q.subject}
        /\ \A m \in Meetings : m # q.meeting => agenda'[m] = agenda[m]
    BY <1>0, <2>1, <2>2
  <2>4. AgendasAreDisjoint'
    BY <2>2, <2>3 DEF Placed, AgendasAreDisjoint
  <2>5. \A s : OnAgenda(s)' <=> OnAgenda(s) /\ s # q.subject
    BY <2>2, <2>3 DEF OnAgenda, Placed, AgendasAreDisjoint
  <2>6. \A p \in Proposals :
          proposal_state'[p] = IF p = q.subject THEN "submitted" ELSE proposal_state[p]
    BY <1>0, <2>1 DEF SetProposal
  <2>7. StateTellsPlace'
    BY <2>5, <2>6 DEF Placed, StateTellsPlace
  <2> QED BY <2>2, <2>4, <2>5, <2>6, <2>7 DEF WritesHistory
<1>3. ASSUME UNCHANGED agenda,
             \A p \in Proposals : proposal_state'[p] # proposal_state[p] =>
               /\ WritesHistory(q) /\ q.subject = p
               /\ proposal_state'[p] \in {"scheduled", "decided"} <=>
                  proposal_state[p] \in {"scheduled", "decided"}
      PROVE  /\ AgendasAreDisjoint' /\ StateTellsPlace'
             /\ \A p \in Proposals : proposal_state'[p] # proposal_state[p] =>
                  WritesHistory(q) /\ q.subject = p
             /\ \A s : OnAgenda(s)' /\ ~ OnAgenda(s) => q.op = "schedule" /\ q.subject = s
  <2>1. \A s : OnAgenda(s)' <=> OnAgenda(s)
    BY <1>3 DEF OnAgenda
  <2>2. StateTellsPlace'
    BY <1>3, <2>1 DEF Placed, StateTellsPlace
  <2> QED BY <1>3, <2>1, <2>2 DEF Placed, AgendasAreDisjoint
<1>4. CASE ReturnExcerpt(r)
  <2>1. Commit(r, "return") /\ SetProposal(q.subject, "decided") /\ UNCHANGED agenda
    BY <1>4 DEF ReturnExcerpt
  <2>2. q # Idle /\ q.op = "return" /\ q.subject \in Proposals
        /\ proposal_state[q.subject] = "scheduled"
    BY <2>1, Committed DEF RequestOK, Placed, Placing
  <2>3. \A p \in Proposals :
          proposal_state'[p] = IF p = q.subject THEN "decided" ELSE proposal_state[p]
    BY <1>0, <2>1 DEF SetProposal
  <2> QED BY <1>3, <2>1, <2>2, <2>3 DEF WritesHistory
<1>5. CASE Reject(r)
  <2>1. Commit(r, "reject") /\ SetProposal(q.subject, "pending") /\ UNCHANGED agenda
    BY <1>5 DEF Reject
  <2>2. q # Idle /\ q.op = "reject" /\ q.subject \in Proposals
        /\ proposal_state[q.subject] = "submitted"
    BY <2>1, Committed DEF RequestOK, Placed, Placing
  <2>3. \A p \in Proposals :
          proposal_state'[p] = IF p = q.subject THEN "pending" ELSE proposal_state[p]
    BY <1>0, <2>1 DEF SetProposal
  <2> QED BY <1>3, <2>1, <2>2, <2>3 DEF WritesHistory
<1>6. CASE UNCHANGED <<agenda, proposal_state>>
  BY <1>3, <1>6
<1> QED BY <1>1, <1>2, <1>4, <1>5, <1>6 DEF Writes, Decide, Reopen, Revise, GenerateExcerpt,
        Close, CloseFails, ReopenMeeting, Cancel

(* What a request has loaded is so. *)
LEMMA PlacedLoad ==
  ASSUME Typed, Placed, NEW r \in Requests, LoadNext(r)
  PROVE  /\ Placing(request'[r])
         /\ \A x \in Requests : request[x] # Idle =>
              /\ request'[r].op = "schedule" /\ request'[r].subject \in Texts =>
                   request[x].subject # request'[r].subject
              /\ request[x].op = "schedule" /\ request[x].subject \in Texts =>
                   request'[r].subject # request[x].subject
<1>0. /\ None \notin Subjects /\ Proposals \cap Texts = {}
      /\ excerpt \subseteq Proposals
  BY NoneAssumption, SubjectAssumption DEF Typed, TypeOK
<1>1. ASSUME NEW op \in Operations, NEW m \in Meetings \cup {None},
             NEW s \in Subjects \cup {None}, op = "close" => m \in Meetings, Load(r, op, m, s)
      PROVE  request'[r].op = op /\ request'[r].subject = s
  BY <1>1, Loaded
<1>2. \A x \in Requests : request[x] # Idle /\ request[x].op = "schedule"
        /\ request[x].subject \in Texts => ~ OnAgenda(request[x].subject)
  BY DEF Placed, Placing
<1>3. ASSUME NEW m \in Meetings, NEW s \in Subjects, LoadSchedule(r, m, s)
      PROVE  /\ request'[r].op = "schedule" /\ request'[r].subject = s
             /\ s \in Proposals => proposal_state[s] = "submitted"
             /\ s \in Texts => IsNew(s)
  <2>1. "schedule" \in Operations /\ Load(r, "schedule", m, s)
    BY <1>3 DEF LoadSchedule, Operations
  <2>2. IF s \in Proposals THEN proposal_state[s] = "submitted" ELSE IsNew(s)
    BY <1>3 DEF LoadSchedule
  <2> QED BY <1>0, <1>1, <2>1, <2>2
<1>4. ASSUME NEW m \in Meetings, NEW s \in Subjects, LoadDelete(r, m, s)
      PROVE  /\ request'[r].op = "delete" /\ request'[r].subject = s /\ s \in agenda[m]
             /\ s \in Proposals => proposal_state[s] = "scheduled"
  <2>1. "delete" \in Operations /\ Load(r, "delete", m, s)
    BY <1>4 DEF LoadDelete, Operations
  <2> QED BY <1>1, <1>4, <2>1 DEF LoadDelete
<1>5. ASSUME NEW m \in Meetings, NEW s \in Subjects, LoadReturn(r, m, s)
      PROVE  /\ request'[r].op = "return" /\ request'[r].subject = s /\ s \in agenda[m]
             /\ proposal_state[s] = "scheduled"
  <2>1. "return" \in Operations /\ Load(r, "return", m, s)
    BY <1>5 DEF LoadReturn, Operations
  <2> QED BY <1>1, <1>5, <2>1 DEF LoadReturn
<1>6. ASSUME NEW m \in Meetings, NEW s \in Subjects,
             LoadDecide(r, m, s) \/ LoadReopen(r, m, s) \/ LoadRevise(r, m, s)
             \/ LoadGenerate(r, m, s)
      PROVE  /\ request'[r].op \in {"decide", "reopen", "revise", "generate"}
             /\ request'[r].subject = s /\ s \in agenda[m]
  <2>1. PICK op \in {"decide", "reopen", "revise", "generate"} :
          Load(r, op, m, s) /\ s \in agenda[m]
    BY <1>6 DEF LoadDecide, LoadReopen, LoadRevise, LoadGenerate
  <2>2. op \in Operations /\ op # "close"
    BY <2>1 DEF Operations
  <2> QED BY <1>1, <2>1, <2>2
<1>7. ASSUME NEW m \in Meetings, LoadClose(r, m) \/ LoadReopenMeeting(r, m) \/ LoadCancel(r, m)
      PROVE  /\ request'[r].op \in {"close", "reopen meeting", "cancel"}
             /\ request'[r].subject = None
  <2>1. PICK op \in {"close", "reopen meeting", "cancel"} : Load(r, op, m, None)
    BY <1>7 DEF LoadClose, LoadReopenMeeting, LoadCancel
  <2>2. op \in Operations
    BY <2>1 DEF Operations
  <2> QED BY <1>1, <2>1, <2>2
<1>8. ASSUME NEW p \in Proposals, LoadReject(r, p)
      PROVE  /\ request'[r].op = "reject" /\ request'[r].subject = p
             /\ proposal_state[p] = "submitted"
  <2>1. "reject" \in Operations /\ Load(r, "reject", None, p) /\ p \in Subjects
    BY <1>8 DEF LoadReject, Operations, Subjects
  <2> QED BY <1>1, <1>8, <2>1 DEF LoadReject
<1>9. ASSUME NEW m \in Meetings, NEW s \in Subjects, LoadSchedule(r, m, s)
      PROVE  /\ Placing(request'[r])
             /\ \A x \in Requests : request[x] # Idle =>
                  /\ s \in Texts => request[x].subject # s
                  /\ request[x].subject \in Texts /\ s \notin Texts => s # request[x].subject
  <2>1. s \in Texts => ~ OnAgenda(s) /\ \A x \in Requests : request[x] # Idle =>
                                        request[x].subject # s
    BY <1>3, <1>9 DEF IsNew, OnAgenda
  <2>2. Placing(request'[r])
    BY <1>3, <1>9, <2>1 DEF Placing
  <2> QED BY <2>1, <2>2
<1>10. ASSUME NEW m \in Meetings, NEW s \in Subjects,
              \/ LoadDelete(r, m, s) \/ LoadReturn(r, m, s) \/ LoadDecide(r, m, s)
              \/ LoadReopen(r, m, s) \/ LoadRevise(r, m, s) \/ LoadGenerate(r, m, s)
       PROVE  Placing(request'[r]) /\ request'[r].op # "schedule"
              /\ request'[r].subject = s /\ OnAgenda(s)
  <2>1. CASE LoadDelete(r, m, s)
    BY <1>4, <2>1 DEF Placing, OnAgenda
  <2>2. CASE LoadReturn(r, m, s)
    BY <1>5, <2>2 DEF Placing, OnAgenda
  <2>3. CASE LoadDecide(r, m, s) \/ LoadReopen(r, m, s) \/ LoadRevise(r, m, s)
             \/ LoadGenerate(r, m, s)
    BY <1>6, <2>3 DEF Placing, OnAgenda
  <2> QED BY <1>10, <2>1, <2>2, <2>3
<1>11. ASSUME NEW m \in Meetings,
              LoadClose(r, m) \/ LoadReopenMeeting(r, m) \/ LoadCancel(r, m)
       PROVE  Placing(request'[r]) /\ request'[r].op # "schedule"
              /\ request'[r].subject \notin Texts
  BY <1>0, <1>7, <1>11 DEF Placing, Subjects
<1>12. ASSUME NEW p \in Proposals, LoadReject(r, p)
       PROVE  Placing(request'[r]) /\ request'[r].op # "schedule"
              /\ request'[r].subject \notin Texts
  BY <1>0, <1>8, <1>12 DEF Placing
<1> QED BY <1>2, <1>3, <1>9, <1>10, <1>11, <1>12 DEF LoadNext

(* Every step keeps subjects in their places. *)
LEMMA PlacedStep == Typed /\ Placed /\ [Next]_vars => Placed'
<1> SUFFICES ASSUME Typed, Placed, [Next]_vars PROVE Placed'
  OBVIOUS
<1>0. ASSUME UNCHANGED <<agenda, proposal_state>>
      PROVE  /\ AgendasAreDisjoint' /\ StateTellsPlace'
             /\ \A a, b : a.op = b.op /\ a.subject = b.subject => (Placing(a) => Placing(b)')
  BY <1>0 DEF Placed, AgendasAreDisjoint, StateTellsPlace, OnAgenda, Placing
<1>1. ASSUME NEW r \in Requests, LoadNext(r) PROVE Placed'
  <2>1. /\ UNCHANGED <<agenda, proposal_state>> /\ request[r] = Idle
        /\ \A x \in Requests : x # r => request'[x] = request[x]
    BY <1>1, TypeLoad, Loaded DEF rows
  <2>2. ASSUME NEW x \in Requests, request'[x] # Idle PROVE Placing(request[x])' 
    BY <1>0, <1>1, <2>1, <2>2, PlacedLoad DEF Placed
  <2>3. TextsAreNew'
    BY <1>1, <2>1, PlacedLoad DEF Placed, TextsAreNew
  <2> QED BY <1>0, <2>1, <2>2, <2>3 DEF Placed
<1>2. ASSUME NEW r \in Requests, Writes(r) PROVE Placed'
  <2>1. PICK op : Commit(r, op)
    BY <1>2, TypeWrites
  <2>2. ASSUME NEW x \in Requests, request'[x] # Idle
        PROVE  /\ x # r /\ request[x] # Idle /\ ~ InConflict(request[r], request[x])
               /\ request'[x].op = request[x].op /\ request'[x].subject = request[x].subject
    BY <2>1, <2>2, Committed DEF Same
  <2>3. ASSUME NEW x \in Requests, request'[x] # Idle PROVE Placing(request[x])'
    <3> DEFINE q == request[x]
    <3>1. /\ request[r] # Idle /\ Placing(q) /\ RequestOK(q)
          /\ x # r /\ q # Idle /\ ~ InConflict(request[r], q)
          /\ request'[x].op = q.op /\ request'[x].subject = q.subject
      BY <2>1, <2>2, <2>3, Committed DEF Typed, Placed
    <3>2. WritesHistory(q) => proposal_state'[q.subject] = proposal_state[q.subject]
      BY <1>2, <3>1, PlacedWrites DEF InConflict, WritesHistory
    <3>3. q.op = "schedule" /\ q.subject \in Texts => ~ OnAgenda(q.subject)'
      BY <1>2, <3>1, PlacedWrites DEF Placing, Placed, TextsAreNew
    <3>4. q.op \in {"return", "reject"} => q.subject \in Proposals
      BY <3>1 DEF RequestOK
    <3> QED BY <3>1, <3>2, <3>3, <3>4 DEF Placing, WritesHistory
  <2>4. TextsAreNew'
    BY <2>2 DEF Placed, TextsAreNew
  <2> QED BY <1>2, <2>3, <2>4, PlacedWrites DEF Placed
<1>3. ASSUME NEW r \in Requests, LockPeriod(r) PROVE Placed'
  <2>1. /\ UNCHANGED <<agenda, proposal_state>>
        /\ \A x \in Requests : request'[x] # Idle =>
             /\ request[x] # Idle
             /\ request'[x].op = request[x].op /\ request'[x].subject = request[x].subject
    BY <1>3, Locked DEF rows
  <2>2. TextsAreNew'
    BY <2>1 DEF Placed, TextsAreNew
  <2>3. \A x \in Requests : request'[x] # Idle => Placing(request[x])'
    BY <1>0, <2>1 DEF Placed
  <2> QED BY <1>0, <2>1, <2>2, <2>3 DEF Placed
<1>4. ASSUME NEW r \in Requests, Abort(r) PROVE Placed'
  <2>1. /\ UNCHANGED <<agenda, proposal_state>>
        /\ \A x \in Requests : request'[x] # Idle => request'[x] = request[x]
    BY <1>4 DEF Abort, Typed, TypeOK, rows
  <2>2. TextsAreNew'
    BY <2>1 DEF Placed, TextsAreNew
  <2>3. \A x \in Requests : request'[x] # Idle => Placing(request[x])'
    BY <1>0, <2>1 DEF Placed
  <2> QED BY <1>0, <2>1, <2>2, <2>3 DEF Placed
<1>5. ASSUME NEW p \in Proposals, Submit(p) PROVE Placed'
  <2>1. /\ proposal_state[p] = "pending" /\ UNCHANGED <<agenda, request>>
        /\ \A s \in Proposals :
             proposal_state'[s] = IF s = p THEN "submitted" ELSE proposal_state[s]
    BY <1>5 DEF Submit, SetProposal, Typed, TypeOK
  <2>2. AgendasAreDisjoint' /\ StateTellsPlace' /\ TextsAreNew'
    BY <2>1 DEF Placed, AgendasAreDisjoint, StateTellsPlace, TextsAreNew, OnAgenda
  <2>3. ASSUME NEW x \in Requests, request[x] # Idle PROVE Placing(request[x])'
    <3>1. RequestOK(request[x]) /\ Placing(request[x])
      BY <2>3 DEF Typed, Placed
    <3>2. request[x].op \in {"return", "reject"} => request[x].subject \in Proposals
      BY <3>1 DEF RequestOK
    <3> QED BY <2>1, <3>1, <3>2 DEF Placing, OnAgenda
  <2> QED BY <2>1, <2>2, <2>3 DEF Placed
<1>6. CASE UNCHANGED vars
  BY <1>0, <1>6 DEF vars, rows, Placed, TextsAreNew
<1> QED BY <1>1, <1>2, <1>3, <1>4, <1>5, <1>6 DEF Next, WriteNext, Writes

(* A proposal is on one agenda exactly while it is scheduled or decided. *)
THEOREM OnOneAgenda == Spec => []ScheduledOnce
<1>1. Typed /\ Placed => ScheduledOnce
  <2> SUFFICES ASSUME Typed, Placed, NEW p \in Proposals
               PROVE  Cardinality({m \in Meetings : p \in agenda[m]})
                        = IF proposal_state[p] \in {"scheduled", "decided"} THEN 1 ELSE 0
    BY DEF ScheduledOnce
  <2> DEFINE M == {m \in Meetings : p \in agenda[m]}
  <2>1. CASE OnAgenda(p)
    <3>1. PICK m \in Meetings : p \in agenda[m]
      BY <2>1 DEF OnAgenda
    <3>2. M = {m}
      BY <3>1 DEF Placed, AgendasAreDisjoint
    <3> QED BY <2>1, <3>2, FS_Singleton DEF Placed, StateTellsPlace
  <2>2. CASE ~ OnAgenda(p)
    <3>1. M = {}
      BY <2>2 DEF OnAgenda
    <3> QED BY <2>2, <3>1, FS_EmptySet DEF Placed, StateTellsPlace
  <2> QED BY <2>1, <2>2
<1> QED BY <1>1, TypeInit, TypeStep, PlacedInit, PlacedStep, PTL DEF Spec

-----------------------------------------------------------------------------
(* The state of a meeting and its agenda.                                  *)

\* What a request has read of its meeting, as long as it is not outdated.
Reading(q) ==
  LET m == q.meeting
      s == q.subject
  IN /\ q.op \in {"schedule", "delete"} => meeting_state[m] = "pending"
     /\ q.op = "decide" => is_editable(m) /\ (q.holds /\ q.locked => q.items = agenda[m])
     /\ q.op = "reopen" => is_editable(m) /\ s \in agenda[m] /\ item_state[s] = "decided"
     /\ q.op = "revise" => is_editable(m) /\ s \in agenda[m] /\ item_state[s] = "revision"
     /\ q.op = "close" => /\ is_editable(m) /\ (\A t \in agenda[m] : is_completed(t))
                          /\ q.holds => q.items = agenda[m]
     /\ q.op \in {"decide", "close"} => (q.holds <=> meeting_state[m] # "held")
     /\ q.op = "reopen meeting" => meeting_state[m] = "closed"
     /\ q.op = "cancel" => meeting_state[m] = "pending" /\ agenda[m] = {}

SoundMeeting(m) ==
  /\ meeting_state[m] = "closed" => \A s \in agenda[m] : is_completed(s)
  /\ meeting_state[m] \in {"held", "closed"} => \A s \in agenda[m] : decision_number[s] # 0
  /\ meeting_state[m] = "pending" =>
       \A s \in agenda[m] : item_state[s] = "pending" /\ decision_number[s] = 0
  /\ meeting_state[m] = "cancelled" => agenda[m] = {}
  /\ meeting_state[m] \in {"pending", "cancelled"} => meeting_number[m] = 0

FreeIsBlank ==
  \A s \in Subjects : ~ OnAgenda(s) => item_state[s] = "pending" /\ decision_number[s] = 0

UpToDate(q) == q.op # "reject" /\ ~ q.outdated

Sound ==
  /\ FreeIsBlank
  /\ \A m \in Meetings : m \notin stale => SoundMeeting(m)
  /\ \A r \in Requests : request[r] # Idle /\ UpToDate(request[r]) => Reading(request[r])

Inv == Typed /\ Numbered /\ Placed /\ Sound

(* At first every meeting is pending, with nothing on its agenda. *)
LEMMA SoundInit == Init => Sound
  BY DEF Init, Sound, FreeIsBlank, SoundMeeting, OnAgenda, Idle

\* Nothing that is read of a meeting changes.
SameMeeting(m) ==
  /\ meeting_state'[m] = meeting_state[m] /\ meeting_number'[m] = meeting_number[m]
  /\ agenda'[m] = agenda[m]
  /\ \A s \in agenda[m] :
       /\ item_state'[s] = item_state[s] /\ decision_number'[s] = decision_number[s]
       /\ is_completed(s) => is_completed(s)'

(* What was so of a meeting and of a request for it stays so while nothing *)
(* that is read of the meeting changes.                                    *)
LEMMA SameIsSound ==
  ASSUME NEW m \in Meetings, SameMeeting(m)
  PROVE  /\ SoundMeeting(m) => SoundMeeting(m)'
         /\ \A a, b : Same(b, a) /\ a.meeting = m /\ Reading(a) => Reading(b)'
<1>1. SoundMeeting(m) => SoundMeeting(m)'
  BY DEF SameMeeting, SoundMeeting
<1>2. ASSUME NEW a, NEW b, Same(b, a), a.meeting = m, Reading(a)
      PROVE  Reading(b)'
  <2>1. /\ b.op = a.op /\ b.subject = a.subject /\ b.meeting = m
        /\ b.holds = a.holds /\ b.locked = a.locked /\ b.items = a.items
    BY <1>2 DEF Same
  <2>2. is_editable(m) => is_editable(m)'
    BY DEF SameMeeting, is_editable
  <2>3. b.op = "close" => (\A t \in agenda[m] : is_completed(t))'
    BY <1>2, <2>1 DEF Reading, SameMeeting
  <2> QED BY <1>2, <2>1, <2>2, <2>3 DEF Reading, SameMeeting
<1> QED BY <1>1, <1>2

(* A decided proposal on an agenda stays decided. *)
LEMMA CompletedStays ==
  ASSUME Typed, Placed, NEW r \in Requests, Writes(r),
         NEW s \in Subjects, OnAgenda(s), item_state'[s] = item_state[s]
  PROVE  is_completed(s) => is_completed(s)'
<1> SUFFICES ASSUME is_completed(s), s \in Proposals PROVE proposal_state'[s] = "decided"
  BY DEF is_completed
<1>1. proposal_state[s] = "decided"
  BY DEF is_completed
<1>2. request[r] # Idle
  BY TypeWrites, Committed
<1>3. Placing(request[r])
  BY <1>2 DEF Placed
<1>4. ~ (WritesHistory(request[r]) /\ request[r].subject = s)
  BY <1>1, <1>3 DEF WritesHistory, Placing
<1> QED BY <1>1, <1>4, PlacedWrites

(* A request writes to no meeting but its own. *)
LEMMA Elsewhere ==
  ASSUME Typed, Placed, NEW r \in Requests, Writes(r),
         NEW n \in Meetings, n # request[r].meeting
  PROVE  SameMeeting(n)
<1> DEFINE q == request[r]
<1>0. /\ meeting_state \in [Meetings -> {"pending", "held", "closed", "cancelled"}]
      /\ meeting_number \in [Meetings -> Nat]
      /\ agenda \in [Meetings -> SUBSET Subjects]
      /\ item_state \in [Subjects -> {"pending", "decided", "revision"}]
      /\ decision_number \in [Subjects -> Nat]
  BY DEF Typed, TypeOK
<1>1. PICK op : Commit(r, op)
  BY TypeWrites
<1>2. q # Idle /\ RequestOK(q) /\ RowsAreThere(q)
  BY <1>1, Committed
<1>3. \A s \in agenda[n] : s \in Subjects /\ OnAgenda(s)
  BY <1>0 DEF OnAgenda
<1>4. q.op \in {"delete", "decide", "reopen", "revise"} =>
        q.meeting \in Meetings /\ q.subject \notin agenda[n]
  BY <1>2 DEF RequestOK, RowsAreThere, Placed, AgendasAreDisjoint
<1>5. q.holds => q.meeting \in Meetings /\ \A s \in agenda[n] : s \notin q.items
  BY <1>2 DEF RequestOK, RowsAreThere, Placed, AgendasAreDisjoint
<1>6. hold(q) =>
        /\ meeting_number'[n] = meeting_number[n]
        /\ \A s \in agenda[n] : decision_number'[s] = decision_number[s]
  <2>1. ASSUME hold(q), ~ q.holds PROVE UNCHANGED <<meeting_number, decision_number>>
    BY <2>1 DEF hold, numbers
  <2>2. ASSUME hold(q), q.holds
        PROVE  /\ meeting_number'[n] = meeting_number[n]
               /\ \A s \in agenda[n] : decision_number'[s] = decision_number[s]
    <3>1. /\ meeting_number' = [meeting_number EXCEPT ![q.meeting] = q.counters.meeting + 1]
          /\ decision_number' = [s \in Subjects |->
               IF s \in q.items THEN NumberOf(q, s) ELSE decision_number[s]]
      BY <2>2 DEF hold
    <3> QED BY <1>0, <1>3, <1>5, <2>2, <3>1
  <2> QED BY <2>1, <2>2
<1>7. /\ meeting_state'[n] = meeting_state[n] /\ meeting_number'[n] = meeting_number[n]
      /\ agenda'[n] = agenda[n]
      /\ \A s \in agenda[n] :
           item_state'[s] = item_state[s] /\ decision_number'[s] = decision_number[s]
  <2>1. CASE Schedule(r)
    BY <1>0, <2>1 DEF Schedule, numbers
  <2>2. CASE Delete(r)
    <3>1. q.op = "delete"  BY <2>2, Committed DEF Delete
    <3> QED BY <1>0, <1>3, <1>4, <2>2, <3>1 DEF Delete
  <2>3. CASE Decide(r)
    <3>1. q.op = "decide"  BY <2>3, Committed DEF Decide
    <3> QED BY <1>0, <1>3, <1>4, <1>6, <2>3, <3>1 DEF Decide
  <2>4. CASE Reopen(r)
    <3>1. q.op = "reopen"  BY <2>4, Committed DEF Reopen
    <3> QED BY <1>0, <1>3, <1>4, <2>4, <3>1 DEF Reopen, numbers
  <2>5. CASE Revise(r)
    <3>1. q.op = "revise"  BY <2>5, Committed DEF Revise
    <3> QED BY <1>0, <1>3, <1>4, <2>5, <3>1 DEF Revise, numbers
  <2>6. CASE GenerateExcerpt(r) \/ ReturnExcerpt(r) \/ Reject(r)
    BY <2>6 DEF GenerateExcerpt, ReturnExcerpt, Reject, numbers
  <2>7. CASE Close(r)
    BY <1>0, <1>6, <2>7 DEF Close
  <2>8. CASE CloseFails(r)
    BY <1>0, <1>6, <2>8 DEF CloseFails
  <2>9. CASE ReopenMeeting(r) \/ Cancel(r)
    BY <1>0, <2>9 DEF ReopenMeeting, Cancel, numbers
  <2> QED BY <2>1, <2>2, <2>3, <2>4, <2>5, <2>6, <2>7, <2>8, <2>9 DEF Writes
<1> QED BY <1>3, <1>7, CompletedStays DEF SameMeeting

(* Items are decided and numbered on an agenda only, and lose that with    *)
(* their place.                                                            *)
LEMMA BlankWrites ==
  ASSUME Typed, Placed, FreeIsBlank, NEW r \in Requests, Writes(r)
  PROVE  FreeIsBlank'
<1> DEFINE q == request[r]
<1>0. /\ agenda \in [Meetings -> SUBSET Subjects]
      /\ item_state \in [Subjects -> {"pending", "decided", "revision"}]
      /\ decision_number \in [Subjects -> Nat]
  BY DEF Typed, TypeOK
<1>1. PICK op : Commit(r, op)
  BY TypeWrites
<1>2. q # Idle /\ RequestOK(q) /\ RowsAreThere(q)
  BY <1>1, Committed
<1>3. q.op \in {"delete", "decide", "reopen", "revise"} => OnAgenda(q.subject)
  BY <1>2 DEF RequestOK, RowsAreThere, OnAgenda
<1>4. q.holds => \A s \in q.items : OnAgenda(s)
  BY <1>2 DEF RequestOK, RowsAreThere, OnAgenda
<1>5. hold(q) => \A s \in Subjects : ~ OnAgenda(s) => decision_number'[s] = decision_number[s]
  BY <1>0, <1>4 DEF hold, numbers
<1>6. ASSUME UNCHANGED agenda,
             \A s \in Subjects : ~ OnAgenda(s) =>
               item_state'[s] = item_state[s] /\ decision_number'[s] = decision_number[s]
      PROVE  FreeIsBlank'
  BY <1>6 DEF FreeIsBlank, OnAgenda
<1>7. CASE Schedule(r)
  <2>1. /\ agenda' = [agenda EXCEPT ![q.meeting] = @ \cup {q.subject}]
        /\ UNCHANGED <<item_state, decision_number>>
    BY <1>7 DEF Schedule, numbers
  <2>2. \A s : OnAgenda(s) => OnAgenda(s)'
    BY <1>0, <2>1 DEF OnAgenda
  <2> QED BY <2>1, <2>2 DEF FreeIsBlank
<1>8. CASE Delete(r)
  <2>1. /\ agenda' = [agenda EXCEPT ![q.meeting] = @ \ {q.subject}]
        /\ item_state' = [item_state EXCEPT ![q.subject] = "pending"]
        /\ decision_number' = [decision_number EXCEPT ![q.subject] = 0]
    BY <1>8 DEF Delete
  <2>2. \A s : OnAgenda(s) /\ s # q.subject => OnAgenda(s)'
    BY <1>0, <2>1 DEF OnAgenda
  <2> QED BY <1>0, <2>1, <2>2 DEF FreeIsBlank
<1>9. CASE Decide(r)
  <2>1. q.op = "decide"  BY <1>9, Committed DEF Decide
  <2> QED BY <1>0, <1>3, <1>5, <1>6, <1>9, <2>1 DEF Decide
<1>10. CASE Reopen(r)
  <2>1. q.op = "reopen"  BY <1>10, Committed DEF Reopen
  <2> QED BY <1>0, <1>3, <1>6, <1>10, <2>1 DEF Reopen, numbers
<1>11. CASE Revise(r)
  <2>1. q.op = "revise"  BY <1>11, Committed DEF Revise
  <2> QED BY <1>0, <1>3, <1>6, <1>11, <2>1 DEF Revise, numbers
<1>12. CASE Close(r) \/ CloseFails(r)
  BY <1>5, <1>6, <1>12 DEF Close, CloseFails
<1>13. CASE GenerateExcerpt(r) \/ ReturnExcerpt(r) \/ ReopenMeeting(r) \/ Cancel(r) \/ Reject(r)
  BY <1>6, <1>13 DEF GenerateExcerpt, ReturnExcerpt, ReopenMeeting, Cancel, Reject, numbers
<1> QED BY <1>7, <1>8, <1>9, <1>10, <1>11, <1>12, <1>13 DEF Writes

(* A request that is up to date decides, closes, reopens or cancels its    *)
(* meeting as the agenda allows, and numbers nothing for the second time.  *)
LEMMA Here ==
  ASSUME Inv, NEW r \in Requests, Writes(r),
         UpToDate(request[r]), NEW m \in Meetings, m = request[r].meeting, m \notin stale
  PROVE  SoundMeeting(m)'
<1> DEFINE q == request[r]
<1>0. /\ meeting_state \in [Meetings -> {"pending", "held", "closed", "cancelled"}]
      /\ meeting_number \in [Meetings -> Nat]
      /\ agenda \in [Meetings -> SUBSET Subjects]
      /\ item_state \in [Subjects -> {"pending", "decided", "revision"}]
      /\ decision_number \in [Subjects -> Nat]
  BY DEF Inv, Typed, TypeOK
<1>1. PICK op : Commit(r, op)
  BY TypeWrites DEF Inv
<1>2. /\ q # Idle /\ RequestOK(q) /\ RowsAreThere(q) /\ (q.holds => q.locked)
  BY <1>1, Committed DEF Inv
<1>3. m = q.meeting /\ SoundMeeting(m) /\ Reading(q)
  BY <1>2 DEF Inv, Sound, RequestOK, UpToDate
<1>4. \A s \in agenda[m] : s \in Subjects /\ OnAgenda(s)
  BY <1>0, <1>3 DEF OnAgenda
<1>5. /\ q.op = "schedule" => q.subject \in Subjects
           /\ item_state[q.subject] = "pending" /\ decision_number[q.subject] = 0
      /\ q.op \in {"decide", "reopen", "revise"} => q.subject \in agenda[m]
  BY <1>2, ScheduledIsFree DEF Inv, Sound, FreeIsBlank, RowsAreThere
<1>6. ASSUME hold(q), q.op \in {"decide", "close"}, UNCHANGED agenda
      PROVE  /\ \A s \in agenda[m] : decision_number'[s] # 0
             /\ ~ q.holds => meeting_state[m] = "held"
  <2>1. is_editable(m) /\ (q.holds <=> meeting_state[m] # "held")
        /\ (q.holds => q.items = agenda[m])
    BY <1>2, <1>3, <1>6 DEF Reading
  <2>2. CASE q.holds
    <3>1. meeting_state[m] = "pending" /\ meeting_number[m] = 0
      BY <1>3, <2>1, <2>2 DEF is_editable, SoundMeeting
    <3>2. \A s \in Subjects : s \in q.items => decision_number'[s] # 0
      BY <1>2, <1>6, <2>2, NewNumbers DEF Inv
    <3> QED BY <1>4, <2>1, <2>2, <3>1, <3>2
  <2>3. CASE ~ q.holds
    <3>1. UNCHANGED <<meeting_number, decision_number>> /\ meeting_state[m] = "held"
      BY <1>6, <2>1, <2>3 DEF hold, numbers
    <3> QED BY <1>3, <3>1 DEF SoundMeeting
  <2> QED BY <2>2, <2>3
<1>7. ASSUME UNCHANGED <<item_state, agenda>>
      PROVE  \A s \in agenda[m] : is_completed(s) => is_completed(s)'
  BY <1>4, <1>7, CompletedStays DEF Inv
<1>8. CASE Schedule(r)
  <2>1. /\ q.op = "schedule"
        /\ agenda' = [agenda EXCEPT ![m] = @ \cup {q.subject}]
        /\ UNCHANGED <<meeting_state, meeting_number, item_state, decision_number>>
    BY <1>8, Committed DEF Inv, Schedule, numbers
  <2>2. meeting_state[m] = "pending"
    BY <1>3, <2>1 DEF Reading
  <2>3. agenda'[m] = agenda[m] \cup {q.subject}
    BY <1>0, <1>3, <2>1
  <2> QED BY <1>3, <1>5, <2>1, <2>2, <2>3 DEF SoundMeeting
<1>9. CASE Delete(r)
  <2>1. /\ q.op = "delete"
        /\ agenda' = [agenda EXCEPT ![m] = @ \ {q.subject}]
        /\ item_state' = [item_state EXCEPT ![q.subject] = "pending"]
        /\ decision_number' = [decision_number EXCEPT ![q.subject] = 0]
        /\ UNCHANGED <<meeting_state, meeting_number>>
    BY <1>9, Committed DEF Inv, Delete
  <2>2. meeting_state[m] = "pending"
    BY <1>3, <2>1 DEF Reading
  <2>3. agenda'[m] = agenda[m] \ {q.subject}
    BY <1>0, <1>3, <2>1
  <2>4. \A s \in agenda'[m] : s \in agenda[m]
          /\ item_state'[s] = item_state[s] /\ decision_number'[s] = decision_number[s]
    BY <1>0, <1>4, <2>1, <2>3
  <2> QED BY <1>3, <2>1, <2>2, <2>4 DEF SoundMeeting
<1>10. CASE Decide(r)
  <2>1. /\ q.op = "decide" /\ hold(q) /\ UNCHANGED agenda
        /\ meeting_state' = IF q.holds THEN [meeting_state EXCEPT ![m] = "held"] ELSE meeting_state
    BY <1>10, Committed DEF Inv, Decide
  <2>2. /\ \A s \in agenda[m] : decision_number'[s] # 0
        /\ ~ q.holds => meeting_state[m] = "held"
    BY <1>6, <2>1
  <2>3. meeting_state'[m] = "held"
    BY <1>0, <1>3, <2>1, <2>2
  <2> QED BY <2>1, <2>2, <2>3 DEF SoundMeeting
<1>11. CASE Reopen(r)
  <2>1. /\ q.op = "reopen"
        /\ UNCHANGED <<meeting_state, agenda, meeting_number, decision_number>>
    BY <1>11, Committed DEF Inv, Reopen, numbers
  <2>2. meeting_state[m] = "held"
    BY <1>3, <2>1 DEF Reading, is_editable, SoundMeeting
  <2> QED BY <1>3, <2>1, <2>2 DEF SoundMeeting
<1>12. CASE Revise(r)
  <2>1. /\ q.op = "revise"
        /\ UNCHANGED <<meeting_state, agenda, meeting_number, decision_number>>
    BY <1>12, Committed DEF Inv, Revise, numbers
  <2>2. meeting_state[m] = "held"
    BY <1>3, <2>1 DEF Reading, is_editable, SoundMeeting
  <2> QED BY <1>3, <2>1, <2>2 DEF SoundMeeting
<1>13. CASE GenerateExcerpt(r) \/ ReturnExcerpt(r)
  <2>1. UNCHANGED <<meeting_state, meeting_number, agenda, item_state, decision_number>>
    BY <1>13 DEF GenerateExcerpt, ReturnExcerpt, numbers
  <2> QED BY <1>3, <1>7, <2>1 DEF SoundMeeting
<1>14. CASE Close(r)
  <2>1. /\ q.op = "close" /\ hold(q) /\ UNCHANGED <<agenda, item_state>>
        /\ meeting_state' = [meeting_state EXCEPT ![m] = "closed"]
    BY <1>14, Committed DEF Inv, Close
  <2>2. \A s \in agenda[m] : decision_number'[s] # 0
    BY <1>6, <2>1
  <2>3. meeting_state'[m] = "closed"
    BY <1>0, <1>3, <2>1
  <2>4. \A s \in agenda[m] : is_completed(s)'
    BY <1>3, <1>7, <2>1 DEF Reading
  <2> QED BY <2>1, <2>2, <2>3, <2>4 DEF SoundMeeting
<1>15. CASE CloseFails(r)
  <2>1. /\ q.op = "close" /\ hold(q) /\ UNCHANGED agenda
        /\ meeting_state' = IF q.holds THEN [meeting_state EXCEPT ![m] = "held"] ELSE meeting_state
    BY <1>15, Committed DEF Inv, CloseFails
  <2>2. /\ \A s \in agenda[m] : decision_number'[s] # 0
        /\ ~ q.holds => meeting_state[m] = "held"
    BY <1>6, <2>1
  <2>3. meeting_state'[m] = "held"
    BY <1>0, <1>3, <2>1, <2>2
  <2> QED BY <2>1, <2>2, <2>3 DEF SoundMeeting
<1>16. CASE ReopenMeeting(r)
  <2>1. /\ q.op = "reopen meeting"
        /\ meeting_state' = [meeting_state EXCEPT ![m] = "held"]
        /\ UNCHANGED <<meeting_number, agenda, decision_number>>
    BY <1>16, Committed DEF Inv, ReopenMeeting, numbers
  <2>2. meeting_state[m] = "closed" /\ meeting_state'[m] = "held"
    BY <1>0, <1>3, <2>1 DEF Reading
  <2> QED BY <1>3, <2>1, <2>2 DEF SoundMeeting
<1>17. CASE Cancel(r)
  <2>1. /\ q.op = "cancel"
        /\ meeting_state' = [meeting_state EXCEPT ![m] = "cancelled"]
        /\ UNCHANGED <<meeting_number, agenda, decision_number>>
    BY <1>17, Committed DEF Inv, Cancel, numbers
  <2>2. meeting_state[m] = "pending" /\ agenda[m] = {} /\ meeting_state'[m] = "cancelled"
    BY <1>0, <1>3, <2>1 DEF Reading
  <2> QED BY <1>3, <2>1, <2>2 DEF SoundMeeting
<1>18. CASE Reject(r)
  <2>1. q.op = "reject"  BY <1>18, Committed DEF Inv, Reject
  <2> QED BY <2>1 DEF UpToDate
<1> QED BY <1>8, <1>9, <1>10, <1>11, <1>12, <1>13, <1>14, <1>15, <1>16, <1>17, <1>18
        DEF Writes

(* What a request has loaded of its meeting is so. *)
LEMMA SoundLoad ==
  ASSUME Inv, NEW r \in Requests, LoadNext(r)
  PROVE  request'[r].op # "reject" => Reading(request'[r])
<1>1. ASSUME NEW op \in Operations, NEW m \in Meetings, NEW s \in Subjects \cup {None},
             Load(r, op, m, s)
      PROVE  /\ request'[r].op = op /\ request'[r].meeting = m /\ request'[r].subject = s
             /\ request'[r].holds = Holds(op, m) /\ ~ request'[r].locked
             /\ request'[r].items = IF op = "close" /\ Holds(op, m) THEN agenda[m] ELSE {}
  <2>1. /\ request'[r].op = op /\ request'[r].meeting = m /\ request'[r].subject = s
        /\ request'[r].holds = (m # None /\ Holds(op, m)) /\ ~ request'[r].locked
        /\ request'[r].items = IF op = "close" /\ Holds(op, m) THEN agenda[m] ELSE {}
    BY <1>1, Loaded DEF Inv
  <2>2. (m # None) = TRUE  BY NoneAssumption
  <2>3. Holds(op, m) \in BOOLEAN  BY DEF Holds
  <2> QED BY <2>1, <2>2, <2>3
<1>2. ASSUME NEW m \in Meetings, NEW s \in Subjects,
             LoadSchedule(r, m, s) \/ LoadDelete(r, m, s)
      PROVE  Reading(request'[r])
  <2>1. PICK op \in {"schedule", "delete"} : Load(r, op, m, s) /\ meeting_state[m] = "pending"
    BY <1>2 DEF LoadSchedule, LoadDelete, is_agendalist_editable
  <2>2. op \in Operations  BY <2>1 DEF Operations
  <2>3. /\ request'[r].op = op /\ request'[r].meeting = m
    BY <1>1, <2>1, <2>2
  <2> QED BY <2>1, <2>3 DEF Reading
<1>3. ASSUME NEW m \in Meetings, NEW s \in Subjects, LoadDecide(r, m, s)
      PROVE  Reading(request'[r])
  <2>1. "decide" \in Operations /\ Load(r, "decide", m, s) /\ is_editable(m)
    BY <1>3 DEF LoadDecide, Operations
  <2>2. /\ request'[r].op = "decide" /\ request'[r].meeting = m
        /\ request'[r].holds = Holds("decide", m) /\ ~ request'[r].locked
    BY <1>1, <2>1
  <2> QED BY <2>1, <2>2 DEF Reading, Holds
<1>4. ASSUME NEW m \in Meetings, NEW s \in Subjects, LoadReopen(r, m, s)
      PROVE  Reading(request'[r])
  <2>1. "reopen" \in Operations /\ Load(r, "reopen", m, s)
    BY <1>4 DEF LoadReopen, Operations
  <2>2. request'[r].op = "reopen" /\ request'[r].meeting = m /\ request'[r].subject = s
    BY <1>1, <2>1
  <2> QED BY <1>4, <2>2 DEF LoadReopen, Reading
<1>5. ASSUME NEW m \in Meetings, NEW s \in Subjects, LoadRevise(r, m, s)
      PROVE  Reading(request'[r])
  <2>1. "revise" \in Operations /\ Load(r, "revise", m, s)
    BY <1>5 DEF LoadRevise, Operations
  <2>2. request'[r].op = "revise" /\ request'[r].meeting = m /\ request'[r].subject = s
    BY <1>1, <2>1
  <2> QED BY <1>5, <2>2 DEF LoadRevise, Reading
<1>6. ASSUME NEW m \in Meetings, NEW s \in Subjects,
             LoadGenerate(r, m, s) \/ LoadReturn(r, m, s)
      PROVE  Reading(request'[r])
  <2>1. PICK op \in {"generate", "return"} : Load(r, op, m, s)
    BY <1>6 DEF LoadGenerate, LoadReturn
  <2>2. op \in Operations  BY <2>1 DEF Operations
  <2>3. request'[r].op = op  BY <1>1, <2>1, <2>2
  <2> QED BY <2>1, <2>3 DEF Reading
<1>7. ASSUME NEW m \in Meetings, LoadClose(r, m)
      PROVE  Reading(request'[r])
  <2>1. "close" \in Operations /\ Load(r, "close", m, None)
    BY <1>7 DEF LoadClose, Operations
  <2>2. /\ request'[r].op = "close" /\ request'[r].meeting = m
        /\ request'[r].holds = Holds("close", m)
        /\ request'[r].items = IF "close" = "close" /\ Holds("close", m) THEN agenda[m] ELSE {}
    BY <1>1, <2>1
  <2> QED BY <1>7, <2>2 DEF LoadClose, Reading, Holds
<1>8. ASSUME NEW m \in Meetings, LoadReopenMeeting(r, m)
      PROVE  Reading(request'[r])
  <2>1. "reopen meeting" \in Operations /\ Load(r, "reopen meeting", m, None)
    BY <1>8 DEF LoadReopenMeeting, Operations
  <2>2. request'[r].op = "reopen meeting" /\ request'[r].meeting = m
    BY <1>1, <2>1
  <2> QED BY <1>8, <2>2 DEF LoadReopenMeeting, Reading
<1>9. ASSUME NEW m \in Meetings, LoadCancel(r, m)
      PROVE  Reading(request'[r])
  <2>1. "cancel" \in Operations /\ Load(r, "cancel", m, None)
    BY <1>9 DEF LoadCancel, Operations
  <2>2. request'[r].op = "cancel" /\ request'[r].meeting = m
    BY <1>1, <2>1
  <2> QED BY <1>9, <2>2 DEF LoadCancel, Reading
<1>10. ASSUME NEW p \in Proposals, LoadReject(r, p)
       PROVE  request'[r].op = "reject"
  <2>1. "reject" \in Operations /\ Load(r, "reject", None, p) /\ p \in Subjects
    BY <1>10 DEF LoadReject, Operations, Subjects
  <2> QED BY <2>1, Loaded DEF Inv
<1> QED BY <1>2, <1>3, <1>4, <1>5, <1>6, <1>7, <1>8, <1>9, <1>10 DEF LoadNext

(* Every step keeps the agenda of a meeting as its state says. *)
LEMMA SoundStep == Inv /\ [Next]_vars => Sound'
<1> SUFFICES ASSUME Inv, [Next]_vars PROVE Sound'
  OBVIOUS
<1>0. ASSUME UNCHANGED <<meeting_state, meeting_number, agenda, item_state, decision_number,
                         stale>>,
             \A s \in Subjects : is_completed(s) => is_completed(s)'
      PROVE  /\ FreeIsBlank'
             /\ \A m \in Meetings : m \notin stale' => SoundMeeting(m)'
             /\ \A a, b : Same(b, a) /\ a.meeting \in Meetings /\ Reading(a) => Reading(b)'
  <2>1. \A m \in Meetings : SameMeeting(m)
    BY <1>0 DEF SameMeeting, Inv, Typed, TypeOK
  <2>2. FreeIsBlank'
    BY <1>0 DEF Inv, Sound, FreeIsBlank, OnAgenda
  <2> QED BY <1>0, <2>1, <2>2, SameIsSound DEF Inv, Sound
<1>1. ASSUME NEW r \in Requests, LoadNext(r) PROVE Sound'
  <2>1. /\ UNCHANGED <<rows, numbers, lock, stale>>
        /\ \A x \in Requests : x # r => request'[x] = request[x]
    BY <1>1, TypeLoad, Loaded DEF Inv
  <2>2. ASSUME NEW q, Reading(q) PROVE Reading(q)'
    BY <2>1, <2>2 DEF Reading, rows, is_editable, is_completed
  <2>3. FreeIsBlank' /\ \A m \in Meetings : m \notin stale' => SoundMeeting(m)'
    BY <1>0, <2>1 DEF rows, numbers, is_completed
  <2>4. ASSUME NEW x \in Requests, request'[x] # Idle, UpToDate(request'[x])
        PROVE  Reading(request[x])'
    <3>1. CASE x = r
      <4>1. Reading(request'[r])
        BY <1>1, <2>4, <3>1, SoundLoad DEF UpToDate
      <4> QED BY <2>1, <3>1, <4>1 DEF Reading, rows, is_editable, is_completed
    <3>2. CASE x # r
      <4>1. Reading(request[x]) /\ request'[x] = request[x]
        BY <2>1, <2>4, <3>2 DEF Inv, Sound
      <4> QED BY <2>1, <4>1 DEF Reading, rows, is_editable, is_completed
    <3> QED BY <3>1, <3>2
  <2>5. \A x \in Requests : (request[x] # Idle /\ UpToDate(request[x]))' => Reading(request[x])'
    BY <2>4 DEF UpToDate
  <2> QED BY <2>3, <2>5 DEF Sound, UpToDate
<1>2. ASSUME NEW r \in Requests, Writes(r) PROVE Sound'
  <2>1. PICK op : Commit(r, op)
    BY <1>2, TypeWrites DEF Inv
  <2>2. /\ request[r] # Idle /\ RequestOK(request[r])
        /\ stale' = IF request[r].outdated THEN stale \cup {request[r].meeting} ELSE stale
    BY <2>1, Committed DEF Inv
  <2>3. ASSUME NEW m \in Meetings, m \notin stale' PROVE SoundMeeting(m)'
    <3>1. m \notin stale /\ SoundMeeting(m)
      BY <2>2, <2>3 DEF Inv, Sound
    <3>2. CASE m # request[r].meeting
      <4>1. SameMeeting(m)
        BY <1>2, <3>2, Elsewhere DEF Inv
      <4> QED BY <3>1, <4>1, SameIsSound
    <3>3. CASE m = request[r].meeting
      <4>1. UpToDate(request[r])
        BY <2>2, <2>3, <3>3, NoneAssumption DEF UpToDate, RequestOK
      <4> QED BY <1>2, <3>1, <3>3, <4>1, Here
    <3> QED BY <3>2, <3>3
  <2>4. ASSUME NEW x \in Requests, request'[x] # Idle, UpToDate(request'[x])
        PROVE  Reading(request[x])'
    <3>1. /\ x # r /\ request[x] # Idle /\ Same(request'[x], request[x])
          /\ request'[x].outdated = (request[x].outdated \/
               (request[r].meeting # None /\ request[x].meeting = request[r].meeting))
      BY <2>1, <2>4, Committed DEF Inv
    <3>2. UpToDate(request[x]) /\ RequestOK(request[x])
      BY <2>4, <3>1 DEF UpToDate, Same, Inv, Typed
    <3>3. request[x].meeting \in Meetings /\ request[x].meeting # request[r].meeting
      BY <2>4, <3>1, <3>2, NoneAssumption DEF UpToDate, RequestOK
    <3>4. SameMeeting(request[x].meeting)
      BY <1>2, <3>3, Elsewhere DEF Inv
    <3>5. Reading(request[x])
      BY <3>1, <3>2 DEF Inv, Sound
    <3>6. ASSUME NEW a, NEW b, a = request[x], b = request'[x] PROVE Reading(b)'
      <4>1. Same(b, a) /\ Reading(a) /\ a.meeting \in Meetings /\ SameMeeting(a.meeting)
        BY <3>1, <3>3, <3>4, <3>5, <3>6
      <4> QED BY <4>1, SameIsSound
    <3> QED BY <3>6 DEF Reading, is_editable, is_completed
  <2>5. FreeIsBlank'
    BY <1>2, BlankWrites DEF Inv, Sound
  <2> QED BY <2>3, <2>4, <2>5 DEF Sound, UpToDate
<1>3. ASSUME NEW r \in Requests, LockPeriod(r) PROVE Sound'
  <2>1. /\ UNCHANGED <<rows, numbers, stale>>
        /\ request[r] # Idle /\ RequestOK(request[r]) /\ request[r].holds
        /\ \A x \in Requests : x # r => request'[x] = request[x]
        /\ request'[r].op = request[r].op /\ request'[r].meeting = request[r].meeting
        /\ request'[r].subject = request[r].subject /\ request'[r].holds
        /\ request'[r].outdated = request[r].outdated
        /\ request'[r].items = IF request[r].op = "decide"
                               THEN agenda[request[r].meeting] ELSE request[r].items
    BY <1>3, Locked DEF Inv
  <2>2. FreeIsBlank' /\ \A m \in Meetings : m \notin stale' => SoundMeeting(m)'
    BY <1>0, <2>1 DEF rows, numbers, is_completed
  <2>3. ASSUME NEW x \in Requests, request'[x] # Idle, UpToDate(request'[x])
        PROVE  Reading(request'[x])
    <3>1. request[x] # Idle /\ UpToDate(request[x])
      BY <2>1, <2>3 DEF UpToDate
    <3>2. Reading(request[x])
      BY <3>1 DEF Inv, Sound
    <3>3. CASE x = r
      <4>1. request[r].op \in {"decide", "close"}
        BY <2>1 DEF RequestOK
      <4> QED BY <2>1, <3>2, <3>3, <4>1 DEF Reading
    <3>4. CASE x # r
      BY <2>1, <3>2, <3>4
    <3> QED BY <3>3, <3>4
  <2>4. ASSUME NEW x \in Requests, request'[x] # Idle, UpToDate(request'[x])
        PROVE  Reading(request[x])'
    BY <2>1, <2>3, <2>4 DEF Reading, rows, is_editable, is_completed
  <2> QED BY <2>2, <2>4 DEF Sound, UpToDate
<1>4. ASSUME NEW r \in Requests, Abort(r) PROVE Sound'
  <2>1. /\ UNCHANGED <<rows, numbers, stale>>
        /\ \A x \in Requests : request'[x] # Idle => request'[x] = request[x]
    BY <1>4 DEF Abort, Inv, Typed, TypeOK
  <2>2. FreeIsBlank' /\ \A m \in Meetings : m \notin stale' => SoundMeeting(m)'
    BY <1>0, <2>1 DEF rows, numbers, is_completed
  <2>3. ASSUME NEW x \in Requests, request'[x] # Idle, UpToDate(request'[x])
        PROVE  Reading(request[x])'
    <3>1. Reading(request[x]) /\ request'[x] = request[x]
      BY <2>1, <2>3 DEF Inv, Sound
    <3> QED BY <2>1, <3>1 DEF Reading, rows, is_editable, is_completed
  <2> QED BY <2>2, <2>3 DEF Sound, UpToDate
<1>5. ASSUME NEW p \in Proposals, Submit(p) PROVE Sound'
  <2>1. /\ UNCHANGED <<meeting_state, agenda, item_state, meeting_number, decision_number,
                       request, stale>>
        /\ proposal_state[p] = "pending"
        /\ \A s \in Proposals :
             proposal_state'[s] = IF s = p THEN "submitted" ELSE proposal_state[s]
    BY <1>5 DEF Submit, SetProposal, numbers, Inv, Typed, TypeOK
  <2>2. \A s \in Subjects : is_completed(s) => is_completed(s)'
    BY <2>1 DEF is_completed
  <2>3. FreeIsBlank' /\ \A m \in Meetings : m \notin stale' => SoundMeeting(m)'
    BY <1>0, <2>1, <2>2
  <2>4. ASSUME NEW x \in Requests, request[x] # Idle, UpToDate(request[x])
        PROVE  Reading(request[x])'
    <3>1. Reading(request[x]) /\ request[x].meeting \in Meetings
      BY <2>4 DEF Inv, Sound, Typed, RequestOK, UpToDate
    <3>2. ASSUME NEW a, a = request[x] PROVE Reading(a)'
      BY <1>0, <2>1, <2>2, <3>1, <3>2 DEF Same
    <3> QED BY <2>1, <3>2 DEF Reading, is_editable, is_completed
  <2> QED BY <2>1, <2>3, <2>4 DEF Sound, UpToDate
<1>6. CASE UNCHANGED vars
  <2>1. UNCHANGED <<rows, numbers, request, stale>>
    BY <1>6 DEF vars
  <2>2. FreeIsBlank' /\ \A m \in Meetings : m \notin stale' => SoundMeeting(m)'
    BY <1>0, <2>1 DEF rows, numbers, is_completed
  <2>3. ASSUME NEW x \in Requests, request[x] # Idle, UpToDate(request[x])
        PROVE  Reading(request[x])'
    <3>1. Reading(request[x])
      BY <2>3 DEF Inv, Sound
    <3> QED BY <2>1, <3>1 DEF Reading, rows, is_editable, is_completed
  <2> QED BY <2>1, <2>2, <2>3 DEF Sound, UpToDate
<1> QED BY <1>1, <1>2, <1>3, <1>4, <1>5, <1>6 DEF Next, WriteNext, Writes

(* The four layers are an invariant. *)
LEMMA Invariance == Spec => []Inv
<1>1. Inv /\ [Next]_vars => Inv'
  BY TypeStep, NumberedStep, PlacedStep, SoundStep DEF Inv
<1>2. Init => Inv
  BY TypeInit, NumberedInit, PlacedInit, SoundInit DEF Inv
<1> QED BY <1>1, <1>2, PTL DEF Spec

(* The state of a meeting tells the state of its agenda, unless a request  *)
(* wrote to it from outdated reads.                                        *)
THEOREM SoundAgenda == Spec => []AgendaIsSound
<1>1. Inv => AgendaIsSound
  BY DEF Inv, Sound, SoundMeeting, AgendaIsSound, is_completed
<1> QED BY <1>1, Invariance, PTL

-----------------------------------------------------------------------------
(* Numbers stay.                                                           *)

\* A pending meeting has no number, also one written from outdated reads.
PendingHasNone ==
  \A m \in Meetings : meeting_state[m] = "pending" => meeting_number[m] = 0

(* A meeting gets its number with a state other than pending, and no       *)
(* transition leads back.                                                  *)
LEMMA PendingStep == Typed /\ PendingHasNone /\ [Next]_vars => PendingHasNone'
<1> SUFFICES ASSUME Typed, PendingHasNone, [Next]_vars PROVE PendingHasNone'
  OBVIOUS
<1>0. /\ meeting_state \in [Meetings -> {"pending", "held", "closed", "cancelled"}]
      /\ meeting_number \in [Meetings -> Nat]
  BY DEF Typed, TypeOK
<1>1. ASSUME NEW r \in Requests, LoadNext(r) PROVE PendingHasNone'
  <2>1. UNCHANGED <<rows, numbers>>
    BY <1>1, TypeLoad, Loaded
  <2> QED BY <2>1 DEF PendingHasNone, rows, numbers
<1>2. ASSUME NEW r \in Requests, Writes(r) PROVE PendingHasNone'
  <2> DEFINE q == request[r]
  <2>1. ASSUME Decide(r) \/ Close(r) \/ CloseFails(r) PROVE PendingHasNone'
    <3>1. PICK op : Commit(r, op)
      BY <1>2, TypeWrites
    <3>2. q.op \in {"decide", "close"} /\ q.meeting \in Meetings /\ hold(q)
      BY <2>1, <3>1, Committed DEF Decide, Close, CloseFails, Commit, RequestOK
    <3>3. \/ meeting_state' = [meeting_state EXCEPT ![q.meeting] = "held"]
          \/ meeting_state' = [meeting_state EXCEPT ![q.meeting] = "closed"]
          \/ ~ q.holds /\ meeting_state' = meeting_state
      BY <2>1 DEF Decide, Close, CloseFails
    <3>4. /\ q.holds => meeting_number' =
                          [meeting_number EXCEPT ![q.meeting] = q.counters.meeting + 1]
          /\ ~ q.holds => meeting_number' = meeting_number
      BY <3>2 DEF hold, numbers
    <3> QED BY <1>0, <3>2, <3>3, <3>4 DEF PendingHasNone
  <2>2. ASSUME ReopenMeeting(r) \/ Cancel(r) PROVE PendingHasNone'
    BY <1>0, <2>2 DEF ReopenMeeting, Cancel, PendingHasNone, numbers
  <2>3. ASSUME ~ (Decide(r) \/ Close(r) \/ CloseFails(r) \/ ReopenMeeting(r) \/ Cancel(r))
        PROVE  PendingHasNone'
    BY <1>2, <2>3 DEF Writes, Schedule, Delete, Reopen, Revise, GenerateExcerpt,
       ReturnExcerpt, Reject, PendingHasNone, numbers
  <2> QED BY <2>1, <2>2, <2>3
<1>3. ASSUME NEW r \in Requests, LockPeriod(r) \/ Abort(r) PROVE PendingHasNone'
  BY <1>3 DEF LockPeriod, Abort, PendingHasNone, rows, numbers
<1>4. ASSUME NEW p \in Proposals, Submit(p) PROVE PendingHasNone'
  BY <1>4 DEF Submit, PendingHasNone, numbers
<1>5. CASE UNCHANGED vars
  BY <1>5 DEF vars, PendingHasNone, rows, numbers
<1> QED BY <1>1, <1>2, <1>3, <1>4, <1>5 DEF Next, WriteNext, Writes

\* What a step keeps of the numbers of a meeting, and what changes them.
Kept(m) ==
  /\ meeting_number'[m] = meeting_number[m]
  /\ \A s \in agenda[m] : s \in agenda'[m] => decision_number'[s] = decision_number[s]
HeldAgain(m) ==
  \E r \in Requests :
    /\ request[r] # Idle /\ request'[r] = Idle
    /\ request[r].meeting = m /\ request[r].holds /\ request[r].outdated

(* A request that does not hold its meeting leaves the numbers there; one  *)
(* that holds it and was not overtaken finds none.                         *)
LEMMA KeptByWrites ==
  ASSUME Inv, PendingHasNone, NEW r \in Requests, Writes(r),
         NEW m \in Meetings, m = request[r].meeting
  PROVE  meeting_number[m] = 0 \/ Kept(m) \/ HeldAgain(m)
<1> DEFINE q == request[r]
<1>0. /\ agenda \in [Meetings -> SUBSET Subjects]
      /\ decision_number \in [Subjects -> Nat]
  BY DEF Inv, Typed, TypeOK
<1>1. PICK op : Commit(r, op)
  BY TypeWrites DEF Inv
<1>2. q # Idle /\ request'[r] = Idle /\ RequestOK(q)
  BY <1>1, Committed DEF Inv
<1>3. CASE q.holds /\ q.outdated
  BY <1>2, <1>3 DEF HeldAgain
<1>4. CASE q.holds /\ ~ q.outdated
  <2>1. q.op \in {"decide", "close"}
    BY <1>2, <1>4 DEF RequestOK
  <2>2. Reading(q)
    BY <1>2, <1>4, <2>1 DEF Inv, Sound, UpToDate
  <2>3. is_editable(m) /\ meeting_state[m] # "held"
    BY <1>4, <2>1, <2>2 DEF Reading
  <2> QED BY <2>3 DEF is_editable, PendingHasNone
<1>5. CASE ~ q.holds
  <2>1. CASE Delete(r)
    <3>1. /\ agenda' = [agenda EXCEPT ![q.meeting] = @ \ {q.subject}]
          /\ decision_number' = [decision_number EXCEPT ![q.subject] = 0]
          /\ meeting_number' = meeting_number
      BY <2>1 DEF Delete
    <3>2. \A s \in agenda'[m] : s # q.subject
      BY <1>0, <3>1
    <3> QED BY <1>0, <3>1, <3>2 DEF Kept
  <2>2. CASE ~ Delete(r)
    <3>1. UNCHANGED <<meeting_number, decision_number>>
      BY <1>5, <2>2 DEF Writes, Schedule, Decide, Reopen, Revise, GenerateExcerpt,
         ReturnExcerpt, Close, CloseFails, ReopenMeeting, Cancel, Reject, hold, numbers
    <3> QED BY <3>1 DEF Kept
  <2> QED BY <2>1, <2>2
<1> QED BY <1>3, <1>4, <1>5

(* A meeting and the items on its agenda keep their numbers, unless the    *)
(* meeting is held again by a request that read it while it was pending.   *)
THEOREM NumbersStay == Spec => NumbersAreKept
<1> DEFINE Keeps == \A m \in Meetings : meeting_number[m] = 0 \/ Kept(m) \/ HeldAgain(m)
<1>1. ASSUME Inv, PendingHasNone, Next, NEW m \in Meetings
      PROVE  meeting_number[m] = 0 \/ Kept(m) \/ HeldAgain(m)
  <2>1. ASSUME NEW r \in Requests, LoadNext(r) PROVE Kept(m)
    BY <1>1, <2>1, TypeLoad, Loaded DEF Inv, numbers, Kept
  <2>2. ASSUME NEW r \in Requests, Writes(r)
        PROVE  meeting_number[m] = 0 \/ Kept(m) \/ HeldAgain(m)
    <3>1. CASE m # request[r].meeting
      BY <1>1, <2>2, <3>1, Elsewhere DEF Inv, SameMeeting, Kept
    <3>2. CASE m = request[r].meeting
      BY <1>1, <2>2, <3>2, KeptByWrites
    <3> QED BY <3>1, <3>2
  <2>3. ASSUME NEW r \in Requests, LockPeriod(r) \/ Abort(r) PROVE Kept(m)
    BY <2>3 DEF LockPeriod, Abort, numbers, Kept
  <2>4. ASSUME NEW p \in Proposals, Submit(p) PROVE Kept(m)
    BY <2>4 DEF Submit, numbers, Kept
  <2> QED BY <1>1, <2>1, <2>2, <2>3, <2>4 DEF Next, WriteNext, Writes
<1>2. Inv /\ PendingHasNone /\ [Next]_vars => [Keeps]_vars
  BY <1>1
<1>3. Init => PendingHasNone
  BY DEF Init, PendingHasNone
<1>4. Inv /\ PendingHasNone /\ [Next]_vars => PendingHasNone'
  BY PendingStep DEF Inv
<1>5. [Keeps]_vars <=> [\A m \in Meetings :
       \/ meeting_number[m] = 0
       \/ /\ meeting_number'[m] = meeting_number[m]
          /\ \A s \in agenda[m] : s \in agenda'[m] => decision_number'[s] = decision_number[s]
       \/ \E r \in Requests :
            /\ request[r] # Idle /\ request'[r] = Idle
            /\ request[r].meeting = m /\ request[r].holds /\ request[r].outdated]_vars
  BY DEF Kept, HeldAgain
<1> QED BY <1>2, <1>3, <1>4, <1>5, Invariance, PTL DEF Spec, NumbersAreKept

=============================================================================
