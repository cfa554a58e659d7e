------------------------- MODULE SIPDeliveryProofs -------------------------
(***************************************************************************)
(* What holds of SIPDelivery, and with it of Disposition, for every set of *)
(* dispositions, dossiers and transports, checked by TLAPS.  The layers:   *)
(* types, the dossiers and packages of the dispositions (Papers), and what *)
(* a night has read, written and handed over (Night).                      *)
(***************************************************************************)
EXTENDS SIPDelivery, FiniteSetTheorems, TLAPS

DispositionRequest(p) ==
  \/ \E D \in SUBSET Dossiers : Add(p, D) \/ Edit(p, D)
  \/ \E d \in Dossiers, value \in {"worthy", "unworthy"} : UpdateAppraisal(p, d, value)
  \/ Appraise(p) \/ Dispose(p) \/ RefuseDisposed(p) \/ Archive(p) \/ Close(p)
  \/ CloseAppraised(p)

NightStep ==
  \/ StartNight \/ TimeWindowExceeded \/ Commit \/ Abort
  \/ \E p \in Dispositions : BeginJob(p)
  \/ \E i \in 1..Len(Names) : Deliver(i) \/ DeliverFails(i)

(* The steps: a request, the registry, the night, or none. *)
LEMMA NextCases ==
  ASSUME [Next]_vars
  PROVE  \/ \E p \in Dispositions : DispositionRequest(p) /\ UNCHANGED night
         \/ (\E t \in Transports : SetEnabled(t)) /\ UNCHANGED night
         \/ NightStep
         \/ UNCHANGED vars
  BY DEF Next, DispositionNext, NightNext, DispositionRequest, NightStep

-----------------------------------------------------------------------------
(* Types.                                                                  *)

(* The initial state is well typed. *)
LEMMA TypeInit == Init => TypeOK
<1> SUFFICES ASSUME Init PROVE TypeOK
  OBVIOUS
<1>1. DispositionTypeOK
  BY ValueAssumption DEF Init, DispositionInit, DispositionTypeOK, States
<1> QED BY <1>1, JobAssumption
        DEF Init, DispositionInit, TypeOK, Snapshot, NoMarks, DispositionTypeOK

(* A change of the dossiers of a disposition keeps the types. *)
LEMMA TypeDossiers ==
  ASSUME DispositionTypeOK, NEW p \in Dispositions, NEW D \in SUBSET Dossiers,
         SetDossiers(p, D)
  PROVE  /\ dossiers' \in [Dispositions -> SUBSET Dossiers]
         /\ appraisal' \in [Dispositions -> [Dossiers -> {"none", "open", "worthy", "unworthy"}]]
         /\ dossier_state' \in [Dossiers -> {"resolved", "inactive", "offered", "archived", "gone"}]
<1> USE DEF DispositionTypeOK, SetDossiers
<1>1. dossier_state' \in [Dossiers -> {"resolved", "inactive", "offered", "archived", "gone"}]
  BY ValueAssumption
<1>2. appraisal' \in [Dispositions -> [Dossiers -> {"none", "open", "worthy", "unworthy"}]]
  BY DEF get_pre_appraisal
<1> QED BY <1>1, <1>2

(* A request keeps the types. *)
LEMMA TypeRequest ==
  ASSUME DispositionTypeOK, NEW p \in Dispositions, DispositionRequest(p)
  PROVE  DispositionTypeOK'
<1> USE DEF States, stock
<1>1. ASSUME NEW D \in SUBSET Dossiers, Add(p, D) \/ Edit(p, D) PROVE DispositionTypeOK'
  BY <1>1, TypeDossiers DEF Add, Edit, SetDossiers, DispositionTypeOK
<1> USE DEF DispositionTypeOK
<1>2. ASSUME NEW d \in Dossiers, NEW value \in {"worthy", "unworthy"},
             UpdateAppraisal(p, d, value)
      PROVE DispositionTypeOK'
  BY <1>2 DEF UpdateAppraisal
<1> USE DEF Transition
<1>3. CASE Appraise(p)  BY <1>3 DEF Appraise
<1>4. CASE Dispose(p)  BY <1>4 DEF Dispose, schedule_delivery
<1>5. CASE RefuseDisposed(p)  BY <1>5 DEF RefuseDisposed
<1>6. CASE Archive(p)  BY <1>6 DEF Archive
<1>7. CASE Close(p)  BY <1>7 DEF Close, destroy_dossiers
<1>8. CASE CloseAppraised(p)  BY <1>8 DEF CloseAppraised, destroy_dossiers
<1> QED BY <1>1, <1>2, <1>3, <1>4, <1>5, <1>6, <1>7, <1>8 DEF DispositionRequest

(* What a night reads is well typed. *)
LEMMA SnapshotType ==
  ASSUME NEW L, NEW packages \in [Dispositions -> SUBSET Dossiers],
         NEW statuses \in [Dispositions ->
                            [Transports -> {"none", "scheduled", "success", "failed"}]]
  PROVE  Snapshot(L, packages, statuses) \in
           [sip : [Dispositions -> SUBSET Dossiers],
            status : [Dispositions ->
                       [Transports -> {"none", "scheduled", "success", "failed"}]]]
  BY DEF Snapshot, NoMarks

(* The end of a night keeps the types. *)
LEMMA TypeEnd ==
  ASSUME TypeOK, EndOfNight
  PROVE  /\ listed' \subseteq Dispositions /\ job' \in listed' \cup {NoJob}
         /\ seen' \in [sip : [Dispositions -> SUBSET Dossiers],
                       status : [Dispositions ->
                         [Transports -> {"none", "scheduled", "success", "failed"}]]]
         /\ marks' \in [Transports -> {"none", "success", "failed"}]
  BY SnapshotType DEF TypeOK, DispositionTypeOK, EndOfNight, NoMarks

(* So do the steps of the night. *)
LEMMA TypeNight ==
  ASSUME TypeOK, NightStep
  PROVE  TypeOK'
<1> USE DEF TypeOK, dispositionVars, papers, stock
<1>1. CASE StartNight
  <2>1. DispositionTypeOK'
    BY <1>1 DEF StartNight, DispositionTypeOK
  <2>2. seen' \in [sip : [Dispositions -> SUBSET Dossiers],
                   status : [Dispositions ->
                     [Transports -> {"none", "scheduled", "success", "failed"}]]]
    BY <1>1, SnapshotType DEF StartNight, DispositionTypeOK
  <2>3. job' \in listed' \cup {NoJob} /\ listed' \subseteq Dispositions
    BY <1>1 DEF StartNight
  <2> QED BY <1>1, <2>1, <2>2, <2>3 DEF StartNight
<1>2. CASE TimeWindowExceeded
  BY <1>2, TypeEnd DEF TimeWindowExceeded, DispositionTypeOK
<1>3. CASE Commit
  <2>1. status' \in [Dispositions -> [Transports -> {"none", "scheduled", "success", "failed"}]]
    BY <1>3 DEF Commit, DispositionTypeOK
  <2>2. DispositionTypeOK'
    BY <1>3, <2>1 DEF Commit, DispositionTypeOK
  <2>3. CASE EndOfNight
    BY <1>3, <2>2, <2>3, TypeEnd DEF Commit
  <2>4. CASE /\ listed' = listed \ {job} /\ job' = NoJob /\ marks' = NoMarks
             /\ seen' = Snapshot(listed', sip, status')
    <3>1. seen' \in [sip : [Dispositions -> SUBSET Dossiers],
                     status : [Dispositions ->
                       [Transports -> {"none", "scheduled", "success", "failed"}]]]
      BY <2>1, <2>4, SnapshotType DEF DispositionTypeOK
    <3> QED BY <1>3, <2>2, <2>4, <3>1 DEF Commit, NoMarks
  <2> QED BY <1>3, <2>3, <2>4 DEF Commit
<1>4. CASE Abort
  BY <1>4, TypeEnd DEF Abort, DispositionTypeOK
<1>5. ASSUME NEW p \in Dispositions, BeginJob(p) PROVE TypeOK'
  BY <1>5 DEF BeginJob, DispositionTypeOK
<1>6. ASSUME NEW i \in 1..Len(Names), Deliver(i) \/ DeliverFails(i) PROVE TypeOK'
  <2>1. Names[i] \in Transports /\ job \in Dispositions
    BY <1>6, NamesAssumption DEF Deliver, DeliverFails, IsNext, Due
  <2> DEFINE Packages == Seq(SUBSET Dossiers)
             longer == Append(received[job][Names[i]], seen.sip[job])
  <2>2. longer \in Packages /\ received \in [Dispositions -> [Transports -> Packages]]
    BY <2>1
  <2>3. received' \in [Dispositions -> [Transports -> Packages]]
    <3>1. received' = received \/ received' = [received EXCEPT ![job][Names[i]] = longer]
      BY <1>6 DEF Deliver, DeliverFails
    <3> HIDE DEF longer, Packages, TypeOK
    <3> QED BY <2>1, <2>2, <3>1
  <2>4. marks' \in [Transports -> {"none", "success", "failed"}]
    BY <1>6, <2>1 DEF Deliver, DeliverFails
  <2> QED BY <1>6, <2>3, <2>4 DEF Deliver, DeliverFails, DispositionTypeOK
<1> QED BY <1>1, <1>2, <1>3, <1>4, <1>5, <1>6 DEF NightStep

(* So does every step. *)
LEMMA TypeStep == TypeOK /\ [Next]_vars => TypeOK'
<1> SUFFICES ASSUME TypeOK, [Next]_vars PROVE TypeOK'
  OBVIOUS
<1>1. ASSUME NEW p \in Dispositions, DispositionRequest(p), UNCHANGED night PROVE TypeOK'
  BY <1>1, TypeRequest DEF TypeOK, night
<1>2. ASSUME NEW t \in Transports, SetEnabled(t), UNCHANGED night PROVE TypeOK'
  BY <1>2 DEF SetEnabled, TypeOK, DispositionTypeOK, night, papers, stock
<1>3. CASE UNCHANGED vars
  BY <1>3 DEF vars, TypeOK, DispositionTypeOK, night, dispositionVars, papers, stock
<1> QED BY <1>1, <1>2, <1>3, NextCases, TypeNight

(* Type correctness of every reachable state. *)
THEOREM Typing == Spec => []TypeOK
  BY TypeInit, TypeStep, PTL DEF Spec

-----------------------------------------------------------------------------
(* The dossiers and the packages of the dispositions.                      *)

\* A dossier left behind by the end of another disposition.
Lost(d) == dossier_state[d] = "gone" /\ \E q \in Dispositions :
             review_state[q] = "closed" /\ dossiers[q] \cap Above[d] # {}
StateIn(p) == IF review_state[p] = "archived" THEN "archived" ELSE "offered"

Empty == \A p \in Dispositions : review_state[p] = "none" => dossiers[p] = {}
Held == \A d \in Dossiers : dossier_state[d] \in {"offered", "archived"} =>
          \E p \in Dispositions : Open(p) /\ d \in dossiers[p]
Alone == \A p, q \in Dispositions :
           Open(p) /\ Open(q) /\ p # q => dossiers[p] \cap dossiers[q] = {}
Follow == \A p \in Dispositions : Open(p) => \A d \in dossiers[p] :
            dossier_state[d] = StateIn(p) \/ Lost(d)
Appraised == \A p \in Dispositions : Open(p) => \A d \in dossiers[p] : appraisal[p][d] # "none"
Packed == \A p \in Dispositions :
            review_state[p] \in {"disposed", "archived"} => sip[p] = dossiers[p]

PapersInv == Empty /\ Held /\ Alone /\ Follow /\ Appraised /\ Packed
Papers == TypeOK /\ PapersInv

(* Nothing is offered at first. *)
LEMMA PapersInit == Init => PapersInv
  BY ValueAssumption
  DEF Init, DispositionInit, PapersInv, Empty, Held, Alone, Follow, Appraised, Packed, Open

(* What is lost stays lost while closed dispositions keep their dossiers. *)
LEMMA LostStays ==
  ASSUME NEW d \in Dossiers, Lost(d), dossier_state'[d] = "gone",
         \A q \in Dispositions : review_state[q] = "closed" =>
           review_state'[q] = "closed" /\ dossiers'[q] = dossiers[q]
  PROVE  Lost(d)'
  BY DEF Lost

(* A change of the dossiers of a disposition: only what no open            *)
(* disposition has gets offered.                                           *)
LEMMA PapersDossiers ==
  ASSUME Papers, NEW p \in Dispositions, NEW D \in SUBSET Dossiers, Add(p, D) \/ Edit(p, D)
  PROVE  PapersInv'
<1> USE DEF Papers, PapersInv, TypeOK, DispositionTypeOK
<1>1. /\ review_state[p] \in {"none", "in-progress"} /\ review_state'[p] = "in-progress"
      /\ \A q \in Dispositions : q # p => review_state'[q] = review_state[q]
      /\ SetDossiers(p, D)
  BY DEF Add, Edit, States
<1>2. /\ dossiers'[p] = D
      /\ \A q \in Dispositions : q # p => dossiers'[q] = dossiers[q]
      /\ \A q \in Dispositions : q # p => appraisal'[q] = appraisal[q]
      /\ sip' = sip
  BY <1>1 DEF SetDossiers
<1>3. \A d \in Dossiers : dossier_state'[d] =
        IF d \in D \ dossiers[p] THEN "offered"
        ELSE IF d \in dossiers[p] \ D THEN Former[d] ELSE dossier_state[d]
  BY <1>1 DEF SetDossiers
<1>4. \A q \in Dispositions : Open(q)' <=> q = p \/ Open(q)
  BY <1>1 DEF Open
<1>13. \A q \in Dispositions : review_state[q] = "closed" =>
         review_state'[q] = "closed" /\ dossiers'[q] = dossiers[q]
  BY <1>1, <1>2
<1>5. ASSUME NEW d \in D \ dossiers[p], NEW q \in Dispositions, Open(q), d \in dossiers[q]
      PROVE  FALSE
  <2>1. dossier_state[d] \in {"resolved", "inactive"}
    BY <1>1, <1>5 DEF SetDossiers
  <2>2. dossier_state[d] \in {"offered", "archived", "gone"}
    BY <1>5 DEF Follow, StateIn, Lost
  <2> QED BY <2>1, <2>2
<1>6. ASSUME NEW d \in dossiers[p], NEW q \in Dispositions, Open(q), q # p, d \in dossiers[q]
      PROVE  FALSE
  BY <1>1, <1>6 DEF Alone, Empty, Open
<1>7. Empty'
  BY <1>1, <1>2 DEF Empty
<1>8. Held'
  <2> SUFFICES ASSUME NEW d \in Dossiers, dossier_state'[d] \in {"offered", "archived"}
               PROVE  \E q \in Dispositions : Open(q)' /\ d \in dossiers'[q]
    BY DEF Held
  <2>1. CASE d \in D
    BY <1>2, <1>4, <2>1
  <2>2. CASE d \notin D
    <3>1. d \notin dossiers[p] /\ dossier_state'[d] = dossier_state[d]
      BY <1>3, <2>2, ValueAssumption
    <3>2. PICK q \in Dispositions : Open(q) /\ d \in dossiers[q]
      BY <3>1 DEF Held
    <3> QED BY <1>2, <1>4, <3>1, <3>2
  <2> QED BY <2>1, <2>2
<1>9. Alone'
  BY <1>2, <1>4, <1>5, <1>6 DEF Alone
<1>10. Follow'
  <2> SUFFICES ASSUME NEW q \in Dispositions, Open(q)', NEW d \in dossiers'[q]
               PROVE  dossier_state'[d] = StateIn(q)' \/ Lost(d)'
    BY DEF Follow
  <2>1. CASE q = p
    <3>1. d \in D /\ StateIn(p)' = "offered"
      BY <1>1, <1>2, <2>1 DEF StateIn
    <3>2. CASE d \in dossiers[p]
      <4>1. dossier_state'[d] = dossier_state[d] /\ dossier_state[d] # "gone"
        BY <1>1, <1>3, <3>1, <3>2 DEF SetDossiers, Whole
      <4>2. Open(p) /\ StateIn(p) = "offered"
        BY <1>1, <3>2 DEF Empty, Open, StateIn
      <4> QED BY <2>1, <3>1, <3>2, <4>1, <4>2 DEF Follow, Lost
    <3>3. CASE d \notin dossiers[p]
      BY <1>3, <2>1, <3>1, <3>3
    <3> QED BY <3>2, <3>3
  <2>2. CASE q # p
    <3>1. Open(q) /\ d \in dossiers[q] /\ StateIn(q)' = StateIn(q) /\ d \in Dossiers
      BY <1>1, <1>2, <1>4, <2>2 DEF StateIn
    <3>2. dossier_state'[d] = dossier_state[d]
      BY <1>3, <1>5, <1>6, <2>2, <3>1
    <3>3. Lost(d) => Lost(d)'
      BY <1>13, <3>1, <3>2, LostStays DEF Lost
    <3> QED BY <3>1, <3>2, <3>3 DEF Follow
  <2> QED BY <2>1, <2>2
<1>11. Appraised'
  <2>1. \A d \in D : appraisal'[p][d] # "none"
    <3> SUFFICES ASSUME NEW d \in D PROVE appraisal'[p][d] # "none"
      OBVIOUS
    <3>1. CASE d \in dossiers[p]
      <4>1. appraisal'[p][d] = appraisal[p][d] /\ Open(p)
        BY <1>1, <3>1 DEF SetDossiers, Empty, Open
      <4> QED BY <3>1, <4>1 DEF Appraised
    <3>2. CASE d \notin dossiers[p]
      BY <1>1, <3>2 DEF SetDossiers, get_pre_appraisal
    <3> QED BY <3>1, <3>2
  <2> QED BY <1>2, <1>4, <2>1 DEF Appraised
<1>12. Packed'
  BY <1>1, <1>2 DEF Packed
<1> QED BY <1>7, <1>8, <1>9, <1>10, <1>11, <1>12

(* A transition that leaves the dossiers alone and opens or closes         *)
(* nothing.                                                                *)
LEMMA PapersTransition ==
  ASSUME Papers, NEW p \in Dispositions, NEW from, NEW to, Transition(p, from, to),
         from \in {"in-progress", "appraised", "disposed"},
         to \in {"in-progress", "appraised", "disposed"},
         dossier_state' = dossier_state,
         sip' = sip \/ sip' = [sip EXCEPT ![p] = dossiers[p]],
         to = "disposed" => sip'[p] = dossiers[p]
  PROVE  PapersInv'
<1> USE DEF Papers, PapersInv, TypeOK, DispositionTypeOK
<1>1. /\ review_state'[p] = to
      /\ review_state[p] = from
      /\ \A q \in Dispositions : q # p => review_state'[q] = review_state[q]
      /\ UNCHANGED <<dossiers, appraisal>>
  BY DEF Transition
<1>2. \A q \in Dispositions : (Open(q)' <=> Open(q)) /\ StateIn(q)' = StateIn(q)
  BY <1>1 DEF Open, StateIn
<1>3. \A d \in Dossiers : Lost(d) => Lost(d)'
  <2>1. \A q \in Dispositions : review_state[q] = "closed" =>
           review_state'[q] = "closed" /\ dossiers'[q] = dossiers[q]
    BY <1>1
  <2> QED BY <2>1, LostStays DEF Lost
<1>4. Packed'
  BY <1>1 DEF Packed
<1>5. Empty'  BY <1>1 DEF Empty
<1>6. Held'  BY <1>1, <1>2 DEF Held
<1>7. Alone'  BY <1>1, <1>2 DEF Alone
<1>8. Appraised'  BY <1>1, <1>2 DEF Appraised
<1>9. Follow'
  BY <1>1, <1>2, <1>3 DEF Follow
<1> QED BY <1>4, <1>5, <1>6, <1>7, <1>8, <1>9

(* Archiving marks dossiers that are in no other disposition. *)
LEMMA PapersArchive ==
  ASSUME Papers, NEW p \in Dispositions, Archive(p)
  PROVE  PapersInv'
<1> USE DEF Papers, PapersInv, TypeOK, DispositionTypeOK
<1>1. /\ review_state'[p] = "archived" /\ review_state[p] = "disposed" /\ Whole(p)
      /\ \A q \in Dispositions : q # p => review_state'[q] = review_state[q]
      /\ UNCHANGED <<dossiers, appraisal, sip>>
      /\ \A d \in Dossiers : dossier_state'[d] =
           IF d \in dossiers[p] THEN "archived" ELSE dossier_state[d]
  BY DEF Archive, Transition
<1>2. \A q \in Dispositions : Open(q)' <=> Open(q)
  BY <1>1 DEF Open
<1>3. Empty' /\ Alone' /\ Appraised' /\ Packed'
  <2>1. Empty'  BY <1>1 DEF Empty
  <2>2. Alone'  BY <1>1, <1>2 DEF Alone
  <2>3. Appraised'  BY <1>1, <1>2 DEF Appraised
  <2>4. Packed'  BY <1>1 DEF Packed
  <2> QED BY <2>1, <2>2, <2>3, <2>4
<1>4. Held'
  BY <1>1, <1>2 DEF Held, Open
<1>5. Follow'
  <2> SUFFICES ASSUME NEW q \in Dispositions, Open(q), NEW d \in dossiers[q]
               PROVE  dossier_state'[d] = StateIn(q)' \/ Lost(d)'
    BY <1>1, <1>2 DEF Follow
  <2>1. CASE q = p
    BY <1>1, <2>1 DEF StateIn
  <2>2. CASE q # p
    <3>1. dossier_state'[d] = dossier_state[d]
      BY <1>1, <2>2 DEF Alone, Open
    <3>2. StateIn(q)' = StateIn(q)
      BY <1>1, <2>2 DEF StateIn
    <3>3. Lost(d) => Lost(d)'
      <4>1. \A r \in Dispositions : review_state[r] = "closed" =>
               review_state'[r] = "closed" /\ dossiers'[r] = dossiers[r]
        BY <1>1
      <4> QED BY <3>1, <4>1, LostStays DEF Lost
    <3> QED BY <3>1, <3>2, <3>3 DEF Follow
  <2> QED BY <2>1, <2>2
<1> QED BY <1>3, <1>4, <1>5

(* The end of a disposition destroys its dossiers and what is below them. *)
LEMMA PapersEnd ==
  ASSUME Papers, NEW p \in Dispositions, Close(p) \/ CloseAppraised(p)
  PROVE  PapersInv'
<1> USE DEF Papers, PapersInv, TypeOK, DispositionTypeOK
<1>1. /\ review_state'[p] = "closed" /\ review_state[p] \in {"archived", "appraised"}
      /\ \A q \in Dispositions : q # p => review_state'[q] = review_state[q]
      /\ UNCHANGED <<dossiers, appraisal>>
      /\ \A q \in Dispositions : q # p => sip'[q] = sip[q]
      /\ \A d \in Dossiers : dossier_state'[d] =
           IF (Above[d] \cup {d}) \cap dossiers[p] # {} THEN "gone" ELSE dossier_state[d]
  BY DEF Close, CloseAppraised, Transition, destroy_dossiers
<1>2. \A q \in Dispositions : Open(q)' <=> q # p /\ Open(q)
  BY <1>1 DEF Open
<1>3. Empty' /\ Alone' /\ Appraised' /\ Packed'
  <2>1. Empty'  BY <1>1 DEF Empty
  <2>2. Alone'  BY <1>1, <1>2 DEF Alone
  <2>3. Appraised'  BY <1>1, <1>2 DEF Appraised
  <2>4. Packed'  BY <1>1 DEF Packed
  <2> QED BY <2>1, <2>2, <2>3, <2>4
<1>4. Held'
  <2> SUFFICES ASSUME NEW d \in Dossiers, dossier_state'[d] \in {"offered", "archived"}
               PROVE  \E q \in Dispositions : Open(q)' /\ d \in dossiers'[q]
    BY DEF Held
  <2>1. d \notin dossiers[p] /\ dossier_state'[d] = dossier_state[d]
    BY <1>1
  <2>2. PICK q \in Dispositions : Open(q) /\ d \in dossiers[q]
    BY <2>1 DEF Held
  <2> QED BY <1>1, <1>2, <2>1, <2>2
<1>5. Follow'
  <2> SUFFICES ASSUME NEW q \in Dispositions, Open(q), q # p, NEW d \in dossiers[q]
               PROVE  dossier_state'[d] = StateIn(q)' \/ Lost(d)'
    BY <1>1, <1>2 DEF Follow
  <2>1. d \in Dossiers /\ StateIn(q)' = StateIn(q)
    BY <1>1 DEF StateIn
  <2>2. d \notin dossiers[p]
    BY <1>1 DEF Alone, Open
  <2>3. CASE Above[d] \cap dossiers[p] # {}
    <3>1. dossier_state'[d] = "gone" /\ review_state'[p] = "closed"
          /\ dossiers'[p] \cap Above[d] # {}
      BY <1>1, <2>1, <2>3
    <3> QED BY <3>1 DEF Lost
  <2>4. CASE Above[d] \cap dossiers[p] = {}
    <3>1. dossier_state'[d] = dossier_state[d]
      BY <1>1, <2>1, <2>2, <2>4
    <3>2. Lost(d) => Lost(d)'
      <4>1. \A r \in Dispositions : review_state[r] = "closed" =>
               review_state'[r] = "closed" /\ dossiers'[r] = dossiers[r]
        BY <1>1
      <4> QED BY <2>1, <3>1, <4>1, LostStays DEF Lost
    <3> QED BY <2>1, <3>1, <3>2 DEF Follow
  <2> QED BY <2>3, <2>4
<1> QED BY <1>3, <1>4, <1>5

(* Every step keeps the papers in order. *)
LEMMA PapersStep == Papers /\ [Next]_vars => PapersInv'
<1> SUFFICES ASSUME Papers, [Next]_vars PROVE PapersInv'
  OBVIOUS
<1>1. ASSUME NEW p \in Dispositions, DispositionRequest(p) PROVE PapersInv'
  <2>1. ASSUME NEW d \in Dossiers, NEW value \in {"worthy", "unworthy"},
               UpdateAppraisal(p, d, value)
        PROVE PapersInv'
    <3>1. /\ UNCHANGED <<review_state, dossiers, sip, dossier_state>>
          /\ \A q \in Dispositions : \A e \in Dossiers :
               appraisal'[q][e] = appraisal[q][e] \/ appraisal'[q][e] = value
      BY <2>1 DEF UpdateAppraisal, stock, Papers, TypeOK, DispositionTypeOK
    <3>2. Appraised'
      <4>1. \A q \in Dispositions : dossiers[q] \subseteq Dossiers
        BY DEF Papers, TypeOK, DispositionTypeOK
      <4> QED BY <3>1, <4>1 DEF Papers, PapersInv, Appraised, Open
    <3>3. Empty' /\ Held' /\ Alone' /\ Follow' /\ Packed'
      BY <3>1
      DEF Papers, PapersInv, Empty, Held, Alone, Follow, Packed, Open, StateIn, Lost
    <3> QED BY <3>2, <3>3 DEF PapersInv
  <2>2. CASE Appraise(p)
    BY <2>2, PapersTransition DEF Appraise
  <2>3. CASE Dispose(p)
    <3>1. sip'[p] = dossiers[p]
      BY <2>3 DEF Dispose, Papers, TypeOK, DispositionTypeOK
    <3> QED BY <2>3, <3>1, PapersTransition DEF Dispose, stock
  <2>4. CASE RefuseDisposed(p)
    BY <2>4, PapersTransition DEF RefuseDisposed, stock
  <2> QED BY <1>1, <2>1, <2>2, <2>3, <2>4, PapersDossiers, PapersArchive, PapersEnd
          DEF DispositionRequest
<1>2. CASE UNCHANGED <<papers, stock>>
  BY <1>2 DEF papers, stock, Papers, PapersInv, Empty, Held, Alone, Follow, Appraised, Packed,
              Open, StateIn, Lost
<1>3. (\E t \in Transports : SetEnabled(t)) \/ NightStep \/ UNCHANGED vars
        => UNCHANGED <<papers, stock>>
  BY DEF SetEnabled, NightStep, StartNight, TimeWindowExceeded, Commit, Abort, BeginJob,
         Deliver, DeliverFails, vars, dispositionVars
<1> QED BY <1>1, <1>2, <1>3, NextCases

(* Every reachable state has its papers in order. *)
LEMMA PapersInvariance == Spec => []Papers
<1>1. Init => Papers
  BY TypeInit, PapersInit DEF Papers
<1>2. Papers /\ [Next]_vars => Papers'
  BY TypeStep, PapersStep DEF Papers
<1> QED BY <1>1, <1>2, PTL DEF Spec

(* An offered dossier is in one open disposition, and the dossiers of a    *)
(* disposition have its state, or were destroyed with another.             *)
THEOREM DossiersAreHeld == Spec => []DossiersFollow
<1>1. ASSUME Papers PROVE DossiersFollow
  <2> USE <1>1 DEF Papers, PapersInv
  <2> SUFFICES ASSUME NEW d \in Dossiers
               PROVE  /\ dossier_state[d] \in {"offered", "archived"} =>
                           Cardinality({p \in Dispositions : Open(p) /\ d \in dossiers[p]}) = 1
                      /\ \A p \in Dispositions : Open(p) /\ d \in dossiers[p] =>
                           dossier_state[d] = StateIn(p) \/ Lost(d)
    BY DEF DossiersFollow, StateIn, Lost
  <2>1. ASSUME dossier_state[d] \in {"offered", "archived"}
        PROVE  Cardinality({p \in Dispositions : Open(p) /\ d \in dossiers[p]}) = 1
    <3>1. PICK p \in Dispositions : Open(p) /\ d \in dossiers[p]
      BY <2>1 DEF Held
    <3>2. {q \in Dispositions : Open(q) /\ d \in dossiers[q]} = {p}
      BY <3>1 DEF Alone
    <3> QED BY <3>2, FS_Singleton
  <2> QED BY <2>1 DEF Follow
<1> QED BY <1>1, PapersInvariance, PTL

\* The step property of DestroyedWasOffered.
DestroyedStep ==
  \A d \in Dossiers : dossier_state[d] # "gone" /\ dossier_state'[d] = "gone" =>
    \E p \in Dispositions :
      /\ (Above[d] \cup {d}) \cap dossiers[p] # {}
      /\ \/ review_state[p] = "archived" /\ sip[p] = dossiers[p]
         \/ \A e \in dossiers[p] : appraisal[p][e] \in {"open", "unworthy"}

(* Only the end of a disposition destroys, and it had the right to. *)
LEMMA DestroyedNext == Papers /\ [Next]_vars => DestroyedStep
<1> SUFFICES ASSUME Papers, [Next]_vars,
                    NEW d \in Dossiers, dossier_state[d] # "gone", dossier_state'[d] = "gone"
             PROVE  \E p \in Dispositions :
                      /\ (Above[d] \cup {d}) \cap dossiers[p] # {}
                      /\ \/ review_state[p] = "archived" /\ sip[p] = dossiers[p]
                         \/ \A e \in dossiers[p] : appraisal[p][e] \in {"open", "unworthy"}
  BY DEF DestroyedStep
<1> USE DEF Papers, PapersInv
<1>1. PICK p \in Dispositions : DispositionRequest(p)
  BY NextCases DEF NightStep, StartNight, TimeWindowExceeded, Commit, Abort, BeginJob, Deliver,
                   DeliverFails, vars, dispositionVars, stock, SetEnabled
<1>2. Close(p) \/ CloseAppraised(p)
  <2>1. ASSUME NEW D \in SUBSET Dossiers, Add(p, D) \/ Edit(p, D) PROVE FALSE
    BY <2>1, ValueAssumption DEF Add, Edit, SetDossiers
  <2>2. CASE Archive(p)
    BY <2>2 DEF Archive
  <2>3. dossier_state' = dossier_state => FALSE
    OBVIOUS
  <2> QED BY <1>1, <2>1, <2>2, <2>3
          DEF DispositionRequest, UpdateAppraisal, Appraise, Dispose, RefuseDisposed, stock
<1>3. (Above[d] \cup {d}) \cap dossiers[p] # {}
  BY <1>2 DEF Close, CloseAppraised, destroy_dossiers
<1>4. CASE Close(p)
  BY <1>3, <1>4 DEF Close, Transition, Packed
<1>5. CASE CloseAppraised(p)
  <2>1. review_state[p] = "appraised" /\ \A e \in Dossiers : appraisal[p][e] # "worthy"
    BY <1>5 DEF CloseAppraised, Transition, has_dossiers_to_archive
  <2>2. \A e \in dossiers[p] : appraisal[p][e] \in {"open", "unworthy"}
    <3> SUFFICES ASSUME NEW e \in dossiers[p] PROVE appraisal[p][e] \in {"open", "unworthy"}
      OBVIOUS
    <3>1. e \in Dossiers /\ appraisal[p][e] \in {"none", "open", "worthy", "unworthy"}
      BY DEF TypeOK, DispositionTypeOK
    <3> QED BY <2>1, <3>1 DEF Appraised, Open
  <2> QED BY <1>3, <2>2
<1> QED BY <1>2, <1>4, <1>5

(* No dossier is destroyed unless it was in a package or not worth         *)
(* keeping.                                                                *)
THEOREM DestroyedRightly == Spec => DestroyedWasOffered
<1>1. Papers /\ [Next]_vars => [DestroyedStep]_dispositionVars
  BY DestroyedNext
<1> QED BY <1>1, PapersInvariance, PTL DEF Spec, DestroyedWasOffered, DestroyedStep

-----------------------------------------------------------------------------
(* What a night has read, written and handed over.                         *)

Marked(p, t) == p = job /\ marks[t] # "none"

\* What was read is still so, but for what has been scheduled since.
Read == \A p \in listed : \A t \in Transports :
          seen.status[p][t] # "none" => status[p][t] = seen.status[p][t]
\* Only what was scheduled gets a mark, and a mark belongs to the job.
Tried == \A t \in Transports : marks[t] # "none" =>
           job # NoJob /\ seen.status[job][t] = "scheduled"
Untried == \A p \in Dispositions, t \in Transports :
             status[p][t] \in {"none", "scheduled"} /\ ~ Marked(p, t)
               => Len(received[p][t]) <= aborted
Copies == \A p \in Dispositions, t \in Transports : Len(received[p][t]) <= 1 + aborted
Arrived == \A p \in Dispositions, t \in Transports :
             status[p][t] = "success" \/ (p = job /\ marks[t] = "success")
               => received[p][t] # <<>>

NightInv == Read /\ Tried /\ Untried /\ Copies /\ Arrived
Night == TypeOK /\ NightInv

(* Nothing was delivered at first. *)
LEMMA NightInit == Init => NightInv
<1> SUFFICES ASSUME Init PROVE NightInv
  OBVIOUS
<1>1. /\ listed = {} /\ job = NoJob /\ aborted = 0
      /\ \A t \in Transports : marks[t] = "none"
      /\ \A p \in Dispositions, t \in Transports :
           status[p][t] = "none" /\ received[p][t] = <<>>
  BY DEF Init, DispositionInit, NoMarks
<1> QED BY <1>1 DEF NightInv, Read, Tried, Untried, Copies, Arrived

(* What schedules leaves what was tried, and what was read, alone. *)
LEMMA NightRequest ==
  ASSUME Night, UNCHANGED night,
         \A p \in Dispositions, t \in Transports :
           status'[p][t] = status[p][t]
           \/ (status[p][t] = "none" /\ status'[p][t] = "scheduled")
  PROVE  NightInv'
<1> USE DEF Night, NightInv, night
<1>1. Read'
  BY DEF Read, TypeOK, DispositionTypeOK
<1>2. Tried'
  BY DEF Tried
<1>3. Untried' /\ Copies' /\ Arrived'
  BY DEF Untried, Copies, Arrived, Marked
<1> QED BY <1>1, <1>2, <1>3

(* The end of a night forgets the marks; after a delivery the transaction  *)
(* counts as one that was aborted.                                         *)
LEMMA NightEnd ==
  ASSUME Night, EndOfNight, UNCHANGED <<status, received>>, aborted' \in Nat,
         aborted' >= aborted, marks # NoMarks => aborted' >= aborted + 1
  PROVE  NightInv'
<1> USE DEF Night, NightInv, TypeOK, DispositionTypeOK
<1>1. listed' = {} /\ job' = NoJob /\ \A t \in Transports : marks'[t] = "none"
  BY DEF EndOfNight, NoMarks
<1>2. \A p \in Dispositions, t \in Transports : Len(received[p][t]) \in Nat
  OBVIOUS
<1>3. Read' /\ Tried'
  BY <1>1 DEF Read, Tried
<1>4. Untried'
  <2> SUFFICES ASSUME NEW p \in Dispositions, NEW t \in Transports,
                      status[p][t] \in {"none", "scheduled"}
               PROVE  Len(received[p][t]) <= aborted'
    BY DEF Untried
  <2>1. CASE marks = NoMarks
    BY <1>2, <2>1 DEF Untried, Marked, NoMarks
  <2>2. CASE marks # NoMarks
    BY <1>2, <2>2 DEF Copies
  <2> QED BY <2>1, <2>2
<1>5. Copies'
  BY <1>2 DEF Copies
<1>6. Arrived'
  BY <1>1 DEF Arrived
<1> QED BY <1>3, <1>4, <1>5, <1>6

(* A step of a delivery: one transport that is due gets a mark, and its    *)
(* archive perhaps a package.                                              *)
LEMMA OneTransport ==
  ASSUME TypeOK, NEW i \in 1..Len(Names), Deliver(i) \/ DeliverFails(i)
  PROVE  \E n \in Transports :
           /\ job \in Dispositions /\ job \in listed /\ job # NoJob
           /\ marks[n] = "none" /\ seen.status[job][n] = "scheduled"
           /\ UNCHANGED <<dispositionVars, listed, job, seen, aborted>>
           /\ marks'[n] \in {"success", "failed"}
           /\ \A t \in Transports : t # n => marks'[t] = marks[t]
           /\ \A p \in Dispositions, t \in Transports :
                ~ (p = job /\ t = n) => received'[p][t] = received[p][t]
           /\ received'[job][n] = received[job][n]
              \/ received'[job][n] = Append(received[job][n], seen.sip[job])
           /\ marks'[n] = "success" => received'[job][n] = Append(received[job][n], seen.sip[job])
<1> DEFINE n == Names[i]
<1>1. n \in Transports /\ Due(n)
  BY NamesAssumption DEF Deliver, DeliverFails, IsNext
<1>2. /\ job \in Dispositions /\ job \in listed /\ job # NoJob
      /\ marks[n] = "none" /\ seen.status[job][n] = "scheduled"
  BY <1>1 DEF Due, TypeOK
<1>3. CASE Deliver(i)
  <2> HIDE DEF n
  <2>1. /\ received' = [received EXCEPT ![job][n] = Append(received[job][n], seen.sip[job])]
        /\ marks' = [marks EXCEPT ![n] = "success"]
    BY <1>3 DEF Deliver, n
  <2>2. received'[job][n] = Append(received[job][n], seen.sip[job])
    BY <1>1, <1>2, <2>1 DEF TypeOK
  <2>3. \A p \in Dispositions, t \in Transports :
          ~ (p = job /\ t = n) => received'[p][t] = received[p][t]
    BY <1>1, <1>2, <2>1 DEF TypeOK
  <2> QED BY <1>1, <1>2, <1>3, <2>1, <2>2, <2>3 DEF Deliver, TypeOK
<1>4. CASE DeliverFails(i)
  <2> HIDE DEF n
  <2>1. /\ marks' = [marks EXCEPT ![n] = "failed"]
        /\ \/ UNCHANGED received
           \/ received' = [received EXCEPT ![job][n] = Append(received[job][n], seen.sip[job])]
    BY <1>4 DEF DeliverFails, n
  <2>2. received'[job][n] = received[job][n]
        \/ received'[job][n] = Append(received[job][n], seen.sip[job])
    BY <1>1, <1>2, <2>1 DEF TypeOK
  <2>3. \A p \in Dispositions, t \in Transports :
          ~ (p = job /\ t = n) => received'[p][t] = received[p][t]
    BY <1>1, <1>2, <2>1 DEF TypeOK
  <2> QED BY <1>1, <1>2, <1>4, <2>1, <2>2, <2>3 DEF DeliverFails, TypeOK
<1> QED BY <1>3, <1>4

(* A delivery is of something scheduled and not tried in this transaction. *)
LEMMA NightDeliver ==
  ASSUME Night, NEW i \in 1..Len(Names), Deliver(i) \/ DeliverFails(i)
  PROVE  NightInv'
<1> USE DEF Night, NightInv
<1>1. PICK n \in Transports :
      /\ job \in Dispositions /\ job \in listed /\ job # NoJob
      /\ marks[n] = "none" /\ seen.status[job][n] = "scheduled"
      /\ UNCHANGED <<dispositionVars, listed, job, seen, aborted>>
      /\ marks'[n] \in {"success", "failed"}
      /\ \A t \in Transports : t # n => marks'[t] = marks[t]
      /\ \A p \in Dispositions, t \in Transports :
           ~ (p = job /\ t = n) => received'[p][t] = received[p][t]
      /\ received'[job][n] = received[job][n]
         \/ received'[job][n] = Append(received[job][n], seen.sip[job])
      /\ marks'[n] = "success" => received'[job][n] = Append(received[job][n], seen.sip[job])
  BY OneTransport
<1>2. UNCHANGED <<status, listed, job, seen, aborted>>
  BY <1>1 DEF dispositionVars
<1>3. received[job][n] \in Seq(SUBSET Dossiers) /\ seen.sip[job] \in SUBSET Dossiers
  BY <1>1 DEF TypeOK
<1>4. \A p \in Dispositions, t \in Transports : Len(received[p][t]) \in Nat
  BY DEF TypeOK
<1>5. Len(received'[job][n]) <= Len(received[job][n]) + 1
      /\ Len(received'[job][n]) \in Nat
      /\ (marks'[n] = "success" => received'[job][n] # <<>>)
  <2>1. Len(Append(received[job][n], seen.sip[job])) = Len(received[job][n]) + 1
        /\ Append(received[job][n], seen.sip[job]) # <<>>
    <3>1. Len(Append(received[job][n], seen.sip[job])) = Len(received[job][n]) + 1
      BY <1>3
    <3>2. Append(received[job][n], seen.sip[job]) = <<>> => FALSE
      BY <1>1, <1>4, <3>1
    <3> QED BY <3>1, <3>2
  <2> QED BY <1>1, <1>4, <2>1
<1>6. Len(received[job][n]) <= aborted
  <2>1. status[job][n] = "scheduled"
    BY <1>1 DEF Read
  <2> QED BY <1>1, <2>1 DEF Untried, Marked
<1>7. aborted \in Nat
  BY DEF TypeOK
<1>8. Read' /\ Tried'
  BY <1>1, <1>2 DEF Read, Tried
<1>9. Copies'
  <2> SUFFICES ASSUME NEW p \in Dispositions, NEW t \in Transports
               PROVE  Len(received'[p][t]) <= 1 + aborted
    BY <1>2 DEF Copies
  <2>1. CASE p = job /\ t = n
    BY <1>1, <1>4, <1>5, <1>6, <1>7, <2>1
  <2>2. CASE ~ (p = job /\ t = n)
    BY <1>1, <1>2, <2>2 DEF Copies
  <2> QED BY <2>1, <2>2
<1>10. Untried'
  <2> SUFFICES ASSUME NEW p \in Dispositions, NEW t \in Transports,
                      status[p][t] \in {"none", "scheduled"}, ~ Marked(p, t)'
               PROVE  Len(received'[p][t]) <= aborted
    BY <1>2 DEF Untried
  <2>1. ~ (p = job /\ t = n)
    BY <1>1, <1>2 DEF Marked
  <2>2. ~ Marked(p, t)
    BY <1>1, <1>2, <2>1 DEF Marked
  <2> QED BY <1>1, <1>2, <2>1, <2>2 DEF Untried
<1>11. Arrived'
  <2> SUFFICES ASSUME NEW p \in Dispositions, NEW t \in Transports,
                      status[p][t] = "success" \/ (p = job /\ marks'[t] = "success")
               PROVE  received'[p][t] # <<>>
    BY <1>2 DEF Arrived
  <2>1. CASE p = job /\ t = n
    <3>1. status[p][t] = "scheduled"
      BY <1>1, <2>1 DEF Read
    <3> QED BY <1>5, <2>1, <3>1
  <2>2. CASE ~ (p = job /\ t = n)
    BY <1>1, <1>2, <2>2 DEF Arrived
  <2> QED BY <2>1, <2>2
<1> QED BY <1>8, <1>9, <1>10, <1>11

(* A commit turns the marks into statuses. *)
LEMMA NightCommit ==
  ASSUME Night, Commit
  PROVE  NightInv'
<1> USE DEF Night, NightInv
<1>1. job \in Dispositions /\ job # NoJob /\ job \in listed
  BY DEF Commit, TypeOK
<1>2. /\ UNCHANGED <<received, aborted, sip>>
      /\ \A p \in Dispositions : p # job => status'[p] = status[p]
      /\ \A t \in Transports :
           status'[job][t] = IF marks[t] # "none" THEN marks[t] ELSE status[job][t]
      /\ job' = NoJob /\ listed' \subseteq Dispositions
      /\ \A t \in Transports : marks'[t] = "none"
      /\ seen' = Snapshot(listed', sip, status')
  <2>1. sip' = sip /\ UNCHANGED <<received, aborted>>
    BY DEF Commit, papers
  <2>2. job' = NoJob /\ marks' = NoMarks /\ listed' \subseteq Dispositions
    BY DEF Commit, EndOfNight, TypeOK
  <2>3. seen' = Snapshot(listed', sip, status')
    <3>1. CASE EndOfNight
      BY <3>1 DEF EndOfNight, Snapshot
    <3> QED BY <3>1 DEF Commit
  <2>4. /\ \A p \in Dispositions : p # job => status'[p] = status[p]
        /\ \A t \in Transports :
             status'[job][t] = IF marks[t] # "none" THEN marks[t] ELSE status[job][t]
    BY <1>1 DEF Commit, TypeOK, DispositionTypeOK
  <2> QED BY <2>1, <2>2, <2>3, <2>4 DEF NoMarks
<1>3. Read'
  BY <1>2 DEF Read, Snapshot
<1>4. Tried'
  BY <1>2 DEF Tried
<1>5. Copies'
  BY <1>2 DEF Copies
<1>6. Untried'
  <2> SUFFICES ASSUME NEW p \in Dispositions, NEW t \in Transports,
                      status'[p][t] \in {"none", "scheduled"}
               PROVE  Len(received[p][t]) <= aborted
    BY <1>2 DEF Untried
  <2>1. marks[t] \in {"none", "success", "failed"}
    BY DEF TypeOK
  <2>2. ~ Marked(p, t) /\ status[p][t] = status'[p][t]
    BY <1>2, <2>1 DEF Marked
  <2> QED BY <2>2 DEF Untried
<1>7. Arrived'
  BY <1>1, <1>2, JobAssumption DEF Arrived
<1> QED BY <1>3, <1>4, <1>5, <1>6, <1>7

(* Every step keeps this. *)
LEMMA NightKept == Night /\ [Next]_vars => NightInv'
<1> SUFFICES ASSUME Night, [Next]_vars PROVE NightInv'
  OBVIOUS
<1>1. ASSUME NEW p \in Dispositions, DispositionRequest(p), UNCHANGED night PROVE NightInv'
  <2>1. \A q \in Dispositions, t \in Transports :
          status'[q][t] = status[q][t] \/ (status[q][t] = "none" /\ status'[q][t] = "scheduled")
    <3>1. CASE Dispose(p)
      BY <3>1 DEF Dispose, schedule_delivery, Night, TypeOK, DispositionTypeOK
    <3>2. CASE UNCHANGED status
      BY <3>2
    <3> QED BY <1>1, <3>1, <3>2
            DEF DispositionRequest, Add, Edit, SetDossiers, UpdateAppraisal, Appraise,
                RefuseDisposed, Archive, Close, CloseAppraised
  <2> QED BY <1>1, <2>1, NightRequest
<1>2. ASSUME UNCHANGED night, UNCHANGED status PROVE NightInv'
  BY <1>2, NightRequest
<1>3. CASE StartNight
  <2>1. /\ job = NoJob /\ job' = NoJob
        /\ UNCHANGED <<status, marks, received, aborted>>
        /\ listed' \subseteq Dispositions
        /\ seen' = Snapshot(listed', sip, status)
    BY <1>3 DEF StartNight, dispositionVars, Night, TypeOK
  <2>2. Read'
    BY <2>1 DEF Read, Snapshot
  <2>3. Tried' /\ Untried' /\ Copies' /\ Arrived'
    BY <2>1 DEF Night, NightInv, Tried, Untried, Copies, Arrived, Marked
  <2> QED BY <2>2, <2>3 DEF NightInv
<1>4. CASE TimeWindowExceeded
  <2>1. marks = NoMarks
    <3>1. \A t \in Transports : marks[t] = "none"
      BY <1>4 DEF TimeWindowExceeded, Night, NightInv, Tried
    <3> QED BY <3>1 DEF Night, TypeOK, NoMarks
  <2>2. UNCHANGED <<status, received, aborted>> /\ EndOfNight /\ aborted \in Nat
    BY <1>4 DEF TimeWindowExceeded, dispositionVars, Night, TypeOK
  <2> QED BY <2>1, <2>2, NightEnd
<1>5. CASE Abort
  <2>1. /\ UNCHANGED <<status, received>> /\ EndOfNight /\ aborted \in Nat
        /\ aborted' = IF marks = NoMarks THEN aborted ELSE aborted + 1
    BY <1>5 DEF Abort, dispositionVars, Night, TypeOK
  <2> QED BY <2>1, NightEnd
<1>6. ASSUME NEW p \in Dispositions, BeginJob(p) PROVE NightInv'
  <2>1. /\ UNCHANGED <<status, listed, seen, marks, received, aborted>>
        /\ job = NoJob /\ job' = p
    BY <1>6 DEF BeginJob, dispositionVars
  <2>2. \A t \in Transports : marks[t] = "none"
    BY <2>1 DEF Night, NightInv, Tried
  <2> QED BY <2>1, <2>2
          DEF Night, NightInv, Read, Tried, Untried, Copies, Arrived, Marked
<1>7. CASE UNCHANGED vars
  BY <1>2, <1>7 DEF vars, dispositionVars
<1>8. ASSUME NEW t \in Transports, SetEnabled(t), UNCHANGED night PROVE NightInv'
  BY <1>2, <1>8 DEF SetEnabled
<1> QED BY <1>1, <1>3, <1>4, <1>5, <1>6, <1>7, <1>8, NextCases, NightDeliver, NightCommit
        DEF NightStep

(* Every reachable state has it. *)
LEMMA NightInvariance == Spec => []Night
<1>1. Init => Night
  BY TypeInit, NightInit DEF Night
<1>2. Night /\ [Next]_vars => Night'
  BY TypeStep, NightKept DEF Night
<1> QED BY <1>1, <1>2, PTL DEF Spec

(* A success is a delivery, and only a process that ended between a        *)
(* delivery and its commit makes a second copy.                            *)
THEOREM OneDelivery == Spec => []DeliveredOnce
<1>1. Night => DeliveredOnce
  BY DEF Night, NightInv, Copies, Arrived, DeliveredOnce
<1> QED BY <1>1, NightInvariance, PTL

-----------------------------------------------------------------------------
(* What was delivered is the package.                                      *)

\* Before its first package, a disposition was neither listed nor delivered.
Fresh == \A p \in Dispositions :
  refused[p] = 0 /\ review_state[p] \in {"none", "in-progress", "appraised"} =>
    p \notin listed /\ \A t \in Transports : received[p][t] = <<>>
\* With its first package, that is what is read and delivered.
First == \A p \in Dispositions :
  refused[p] = 0 /\ review_state[p] \in {"disposed", "archived"} =>
    /\ p \in listed => seen.sip[p] = sip[p]
    /\ \A t \in Transports : \A i \in DOMAIN received[p][t] : received[p][t][i] = sip[p]

Current == Papers /\ Fresh /\ First

(* A request creates a package only when there was none, unless refused. *)
LEMMA CurrentRequest ==
  ASSUME Current, NEW p \in Dispositions, DispositionRequest(p), UNCHANGED night
  PROVE  Fresh' /\ First'
<1> USE DEF Current, Papers, TypeOK, DispositionTypeOK, night
<1>1. ASSUME NEW D \in SUBSET Dossiers, Add(p, D) \/ Edit(p, D) PROVE Fresh' /\ First'
  <2>1. /\ review_state[p] \in {"none", "in-progress"} /\ review_state'[p] = "in-progress"
        /\ \A q \in Dispositions : q # p => review_state'[q] = review_state[q]
        /\ UNCHANGED <<refused, received, listed, seen, sip>>
    BY <1>1 DEF Add, Edit, SetDossiers
  <2>2. Fresh'
    BY <2>1 DEF Fresh
  <2>3. First'
    BY <2>1 DEF First
  <2> QED BY <2>2, <2>3
<1>2. ASSUME NEW d \in Dossiers, NEW value \in {"worthy", "unworthy"},
             UpdateAppraisal(p, d, value)
      PROVE Fresh' /\ First'
  BY <1>2 DEF UpdateAppraisal, Fresh, First
<1> USE DEF Transition
<1>3. CASE Appraise(p)  BY <1>3 DEF Appraise, Fresh, First
<1>4. CASE Dispose(p)
  <2>1. /\ review_state[p] = "appraised" /\ review_state'[p] = "disposed"
        /\ \A q \in Dispositions :
             q # p => review_state'[q] = review_state[q] /\ sip'[q] = sip[q]
        /\ UNCHANGED <<refused, received, listed, seen>>
    BY <1>4 DEF Dispose
  <2>2. refused[p] = 0 => p \notin listed /\ \A t \in Transports : received[p][t] = <<>>
    BY <2>1 DEF Fresh
  <2>3. Fresh'
    BY <2>1 DEF Fresh
  <2>4. First'
    <3> SUFFICES ASSUME NEW q \in Dispositions, refused[q] = 0,
                        review_state'[q] \in {"disposed", "archived"}
                 PROVE  /\ q \in listed => seen.sip[q] = sip'[q]
                        /\ \A t \in Transports : \A i \in DOMAIN received[q][t] :
                             received[q][t][i] = sip'[q]
      BY <2>1 DEF First
    <3>1. CASE q = p  BY <2>2, <3>1
    <3>2. CASE q # p  BY <2>1, <3>2 DEF First
    <3> QED BY <3>1, <3>2
  <2> QED BY <2>3, <2>4
<1>5. CASE RefuseDisposed(p)  BY <1>5 DEF RefuseDisposed, Fresh, First
<1>6. CASE Archive(p)  BY <1>6 DEF Archive, Fresh, First
<1>7. CASE Close(p)  BY <1>7 DEF Close, Fresh, First
<1>8. CASE CloseAppraised(p)  BY <1>8 DEF CloseAppraised, Fresh, First
<1> QED BY <1>1, <1>2, <1>3, <1>4, <1>5, <1>6, <1>7, <1>8 DEF DispositionRequest

(* The steps of the night deliver what was read. *)
LEMMA CurrentNight ==
  ASSUME Current, NightStep
  PROVE  Fresh' /\ First'
<1> USE DEF Current, Papers, TypeOK, DispositionTypeOK
<1>1. UNCHANGED papers
  BY DEF NightStep, StartNight, TimeWindowExceeded, Commit, Abort, BeginJob, Deliver,
         DeliverFails, dispositionVars
<1> USE <1>1 DEF papers
<1>2. CASE StartNight
  BY <1>2 DEF StartNight, Snapshot, Fresh, First
<1>3. ASSUME EndOfNight, UNCHANGED received PROVE Fresh' /\ First'
  BY <1>3 DEF EndOfNight, Fresh, First
<1>4. ASSUME NEW p \in Dispositions, BeginJob(p) PROVE Fresh' /\ First'
  BY <1>4 DEF BeginJob, Fresh, First
<1>5. CASE Commit
  <2>1. CASE EndOfNight  BY <1>3, <1>5, <2>1 DEF Commit
  <2>2. CASE listed' = listed \ {job} /\ seen' = Snapshot(listed', sip, status')
    BY <1>5, <2>2 DEF Commit, Snapshot, Fresh, First
  <2> QED BY <1>5, <2>1, <2>2 DEF Commit
<1>6. ASSUME NEW i \in 1..Len(Names), Deliver(i) \/ DeliverFails(i) PROVE Fresh' /\ First'
  <2>1. PICK n \in Transports :
          /\ job \in listed /\ job \in Dispositions
          /\ UNCHANGED <<listed, seen>>
          /\ \A p \in Dispositions, t \in Transports :
               ~ (p = job /\ t = n) => received'[p][t] = received[p][t]
          /\ received'[job][n] = received[job][n]
             \/ received'[job][n] = Append(received[job][n], seen.sip[job])
    <3> HIDE DEF TypeOK, DispositionTypeOK, Current, Papers, papers
    <3> QED BY <1>6, OneTransport DEF Current, Papers
  <2>3. Fresh'
    <3> SUFFICES ASSUME NEW p \in Dispositions, refused[p] = 0,
                        review_state[p] \in {"none", "in-progress", "appraised"}
                 PROVE  p \notin listed /\ \A t \in Transports : received'[p][t] = <<>>
      BY <2>1 DEF Fresh
    <3>1. p \notin listed /\ \A t \in Transports : received[p][t] = <<>>
      BY DEF Fresh
    <3> QED BY <2>1, <3>1
  <2>4. First'
    <3> SUFFICES ASSUME NEW p \in Dispositions, refused[p] = 0,
                        review_state[p] \in {"disposed", "archived"},
                        NEW t \in Transports, NEW j \in DOMAIN received'[p][t]
                 PROVE  received'[p][t][j] = sip[p]
      BY <2>1 DEF First
    <3>1. CASE received'[p][t] = received[p][t]
      BY <3>1 DEF First
    <3>2. CASE /\ p = job
               /\ received'[p][t] = Append(received[p][t], seen.sip[job])
      <4>1. received[p][t] \in Seq(SUBSET Dossiers) /\ seen.sip[job] = sip[p]
        BY <2>1, <3>2 DEF First
      <4>2. \A k \in DOMAIN received[p][t] : received[p][t][k] = sip[p]
        BY DEF First
      <4> QED BY <3>2, <4>1, <4>2
    <3> QED BY <2>1, <3>1, <3>2
  <2> QED BY <2>3, <2>4
<1> QED BY <1>2, <1>3, <1>4, <1>5, <1>6 DEF NightStep, TimeWindowExceeded, Abort

(* Every reachable state delivers packages as they are. *)
LEMMA CurrentInvariance == Spec => []Current
<1>1. Init => Current
  BY TypeInit, PapersInit DEF Init, DispositionInit, Current, Papers, Fresh, First
<1>2. Current /\ [Next]_vars => Current'
  <2> SUFFICES ASSUME Current, [Next]_vars PROVE Current'
    OBVIOUS
  <2>1. ASSUME UNCHANGED <<papers, night>> PROVE Fresh' /\ First'
    BY <2>1 DEF papers, night, Current, Fresh, First
  <2>2. ASSUME NEW t \in Transports, SetEnabled(t), UNCHANGED night PROVE Fresh' /\ First'
    BY <2>1, <2>2 DEF SetEnabled
  <2>3. ASSUME UNCHANGED vars PROVE Fresh' /\ First'
    BY <2>1, <2>3 DEF vars, dispositionVars
  <2>4. Fresh' /\ First'
    BY <2>2, <2>3, NextCases, CurrentRequest, CurrentNight
  <2> QED BY <2>4, TypeStep, PapersStep DEF Current, Papers
<1> QED BY <1>1, <1>2, PTL DEF Spec

(* The package of a disposition has its dossiers, and what was delivered   *)
(* is that package, unless the disposition was refused before.             *)
THEOREM DeliversThePackage == Spec => []DeliveredIsCurrent
<1>1. Current => DeliveredIsCurrent
  BY DEF Current, Papers, PapersInv, Packed, First, DeliveredIsCurrent
<1> QED BY <1>1, CurrentInvariance, PTL

=============================================================================
