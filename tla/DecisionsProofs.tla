--------------------------- MODULE DecisionsProofs ---------------------------
(***************************************************************************)
(* Proofs about Decisions for every set of notifications, requests and     *)
(* jobs.                                                                   *)
(*                                                                         *)
(* What the checks before an insert are worth, without a unique key, is a  *)
(* fact about requests between their check and their commit: Unaware says  *)
(* that the decisions such a request cannot know of are those committed    *)
(* since it began, and Linked that the decision a webhook is about to name *)
(* is there, unless its notification is gone.                              *)
(***************************************************************************)
EXTENDS Decisions, FiniteSetTheorems, TLAPS

\* The notifications on which a request saw no decision and is about to act.
Targets(p) ==
    {n \in Notif :
        \/ p \in Reporter \cup Hook /\ n = req[p].notif
        \/ p \in Simulator /\ n \in req[p].todo
        \/ p \in Deleter /\ req[p].saw = None /\ n = req[p].notif}

Ids == \A d \in decisions : d.id # None /\ d.id < nextId

Unaware ==
    \A p \in Proc :
        /\ req[p].begun <= nextId
        /\ req[p].pc = "commit" =>
              \A d \in decisions : d.notif \in Targets(p) => req[p].begun <= d.id

Linked ==
    \A p \in Hook : req[p].pc = "observe" =>
        /\ req[p].save => req[p].saw # None
        /\ req[p].saw # None =>
              \/ age[req[p].notif] = "gone"
              \/ \E d \in decisions : d.id = req[p].saw /\ d.notif = req[p].notif

Lasting == \A o \in observed : age[o.notif] # "gone"

IInv ==
    /\ TypeOK
    /\ Ids
    /\ Unaware
    /\ SecondDecisionNeedsOverlap
    /\ Linked
    /\ Lasting
    /\ LoopClosed

-----------------------------------------------------------------------------
(* Types *)

\* A process without a request is well typed.
LEMMA IdleType == Idle \in Request
  BY NotifAssumption DEF Idle, Request, None

\* The simulator's new ids are numbers.
LEMMA TodoFinite ==
  ASSUME TypeOK, NEW p \in Proc
  PROVE  Cardinality(req[p].todo) \in Nat
<1>1. req[p].todo \in SUBSET Notif
  BY DEF TypeOK, Request
<1>2. QED
  BY <1>1, NotifAssumption, FS_Subset, FS_CardinalityType

\* A request's row is a decision.
LEMMA NewDecisionType ==
  ASSUME TypeOK, NEW p \in Proc, NEW n \in Notif, NEW id \in Nat,
         NEW before \in BOOLEAN, NEW scored \in BOOLEAN
  PROVE  /\ NewDecision(p, n, id, before, scored) \in Decision
         /\ NewDecision(p, n, id, before, scored).id = id
         /\ NewDecision(p, n, id, before, scored).notif = n
         /\ NewDecision(p, n, id, before, scored).begun = req[p].begun
  BY DEF NewDecision, Decision, TypeOK, Request

\* Every step keeps the types.
LEMMA TypeStep ==
  ASSUME TypeOK, [Next]_vars
  PROVE  TypeOK'
<1>1. ASSUME NEW n \in Notif, Raise(n) \/ Grow(n)
      PROVE  TypeOK'
  BY <1>1 DEF TypeOK, Raise, Grow
<1>2. ASSUME NEW n \in Notif, NEW p \in Proc, Report(p, n) \/ DeleteRead(p, n)
      PROVE  TypeOK'
  <2>1. PICK r : req' = [req EXCEPT ![p] = r] /\ r \in Request
    <3>1. CASE Report(p, n)
      <4>1. [Idle EXCEPT !.pc = "commit", !.notif = n, !.begun = nextId] \in Request
        BY IdleType DEF Request, TypeOK
      <4>2. QED
        BY <3>1, <4>1 DEF Report
    <3>2. CASE DeleteRead(p, n)
      <4>1. PICK saw \in SelectDecision(n) : req' = [req EXCEPT ![p] =
                [Idle EXCEPT !.pc = "commit", !.notif = n, !.saw = saw, !.begun = nextId]]
        BY <3>2 DEF DeleteRead
      <4>2. saw \in Nat
        BY DEF SelectDecision, DecisionsOf, TypeOK, Decision, None
      <4>3. [Idle EXCEPT !.pc = "commit", !.notif = n, !.saw = saw, !.begun = nextId] \in Request
        BY <4>2, IdleType DEF Request, TypeOK
      <4>4. QED
        BY <4>1, <4>3
    <3>3. QED
      BY <1>2, <3>1, <3>2
  <2>2. req' \in [Proc -> Request]
    BY <2>1 DEF TypeOK
  <2>3. requests' = requests + 1 /\ UNCHANGED <<age, decisions, observed, nextId, crashes>>
    BY <1>2 DEF Report, DeleteRead, Begin
  <2>4. QED
    BY <2>2, <2>3 DEF TypeOK
<1>3. ASSUME NEW n \in Notif, NEW p \in Proc, Observe(p, n)
      PROVE  TypeOK'
  <2>1. PICK save \in BOOLEAN, saw \in SelectDecision(n) : req' = [req EXCEPT ![p] =
            [Idle EXCEPT !.pc = IF saw = None /\ save THEN "commit" ELSE "observe",
                         !.notif = n, !.saw = saw, !.save = save, !.begun = nextId]]
    BY <1>3 DEF Observe
  <2>2. saw \in Nat
    BY DEF SelectDecision, DecisionsOf, TypeOK, Decision, None
  <2>3. [Idle EXCEPT !.pc = IF saw = None /\ save THEN "commit" ELSE "observe",
                     !.notif = n, !.saw = saw, !.save = save, !.begun = nextId] \in Request
    BY <2>2, IdleType DEF Request, TypeOK
  <2>4. QED
    BY <1>3, <2>1, <2>3 DEF TypeOK, Observe, Begin
<1>4. ASSUME NEW d \in decisions, Elapse(d)
      PROVE  TypeOK'
  <2>1. [d EXCEPT !.due = TRUE] \in Decision
    BY DEF TypeOK, Decision
  <2>2. QED
    BY <1>4, <2>1 DEF TypeOK, Elapse
<1>5. ASSUME NEW p \in Proc, ReportCommit(p) \/ AutoClose(p)
      PROVE  TypeOK'
  <2>1. req[p].notif \in Notif /\ nextId \in Nat
    BY DEF TypeOK, Request
  <2>2. decisions' \in SUBSET Decision /\ nextId' \in Nat \ {None}
    <3>1. CASE Present(req[p].notif)
      <4>1. PICK before \in BOOLEAN :
                /\ decisions' = decisions \cup {NewDecision(p, req[p].notif, nextId, before, FALSE)}
                /\ nextId' = nextId + 1
        BY <1>5, <3>1 DEF ReportCommit, AutoClose
      <4>2. NewDecision(p, req[p].notif, nextId, before, FALSE) \in Decision
        BY <2>1, NewDecisionType
      <4>3. decisions' \in SUBSET Decision
        BY <4>1, <4>2 DEF TypeOK
      <4>4. nextId' \in Nat \ {None}
        BY <2>1, <4>1 DEF None
      <4>5. QED
        BY <4>3, <4>4
    <3>2. CASE ~Present(req[p].notif)
      BY <1>5, <3>2 DEF ReportCommit, AutoClose, TypeOK
    <3>3. QED
      BY <3>1, <3>2
  <2>3. req' \in [Proc -> Request]
    <3>1. CASE req' = [req EXCEPT ![p] = Idle]
      BY <3>1, IdleType DEF TypeOK
    <3>2. CASE req' = [req EXCEPT ![p].pc = "observe", ![p].saw = nextId]
      <4>1. [req[p] EXCEPT !.pc = "observe", !.saw = nextId] \in Request
        BY <2>1 DEF TypeOK, Request
      <4>2. req' = [req EXCEPT ![p] = [req[p] EXCEPT !.pc = "observe", !.saw = nextId]]
        BY <3>2 DEF TypeOK
      <4>3. QED
        BY <4>1, <4>2 DEF TypeOK
    <3>3. QED
      BY <1>5, <3>1, <3>2 DEF ReportCommit, AutoClose
  <2>4. QED
    BY <1>5, <2>2, <2>3 DEF TypeOK, ReportCommit, AutoClose
<1>6. ASSUME NEW p \in Proc, ObserveCommit(p)
      PROVE  TypeOK'
  <2>1. [notif |-> req[p].notif, decision |-> req[p].saw, save |-> req[p].save] \in Observation
    BY DEF TypeOK, Request, Observation
  <2>2. QED
    BY <1>6, <2>1, IdleType DEF TypeOK, ObserveCommit
<1>7. ASSUME NEW p \in Proc, Simulate(p)
      PROVE  TypeOK'
  <2>1. PICK pending \in SUBSET Notif : req' = [req EXCEPT ![p] =
            [Idle EXCEPT !.pc = "commit", !.todo = pending, !.begun = nextId]]
    BY <1>7 DEF Simulate
  <2>2. [Idle EXCEPT !.pc = "commit", !.todo = pending, !.begun = nextId] \in Request
    BY IdleType DEF Request, TypeOK
  <2>3. QED
    BY <1>7, <2>1, <2>2 DEF TypeOK, Simulate, Begin
<1>8. ASSUME NEW p \in Proc, SimulateCommit(p)
      PROVE  TypeOK'
  <2>1. req[p].todo \in SUBSET Notif /\ nextId \in Nat /\ Cardinality(req[p].todo) \in Nat
    BY TodoFinite DEF TypeOK, Request
  <2>2. decisions' \in SUBSET Decision
    <3>1. ASSUME NEW ids \in [req[p].todo -> nextId .. nextId + Cardinality(req[p].todo) - 1]
          PROVE  {NewDecision(p, n, ids[n], TRUE, TRUE) : n \in req[p].todo} \subseteq Decision
      <4>1. ASSUME NEW n \in req[p].todo
            PROVE  NewDecision(p, n, ids[n], TRUE, TRUE) \in Decision
        <5>1. ids[n] \in Nat /\ n \in Notif
          BY <2>1
        <5>2. QED
          BY <5>1, NewDecisionType
      <4>2. QED
        BY <4>1
    <3>2. QED
      BY <1>8, <3>1 DEF SimulateCommit, TypeOK
  <2>3. nextId' \in Nat \ {None}
    <3>1. nextId' = nextId \/ nextId' = nextId + Cardinality(req[p].todo)
      BY <1>8 DEF SimulateCommit
    <3>2. QED
      BY <2>1, <3>1 DEF TypeOK, None
  <2>4. QED
    BY <1>8, <2>2, <2>3, IdleType DEF TypeOK, SimulateCommit
<1>9. ASSUME NEW p \in Proc, JobRead(p)
      PROVE  TypeOK'
  <2>1. PICK B \in SUBSET {d.id : d \in Pending} :
            req' = [req EXCEPT ![p] = [Idle EXCEPT !.pc = "batch", !.batch = B]]
    BY <1>9 DEF JobRead
  <2>2. B \in SUBSET Nat
    BY DEF Pending, TypeOK, Decision
  <2>3. [Idle EXCEPT !.pc = "batch", !.batch = B] \in Request
    BY <2>2, IdleType DEF Request
  <2>4. QED
    BY <1>9, <2>1, <2>3 DEF TypeOK, JobRead
<1>10. ASSUME NEW p \in Proc, NEW id \in req[p].batch, JobScore(p, id)
       PROVE  TypeOK'
  <2>1. \A d \in decisions : (IF d.id = id THEN [d EXCEPT !.scored = TRUE] ELSE d) \in Decision
    BY DEF TypeOK, Decision
  <2>2. decisions' \in SUBSET Decision
    BY <1>10, <2>1 DEF JobScore, TypeOK
  <2>3. req' \in [Proc -> Request]
    BY <1>10, IdleType DEF JobScore, TypeOK, Request
  <2>4. QED
    BY <1>10, <2>2, <2>3 DEF TypeOK, JobScore
<1>11. ASSUME NEW p \in Proc, JobEnd(p) \/ Crash(p)
       PROVE  TypeOK'
  BY <1>11, IdleType DEF TypeOK, JobEnd, Crash
<1>12. ASSUME NEW p \in Proc, DeleteCommit(p)
       PROVE  TypeOK'
  BY <1>12, IdleType DEF TypeOK, DeleteCommit, Cascade
<1>13. CASE Cleanup
  BY <1>13 DEF TypeOK, Cleanup, Cascade
<1>14. CASE UNCHANGED vars
  BY <1>14 DEF TypeOK, vars
<1>15. QED
  BY <1>1, <1>2, <1>3, <1>4, <1>5, <1>6, <1>7, <1>8, <1>9, <1>10, <1>11, <1>12, <1>13, <1>14
     DEF Next

\* Every variable keeps its type.
THEOREM TypeCorrect == Spec => []TypeOK
<1>1. Init => TypeOK
  BY IdleType DEF Init, TypeOK, None
<1>2. TypeOK /\ [Next]_vars => TypeOK'
  BY TypeStep
<1>3. QED
  BY <1>1, <1>2, PTL DEF Spec

-----------------------------------------------------------------------------
(* Where decisions come from, and where they go *)

\* The requests that commit decisions, and on what.
Writes(p, n) ==
    \/ p \in Reporter \cup Hook /\ n = req[p].notif
    \/ p \in Simulator /\ n \in req[p].todo

\* A step keeps what a decision is about, or a request commits new ones, one for each
\* notification, with fresh ids.
LEMMA DecisionStep ==
  ASSUME TypeOK, [Next]_vars, NEW d \in decisions'
  PROVE  \/ \E c \in decisions : c.id = d.id /\ c.notif = d.notif /\ c.begun = d.begun
         \/ \E p \in Proc :
               /\ req[p].pc = "commit" /\ Writes(p, d.notif) /\ Present(d.notif)
               /\ d.begun = req[p].begun
               /\ nextId <= d.id /\ d.id < nextId'
               /\ \A e \in decisions' : e \in decisions \/ (e.notif = d.notif => e.id = d.id)
<1>1. ASSUME NEW c \in decisions, Elapse(c)
      PROVE  \E b \in decisions : b.id = d.id /\ b.notif = d.notif /\ b.begun = d.begun
  <2>1. [c EXCEPT !.due = TRUE].id = c.id /\ [c EXCEPT !.due = TRUE].notif = c.notif
        /\ [c EXCEPT !.due = TRUE].begun = c.begun
    BY DEF TypeOK, Decision
  <2>2. QED
    BY <1>1, <2>1 DEF Elapse
<1>2. ASSUME NEW p \in Proc, NEW id \in req[p].batch, JobScore(p, id)
      PROVE  \E b \in decisions : b.id = d.id /\ b.notif = d.notif /\ b.begun = d.begun
  <2>1. ASSUME NEW c \in decisions
        PROVE  /\ [c EXCEPT !.scored = TRUE].id = c.id /\ [c EXCEPT !.scored = TRUE].notif = c.notif
               /\ [c EXCEPT !.scored = TRUE].begun = c.begun
    BY DEF TypeOK, Decision
  <2>2. CASE decisions' = {IF c.id = id THEN [c EXCEPT !.scored = TRUE] ELSE c : c \in decisions}
    <3>1. PICK c \in decisions : d = IF c.id = id THEN [c EXCEPT !.scored = TRUE] ELSE c
      BY <2>2
    <3>2. QED
      BY <2>1, <3>1
  <2>3. QED
    BY <1>2, <2>2 DEF JobScore
<1>3. ASSUME NEW p \in Proc, ReportCommit(p) \/ AutoClose(p), d \notin decisions
      PROVE  /\ req[p].pc = "commit" /\ Writes(p, d.notif) /\ Present(d.notif)
             /\ d.begun = req[p].begun
             /\ nextId <= d.id /\ d.id < nextId'
             /\ \A e \in decisions' : e \in decisions \/ (e.notif = d.notif => e.id = d.id)
  <2>1. PICK before \in BOOLEAN :
            /\ decisions' = decisions \cup {NewDecision(p, req[p].notif, nextId, before, FALSE)}
            /\ nextId' = nextId + 1 /\ Present(req[p].notif)
    BY <1>3 DEF ReportCommit, AutoClose
  <2>2. req[p].notif \in Notif /\ nextId \in Nat
    BY DEF TypeOK, Request
  <2>3. d = NewDecision(p, req[p].notif, nextId, before, FALSE)
    BY <1>3, <2>1
  <2>4. d.id = nextId /\ d.notif = req[p].notif /\ d.begun = req[p].begun
    <3>1. /\ NewDecision(p, req[p].notif, nextId, before, FALSE).id = nextId
          /\ NewDecision(p, req[p].notif, nextId, before, FALSE).notif = req[p].notif
          /\ NewDecision(p, req[p].notif, nextId, before, FALSE).begun = req[p].begun
      BY DEF NewDecision
    <3>2. QED
      BY <2>3, <3>1
  <2>5. \A e \in decisions' : e \in decisions \/ e = d
    BY <2>1, <2>3
  <2>6. nextId <= d.id /\ d.id < nextId'
    BY <2>1, <2>2, <2>4
  <2>7. req[p].pc = "commit" /\ p \in Reporter \cup Hook
    BY <1>3 DEF ReportCommit, AutoClose
  <2>8. QED
    BY <2>1, <2>4, <2>5, <2>6, <2>7 DEF Writes
<1>4. ASSUME NEW p \in Proc, SimulateCommit(p), d \notin decisions
      PROVE  /\ req[p].pc = "commit" /\ Writes(p, d.notif) /\ Present(d.notif)
             /\ d.begun = req[p].begun
             /\ nextId <= d.id /\ d.id < nextId'
             /\ \A e \in decisions' : e \in decisions \/ (e.notif = d.notif => e.id = d.id)
  <2>1. PICK ids \in [req[p].todo -> nextId .. nextId + Cardinality(req[p].todo) - 1] :
            /\ decisions' = decisions \cup {NewDecision(p, n, ids[n], TRUE, TRUE) : n \in req[p].todo}
            /\ nextId' = nextId + Cardinality(req[p].todo)
            /\ \A n \in req[p].todo : Present(n)
    BY <1>4 DEF SimulateCommit
  <2>2. nextId \in Nat /\ Cardinality(req[p].todo) \in Nat /\ req[p].todo \in SUBSET Notif
    BY TodoFinite DEF TypeOK, Request
  <2>3. ASSUME NEW n \in req[p].todo
        PROVE  /\ ids[n] \in Nat /\ nextId <= ids[n] /\ ids[n] < nextId'
               /\ NewDecision(p, n, ids[n], TRUE, TRUE).id = ids[n]
               /\ NewDecision(p, n, ids[n], TRUE, TRUE).notif = n
               /\ NewDecision(p, n, ids[n], TRUE, TRUE).begun = req[p].begun
    <3>1. ids[n] \in Nat /\ nextId <= ids[n] /\ ids[n] < nextId' /\ n \in Notif
      BY <2>1, <2>2
    <3>2. QED
      BY <3>1, NewDecisionType
  <2>4. \A e \in decisions' : e \in decisions \/
            \E n \in req[p].todo : e.id = ids[n] /\ e.notif = n /\ e.begun = req[p].begun
    <3> SUFFICES ASSUME NEW e \in decisions', e \notin decisions
                 PROVE  \E n \in req[p].todo : e.id = ids[n] /\ e.notif = n /\ e.begun = req[p].begun
      OBVIOUS
    <3>1. PICK n \in req[p].todo : e = NewDecision(p, n, ids[n], TRUE, TRUE)
      BY <2>1
    <3>2. e.id = ids[n] /\ e.notif = n /\ e.begun = req[p].begun
      BY <2>3, <3>1
    <3>3. QED
      BY <3>2
  <2>5. PICK n \in req[p].todo : d.id = ids[n] /\ d.notif = n /\ d.begun = req[p].begun
    BY <1>4, <2>4
  <2>6. \A e \in decisions' : e \in decisions \/ (e.notif = d.notif => e.id = d.id)
    BY <2>4, <2>5
  <2>7. req[p].pc = "commit" /\ p \in Simulator
    BY <1>4 DEF SimulateCommit
  <2>8. QED
    BY <2>1, <2>3, <2>5, <2>6, <2>7 DEF Writes
<1>5. \/ d \in decisions
      \/ \E c \in decisions : Elapse(c)
      \/ \E p \in Proc : \E id \in req[p].batch : JobScore(p, id)
      \/ \E p \in Proc : ReportCommit(p) \/ AutoClose(p) \/ SimulateCommit(p)
  BY DEF Next, vars, Raise, Grow, Report, Observe, DeleteRead, ObserveCommit, Simulate, JobRead,
         JobEnd, DeleteCommit, Cleanup, Cascade, Crash
<1>6. QED
  BY <1>1, <1>2, <1>3, <1>4, <1>5

\* A decision stays, unless its notification goes.
LEMMA DecisionKept ==
  ASSUME TypeOK, [Next]_vars, NEW d \in decisions
  PROVE  \/ \E e \in decisions' : e.id = d.id /\ e.notif = d.notif
         \/ age'[d.notif] = "gone"
<1>1. ASSUME NEW c \in decisions, Elapse(c)
      PROVE  \E e \in decisions' : e.id = d.id /\ e.notif = d.notif
  <2>1. [c EXCEPT !.due = TRUE].id = c.id /\ [c EXCEPT !.due = TRUE].notif = c.notif
    BY DEF TypeOK, Decision
  <2>2. QED
    BY <1>1, <2>1 DEF Elapse
<1>2. ASSUME NEW p \in Proc, NEW id \in req[p].batch, JobScore(p, id)
      PROVE  \E e \in decisions' : e.id = d.id /\ e.notif = d.notif
  <2>1. [d EXCEPT !.scored = TRUE].id = d.id /\ [d EXCEPT !.scored = TRUE].notif = d.notif
    BY DEF TypeOK, Decision
  <2>2. CASE decisions' = {IF c.id = id THEN [c EXCEPT !.scored = TRUE] ELSE c : c \in decisions}
    <3>1. (IF d.id = id THEN [d EXCEPT !.scored = TRUE] ELSE d) \in decisions'
      BY <2>2
    <3>2. QED
      BY <2>1, <3>1
  <2>3. QED
    BY <1>2, <2>2 DEF JobScore
<1>3. ASSUME NEW N \in SUBSET Notif, Cascade(N)
      PROVE  \/ \E e \in decisions' : e.id = d.id /\ e.notif = d.notif
             \/ age'[d.notif] = "gone"
  <2>1. d.notif \in Notif
    BY DEF TypeOK, Decision
  <2>2. QED
    BY <1>3, <2>1 DEF Cascade
<1>4. \/ d \in decisions'
      \/ \E c \in decisions : Elapse(c)
      \/ \E p \in Proc : \E id \in req[p].batch : JobScore(p, id)
      \/ \E N \in SUBSET Notif : Cascade(N)
  <2>1. ASSUME NEW p \in Proc, DeleteCommit(p)
        PROVE  d \in decisions' \/ \E N \in SUBSET Notif : Cascade(N)
    <3>1. {req[p].notif} \in SUBSET Notif
      BY DEF TypeOK, Request
    <3>2. QED
      BY <2>1, <3>1 DEF DeleteCommit
  <2>2. CASE Cleanup
    BY <2>2 DEF Cleanup
  <2>3. QED
    BY <2>1, <2>2 DEF Next, vars, Raise, Grow, Report, Observe, DeleteRead, ReportCommit, AutoClose,
       ObserveCommit, Simulate, SimulateCommit, JobRead, JobEnd, Crash
<1>5. QED
  BY <1>1, <1>2, <1>3, <1>4

\* What is gone stays gone.
LEMMA GoneStays ==
  ASSUME TypeOK, [Next]_vars, NEW n \in Notif, age[n] = "gone"
  PROVE  age'[n] = "gone"
<1>1. ASSUME NEW N \in SUBSET Notif, Cascade(N)
      PROVE  age'[n] = "gone"
  BY <1>1 DEF Cascade
<1>2. ASSUME NEW m \in Notif, Raise(m) \/ Grow(m)
      PROVE  age'[n] = "gone"
  BY <1>2 DEF Raise, Grow, TypeOK
<1>3. \/ UNCHANGED age
      \/ \E m \in Notif : Raise(m) \/ Grow(m)
      \/ \E N \in SUBSET Notif : Cascade(N)
  <2>1. ASSUME NEW p \in Proc, DeleteCommit(p)
        PROVE  UNCHANGED age \/ \E N \in SUBSET Notif : Cascade(N)
    <3>1. {req[p].notif} \in SUBSET Notif
      BY DEF TypeOK, Request
    <3>2. QED
      BY <2>1, <3>1 DEF DeleteCommit
  <2>2. CASE Cleanup
    BY <2>2 DEF Cleanup
  <2>3. QED
    BY <2>1, <2>2 DEF Next, vars, Report, Observe, DeleteRead, Elapse, ReportCommit, AutoClose,
       ObserveCommit, Simulate, SimulateCommit, JobRead, JobScore, JobEnd, Crash
<1>4. QED
  BY <1>1, <1>2, <1>3

\* Identifiers only grow.
LEMMA NextIdGrows ==
  ASSUME TypeOK, [Next]_vars
  PROVE  nextId \in Nat /\ nextId # None /\ nextId' \in Nat /\ nextId <= nextId'
<1>1. nextId \in Nat /\ nextId # None
  BY DEF TypeOK
<1>2. ASSUME NEW p \in Proc, SimulateCommit(p)
      PROVE  nextId' \in Nat /\ nextId <= nextId'
  <2>1. nextId' = nextId \/ nextId' = nextId + Cardinality(req[p].todo)
    BY <1>2 DEF SimulateCommit
  <2>2. QED
    BY <1>1, <2>1, TodoFinite
<1>3. ASSUME NEW p \in Proc, ReportCommit(p) \/ AutoClose(p)
      PROVE  nextId' = nextId \/ nextId' = nextId + 1
  BY <1>3 DEF ReportCommit, AutoClose
<1>4. \/ nextId' = nextId
      \/ \E p \in Proc : ReportCommit(p) \/ AutoClose(p) \/ SimulateCommit(p)
  BY DEF Next, vars, Raise, Grow, Report, Observe, DeleteRead, Elapse, ObserveCommit, Simulate,
         JobRead, JobScore, JobEnd, DeleteCommit, Cleanup, Crash
<1>5. QED
  BY <1>1, <1>2, <1>3, <1>4

\* The five kinds of process are disjoint.
LEMMA Kinds ==
  ASSUME NEW p \in Proc
  PROVE  /\ p \in Reporter => p \notin Hook \cup Simulator \cup Deleter \cup Job
         /\ p \in Hook => p \notin Simulator \cup Deleter \cup Job
         /\ p \in Simulator => p \notin Deleter \cup Job
         /\ p \in Deleter => p \notin Job
<1> DEFINE kinds == <<Reporter, Hook, Simulator, Deleter, Job>>
<1>1. \A i, j \in 1..5 : i # j => kinds[i] \cap kinds[j] = {}
  BY ProcAssumption
<1>2. kinds[1] = Reporter /\ kinds[2] = Hook /\ kinds[3] = Simulator
      /\ kinds[4] = Deleter /\ kinds[5] = Job
  OBVIOUS
<1> HIDE DEF kinds
<1>3. /\ Reporter \cap Hook = {} /\ Reporter \cap Simulator = {} /\ Reporter \cap Deleter = {}
      /\ Reporter \cap Job = {} /\ Hook \cap Simulator = {} /\ Hook \cap Deleter = {}
      /\ Hook \cap Job = {} /\ Simulator \cap Deleter = {} /\ Simulator \cap Job = {}
      /\ Deleter \cap Job = {}
  BY <1>1, <1>2
<1>4. QED
  BY <1>3

\* The steps of one process.
Steps(p) ==
    \/ \E n \in Notif : Report(p, n) \/ Observe(p, n) \/ DeleteRead(p, n)
    \/ ReportCommit(p) \/ AutoClose(p) \/ ObserveCommit(p)
    \/ Simulate(p) \/ SimulateCommit(p)
    \/ JobRead(p) \/ JobEnd(p) \/ \E id \in req[p].batch : JobScore(p, id)
    \/ DeleteCommit(p) \/ Crash(p)

\* Only a process's own steps change its state.
LEMMA OneProcess ==
  ASSUME TypeOK, [Next]_vars, NEW p \in Proc
  PROVE  req'[p] = req[p] \/ Steps(p)
<1>1. ASSUME NEW q \in Proc, Steps(q), q # p
      PROVE  req'[p] = req[p]
  BY <1>1 DEF TypeOK, Steps, Report, Observe, DeleteRead, ReportCommit, AutoClose, ObserveCommit,
     Simulate, SimulateCommit, JobRead, JobEnd, JobScore, DeleteCommit, Crash
<1>2. UNCHANGED req \/ \E q \in Proc : Steps(q)
  BY DEF Next, vars, Steps, Raise, Grow, Elapse, Cleanup
<1>3. QED
  BY <1>1, <1>2

\* A request that begins to act on a notification found no decision of it.
LEMMA FreshRequest ==
  ASSUME TypeOK, Ids, [Next]_vars, NEW p \in Proc, req'[p] # req[p]
  PROVE  /\ req'[p].begun \in {0, nextId, req[p].begun}
         /\ req'[p].pc = "commit" =>
               /\ decisions' = decisions /\ req'[p].begun = nextId
               /\ \A d \in decisions : d.notif \notin Targets(p)'
<1>1. ASSUME NEW n \in Notif
      PROVE  \A saw \in SelectDecision(n) : saw = None => DecisionsOf(n) = {}
  BY DEF SelectDecision, DecisionsOf, Ids
<1>2. ASSUME NEW n \in Notif, Report(p, n)
      PROVE  /\ req'[p].begun = nextId
             /\ decisions' = decisions
             /\ \A d \in decisions : d.notif \notin Targets(p)'
  <2>1. req'[p].notif = n /\ req'[p].begun = nextId /\ p \in Reporter /\ DecisionsOf(n) = {}
        /\ decisions' = decisions
    BY <1>2 DEF Report, TypeOK, Idle
  <2>2. Targets(p)' \subseteq {n}
    BY <2>1, Kinds DEF Targets
  <2>3. QED
    BY <2>1, <2>2 DEF DecisionsOf
<1>3. ASSUME NEW n \in Notif, Observe(p, n)
      PROVE  /\ req'[p].begun = nextId
             /\ req'[p].pc = "commit" =>
                   decisions' = decisions /\ \A d \in decisions : d.notif \notin Targets(p)'
  <2>1. PICK save \in BOOLEAN, saw \in SelectDecision(n) :
            req' = [req EXCEPT ![p] =
                [Idle EXCEPT !.pc = IF saw = None /\ save THEN "commit" ELSE "observe",
                             !.notif = n, !.saw = saw, !.save = save, !.begun = nextId]]
    BY <1>3 DEF Observe
  <2>2. req'[p].notif = n /\ req'[p].begun = nextId
        /\ req'[p].pc = IF saw = None /\ save THEN "commit" ELSE "observe"
    BY <2>1 DEF TypeOK, Idle
  <2>3. p \in Hook /\ decisions' = decisions
    BY <1>3 DEF Observe
  <2>4. Targets(p)' \subseteq {n}
    BY <2>2, <2>3, Kinds DEF Targets
  <2>5. req'[p].pc = "commit" => DecisionsOf(n) = {}
    BY <1>1, <2>2
  <2>6. QED
    BY <2>2, <2>3, <2>4, <2>5 DEF DecisionsOf
<1>4. ASSUME NEW n \in Notif, DeleteRead(p, n)
      PROVE  /\ req'[p].begun = nextId
             /\ decisions' = decisions
             /\ \A d \in decisions : d.notif \notin Targets(p)'
  <2>1. PICK saw \in SelectDecision(n) : req' = [req EXCEPT ![p] =
            [Idle EXCEPT !.pc = "commit", !.notif = n, !.saw = saw, !.begun = nextId]]
    BY <1>4 DEF DeleteRead
  <2>2. req'[p].notif = n /\ req'[p].begun = nextId /\ req'[p].saw = saw
    BY <2>1 DEF TypeOK, Idle
  <2>3. p \in Deleter /\ decisions' = decisions
    BY <1>4 DEF DeleteRead
  <2>4. Targets(p)' = {m \in Notif : saw = None /\ m = n}
    BY <2>2, <2>3, Kinds DEF Targets
  <2>5. QED
    BY <1>1, <2>2, <2>3, <2>4 DEF DecisionsOf
<1>5. ASSUME Simulate(p)
      PROVE  /\ req'[p].begun = nextId
             /\ decisions' = decisions
             /\ \A d \in decisions : d.notif \notin Targets(p)'
  <2> DEFINE pending == {n \in Notif : age[n] = "fresh" /\ DecisionsOf(n) = {}}
  <2>1. req' = [req EXCEPT ![p] = [Idle EXCEPT !.pc = "commit", !.todo = pending, !.begun = nextId]]
    BY <1>5 DEF Simulate
  <2>2. req'[p].todo = pending /\ req'[p].begun = nextId
    BY <2>1 DEF TypeOK, Idle
  <2>3. p \in Simulator /\ decisions' = decisions
    BY <1>5 DEF Simulate
  <2>4. Targets(p)' \subseteq pending
    BY <2>2, <2>3, Kinds DEF Targets
  <2>5. QED
    BY <2>2, <2>3, <2>4 DEF DecisionsOf
<1>6. ASSUME \/ ReportCommit(p) \/ AutoClose(p) \/ ObserveCommit(p) \/ SimulateCommit(p)
             \/ JobRead(p) \/ JobEnd(p) \/ DeleteCommit(p) \/ Crash(p)
             \/ \E id \in req[p].batch : JobScore(p, id)
      PROVE  req'[p].begun \in {0, req[p].begun} /\ req'[p].pc # "commit"
  <2>1. CASE req' = [req EXCEPT ![p] = Idle]
    BY <2>1 DEF TypeOK, Idle
  <2>2. CASE AutoClose(p)
    <3>1. CASE req' = [req EXCEPT ![p].pc = "observe", ![p].saw = nextId]
      <4>1. [req[p] EXCEPT !.pc = "observe", !.saw = nextId].begun = req[p].begun
            /\ [req[p] EXCEPT !.pc = "observe", !.saw = nextId].pc = "observe"
        BY DEF TypeOK, Request
      <4>2. req'[p] = [req[p] EXCEPT !.pc = "observe", !.saw = nextId]
        BY <3>1 DEF TypeOK
      <4>3. QED
        BY <4>1, <4>2
    <3>2. QED
      BY <2>1, <2>2, <3>1 DEF AutoClose
  <2>3. CASE JobRead(p)
    BY <2>3 DEF JobRead, TypeOK, Idle
  <2>4. CASE \E id \in req[p].batch : JobScore(p, id)
    BY <2>1, <2>4 DEF JobScore, TypeOK, Request
  <2>5. QED
    BY <1>6, <2>1, <2>2, <2>3, <2>4
       DEF ReportCommit, ObserveCommit, SimulateCommit, JobEnd, DeleteCommit, Crash
<1>7. QED
  BY <1>2, <1>3, <1>4, <1>5, <1>6, OneProcess DEF Steps

\* Identifiers stay below the counter, and requests know what was there when they began.
LEMMA AwareStep ==
  ASSUME TypeOK, Ids, Unaware, SecondDecisionNeedsOverlap, [Next]_vars
  PROVE  Ids' /\ Unaware' /\ SecondDecisionNeedsOverlap'
<1>1. TypeOK'
  BY TypeStep
<1>2. nextId \in Nat /\ nextId # None /\ nextId' \in Nat /\ nextId <= nextId'
  BY NextIdGrows
<1>3. \A d \in decisions : d.id \in Nat /\ d.begun \in Nat
  BY DEF TypeOK, Decision
<1>4. \A d \in decisions' : d.id \in Nat /\ d.begun \in Nat
  BY <1>1 DEF TypeOK, Decision
<1> DEFINE Kept(d) == \E c \in decisions : c.id = d.id /\ c.notif = d.notif /\ c.begun = d.begun
           Made(d, p) == /\ req[p].pc = "commit" /\ Writes(p, d.notif) /\ Present(d.notif)
                         /\ d.begun = req[p].begun
                         /\ nextId <= d.id /\ d.id < nextId'
                         /\ \A e \in decisions' : e \in decisions \/ (e.notif = d.notif => e.id = d.id)
<1>5. \A d \in decisions' : Kept(d) \/ \E p \in Proc : Made(d, p)
  BY DecisionStep
<1>6. Ids'
  <2>1. ASSUME NEW d \in decisions'
        PROVE  d.id # None /\ d.id < nextId'
    <3>1. CASE Kept(d)
      BY <1>2, <1>3, <3>1 DEF Ids
    <3>2. CASE \E p \in Proc : Made(d, p)
      BY <1>2, <1>4, <3>2 DEF None
    <3>3. QED
      BY <1>5, <3>1, <3>2
  <2>2. QED
    BY <2>1 DEF Ids
<1>7. Unaware'
  <2>1. ASSUME NEW p \in Proc
        PROVE  req'[p].begun <= nextId'
    <3>1. req[p].begun \in Nat /\ req[p].begun <= nextId
      BY DEF TypeOK, Request, Unaware
    <3>2. CASE req'[p] = req[p]
      BY <1>2, <3>1, <3>2
    <3>3. CASE req'[p] # req[p]
      BY <1>2, <3>1, <3>3, FreshRequest
    <3>4. QED
      BY <3>2, <3>3
  <2>2. ASSUME NEW p \in Proc, req'[p].pc = "commit", NEW d \in decisions', d.notif \in Targets(p)'
        PROVE  req'[p].begun <= d.id
    <3>1. req[p].begun \in Nat /\ req[p].begun <= nextId
      BY DEF TypeOK, Request, Unaware
    <3>2. CASE req'[p] # req[p]
      BY <2>2, <3>2, FreshRequest
    <3>3. CASE req'[p] = req[p] /\ Kept(d)
      <4>1. d.notif \in Targets(p) /\ req[p].pc = "commit"
        BY <2>2, <3>3 DEF Targets
      <4>2. QED
        BY <3>3, <4>1 DEF Unaware
    <3>4. CASE req'[p] = req[p] /\ \E q \in Proc : Made(d, q)
      BY <1>2, <1>4, <3>1, <3>4
    <3>5. QED
      BY <1>5, <3>2, <3>3, <3>4
  <2>3. QED
    BY <2>1, <2>2 DEF Unaware
<1>8. SecondDecisionNeedsOverlap'
  <2>1. ASSUME NEW d \in decisions', NEW e \in decisions', d.notif = e.notif, d.id < e.id
        PROVE  e.begun <= d.id
    <3>1. CASE Kept(d) /\ Kept(e)
      BY <2>1, <3>1 DEF SecondDecisionNeedsOverlap
    <3>2. ASSUME NEW p \in Proc, Kept(d), Made(e, p)
          PROVE  e.begun <= d.id
      <4>1. PICK c \in decisions : c.id = d.id /\ c.notif = e.notif
        BY <2>1, <3>2
      <4>2. c.notif \in Targets(p)
        <5>1. c.notif \in Notif
          BY DEF TypeOK, Decision
        <5>2. QED
          BY <3>2, <4>1, <5>1 DEF Writes, Targets
      <4>3. QED
        BY <3>2, <4>1, <4>2 DEF Unaware
    <3>3. ASSUME NEW p \in Proc, Made(d, p), Kept(e)
          PROVE  FALSE
      <4>1. e.id < nextId
        BY <3>3 DEF Ids
      <4>2. QED
        BY <1>2, <1>4, <2>1, <3>3, <4>1
    <3>4. ASSUME NEW p \in Proc, Made(d, p), e \notin decisions
          PROVE  FALSE
      <4>1. e.id = d.id
        BY <2>1, <3>4
      <4>2. QED
        BY <1>4, <2>1, <4>1
    <3>5. e \in decisions => Kept(e)
      OBVIOUS
    <3>6. QED
      BY <1>5, <3>1, <3>2, <3>3, <3>4, <3>5
  <2>2. QED
    BY <2>1 DEF SecondDecisionNeedsOverlap
<1>9. QED
  BY <1>6, <1>7, <1>8

-----------------------------------------------------------------------------
(* Observations *)

\* A webhook about to record its observation had it in mind before the step, or has just
\* read or made the decision it names.
LEMMA HookStep ==
  ASSUME TypeOK, Ids, [Next]_vars, NEW p \in Hook, req'[p] # req[p], req'[p].pc = "observe"
  PROVE  /\ req'[p].save => req'[p].saw # None
         /\ req'[p].saw # None =>
               \E d \in decisions' : d.id = req'[p].saw /\ d.notif = req'[p].notif
<1>1. p \in Proc
  BY DEF Proc
<1>2. ASSUME NEW n \in Notif, Observe(p, n)
      PROVE  /\ req'[p].save => req'[p].saw # None
             /\ req'[p].saw # None =>
                   \E d \in decisions' : d.id = req'[p].saw /\ d.notif = req'[p].notif
  <2>1. PICK save \in BOOLEAN, saw \in SelectDecision(n) :
            req' = [req EXCEPT ![p] =
                [Idle EXCEPT !.pc = IF saw = None /\ save THEN "commit" ELSE "observe",
                             !.notif = n, !.saw = saw, !.save = save, !.begun = nextId]]
    BY <1>2 DEF Observe
  <2>2. req'[p].notif = n /\ req'[p].saw = saw /\ req'[p].save = save
        /\ req'[p].pc = IF saw = None /\ save THEN "commit" ELSE "observe"
    BY <1>1, <2>1 DEF TypeOK, Idle
  <2>3. ~(saw = None /\ save)
    BY <2>2
  <2>4. saw # None => \E d \in decisions : d.id = saw /\ d.notif = n
    BY DEF SelectDecision, DecisionsOf
  <2>5. decisions' = decisions
    BY <1>2 DEF Observe
  <2>6. QED
    BY <2>2, <2>3, <2>4, <2>5
<1>3. ASSUME AutoClose(p)
      PROVE  /\ req'[p].saw # None
             /\ \E d \in decisions' : d.id = req'[p].saw /\ d.notif = req'[p].notif
  <2>1. req' # [req EXCEPT ![p] = Idle]
    BY <1>1 DEF TypeOK, Idle
  <2>2. PICK before \in BOOLEAN :
            decisions' = decisions \cup {NewDecision(p, req[p].notif, nextId, before, FALSE)}
    BY <1>3, <2>1 DEF AutoClose
  <2>3. req' = [req EXCEPT ![p].pc = "observe", ![p].saw = nextId]
    BY <1>3, <2>1 DEF AutoClose
  <2>4. [req[p] EXCEPT !.pc = "observe", !.saw = nextId].saw = nextId
        /\ [req[p] EXCEPT !.pc = "observe", !.saw = nextId].notif = req[p].notif
    BY <1>1 DEF TypeOK, Request
  <2>5. req'[p] = [req[p] EXCEPT !.pc = "observe", !.saw = nextId]
    BY <1>1, <2>3 DEF TypeOK
  <2>6. /\ NewDecision(p, req[p].notif, nextId, before, FALSE).id = nextId
        /\ NewDecision(p, req[p].notif, nextId, before, FALSE).notif = req[p].notif
    BY DEF NewDecision
  <2>7. nextId # None
    BY DEF TypeOK
  <2>8. QED
    BY <2>2, <2>4, <2>5, <2>6, <2>7
<1>4. ASSUME ~\E n \in Notif : Observe(p, n), ~AutoClose(p)
      PROVE  FALSE
  <2>1. p \notin Reporter \cup Simulator \cup Deleter \cup Job
    BY <1>1, Kinds
  <2>2. ObserveCommit(p) \/ Crash(p)
    BY <1>1, <1>4, <2>1, OneProcess
       DEF Steps, Report, DeleteRead, ReportCommit, Simulate, SimulateCommit, JobRead, JobEnd,
           JobScore, DeleteCommit
  <2>3. req' = [req EXCEPT ![p] = Idle]
    BY <2>2 DEF ObserveCommit, Crash
  <2>4. QED
    BY <1>1, <2>3 DEF TypeOK, Idle
<1>5. QED
  BY <1>2, <1>3, <1>4

\* What is observed was observed before and its notification is there still, or a webhook
\* has just recorded it about a notification that is there.
LEMMA ObservedStep ==
  ASSUME TypeOK, Lasting, [Next]_vars, NEW o \in observed'
  PROVE  /\ age'[o.notif] # "gone"
         /\ \/ o \in observed
            \/ /\ UNCHANGED <<age, decisions>>
               /\ \E p \in Hook : /\ req[p].pc = "observe"
                                  /\ o.notif = req[p].notif /\ o.decision = req[p].saw
                                  /\ o.save = req[p].save
<1>1. ASSUME NEW N \in SUBSET Notif, Cascade(N)
      PROVE  o \in observed /\ age'[o.notif] # "gone"
  <2>1. o \in observed /\ o.notif \notin N /\ o.notif \in Notif
    BY <1>1 DEF Cascade, TypeOK, Observation
  <2>2. QED
    BY <1>1, <2>1 DEF Cascade, Lasting
<1>2. ASSUME NEW p \in Proc, ObserveCommit(p), o \notin observed
      PROVE  /\ age'[o.notif] # "gone" /\ UNCHANGED <<age, decisions>>
             /\ p \in Hook /\ req[p].pc = "observe" /\ o.notif = req[p].notif
             /\ o.decision = req[p].saw /\ o.save = req[p].save
  BY <1>2 DEF ObserveCommit, Present
<1>3. ASSUME NEW n \in Notif, Raise(n) \/ Grow(n)
      PROVE  o \in observed /\ age'[o.notif] # "gone"
  <2>1. o \in observed /\ o.notif \in Notif
    BY <1>3 DEF Raise, Grow, TypeOK, Observation
  <2>2. QED
    BY <1>3, <2>1 DEF Raise, Grow, TypeOK, Lasting
<1>4. \/ o \in observed /\ UNCHANGED age
      \/ \E N \in SUBSET Notif : Cascade(N)
      \/ \E n \in Notif : Raise(n) \/ Grow(n)
      \/ \E p \in Proc : ObserveCommit(p) /\ o \notin observed
  <2>1. ASSUME NEW p \in Proc, DeleteCommit(p)
        PROVE  (o \in observed /\ UNCHANGED age) \/ \E N \in SUBSET Notif : Cascade(N)
    <3>1. {req[p].notif} \in SUBSET Notif
      BY DEF TypeOK, Request
    <3>2. QED
      BY <2>1, <3>1 DEF DeleteCommit
  <2>2. CASE Cleanup
    BY <2>2 DEF Cleanup
  <2>3. ASSUME NEW p \in Proc, ObserveCommit(p)
        PROVE  UNCHANGED age
    BY <2>3 DEF ObserveCommit
  <2>4. QED
    BY <2>1, <2>2, <2>3 DEF Next, vars, Report, Observe, DeleteRead, Elapse, ReportCommit,
       AutoClose, Simulate, SimulateCommit, JobRead, JobScore, JobEnd, Crash
<1>5. QED
  BY <1>1, <1>2, <1>3, <1>4 DEF Lasting

\* The decision an observation names, or will name, outlives everything but its notification.
LEMMA LinkStep ==
  ASSUME TypeOK, Ids, Linked, Lasting, LoopClosed, [Next]_vars
  PROVE  Linked' /\ Lasting' /\ LoopClosed'
<1>1. ASSUME NEW n \in Notif, NEW id, \E d \in decisions : d.id = id /\ d.notif = n
      PROVE  (\E d \in decisions' : d.id = id /\ d.notif = n) \/ age'[n] = "gone"
  BY <1>1, DecisionKept
<1>2. Linked'
  <2>1. ASSUME NEW p \in Hook, req'[p].pc = "observe"
        PROVE  /\ req'[p].save => req'[p].saw # None
               /\ req'[p].saw # None =>
                     \/ age'[req'[p].notif] = "gone"
                     \/ \E d \in decisions' : d.id = req'[p].saw /\ d.notif = req'[p].notif
    <3>1. CASE req'[p] # req[p]
      BY <2>1, <3>1, HookStep
    <3>2. CASE req'[p] = req[p]
      <4>1. req[p].notif \in Notif
        BY DEF TypeOK, Request, Proc
      <4>2. /\ req[p].save => req[p].saw # None
            /\ req[p].saw # None =>
                  \/ age[req[p].notif] = "gone"
                  \/ \E d \in decisions : d.id = req[p].saw /\ d.notif = req[p].notif
        BY <2>1, <3>2 DEF Linked
      <4>3. QED
        BY <1>1, <3>2, <4>1, <4>2, GoneStays
    <3>3. QED
      BY <3>1, <3>2
  <2>2. QED
    BY <2>1 DEF Linked
<1>3. Lasting'
  BY ObservedStep DEF Lasting
<1>4. LoopClosed'
  <2>1. ASSUME NEW o \in observed'
        PROVE  /\ o.save => o.decision # None
               /\ o.decision # None => \E d \in decisions' : d.id = o.decision /\ d.notif = o.notif
    <3>1. age'[o.notif] # "gone"
      BY ObservedStep
    <3>2. CASE o \in observed
      <4>1. o.notif \in Notif
        BY <3>2 DEF TypeOK, Observation
      <4>2. QED
        BY <1>1, <3>1, <3>2, <4>1 DEF LoopClosed
    <3>3. CASE o \notin observed
      <4>1. UNCHANGED <<age, decisions>>
        BY <3>3, ObservedStep
      <4>2. PICK p \in Hook : /\ req[p].pc = "observe"
                              /\ o.notif = req[p].notif /\ o.decision = req[p].saw
                              /\ o.save = req[p].save
        BY <3>3, ObservedStep
      <4>3. QED
        BY <3>1, <4>1, <4>2 DEF Linked
    <3>4. QED
      BY <3>2, <3>3
  <2>2. QED
    BY <2>1 DEF LoopClosed
<1>5. QED
  BY <1>2, <1>3, <1>4

-----------------------------------------------------------------------------
(* The theorems *)

\* The invariant of the specification.
THEOREM Invariance == Spec => []IInv
<1>1. Init => IInv
  <2> SUFFICES ASSUME Init PROVE IInv
    OBVIOUS
  <2>1. TypeOK
    BY IdleType DEF Init, TypeOK, None
  <2>2. \A p \in Proc : req[p].pc = "idle" /\ req[p].begun = 0
    BY DEF Init, Idle
  <2>3. decisions = {} /\ observed = {} /\ nextId = 1
    BY DEF Init
  <2>4. Unaware
    BY <2>2, <2>3 DEF Unaware
  <2>5. Linked
    BY <2>2 DEF Linked, Proc
  <2>6. QED
    BY <2>1, <2>3, <2>4, <2>5 DEF IInv, Ids, SecondDecisionNeedsOverlap, Lasting, LoopClosed
<1>2. IInv /\ [Next]_vars => IInv'
  BY TypeStep, AwareStep, LinkStep DEF IInv
<1>3. QED
  BY <1>1, <1>2, PTL DEF Spec

\* Two decisions on one notification come from requests that overlapped, however many
\* requests there are.
THEOREM SecondDecisionsOverlap == Spec => []SecondDecisionNeedsOverlap
<1>1. IInv => SecondDecisionNeedsOverlap
  BY DEF IInv
<1>2. QED
  BY <1>1, Invariance, PTL

\* Every observation of a saving action names an existing decision of its notification.
THEOREM LoopIsClosed == Spec => []LoopClosed
<1>1. IInv => LoopClosed
  BY DEF IInv
<1>2. QED
  BY <1>1, Invariance, PTL

\* A user's delete request removes no decision that was committed before it began.
THEOREM DeletesKeepWhatTheySaw == Spec => DeleteKeepsWhatItSaw
<1>1. ASSUME IInv, [Next]_vars, NEW p \in Deleter, req[p].pc = "commit", req'[p].pc = "idle",
             NEW d \in decisions, Gone(d)
      PROVE  req[p].begun <= d.id
  <2>1. p \in Proc /\ TypeOK
    BY <1>1 DEF Proc, IInv
  <2>2. p \notin Reporter \cup Hook \cup Simulator \cup Job
    BY <2>1, Kinds
  <2>3. DeleteCommit(p) \/ Crash(p)
    BY <1>1, <2>1, <2>2, OneProcess
       DEF Steps, Report, Observe, DeleteRead, Begin, ReportCommit, AutoClose, ObserveCommit,
           Simulate, SimulateCommit, JobRead, JobEnd, JobScore
  <2>4. ~UNCHANGED decisions
    BY <1>1 DEF Gone
  <2>5. req[p].saw = None /\ Cascade({req[p].notif})
    BY <2>3, <2>4 DEF DeleteCommit, Crash
  <2>6. d.notif = req[p].notif /\ d.notif \in Notif
    <3>1. d \notin decisions' /\ d.notif \in Notif
      BY <1>1, <2>1 DEF Gone, TypeOK, Decision
    <3>2. QED
      BY <2>5, <3>1 DEF Cascade
  <2>7. d.notif \in Targets(p)
    BY <1>1, <2>5, <2>6 DEF Targets
  <2>8. QED
    BY <1>1, <2>1, <2>7 DEF IInv, Unaware
<1>2. IInv /\ [Next]_vars =>
        [\A p \in Deleter : req[p].pc = "commit" /\ req'[p].pc = "idle" =>
            \A d \in decisions : Gone(d) => req[p].begun <= d.id]_vars
  BY <1>1
<1>3. QED
  BY <1>2, Invariance, PTL DEF Spec, DeleteKeepsWhatItSaw
=============================================================================
