--------------------------- MODULE IngestionProofs ---------------------------
(***************************************************************************)
(* Proofs about Ingestion for every number of messages, workers, devices,  *)
(* faults and repetitions, and for both schemas.                           *)
(*                                                                         *)
(* None of the properties is inductive: they speak of the rows and say     *)
(* nothing of the coroutines that are about to write one.  The             *)
(* strengthening, Pending, says what a coroutine carries: the stamp of its *)
(* message, the point written for it, and, past the guard, that every row  *)
(* near its time is younger than the message's arrival.                    *)
(***************************************************************************)
EXTENDS Ingestion, FiniteSetTheorems, TLAPS

FiniteTasks == IsFiniteSet(tasks)

\* What a coroutine past the guard knows of the rows of its device.
Unguarded(t) ==
    \A r \in rows : r.device \in t.device /\ Near(r.at, t.at) => t.begun <= r.id

Pending ==
    \A t \in tasks :
        /\ msg[t.msg].sent
        /\ msg[t.msg].stamp # NoStamp => t.at = msg[t.msg].stamp
        /\ t.begun <= nextRow
        /\ t.at \in points \/ t.msg \in noPoint
        /\ t.pc = "insert" => Unguarded(t)

\* Only what was published travels or is handled, and ids only grow.
Books ==
    /\ \A m \in Msg : net[m] > 0 => msg[m].sent
    /\ \A m \in handled : msg[m].sent
    /\ \A r \in rows : r.id < nextRow

IInv == TypeOK /\ FiniteTasks /\ Pending /\ Books

-----------------------------------------------------------------------------
(* Types *)

\* There is an id left for another coroutine, and FreshTask is one.
LEMMA FreshId ==
  ASSUME TypeOK, FiniteTasks
  PROVE  FreshTask \in Nat
<1> DEFINE n == Cardinality(tasks)
<1> DEFINE Ids == {t.id : t \in tasks}
<1>1. n \in Nat
  BY FS_CardinalityType DEF FiniteTasks
<1>2. IsFiniteSet(Ids) /\ Cardinality(Ids) <= n
  <2> DEFINE f == [t \in tasks |-> t.id]
  <2>1. f \in Surjection(tasks, Ids)
    BY DEF Surjection
  <2>2. QED
    BY <2>1, FS_Surjection DEF FiniteTasks
<1>3. IsFiniteSet(1..(n + 1)) /\ Cardinality(1..(n + 1)) = n + 1
  BY <1>1, FS_Interval
<1>4. ~(1..(n + 1) \subseteq Ids)
  <2>1. SUFFICES ASSUME 1..(n + 1) \subseteq Ids
                 PROVE  FALSE
    OBVIOUS
  <2>2. Cardinality(1..(n + 1)) <= Cardinality(Ids)
    BY <1>2, <2>1, FS_Subset
  <2>3. Cardinality(Ids) \in Nat
    BY <1>2, FS_CardinalityType
  <2>4. QED
    BY <1>1, <1>2, <1>3, <2>2, <2>3
<1>5. \E i \in 1..(n + 1) : \A t \in tasks : t.id # i
  BY <1>4
<1>6. FreshTask \in 1..(n + 1)
  BY <1>5 DEF FreshTask
<1>7. QED
  BY <1>1, <1>6

\* A step of the coroutines leaves finitely many.
LEMMA FiniteStep ==
  ASSUME FiniteTasks, [Next]_vars
  PROVE  FiniteTasks'
<1>1. \E S : (IsFiniteSet(S) /\ tasks' \subseteq tasks \cup S)
  <2>1. ASSUME NEW w \in Worker, NEW m \in Msg, Receive(w, m)
        PROVE  \E x : tasks' \subseteq tasks \cup {x}
    BY <2>1 DEF Receive
  <2>2. ASSUME NEW t \in tasks, NoDevice(t) \/ WriteFails(t) \/ Skip(t) \/ Check(t) \/ Insert(t)
        PROVE  \E x : tasks' \subseteq tasks \cup {x}
    BY <2>2 DEF NoDevice, WriteFails, Skip, Check, Insert
  <2>3. CASE \/ \E m \in Msg : Publish(m) \/ Resend(m) \/ Reject(m)
             \/ \E w \in Worker : on_connect(w) \/ on_disconnect(w) \/ stop_mqtt(w)
             \/ Outage
             \/ \E d \in Device : Toggle(d) \/ \E at \in Time : Submit(d, at)
             \/ Tick \/ UNCHANGED vars
    <3>1. tasks' \subseteq tasks
      BY <2>3 DEF Publish, Resend, Reject, on_connect, on_disconnect, stop_mqtt, Leave, Outage,
                  Toggle, Submit, Tick, vars
    <3>2. QED
      BY <3>1, FS_EmptySet
  <2>4. \A x : IsFiniteSet({x})
    BY FS_Singleton
  <2>5. QED
    BY <2>1, <2>2, <2>3, <2>4 DEF Next
<1>2. PICK S : IsFiniteSet(S) /\ tasks' \subseteq tasks \cup S
  BY <1>1
<1>3. IsFiniteSet(tasks \cup S)
  BY <1>2, FS_Union DEF FiniteTasks
<1>4. QED
  BY <1>2, <1>3, FS_Subset DEF FiniteTasks

\* What leaves the shared subscription leaves the state well typed.
LEMMA LeaveTypes ==
  ASSUME TypeOK, NEW gone, NEW dropped \in SUBSET tasks, Leave(gone, dropped)
  PROVE  /\ joined' \in SUBSET Worker
         /\ net' \in [Msg -> Nat]
         /\ \A m \in Msg : net'[m] > 0 => net[m] > 0
         /\ lost \subseteq lost' /\ lost' \in SUBSET Msg
         /\ {t.msg : t \in dropped} \subseteq lost'
         /\ tasks' = tasks \ dropped
         /\ \A m \in Msg : net[m] > 0 => net'[m] > 0 \/ m \in lost'
<1>1. PICK S \in SUBSET {m \in Msg : gone \cap joined # {} /\ net[m] > 0} :
        /\ joined' = {} => \A m \in Msg \ S : net[m] = 0
        /\ net' = [m \in Msg |-> IF m \notin S THEN net[m]
                                 ELSE IF joined' = {} THEN 0 ELSE net[m] - 1]
        /\ lost' = lost \cup S \cup {t.msg : t \in dropped}
  BY DEF Leave
<1>2. \A m \in S : m \in Msg /\ net[m] > 0
  BY <1>1
<1>3. net' \in [Msg -> Nat] /\ \A m \in Msg : net'[m] > 0 => net[m] > 0
  <2>1. ASSUME NEW m \in Msg
        PROVE  /\ (IF m \notin S THEN net[m] ELSE IF joined' = {} THEN 0 ELSE net[m] - 1) \in Nat
               /\ net'[m] > 0 => net[m] > 0
    BY <1>1, <1>2, <2>1 DEF TypeOK
  <2>2. QED
    BY <1>1, <2>1
<1>4. {t.msg : t \in dropped} \subseteq Msg
  BY DEF TypeOK, Task
<1>5. joined' \in SUBSET Worker /\ tasks' = tasks \ dropped
  BY DEF Leave, TypeOK
<1>6. \A m \in Msg : net[m] > 0 => net'[m] > 0 \/ m \in lost'
  BY <1>1
<1>7. QED
  BY <1>1, <1>2, <1>3, <1>4, <1>5, <1>6 DEF TypeOK

\* So does what the broker does with a message.
LEMMA RoutedTypes ==
  ASSUME TypeOK, NEW m \in Msg, Routed(m)
  PROVE  /\ net' \in [Msg -> Nat]
         /\ lost \subseteq lost' /\ lost' \in SUBSET Msg
         /\ \A k \in Msg : net[k] > 0 => net'[k] > 0
         /\ \A k \in Msg : net'[k] > 0 => net[k] > 0 \/ k = m
         /\ net'[m] > 0 \/ m \in lost'
<1>1. CASE joined # {}
  <2>1. net' = [net EXCEPT ![m] = @ + 1] /\ lost' = lost
    BY <1>1 DEF Routed
  <2>2. QED
    BY <2>1 DEF TypeOK
<1>2. CASE joined = {}
  BY <1>2 DEF Routed, TypeOK
<1>3. QED
  BY <1>1, <1>2

\* A new row is a row.
LEMMA StoredTypes ==
  ASSUME TypeOK, NEW d \in Device, NEW t \in Time, NEW origin \in [msg : SUBSET Msg, begun : Nat],
         Stored(d, t, origin)
  PROVE  /\ rows' \in SUBSET Row /\ nextRow' = nextRow + 1 /\ nextRow' \in Nat
         /\ rows \subseteq rows'
         /\ \E r \in rows' : /\ r.id = nextRow /\ r.device = d /\ r.at = t
                             /\ r.msg = origin.msg /\ r.begun = origin.begun
                             /\ rows' = rows \cup {r}
<1> DEFINE r == [id |-> nextRow, device |-> d, at |-> t, msg |-> origin.msg, begun |-> origin.begun]
<1>1. r \in Row
  BY DEF Row, TypeOK
<1>2. rows' = rows \cup {r} /\ nextRow' = nextRow + 1
  BY DEF Stored
<1>3. QED
  BY <1>1, <1>2 DEF TypeOK

\* Every step keeps the types.
LEMMA TypeStep ==
  ASSUME TypeOK, FiniteTasks, [Next]_vars
  PROVE  TypeOK'
<1> USE DEF counters
<1>1. ASSUME NEW m \in Msg, Publish(m), uniqueKey' = uniqueKey
      PROVE  TypeOK'
  <2>1. PICK stamp \in {clock, NoStamp}, valid \in BOOLEAN :
            msg' = [msg EXCEPT ![m] = [stamp |-> stamp, valid |-> valid, sent |-> TRUE]]
    BY <1>1 DEF Publish
  <2>2. msg' \in [Msg -> [stamp : Time \cup {NoStamp}, valid : BOOLEAN, sent : BOOLEAN]]
    BY <2>1 DEF TypeOK
  <2>3. net' \in [Msg -> Nat] /\ lost' \in SUBSET Msg
    BY <1>1, RoutedTypes DEF Publish
  <2>4. QED
    BY <1>1, <2>2, <2>3 DEF TypeOK, Publish
<1>2. ASSUME NEW m \in Msg, Resend(m), uniqueKey' = uniqueKey
      PROVE  TypeOK'
  <2>1. net' \in [Msg -> Nat] /\ lost' \in SUBSET Msg
    BY <1>2, RoutedTypes DEF Resend
  <2>2. QED
    BY <1>2, <2>1 DEF TypeOK, Resend
<1>3. ASSUME NEW m \in Msg, Reject(m), uniqueKey' = uniqueKey
      PROVE  TypeOK'
  BY <1>3 DEF TypeOK, Reject
<1>4. ASSUME NEW w \in Worker, NEW m \in Msg, Receive(w, m), uniqueKey' = uniqueKey
      PROVE  TypeOK'
  <2> DEFINE at == IF msg[m].stamp = NoStamp THEN clock ELSE msg[m].stamp
  <2> DEFINE task == [id |-> FreshTask, worker |-> w, msg |-> m, at |-> at,
                      begun |-> nextRow, pc |-> "queued", device |-> {}]
  <2>1. at \in Time
    BY DEF TypeOK
  <2>2. task \in Task
    BY <2>1, FreshId DEF Task, TypeOK
  <2>3. tasks' = tasks \cup {task} /\ net' = [net EXCEPT ![m] = @ - 1] /\ net[m] > 0
    BY <1>4 DEF Receive
  <2>4. net' \in [Msg -> Nat]
    BY <2>3 DEF TypeOK
  <2>5. points' \in SUBSET Time /\ noPoint' \in SUBSET Msg /\ faults' \in Nat
    BY <1>4, <2>1 DEF Receive, Fault, TypeOK
  <2>6. QED
    BY <1>4, <2>2, <2>3, <2>4, <2>5 DEF TypeOK, Receive
<1>5. ASSUME NEW t \in tasks, NoDevice(t) \/ WriteFails(t) \/ Skip(t), uniqueKey' = uniqueKey
      PROVE  TypeOK'
  <2>1. t.msg \in Msg
    BY DEF TypeOK, Task
  <2>2. QED
    BY <1>5, <2>1 DEF TypeOK, NoDevice, WriteFails, Skip, Fault
<1>6. ASSUME NEW t \in tasks, Check(t), uniqueKey' = uniqueKey
      PROVE  TypeOK'
  <2>1. PICK d \in active : tasks' = (tasks \ {t}) \cup {[t EXCEPT !.pc = "insert", !.device = {d}]}
    BY <1>6 DEF Check
  <2>2. [t EXCEPT !.pc = "insert", !.device = {d}] \in Task
    BY <2>1 DEF TypeOK, Task
  <2>3. QED
    BY <1>6, <2>1, <2>2 DEF TypeOK, Check
<1>7. ASSUME NEW t \in tasks, Insert(t), uniqueKey' = uniqueKey
      PROVE  TypeOK'
  <2>1. t.msg \in Msg /\ t.device \in SUBSET Device /\ t.at \in Time /\ t.begun \in Nat
    BY DEF TypeOK, Task
  <2>2. rows' \in SUBSET Row /\ nextRow' \in Nat
    <3>1. PICK d \in t.device : IF Refused(d, t.at) THEN UNCHANGED <<rows, nextRow>>
                                ELSE Stored(d, t.at, [msg |-> {t.msg}, begun |-> t.begun])
      BY <1>7 DEF Insert
    <3>2. CASE Refused(d, t.at)
      BY <3>1, <3>2 DEF TypeOK
    <3>3. CASE ~Refused(d, t.at)
      BY <2>1, <3>1, <3>3, StoredTypes
    <3>4. QED
      BY <3>2, <3>3
  <2>3. QED
    BY <1>7, <2>1, <2>2 DEF TypeOK, Insert
<1>8. ASSUME NEW gone, NEW dropped \in SUBSET tasks, Leave(gone, dropped), Fault,
             UNCHANGED <<clock, active, msg, rows, nextRow, points, handled, noPoint, resends, https>>,
             uniqueKey' = uniqueKey
      PROVE  TypeOK'
  <2>1. /\ joined' \in SUBSET Worker /\ net' \in [Msg -> Nat] /\ lost' \in SUBSET Msg
        /\ tasks' = tasks \ dropped
    BY <1>8, LeaveTypes
  <2>2. QED
    BY <1>8, <2>1 DEF TypeOK, Fault
<1>9. ASSUME NEW w \in Worker, on_connect(w), uniqueKey' = uniqueKey
      PROVE  TypeOK'
  BY <1>9 DEF TypeOK, on_connect
<1>10. ASSUME NEW w \in Worker, on_disconnect(w) \/ stop_mqtt(w), uniqueKey' = uniqueKey
       PROVE  TypeOK'
  BY <1>8, <1>10 DEF on_disconnect, stop_mqtt
<1>11. ASSUME Outage, uniqueKey' = uniqueKey
       PROVE  TypeOK'
  BY <1>8, <1>11 DEF Outage
<1>12. ASSUME NEW d \in Device, Toggle(d), uniqueKey' = uniqueKey
       PROVE  TypeOK'
  BY <1>12 DEF TypeOK, Toggle, Fault, add_device, deactivate_device
<1>13. ASSUME NEW d \in Device, NEW at \in Time, Submit(d, at), uniqueKey' = uniqueKey
       PROVE  TypeOK'
  <2>1. Http \in [msg : SUBSET Msg, begun : Nat]
    BY DEF Http
  <2>2. rows' \in SUBSET Row /\ nextRow' \in Nat
    BY <1>13, <2>1, StoredTypes DEF Submit
  <2>3. QED
    BY <1>13, <2>2 DEF TypeOK, Submit
<1>14. ASSUME Tick, uniqueKey' = uniqueKey
       PROVE  TypeOK'
  BY <1>14, TimeAssumption DEF TypeOK, Tick, Time
<1>15. CASE UNCHANGED vars
  BY <1>15 DEF TypeOK, vars
<1>16. QED
  BY <1>1, <1>2, <1>3, <1>4, <1>5, <1>6, <1>7, <1>9, <1>10, <1>11, <1>12, <1>13, <1>14, <1>15
     DEF Next

\* Whatever is published, repeated, lost or deactivated, every variable keeps its type.
THEOREM TypeCorrect == Spec => [](TypeOK /\ FiniteTasks)
<1>1. Init => TypeOK /\ FiniteTasks
  BY FS_EmptySet, FirstAssumption, TimeAssumption
     DEF Init, TypeOK, FiniteTasks, Unpublished, Time, Msg
<1>2. TypeOK /\ FiniteTasks /\ [Next]_vars => (TypeOK /\ FiniteTasks)'
  BY TypeStep, FiniteStep
<1>3. QED
  BY <1>1, <1>2, PTL DEF Spec

-----------------------------------------------------------------------------
(* What coroutines carry *)

\* Messages keep their stamps once sent.
LEMMA StampsKept ==
  ASSUME TypeOK, [Next]_vars
  PROVE  \A m \in Msg : msg[m].sent => msg'[m] = msg[m]
<1>1. ASSUME NEW m \in Msg, NEW n \in Msg, Publish(n), msg[m].sent
      PROVE  msg'[m] = msg[m]
  BY <1>1 DEF Publish, TypeOK
<1>2. CASE ~\E n \in Msg : Publish(n)
  <2>1. msg' = msg
    BY <1>2 DEF Next, vars, Resend, Reject, Receive, NoDevice, WriteFails, Skip, Check, Insert, on_connect,
                on_disconnect, stop_mqtt, Outage, Toggle, Submit, Tick
  <2>2. QED
    BY <2>1
<1>3. QED
  BY <1>1, <1>2

\* Rows and points stay, and ids, like the messages known to lack a point, only grow.
LEMMA StoresGrow ==
  ASSUME TypeOK, [Next]_vars
  PROVE  /\ rows \subseteq rows' /\ nextRow <= nextRow'
         /\ points \subseteq points' /\ noPoint \subseteq noPoint'
         /\ handled \subseteq handled'
<1>1. ASSUME NEW t \in tasks, Insert(t)
      PROVE  rows \subseteq rows' /\ nextRow <= nextRow'
  BY <1>1 DEF Insert, Stored, TypeOK
<1>2. ASSUME NEW d \in Device, NEW at \in Time, Submit(d, at)
      PROVE  rows \subseteq rows' /\ nextRow <= nextRow'
  BY <1>2 DEF Submit, Stored, TypeOK
<1>3. ASSUME ~((\E t \in tasks : Insert(t)) \/ \E d \in Device, at \in Time : Submit(d, at))
      PROVE  rows \subseteq rows' /\ nextRow <= nextRow'
  <2>1. UNCHANGED <<rows, nextRow>>
    BY <1>3 DEF Next, vars, Publish, Resend, Reject, Receive, NoDevice, WriteFails, Skip, Check, on_connect,
                on_disconnect, stop_mqtt, Outage, Toggle, Tick
  <2>2. QED
    BY <2>1 DEF TypeOK
<1>4. points \subseteq points' /\ noPoint \subseteq noPoint' /\ handled \subseteq handled'
  BY DEF Next, vars, Publish, Resend, Reject, Receive, NoDevice, WriteFails, Skip, Check, Insert, on_connect,
         on_disconnect, stop_mqtt, Outage, Toggle, Submit, Tick
<1>5. QED
  BY <1>1, <1>2, <1>3, <1>4

\* A new row has the next id, and a message stored over MQTT the arrival and the point its
\* coroutine carried.
LEMMA NewRow ==
  ASSUME TypeOK, [Next]_vars, NEW r \in rows', r \notin rows
  PROVE  /\ r.id = nextRow /\ nextRow' = nextRow + 1
         /\ r.msg # {} => \E t \in tasks : /\ t.pc = "insert" /\ r.device \in t.device
                                           /\ r.msg = {t.msg} /\ r.at = t.at /\ r.begun = t.begun
<1>1. ASSUME NEW t \in tasks, Insert(t)
      PROVE  /\ r.id = nextRow /\ nextRow' = nextRow + 1
             /\ t.pc = "insert" /\ r.device \in t.device
             /\ r.msg = {t.msg} /\ r.at = t.at /\ r.begun = t.begun
  <2>1. PICK d \in t.device : Stored(d, t.at, [msg |-> {t.msg}, begun |-> t.begun])
    BY <1>1 DEF Insert
  <2>2. r = [id |-> nextRow, device |-> d, at |-> t.at, msg |-> {t.msg}, begun |-> t.begun]
    BY <2>1 DEF Stored
  <2>3. QED
    BY <1>1, <2>1, <2>2 DEF Insert, Stored
<1>2. ASSUME NEW d \in Device, NEW at \in Time, Submit(d, at)
      PROVE  r.id = nextRow /\ nextRow' = nextRow + 1 /\ r.msg = {}
  BY <1>2 DEF Submit, Stored, Http
<1>3. (\E t \in tasks : Insert(t)) \/ \E d \in Device, at \in Time : Submit(d, at)
  BY DEF Next, vars, Publish, Resend, Reject, Receive, NoDevice, WriteFails, Skip, Check, on_connect,
         on_disconnect, stop_mqtt, Outage, Toggle, Tick
<1>4. QED
  BY <1>1, <1>2, <1>3

\* A coroutine was there before, or has just been queued, or passes the guard now.
LEMMA NewTask ==
  ASSUME TypeOK, [Next]_vars, NEW t \in tasks', t \notin tasks
  PROVE  \/ /\ t.pc = "queued" /\ t.msg \in Msg /\ net[t.msg] > 0
            /\ msg[t.msg].stamp # NoStamp => t.at = msg[t.msg].stamp
            /\ t.begun = nextRow
            /\ t.at \in points' \/ t.msg \in noPoint'
         \/ \E s \in tasks : /\ t.msg = s.msg /\ t.at = s.at /\ t.begun = s.begun
                             /\ rows' = rows
                             /\ \A d \in t.device : ~Guarded(d, t.at)
<1>1. ASSUME NEW w \in Worker, NEW m \in Msg, Receive(w, m)
      PROVE  /\ t.pc = "queued" /\ t.msg \in Msg /\ net[t.msg] > 0
             /\ msg[t.msg].stamp # NoStamp => t.at = msg[t.msg].stamp
             /\ t.begun = nextRow
             /\ t.at \in points' \/ t.msg \in noPoint'
  <2> DEFINE at == IF msg[m].stamp = NoStamp THEN clock ELSE msg[m].stamp
  <2>1. t = [id |-> FreshTask, worker |-> w, msg |-> m, at |-> at,
             begun |-> nextRow, pc |-> "queued", device |-> {}]
    BY <1>1 DEF Receive
  <2>2. at \in points' \/ m \in noPoint'
    BY <1>1 DEF Receive
  <2>3. QED
    BY <1>1, <2>1, <2>2 DEF Receive
<1>2. ASSUME NEW s \in tasks, Check(s)
      PROVE  /\ t.msg = s.msg /\ t.at = s.at /\ t.begun = s.begun /\ rows' = rows
             /\ \A d \in t.device : ~Guarded(d, t.at)
  <2>1. PICK d \in active : ~Guarded(d, s.at) /\ t = [s EXCEPT !.pc = "insert", !.device = {d}]
    BY <1>2 DEF Check
  <2>2. s \in Task
    BY DEF TypeOK
  <2>3. t.msg = s.msg /\ t.at = s.at /\ t.begun = s.begun /\ t.device = {d}
    BY <2>1, <2>2 DEF Task
  <2>4. QED
    BY <1>2, <2>1, <2>3 DEF Check
<1>3. (\E w \in Worker, m \in Msg : Receive(w, m)) \/ \E s \in tasks : Check(s)
  BY DEF Next, vars, Publish, Resend, Reject, NoDevice, WriteFails, Skip, Insert, on_connect,
         on_disconnect, stop_mqtt, Outage, Leave, Toggle, Submit, Tick
<1>4. QED
  BY <1>1, <1>2, <1>3

\* The strengthening about coroutines and ids is inductive.
LEMMA PendingStep ==
  ASSUME TypeOK, Pending, Books, [Next]_vars
  PROVE  Pending'
<1> SUFFICES ASSUME NEW t \in tasks'
             PROVE  /\ msg'[t.msg].sent
                    /\ msg'[t.msg].stamp # NoStamp => t.at = msg'[t.msg].stamp
                    /\ t.begun <= nextRow'
                    /\ t.at \in points' \/ t.msg \in noPoint'
                    /\ t.pc = "insert" => Unguarded(t)'
  BY DEF Pending
<1>1. /\ nextRow \in Nat /\ nextRow' \in Nat /\ nextRow <= nextRow'
      /\ points \subseteq points' /\ noPoint \subseteq noPoint'
  <2>1. nextRow' \in Nat
    <3>1. CASE rows' = rows /\ nextRow' = nextRow
      BY <3>1 DEF TypeOK
    <3>2. CASE nextRow' = nextRow + 1
      BY <3>2 DEF TypeOK
    <3>3. nextRow' = nextRow \/ nextRow' = nextRow + 1
      BY DEF Next, vars, Publish, Resend, Reject, Receive, NoDevice, WriteFails, Skip, Check, Insert, Stored,
             on_connect, on_disconnect, stop_mqtt, Outage, Toggle, Submit, Tick
    <3>4. QED
      BY <3>2, <3>3 DEF TypeOK
  <2>2. QED
    BY <2>1, StoresGrow DEF TypeOK
<1>2. ASSUME NEW s \in tasks, t.msg = s.msg, t.at = s.at, t.begun = s.begun
      PROVE  /\ msg'[t.msg].sent
             /\ msg'[t.msg].stamp # NoStamp => t.at = msg'[t.msg].stamp
             /\ t.begun \in Nat /\ t.begun <= nextRow /\ t.begun <= nextRow'
             /\ t.at \in points' \/ t.msg \in noPoint'
  <2>1. s.msg \in Msg /\ s.begun \in Nat
    BY DEF TypeOK, Task
  <2>2. /\ msg[s.msg].sent
        /\ msg[s.msg].stamp # NoStamp => s.at = msg[s.msg].stamp
        /\ s.begun <= nextRow
        /\ s.at \in points \/ s.msg \in noPoint
    BY DEF Pending
  <2>3. msg'[s.msg] = msg[s.msg]
    BY <2>1, <2>2, StampsKept
  <2>4. QED
    BY <1>1, <1>2, <2>1, <2>2, <2>3
<1>3. CASE t \in tasks
  <2>1. t.begun \in Nat /\ t.begun <= nextRow
    BY <1>2, <1>3
  <2>2. ASSUME t.pc = "insert", NEW r \in rows', r.device \in t.device, Near(r.at, t.at)
        PROVE  t.begun <= r.id
    <3>1. CASE r \in rows
      BY <1>3, <2>2, <3>1 DEF Pending, Unguarded
    <3>2. CASE r \notin rows
      BY <2>1, <3>2, NewRow
    <3>3. QED
      BY <3>1, <3>2
  <2>3. t.pc = "insert" => Unguarded(t)'
    BY <2>2 DEF Unguarded, Near
  <2>4. QED
    BY <1>2, <1>3, <2>3
<1>4. CASE t \notin tasks
  <2>1. CASE /\ t.pc = "queued" /\ t.msg \in Msg /\ net[t.msg] > 0
             /\ msg[t.msg].stamp # NoStamp => t.at = msg[t.msg].stamp
             /\ t.begun = nextRow
             /\ t.at \in points' \/ t.msg \in noPoint'
    <3>1. msg[t.msg].sent
      BY <2>1 DEF Books
    <3>2. msg'[t.msg] = msg[t.msg]
      BY <2>1, <3>1, StampsKept
    <3>3. QED
      BY <1>1, <2>1, <3>1, <3>2
  <2>2. ASSUME NEW s \in tasks, t.msg = s.msg, t.at = s.at, t.begun = s.begun, rows' = rows,
               \A d \in t.device : ~Guarded(d, t.at)
        PROVE  Unguarded(t)'
    BY <2>2 DEF Unguarded, Guarded, Near
  <2>3. QED
    BY <1>2, <1>4, <2>1, <2>2, NewTask
<1>5. QED
  BY <1>3, <1>4

\* So are the books.
LEMMA BooksStep ==
  ASSUME TypeOK, Pending, Books, [Next]_vars
  PROVE  Books'
<1>1. ASSUME NEW m \in Msg, net'[m] > 0
      PROVE  msg'[m].sent
  <2>1. CASE net[m] > 0
    BY <2>1, StampsKept DEF Books
  <2>2. ASSUME NEW k \in Msg, Publish(k) \/ Resend(k)
        PROVE  msg'[m].sent
    <3>1. net[m] > 0 \/ m = k
      BY <1>1, <2>2, RoutedTypes DEF Publish, Resend
    <3>2. msg'[k].sent
      BY <2>2 DEF Publish, Resend, TypeOK
    <3>3. QED
      BY <2>1, <3>1, <3>2
  <2>3. CASE ~\E k \in Msg : Publish(k) \/ Resend(k)
    <3>1. ASSUME NEW k \in Msg, net' = [net EXCEPT ![k] = @ - 1], net[k] > 0
          PROVE  net[m] > 0
      BY <1>1, <3>1 DEF TypeOK
    <3>2. ASSUME NEW gone, NEW dropped \in SUBSET tasks, Leave(gone, dropped)
          PROVE  net[m] > 0
      BY <1>1, <3>2, LeaveTypes
    <3>3. \/ \E k \in Msg : net' = [net EXCEPT ![k] = @ - 1] /\ net[k] > 0
          \/ \E gone : \E dropped \in SUBSET tasks : Leave(gone, dropped)
          \/ net' = net
      BY <2>3 DEF Next, vars, Reject, Receive, NoDevice, WriteFails, Skip, Check, Insert, on_connect,
                  on_disconnect, stop_mqtt, Outage, Toggle, Submit, Tick
    <3>4. QED
      BY <1>1, <2>1, <3>1, <3>2, <3>3
  <2>4. QED
    BY <2>2, <2>3
<1>2. ASSUME NEW m \in handled'
      PROVE  msg'[m].sent
  <2>1. CASE m \in handled
    BY <2>1, StampsKept DEF Books, TypeOK
  <2>2. CASE m \notin handled
    <3>1. PICK t \in tasks : m = t.msg
      BY <1>2, <2>2 DEF Next, vars, Publish, Resend, Reject, Receive, NoDevice, WriteFails, Skip, Check, Insert,
                        on_connect, on_disconnect, stop_mqtt, Outage, Toggle, Submit, Tick
    <3>2. msg[m].sent /\ m \in Msg
      BY <3>1 DEF Pending, TypeOK, Task
    <3>3. QED
      BY <3>2, StampsKept
  <2>3. QED
    BY <2>1, <2>2
<1>3. ASSUME NEW r \in rows'
      PROVE  r.id < nextRow'
  <2>1. CASE r \in rows
    <3>1. r.id < nextRow /\ r.id \in Nat
      BY <2>1 DEF Books, TypeOK, Row
    <3>2. nextRow' = nextRow \/ nextRow' = nextRow + 1
      BY DEF Next, vars, Publish, Resend, Reject, Receive, NoDevice, WriteFails, Skip, Check, Insert, Stored,
             on_connect, on_disconnect, stop_mqtt, Outage, Toggle, Submit, Tick
    <3>3. QED
      BY <3>1, <3>2 DEF TypeOK
  <2>2. CASE r \notin rows
    BY <2>2, NewRow DEF TypeOK
  <2>3. QED
    BY <2>1, <2>2
<1>4. QED
  BY <1>1, <1>2, <1>3 DEF Books

\* The strengthened invariant holds in every reachable state.
THEOREM Invariance == Spec => []IInv
<1>1. Init => Pending /\ Books
  BY DEF Init, Pending, Books, Unpublished
<1>2. TypeOK /\ Pending /\ Books /\ [Next]_vars => (Pending /\ Books)'
  BY PendingStep, BooksStep
<1>3. QED
  BY <1>1, <1>2, TypeCorrect, PTL DEF Spec, IInv

-----------------------------------------------------------------------------
(* The properties *)

\* Whatever messages are repeated and however coroutines interleave, two rows within the
\* guard's reach are of deliveries that overlapped.
THEOREM RepeatsOverlap == Spec => []RepeatsNeedOverlap
<1>1. Init => RepeatsNeedOverlap
  BY DEF Init, RepeatsNeedOverlap
<1>2. IInv /\ RepeatsNeedOverlap /\ [Next]_vars => RepeatsNeedOverlap'
  <2> SUFFICES ASSUME IInv, RepeatsNeedOverlap, [Next]_vars,
                      NEW r \in rows', NEW s \in rows', r.device = s.device, r.id < s.id,
                      Near(r.at, s.at), s.msg # {}
               PROVE  s.begun <= r.id
    BY DEF RepeatsNeedOverlap, Near
  <2>1. nextRow \in Nat /\ \A q \in rows : q.id \in Nat /\ q.id < nextRow
    BY DEF IInv, TypeOK, Books, Row
  <2>2. r \in rows
    <3>1. CASE r \notin rows
      <4>1. r.id = nextRow
        BY <3>1, NewRow DEF IInv
      <4>2. s.id <= nextRow /\ s.id \in Nat
        BY <2>1, NewRow DEF IInv
      <4>3. QED
        BY <2>1, <4>1, <4>2
    <3>2. QED
      BY <3>1
  <2>3. CASE s \in rows
    BY <2>2, <2>3 DEF RepeatsNeedOverlap
  <2>4. CASE s \notin rows
    <3>1. PICK t \in tasks : /\ t.pc = "insert" /\ s.device \in t.device
                             /\ s.at = t.at /\ s.begun = t.begun
      BY <2>4, NewRow DEF IInv
    <3>2. QED
      BY <2>2, <3>1 DEF IInv, Pending, Unguarded
  <2>5. QED
    BY <2>3, <2>4
<1>3. QED
  BY <1>1, <1>2, Invariance, PTL DEF Spec

\* Deduplication, the unique key and interleaving lose no reading.
THEOREM HandledAreStored == Spec => []HandledIsStored
<1>1. Init => HandledIsStored
  BY DEF Init, HandledIsStored
<1>2. IInv /\ HandledIsStored /\ [Next]_vars => HandledIsStored'
  <2> SUFFICES ASSUME IInv, HandledIsStored, [Next]_vars, NEW m \in handled',
                      msg'[m].stamp # NoStamp
               PROVE  \E r \in rows' : Near(r.at, msg'[m].stamp)
    BY DEF HandledIsStored, Near
  <2>1. CASE m \in handled
    <3>1. m \in Msg /\ msg'[m] = msg[m]
      BY <2>1, StampsKept DEF IInv, Books, TypeOK
    <3>2. QED
      BY <2>1, <3>1, StoresGrow DEF IInv, HandledIsStored
  <2>2. ASSUME NEW t \in tasks, m = t.msg, NEW r \in rows', Near(r.at, t.at)
        PROVE  Near(r.at, msg'[m].stamp)
    <3>1. m \in Msg /\ msg[m].sent
      BY <2>2 DEF IInv, TypeOK, Task, Pending
    <3>2. msg'[m] = msg[m]
      BY <3>1, StampsKept DEF IInv
    <3>3. QED
      BY <2>2, <3>2 DEF IInv, Pending
  <2>3. ASSUME NEW t \in tasks, Skip(t), m \notin handled
        PROVE  m = t.msg /\ \E r \in rows' : Near(r.at, t.at)
    BY <2>3 DEF Skip, Guarded
  <2>4. ASSUME NEW t \in tasks, Insert(t), m \notin handled
        PROVE  m = t.msg /\ \E r \in rows' : Near(r.at, t.at)
    <3>1. \E r \in rows' : r.at = t.at
      <4>1. PICK d \in t.device : IF Refused(d, t.at) THEN UNCHANGED <<rows, nextRow>>
                                  ELSE Stored(d, t.at, [msg |-> {t.msg}, begun |-> t.begun])
        BY <2>4 DEF Insert
      <4>2. CASE Refused(d, t.at)
        BY <4>1, <4>2 DEF Refused
      <4>3. CASE ~Refused(d, t.at)
        <5> DEFINE row == [id |-> nextRow, device |-> d, at |-> t.at,
                           msg |-> {t.msg}, begun |-> t.begun]
        <5>1. row \in rows' /\ row.at = t.at
          BY <4>1, <4>3 DEF Stored
        <5>2. QED
          BY <5>1
      <4>4. QED
        BY <4>2, <4>3
    <3>2. t.at \in Nat
      BY TimeAssumption DEF IInv, TypeOK, Task, Time
    <3>3. Near(t.at, t.at)
      BY <3>2, GuardAssumption DEF Near
    <3>4. m = t.msg
      BY <2>4 DEF Insert
    <3>5. QED
      BY <3>1, <3>3, <3>4
  <2>5. m \in handled \/ \E t \in tasks : Skip(t) \/ Insert(t)
    BY DEF Next, vars, Publish, Resend, Reject, Receive, NoDevice, WriteFails, Check, on_connect,
           on_disconnect, stop_mqtt, Outage, Toggle, Submit, Tick
  <2>6. QED
    BY <2>1, <2>2, <2>3, <2>4, <2>5
<1>3. QED
  BY <1>1, <1>2, Invariance, PTL DEF Spec

\* A published reading is on its way, handled, or on record as lost.
Accounted(m) == m \in handled \cup lost \/ net[m] > 0 \/ \E t \in tasks : t.msg = m

\* No step loses track of a message.
LEMMA AccountedStep ==
  ASSUME TypeOK, [Next]_vars, NEW m \in Msg, msg'[m].sent, msg'[m].valid,
         msg[m].sent /\ msg[m].valid => Accounted(m)
  PROVE  Accounted(m)'
<1>1. ASSUME NEW k \in Msg, Publish(k)
      PROVE  Accounted(m)'
  <2>1. /\ lost \subseteq lost' /\ \A n \in Msg : net[n] > 0 => net'[n] > 0
        /\ net'[k] > 0 \/ k \in lost'
    BY <1>1, RoutedTypes DEF Publish
  <2>2. m # k => msg'[m] = msg[m]
    BY <1>1 DEF Publish, TypeOK
  <2>3. QED
    BY <1>1, <2>1, <2>2 DEF Publish, Accounted
<1>2. ASSUME NEW k \in Msg, Resend(k)
      PROVE  Accounted(m)'
  <2>1. lost \subseteq lost' /\ \A n \in Msg : net[n] > 0 => net'[n] > 0
    BY <1>2, RoutedTypes DEF Resend
  <2>2. QED
    BY <1>2, <2>1 DEF Resend, Accounted
<1>3. ASSUME NEW k \in Msg, Reject(k)
      PROVE  Accounted(m)'
  <2>1. m # k => net'[m] = net[m]
    BY <1>3 DEF Reject, TypeOK
  <2>2. QED
    BY <1>3, <2>1 DEF Reject, Accounted
<1>4. ASSUME NEW w \in Worker, NEW k \in Msg, Receive(w, k)
      PROVE  Accounted(m)'
  <2>1. tasks \subseteq tasks' /\ \E t \in tasks' : t.msg = k
    <3> DEFINE at == IF msg[k].stamp = NoStamp THEN clock ELSE msg[k].stamp
    <3> DEFINE task == [id |-> FreshTask, worker |-> w, msg |-> k, at |-> at,
                        begun |-> nextRow, pc |-> "queued", device |-> {}]
    <3>1. tasks' = tasks \cup {task}
      BY <1>4 DEF Receive
    <3>2. task.msg = k
      OBVIOUS
    <3>3. QED
      BY <3>1, <3>2
  <2>2. m # k => net'[m] = net[m]
    BY <1>4 DEF Receive, TypeOK
  <2>3. QED
    BY <1>4, <2>1, <2>2 DEF Receive, Accounted
<1>5. ASSUME NEW t \in tasks, NoDevice(t) \/ WriteFails(t) \/ Skip(t) \/ Insert(t)
      PROVE  Accounted(m)'
  BY <1>5 DEF NoDevice, WriteFails, Skip, Insert, Accounted
<1>6. ASSUME NEW t \in tasks, Check(t)
      PROVE  Accounted(m)'
  <2>1. \E s \in tasks' : s.msg = t.msg
    <3>1. PICK d \in active : [t EXCEPT !.pc = "insert", !.device = {d}] \in tasks'
      BY <1>6 DEF Check
    <3>2. [t EXCEPT !.pc = "insert", !.device = {d}].msg = t.msg
      BY DEF TypeOK, Task
    <3>3. QED
      BY <3>1, <3>2
  <2>2. tasks \ {t} \subseteq tasks'
    BY <1>6 DEF Check
  <2>3. QED
    BY <1>6, <2>1, <2>2 DEF Check, Accounted
<1>7. ASSUME NEW gone, NEW dropped \in SUBSET tasks, Leave(gone, dropped),
             msg' = msg, handled' = handled
      PROVE  Accounted(m)'
  BY <1>7, LeaveTypes DEF Accounted
<1>8. CASE UNCHANGED <<msg, net, tasks, handled, lost>>
  BY <1>8 DEF Accounted
<1>9. ASSUME NEW w \in Worker, on_disconnect(w) \/ stop_mqtt(w)
      PROVE  Accounted(m)'
  BY <1>7, <1>9 DEF on_disconnect, stop_mqtt
<1>10. CASE Outage
  BY <1>7, <1>10 DEF Outage
<1>11. \/ \E k \in Msg : Publish(k) \/ Resend(k) \/ Reject(k) \/ \E w \in Worker : Receive(w, k)
       \/ \E t \in tasks : NoDevice(t) \/ WriteFails(t) \/ Skip(t) \/ Check(t) \/ Insert(t)
       \/ \E w \in Worker : on_disconnect(w) \/ stop_mqtt(w)
       \/ Outage
       \/ UNCHANGED <<msg, net, tasks, handled, lost>>
  BY DEF Next, vars, on_connect, Toggle, Submit, Tick
<1>12. QED
  BY <1>1, <1>2, <1>3, <1>4, <1>5, <1>6, <1>8, <1>9, <1>10, <1>11

\* Outages, restarts and lost sessions included, every valid reading is accounted for, and
\* what MySQL took from MQTT InfluxDB has, unless that write is known to have failed.
THEOREM NothingIsLostSilently == Spec => []NoSilentLoss
<1>1. Init => NoSilentLoss
  BY DEF Init, NoSilentLoss, Unpublished
<1>2. IInv /\ NoSilentLoss /\ [Next]_vars => NoSilentLoss'
  <2> SUFFICES ASSUME IInv, NoSilentLoss, [Next]_vars
               PROVE  NoSilentLoss'
    OBVIOUS
  <2>1. ASSUME NEW m \in Msg, msg'[m].sent, msg'[m].valid
        PROVE  Accounted(m)'
    <3>1. msg[m].sent /\ msg[m].valid => Accounted(m)
      BY DEF NoSilentLoss, Accounted
    <3>2. QED
      BY <2>1, <3>1, AccountedStep DEF IInv
  <2>2. ASSUME NEW r \in rows', r.msg # {}
        PROVE  r.at \in points' \/ r.msg \subseteq noPoint'
    <3>1. CASE r \in rows
      BY <2>2, <3>1, StoresGrow DEF IInv, NoSilentLoss
    <3>2. CASE r \notin rows
      <4>1. PICK t \in tasks : r.msg = {t.msg} /\ r.at = t.at
        BY <2>2, <3>2, NewRow DEF IInv
      <4>2. QED
        BY <4>1, StoresGrow DEF IInv, Pending
    <3>3. QED
      BY <3>1, <3>2
  <2>3. QED
    BY <2>1, <2>2 DEF NoSilentLoss, Accounted
<1>3. QED
  BY <1>1, <1>2, Invariance, PTL DEF Spec
=============================================================================
