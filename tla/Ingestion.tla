------------------------------ MODULE Ingestion ------------------------------
(***************************************************************************)
(* How a reading reaches the two databases: app/mqtt_client.py in every    *)
(* API worker, and the HTTP alternative of app/routers/readings.py.        *)
(*                                                                         *)
(* The broker hands each message to one worker of the shared subscription. *)
(* The worker's network thread parses it, writes the InfluxDB point and    *)
(* queues a coroutine for the event loop, where the duplicate guard        *)
(* (SELECT) and the INSERT are two round trips to MySQL.  Coroutines of    *)
(* one worker and of different workers interleave.                         *)
(*                                                                         *)
(* All devices here share one entity_id: devices.py derives it from the    *)
(* appliance's kind, so two homes have the same one.                       *)
(***************************************************************************)
EXTENDS Naturals, FiniteSets

CONSTANTS
    Msgs,        \* bound: messages published
    Device,      \* devices with the entity_id
    First,       \* the one that is registered at the start
    Worker,      \* API worker processes
    NoStamp,     \* a message without a readable timestamp
    Guard,       \* the duplicate guard reaches this far each way (5 s)
    Interval,    \* time between two readings of a publisher (30 s)
    MaxTime,     \* bound: ticks explored
    MaxResend,   \* bound: messages the publisher sends again
    MaxHttp,     \* bound: readings submitted over HTTP
    MaxFault     \* bound: crashes, failures of a database, devices added or deleted

ASSUME GuardAssumption == Guard \in Nat /\ Interval \in Nat /\ Guard < Interval
ASSUME FirstAssumption == First \in Device
ASSUME TimeAssumption == MaxTime \in Nat

Msg == 1..Msgs

VARIABLES
    uniqueKey,   \* uq_reading_device_time exists in this deployment: models.py
                 \* declares it, mysql/init/01-schema.sql does not
    clock,
    active,      \* the devices with is_active
    msg,         \* what each published message says; the others are unpublished
    joined,      \* the workers connected and in the shared subscription
    net,         \* copies of each message on their way to a worker
    tasks,       \* coroutines between on_message and their end
    rows,        \* committed energy_readings
    nextRow,     \* AUTO_INCREMENT
    points,      \* InfluxDB points: one for each time, a later write replaces it
    handled,     \* history: messages whose coroutine ended without losing them
    lost,        \* history: messages a fault took from the MySQL path
    noPoint,     \* history: messages whose InfluxDB write failed
    faults, resends, https

vars == <<uniqueKey, clock, active, msg, joined, net, tasks, rows, nextRow, points, handled,
          lost, noPoint, faults, resends, https>>

counters == <<faults, resends, https>>

Time == 0..MaxTime
Unpublished == [stamp |-> NoStamp, valid |-> FALSE, sent |-> FALSE]

\* A stored row: its device and recorded_at, and (history) the message it came from, none
\* for HTTP, with the value of nextRow when on_message received that.
Http == [msg |-> {}, begun |-> 0]
Row == [id : Nat, device : Device, at : Time, msg : SUBSET Msg, begun : Nat]

\* A coroutine: queued, or past the guard with the device it found.
Task == [id : Nat, worker : Worker, msg : Msg, at : Time, begun : Nat, pc : {"queued", "insert"},
         device : SUBSET Device]

TypeOK ==
    /\ uniqueKey \in BOOLEAN
    /\ clock \in Time
    /\ active \in SUBSET Device
    /\ msg \in [Msg -> [stamp : Time \cup {NoStamp}, valid : BOOLEAN, sent : BOOLEAN]]
    /\ joined \in SUBSET Worker
    /\ net \in [Msg -> Nat]
    /\ tasks \in SUBSET Task
    /\ rows \in SUBSET Row
    /\ nextRow \in Nat
    /\ points \in SUBSET Time
    /\ handled \in SUBSET Msg /\ lost \in SUBSET Msg /\ noPoint \in SUBSET Msg
    /\ faults \in Nat /\ resends \in Nat /\ https \in Nat

Init ==
    /\ uniqueKey \in BOOLEAN
    /\ clock = 0
    /\ active = {First}
    /\ msg = [m \in Msg |-> Unpublished]
    /\ joined = Worker
    /\ net = [m \in Msg |-> 0]
    /\ tasks = {} /\ rows = {} /\ nextRow = 1 /\ points = {}
    /\ handled = {} /\ lost = {} /\ noPoint = {}
    /\ faults = 0 /\ resends = 0 /\ https = 0

-----------------------------------------------------------------------------
(* Helpers *)

Near(s, t) == s <= t + Guard /\ t <= s + Guard

\* Mutant of Guarded: the guard reaches as far as the publishing interval.
GuardedWide(d, t) == \E r \in rows : r.device = d /\ r.at <= t + Interval /\ t <= r.at + Interval

\* Mutant of Guarded: the guard looks for later readings only.
GuardedAhead(d, t) == \E r \in rows : r.device = d /\ t < r.at /\ r.at <= t + Guard

\* The duplicate guard's query.
Guarded(d, t) == \E r \in rows : r.device = d /\ Near(r.at, t)

\* The unique key refuses the row.
Refused(d, t) == uniqueKey /\ \E r \in rows : r.device = d /\ r.at = t

\* Mutant of Stored: the row keeps no device.
StoredAnywhere(d, t, origin) ==
    /\ rows' = rows \cup {[id |-> nextRow, device |-> {d}, at |-> t,
                           msg |-> origin.msg, begun |-> origin.begun]}
    /\ nextRow' = nextRow + 1

Stored(d, t, origin) ==
    /\ rows' = rows \cup {[id |-> nextRow, device |-> d, at |-> t,
                           msg |-> origin.msg, begun |-> origin.begun]}
    /\ nextRow' = nextRow + 1

\* An id no coroutine has: two copies of one message are two coroutines.
FreshTask == CHOOSE i \in 1 .. Cardinality(tasks) + 1 : \A t \in tasks : t.id # i

Fault == faults < MaxFault /\ faults' = faults + 1

-----------------------------------------------------------------------------
(* Publishers and the broker (external) *)

\* The broker sends a copy to some worker of the group, and drops it when there is none.
Routed(m) ==
    IF joined # {} THEN net' = [net EXCEPT ![m] = @ + 1] /\ UNCHANGED lost
    ELSE lost' = lost \cup {m} /\ UNCHANGED net

\* The publisher sends its next reading, of now, Interval after its last one.  The RPi publisher
\* stamps it, other senders may not; a payload may be out of bounds, and then nobody looks at
\* its stamp.
Publish(m) ==
    /\ ~msg[m].sent
    /\ \A n \in 1 .. m - 1 :
        /\ msg[n].sent
        /\ msg[n].stamp # NoStamp => clock >= msg[n].stamp + Interval
    /\ \E stamp \in {clock, NoStamp}, valid \in BOOLEAN :
        /\ valid \/ stamp = clock
        /\ msg' = [msg EXCEPT ![m] = [stamp |-> stamp, valid |-> valid, sent |-> TRUE]]
    /\ Routed(m)
    /\ UNCHANGED <<clock, active, joined, tasks, rows, nextRow, points, handled, noPoint>>
    /\ UNCHANGED counters

\* QoS 1: an acknowledgement got lost, and the message comes again.
Resend(m) ==
    /\ resends < MaxResend /\ resends' = resends + 1
    /\ msg[m].sent
    /\ Routed(m)
    /\ UNCHANGED <<clock, active, msg, joined, tasks, rows, nextRow, points, handled, noPoint,
                   faults, https>>

\* Sessions are clean: of the copies on their way some are lost with the workers that
\* leave, and all of them with the last; so is what a dying worker had in its loop.
Leave(gone, dropped) ==
    /\ joined' = joined \ gone
    /\ \E S \in SUBSET {m \in Msg : gone \cap joined # {} /\ net[m] > 0} :
        /\ joined' = {} => \A m \in Msg \ S : net[m] = 0
        /\ net' = [m \in Msg |-> IF m \notin S THEN net[m]
                                 ELSE IF joined' = {} THEN 0 ELSE net[m] - 1]
        /\ lost' = lost \cup S \cup {t.msg : t \in dropped}
    /\ tasks' = tasks \ dropped

\* The broker goes away, and with it every connection.
Outage ==
    /\ Fault
    /\ Leave(joined, {})
    /\ UNCHANGED <<clock, active, msg, rows, nextRow, points, handled, noPoint, resends, https>>

-----------------------------------------------------------------------------
(* A worker *)

\* start_mqtt, or paho's reconnection: the worker joins the shared subscription.
on_connect(w) ==
    /\ w \notin joined
    /\ joined' = joined \cup {w}
    /\ UNCHANGED <<clock, active, msg, net, tasks, rows, nextRow, points, handled, lost, noPoint>>
    /\ UNCHANGED counters

\* The connection of a worker breaks: what it has received stays in its loop.
on_disconnect(w) ==
    /\ Fault
    /\ w \in joined /\ Leave({w}, {})
    /\ UNCHANGED <<clock, active, msg, rows, nextRow, points, handled, noPoint, resends, https>>

\* on_message rejects a payload out of bounds.
Reject(m) ==
    /\ joined # {} /\ net[m] > 0 /\ ~msg[m].valid
    /\ net' = [net EXCEPT ![m] = @ - 1]
    /\ UNCHANGED <<clock, active, msg, joined, tasks, rows, nextRow, points, handled, lost, noPoint>>
    /\ UNCHANGED counters

\* Mutant of Receive: the coroutine is scheduled on no loop (ensure_future on the network
\* thread).
ReceiveOffLoop(w, m) ==
    /\ w \in joined /\ net[m] > 0 /\ msg[m].valid
    /\ net' = [net EXCEPT ![m] = @ - 1]
    /\ LET at == IF msg[m].stamp = NoStamp THEN clock ELSE msg[m].stamp
       IN  /\ \/ points' = points \cup {at} /\ UNCHANGED <<noPoint, faults>>
              \/ Fault /\ noPoint' = noPoint \cup {m} /\ UNCHANGED points
           /\ tasks' = tasks
    /\ UNCHANGED <<clock, active, msg, joined, rows, nextRow, handled, lost, resends, https>>

\* on_message accepts it: a missing timestamp is replaced by the time of arrival, the
\* InfluxDB write is tried, and the MySQL write goes to the event loop.
Receive(w, m) ==
    /\ w \in joined /\ net[m] > 0 /\ msg[m].valid
    /\ net' = [net EXCEPT ![m] = @ - 1]
    /\ LET at == IF msg[m].stamp = NoStamp THEN clock ELSE msg[m].stamp
       IN  /\ \/ points' = points \cup {at} /\ UNCHANGED <<noPoint, faults>>
              \/ Fault /\ noPoint' = noPoint \cup {m} /\ UNCHANGED points
           /\ tasks' = tasks \cup {[id |-> FreshTask, worker |-> w, msg |-> m, at |-> at,
                                    begun |-> nextRow, pc |-> "queued", device |-> {}]}
    /\ UNCHANGED <<clock, active, msg, joined, rows, nextRow, handled, lost, resends, https>>

\* _write_reading_to_db: no active device has the entity_id, or several do and
\* scalar_one_or_none raises; either way the reading is dropped.
NoDevice(t) ==
    /\ t.pc = "queued"
    /\ Cardinality(active) # 1
    /\ tasks' = tasks \ {t}
    /\ lost' = lost \cup {t.msg}
    /\ UNCHANGED <<clock, active, msg, joined, net, rows, nextRow, points, handled, noPoint>>
    /\ UNCHANGED counters

\* A statement of its session fails (the pool, the connection, a lock, the commit), which is
\* logged and forgotten like every error.  A commit of which only the answer is lost is an
\* Insert.
WriteFails(t) ==
    /\ Fault
    /\ tasks' = tasks \ {t}
    /\ lost' = lost \cup {t.msg}
    /\ UNCHANGED <<clock, active, msg, joined, net, rows, nextRow, points, handled, noPoint, resends,
                   https>>

\* The guard finds a reading near it.
Skip(t) ==
    /\ t.pc = "queued"
    /\ \E d \in active : active = {d} /\ Guarded(d, t.at)
    /\ tasks' = tasks \ {t}
    /\ handled' = handled \cup {t.msg}
    /\ UNCHANGED <<clock, active, msg, joined, net, rows, nextRow, points, lost, noPoint>>
    /\ UNCHANGED counters

\* The guard finds none.
Check(t) ==
    /\ t.pc = "queued"
    /\ \E d \in active :
        /\ active = {d} /\ ~Guarded(d, t.at)
        /\ tasks' = (tasks \ {t}) \cup {[t EXCEPT !.pc = "insert", !.device = {d}]}
    /\ UNCHANGED <<clock, active, msg, joined, net, rows, nextRow, points, handled, lost, noPoint>>
    /\ UNCHANGED counters

\* The INSERT and its commit; the unique key's IntegrityError is logged and forgotten.
Insert(t) ==
    /\ t.pc = "insert"
    /\ \E d \in t.device :
        IF Refused(d, t.at)
          THEN UNCHANGED <<rows, nextRow>>
          ELSE Stored(d, t.at, [msg |-> {t.msg}, begun |-> t.begun])
    /\ tasks' = tasks \ {t}
    /\ handled' = handled \cup {t.msg}
    /\ UNCHANGED <<clock, active, msg, joined, net, points, lost, noPoint>>
    /\ UNCHANGED counters

\* A worker dies or stops with coroutines in its loop.
stop_mqtt(w) ==
    /\ Fault
    /\ w \in joined \/ \E t \in tasks : t.worker = w
    /\ Leave({w}, {t \in tasks : t.worker = w})
    /\ UNCHANGED <<clock, active, msg, rows, nextRow, points, handled, noPoint, resends, https>>

-----------------------------------------------------------------------------
(* HTTP, devices and time *)

\* submit_reading, for a device that was added, also a deleted one: no guard; a refused row
\* is an error to the caller.
Submit(d, at) ==
    /\ https < MaxHttp /\ https' = https + 1
    /\ d \in active \cup {First}
    /\ at <= clock
    /\ ~Refused(d, at)
    /\ Stored(d, at, Http)
    /\ UNCHANGED <<clock, active, msg, joined, net, tasks, points, handled, lost, noPoint, faults,
                   resends>>

\* A home adds its device, with the entity_id of its kind of appliance, or an update gives
\* it that entity_id (add_device, _derive_entity_ids, update_device).
add_device(d) == d \notin active /\ active' = active \cup {d}

\* It is deleted, by its user or an admin, which only clears is_active, or gets another
\* entity_id.
deactivate_device(d) == d \in active /\ active' = active \ {d}

Toggle(d) ==
    /\ Fault
    /\ add_device(d) \/ deactivate_device(d)
    /\ UNCHANGED <<clock, msg, joined, net, tasks, rows, nextRow, points, handled, lost, noPoint,
                   resends, https>>

Tick ==
    /\ clock < MaxTime
    /\ clock' = clock + 1
    /\ UNCHANGED <<active, msg, joined, net, tasks, rows, nextRow, points, handled, lost, noPoint>>
    /\ UNCHANGED counters

-----------------------------------------------------------------------------
Next ==
    /\ \/ \E m \in Msg :
           \/ Publish(m) \/ Resend(m) \/ Reject(m)
           \/ \E w \in Worker : Receive(w, m)
       \/ \E t \in tasks : NoDevice(t) \/ WriteFails(t) \/ Skip(t) \/ Check(t) \/ Insert(t)
       \/ \E w \in Worker : on_connect(w) \/ on_disconnect(w) \/ stop_mqtt(w)
       \/ Outage
       \/ \E d \in Device : Toggle(d) \/ \E at \in Time : Submit(d, at)
       \/ Tick
    /\ UNCHANGED uniqueKey

Spec == Init /\ [][Next]_vars

-----------------------------------------------------------------------------
(* Properties *)

\* The guard works for deliveries that do not overlap: when two rows of a device lie
\* within it and the later came over MQTT, the earlier was stored after that message was
\* received (mqtt_client.py, _write_reading_to_db).
RepeatsNeedOverlap ==
    \A r, s \in rows :
        r.device = s.device /\ r.id < s.id /\ Near(r.at, s.at) /\ s.msg # {}
            => s.begun <= r.id

\* Deduplication loses no reading: whatever ended the coroutine of a message, by a skip, a
\* refused key or a commit, a row of some device stands for its time.
HandledIsStored ==
    \A m \in handled :
        msg[m].stamp # NoStamp => \E r \in rows : Near(r.at, msg[m].stamp)

\* No valid reading vanishes silently from either database: until it is handled, a copy is
\* on its way or in a coroutine, or a fault or the device lookup is on record as having
\* taken it; and what MySQL took from MQTT InfluxDB has, unless that write failed (the
\* dashboards read InfluxDB, the summaries MySQL).
NoSilentLoss ==
    /\ \A m \in Msg :
        msg[m].sent /\ msg[m].valid =>
            m \in handled \cup lost \/ net[m] > 0 \/ \E t \in tasks : t.msg = m
    /\ \A r \in rows : r.msg # {} => r.at \in points \/ r.msg \subseteq noPoint

=============================================================================
