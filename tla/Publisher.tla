------------------------------ MODULE Publisher ------------------------------
(***************************************************************************)
(* The publisher on a home's Raspberry Pi (Sensing Layer,                  *)
(* rpi_mqtt_publisher.py): it connects to the broker, samples its devices  *)
(* in a loop and publishes each sample with QoS 1, and keeps a retained    *)
(* status message.  systemd restarts it whenever it ends (Restart=always)  *)
(* until it is told to stop.                                               *)
(*                                                                         *)
(* paho's client (external) runs a network thread from the first           *)
(* loop_start: it reconnects by itself, keeps QoS 1 messages until they    *)
(* are acknowledged, and sends them again on a new connection.             *)
(***************************************************************************)
EXTENDS Naturals

CONSTANTS
    MaxSamples,    \* bound: samples explored (later loops find no data)
    MaxRetries,    \* attempts of connect() before it gives up (10)
    Beat,          \* loops between heartbeats (10)
    MaxDrops,      \* bound: connections that break
    MaxOutages,    \* bound: times the broker is down
    MaxLate,       \* bound: CONNACKs that miss connect()'s two seconds
    MaxCrash,      \* bound: crashes and power cuts
    MaxStops       \* bound: times the service is stopped

ASSUME RetryAssumption == MaxRetries \in Nat \ {0} /\ Beat \in Nat \ {0}

VARIABLES
    wanted,      \* systemd is to keep the service running
    life,        \* the process: down, in connect() (try or wait), or in its loop (running)
    go,          \* self.running: no signal has been handled
    attempt,     \* the attempt connect() is at
    connected,   \* the flag the callbacks set
    threaded,    \* paho's network thread runs
    link,        \* the connection: none, opening (CONNECT sent) or up
    brokerUp,
    loops,       \* loop_count, modulo Beat
    sample,      \* each sample: unmade, queued or sent by paho, got (by the broker,
                 \* not acknowledged), acked, or dropped with the process
    copies,      \* how often the broker received it
    retained,    \* the status message the broker keeps
    drops, outages, lates, crashes, stops

vars == <<wanted, life, go, attempt, connected, threaded, link, brokerUp, loops, sample,
          copies, retained, drops, outages, lates, crashes, stops>>

process == <<life, go, attempt, connected, threaded, loops>>
counters == <<drops, outages, lates, crashes, stops>>

Sample == 1..MaxSamples

TypeOK ==
    /\ wanted \in BOOLEAN /\ go \in BOOLEAN /\ connected \in BOOLEAN
    /\ threaded \in BOOLEAN /\ brokerUp \in BOOLEAN
    /\ life \in {"down", "try", "wait", "running"}
    /\ attempt \in 0..(MaxRetries - 1)
    /\ link \in {"none", "opening", "up"}
    /\ loops \in 0..(Beat - 1)
    /\ sample \in [Sample -> {"unmade", "queued", "sent", "got", "acked", "dropped"}]
    /\ copies \in [Sample -> Nat]
    /\ retained \in {"none", "online", "offline"}
    /\ \A n \in {drops, outages, lates, crashes, stops} : n \in Nat

Init ==
    /\ wanted = TRUE /\ life = "down" /\ go = TRUE /\ attempt = 0
    /\ connected = FALSE /\ threaded = FALSE /\ link = "none" /\ brokerUp = TRUE
    /\ loops = 0
    /\ sample = [m \in Sample |-> "unmade"]
    /\ copies = [m \in Sample |-> 0]
    /\ retained = "none"
    /\ drops = 0 /\ outages = 0 /\ lates = 0 /\ crashes = 0 /\ stops = 0

-----------------------------------------------------------------------------
(* Helpers *)

Held(m) == sample[m] \in {"queued", "sent", "got"}

\* Mutant of Requeued: a message that was handed to the old connection is forgotten.
RequeuedUnsent ==
    [m \in Sample |-> IF sample[m] \in {"sent", "got"} THEN "acked" ELSE sample[m]]

\* The connection is gone: what was not acknowledged waits for the next one.
Requeued == [m \in Sample |-> IF Held(m) THEN "queued" ELSE sample[m]]

\* The process is gone, and with it what paho held in memory.
Forgotten == [m \in Sample |-> IF Held(m) THEN "dropped" ELSE sample[m]]

\* The process ends; systemd may start another.
Ends ==
    /\ life' = "down"
    /\ go' = TRUE
    /\ attempt' = 0
    /\ connected' = FALSE
    /\ threaded' = FALSE
    /\ loops' = 0
    /\ link' = "none"
    /\ sample' = Forgotten

-----------------------------------------------------------------------------
(* The connection, on paho's network thread *)

\* The broker accepts: _on_connect sets the flag, and paho sends what it holds.
Connack ==
    /\ link = "opening" /\ brokerUp
    /\ link' = "up"
    /\ connected' = TRUE
    /\ sample' = [m \in Sample |-> IF sample[m] = "queued" THEN "sent" ELSE sample[m]]
    /\ UNCHANGED <<wanted, life, go, attempt, threaded, brokerUp, loops, copies, retained,
                   counters>>

\* _on_disconnect; paho keeps the messages.
Broken ==
    /\ link' = "none"
    /\ connected' = FALSE
    /\ sample' = Requeued

Break ==
    /\ link # "none" /\ drops < MaxDrops
    /\ Broken
    /\ drops' = drops + 1
    /\ UNCHANGED <<wanted, life, go, attempt, threaded, brokerUp, loops, copies, retained,
                   outages, lates, crashes, stops>>

\* Mutant of Reconnect: the network thread only runs while connect() waits.
ReconnectAtFirst ==
    /\ threaded /\ link = "none" /\ brokerUp /\ life \in {"try", "wait"}
    /\ link' = "opening"
    /\ UNCHANGED <<wanted, process, brokerUp, sample, copies, retained, counters>>

\* paho's thread reconnects after any loss, during connect()'s delays as well.
Reconnect ==
    /\ threaded /\ link = "none" /\ brokerUp /\ life # "down"
    /\ link' = "opening"
    /\ UNCHANGED <<wanted, process, brokerUp, sample, copies, retained, counters>>

\* The broker receives a sample, in the order of the connection.
Deliver(m) ==
    /\ link = "up" /\ brokerUp
    /\ sample[m] = "sent"
    /\ \A k \in Sample : k < m => sample[k] # "sent"
    /\ sample' = [sample EXCEPT ![m] = "got"]
    /\ copies' = [copies EXCEPT ![m] = @ + 1]
    /\ UNCHANGED <<wanted, process, link, brokerUp, retained, counters>>

\* The acknowledgement arrives.
Puback(m) ==
    /\ link = "up" /\ brokerUp
    /\ sample[m] = "got"
    /\ sample' = [sample EXCEPT ![m] = "acked"]
    /\ UNCHANGED <<wanted, process, link, brokerUp, copies, retained, counters>>

\* The broker stops (its retained messages are persistent) and comes back.
Outage ==
    /\ brokerUp /\ outages < MaxOutages
    /\ brokerUp' = FALSE
    /\ outages' = outages + 1
    /\ Broken
    /\ UNCHANGED <<wanted, life, go, attempt, threaded, loops, copies, retained,
                   drops, lates, crashes, stops>>

BrokerBack ==
    /\ ~brokerUp
    /\ brokerUp' = TRUE
    /\ UNCHANGED <<wanted, process, link, sample, copies, retained, counters>>

-----------------------------------------------------------------------------
(* MQTTPublisher.connect *)

\* systemd starts the service.
Start ==
    /\ wanted /\ life = "down"
    /\ life' = "try"
    /\ UNCHANGED <<wanted, go, attempt, connected, threaded, link, brokerUp, loops, sample,
                   copies, retained, counters>>

\* Mutant of Retry: the loop never gives up.
RetryForEver ==
    /\ life' = "try"
    /\ attempt' = attempt + 1
    /\ UNCHANGED <<go, connected, threaded, loops, link, sample>>

\* Mutant of Retry: the error of the last attempt is swallowed, and connect() waits for
\* the network thread.
RetryHang ==
    /\ IF attempt + 1 = MaxRetries
         THEN life' = "wait" /\ UNCHANGED attempt
         ELSE life' = "try" /\ attempt' = attempt + 1
    /\ UNCHANGED <<go, connected, threaded, loops, link, sample>>

\* The except branch: the next attempt after the delay, or RuntimeError, which ends the
\* process.
Retry ==
    IF attempt + 1 = MaxRetries
      THEN Ends
      ELSE /\ life' = "try"
           /\ attempt' = attempt + 1
           /\ UNCHANGED <<go, connected, threaded, loops, link, sample>>

\* client.connect raises: nobody listens.
AttemptFails ==
    /\ life = "try" /\ ~brokerUp
    /\ Retry
    /\ UNCHANGED <<wanted, brokerUp, copies, retained, counters>>

\* client.connect drops the connection the thread may have made meanwhile and opens one;
\* whether the thread reports that to _on_disconnect depends on what it is doing.
Attempt ==
    /\ life = "try" /\ brokerUp
    /\ life' = "wait"
    /\ threaded' = TRUE
    /\ link' = "opening"
    /\ connected' \in {connected, FALSE}
    /\ UNCHANGED <<wanted, go, attempt, brokerUp, loops, sample, copies, retained, counters>>

\* After two seconds the flag is set: connect returns.
Return ==
    /\ life = "wait" /\ connected
    /\ life' = "running"
    /\ UNCHANGED <<wanted, go, attempt, connected, threaded, link, brokerUp, loops, sample,
                   copies, retained, counters>>

\* It is not: the connection broke, or the CONNACK is late.
Unacknowledged ==
    /\ life = "wait" /\ ~connected
    /\ \/ link = "none" /\ UNCHANGED lates
       \/ link = "opening" /\ lates < MaxLate /\ lates' = lates + 1
    /\ Retry
    /\ UNCHANGED <<wanted, brokerUp, copies, retained, drops, outages, crashes, stops>>

-----------------------------------------------------------------------------
(* WattWisePublisher.run *)

\* publish_device: paho takes the sample whatever the state of the connection; the error
\* it returns without one does not keep it from sending the sample later.
Taken(m) ==
    /\ sample[m] = "unmade" /\ \A k \in Sample : k < m => sample[k] # "unmade"
    /\ sample' = [sample EXCEPT ![m] = IF link = "up" THEN "sent" ELSE "queued"]

\* The latest power in the local InfluxDB, or none: no measurement has a point, the value
\* is not a sensible one, or the query fails.
get_energy_kwh == {"power", "none"}

\* _build_payload: without a power there is nothing to publish; MaxSamples bounds the rest.
Payload ==
    \E power \in get_energy_kwh :
        IF power = "none" \/ \A m \in Sample : sample[m] # "unmade"
          THEN UNCHANGED sample
          ELSE \E m \in Sample : Taken(m)

\* A status message has QoS 0: one sent on a connection that breaks before it arrives is
\* lost, as if the connection had broken first.
Told(s) ==
    /\ link # "none" /\ brokerUp
    /\ retained' = s

\* Mutant of Loop: the heartbeat is sent once, when loop_count reaches Beat.
LoopBeatOnce ==
    /\ life = "running" /\ go
    /\ Payload
    /\ loops' = IF loops = Beat - 1 THEN loops ELSE loops + 1
    /\ IF loops' # loops /\ loops' = Beat - 1 /\ link # "none"
         THEN Told("online")
         ELSE UNCHANGED retained
    /\ UNCHANGED <<wanted, life, go, attempt, connected, threaded, link, brokerUp, copies,
                   counters>>

\* One round of the loop: a sample if there is data, and the heartbeat every Beat-th time.
Loop ==
    /\ life = "running" /\ go
    /\ Payload
    /\ loops' = (loops + 1) % Beat
    /\ IF loops' = 0 /\ link # "none" THEN Told("online") ELSE UNCHANGED retained
    /\ UNCHANGED <<wanted, life, go, attempt, connected, threaded, link, brokerUp, copies,
                   counters>>

\* After the loop: the status "offline", loop_stop, which flushes what is on its way, and
\* disconnect.
Farewell ==
    /\ life = "running" /\ ~go
    /\ Told("offline") \/ (link = "none" /\ UNCHANGED retained)
    /\ Ends
    /\ UNCHANGED <<wanted, brokerUp, copies, counters>>

-----------------------------------------------------------------------------
(* The service *)

\* systemctl stop sends SIGTERM; the handler clears self.running.
Stop ==
    /\ wanted /\ stops < MaxStops
    /\ wanted' = FALSE
    /\ stops' = stops + 1
    /\ go' = (life = "down")
    /\ UNCHANGED <<life, attempt, connected, threaded, link, brokerUp, loops, sample, copies,
                   retained, drops, outages, lates, crashes>>

Restart ==
    /\ ~wanted /\ life = "down"
    /\ wanted' = TRUE
    /\ UNCHANGED <<process, link, brokerUp, sample, copies, retained, counters>>

\* connect() looks at no signal: systemd kills the process after its stop timeout.
Kill ==
    /\ ~go /\ life \in {"try", "wait"}
    /\ Ends
    /\ UNCHANGED <<wanted, brokerUp, copies, retained, counters>>

Crash ==
    /\ life # "down" /\ crashes < MaxCrash
    /\ Ends
    /\ crashes' = crashes + 1
    /\ UNCHANGED <<wanted, brokerUp, copies, retained, drops, outages, lates, stops>>

-----------------------------------------------------------------------------
Connecting == Start \/ AttemptFails \/ Attempt \/ Return \/ Unacknowledged

Next ==
    \/ Connack \/ Break \/ Reconnect \/ Outage \/ BrokerBack
    \/ \E m \in Sample : Deliver(m) \/ Puback(m)
    \/ Start \/ AttemptFails \/ Attempt \/ Return \/ Unacknowledged
    \/ Loop \/ Farewell
    \/ Stop \/ Restart \/ Kill \/ Crash

\* systemd, the process and paho's thread go on, and an outage ends; nothing obliges a
\* connection to break, a CONNACK to be late, or anyone to stop or start the service.
Fairness ==
    /\ WF_vars(Connecting) /\ WF_vars(Loop) /\ WF_vars(Farewell) /\ WF_vars(Kill)
    /\ WF_vars(Reconnect) /\ WF_vars(Connack) /\ WF_vars(BrokerBack)
    /\ \A m \in Sample : WF_vars(Deliver(m)) /\ WF_vars(Puback(m))

Spec == Init /\ [][Next]_vars /\ Fairness

-----------------------------------------------------------------------------
(* Properties *)

\* While the process lives, whatever the connection and the broker do, and although
\* publish reported an error, a sample leaves paho only once the broker has it
\* (publish_device).
NothingDroppedAlive ==
    [][\A m \in Sample :
        Held(m) /\ sample'[m] \notin {"queued", "sent", "got"}
            => copies'[m] > 0 \/ life' = "down"]_vars

\* No sample waits for ever behind a broken connection: the network thread outlives
\* connect(), and reconnects (run, _on_disconnect).
DeliveredInTheEnd == \A m \in Sample : Held(m) ~> ~Held(m)

\* A wanted publisher always comes back to its loop: connect() gives up after its
\* attempts, and the service is started again (connect, Restart=always).
PublisherReturns == []<>(life = "running" \/ ~wanted)

\* A publisher that stays connected is shown online in the end, whatever its predecessor
\* left retained and whichever heartbeats were lost (run, publish_home_status).
StatusCatchesUp == []<>(life # "running" \/ ~go \/ link # "up" \/ retained = "online")

=============================================================================
