-------------------------- MODULE PublisherProofs --------------------------
(***************************************************************************)
(* Proofs about Publisher for every number of samples, attempts, broken    *)
(* connections, outages, crashes and stops.                                *)
(*                                                                         *)
(* That a living process loses no sample is a statement about one step;    *)
(* what makes it true is that the acknowledgement, the only way out of     *)
(* paho's memory, follows the broker's receipt (Landed).                   *)
(***************************************************************************)
EXTENDS Publisher, TLAPS

\* What the broker has acknowledged, or is about to, it has received.
Landed == \A m \in Sample : sample[m] \in {"got", "acked"} => copies[m] > 0

\* Nothing is under way without a connection (so that a new one finds in the queue all
\* that the old one did not settle), and only a process in its loop holds samples.
OnTheWire ==
    \A m \in Sample :
        /\ sample[m] \in {"sent", "got"} => link = "up"
        /\ Held(m) => life = "running"

\* The thread that reconnects is there whenever something may depend on it: from the
\* first connection to the end of the process, connect()'s delays included.
ThreadStays ==
    /\ life \in {"wait", "running"} \/ link # "none" => threaded
    /\ threaded => life # "down"

IInv == TypeOK /\ Landed /\ OnTheWire /\ ThreadStays

-----------------------------------------------------------------------------
(* Lemmas about the operators *)

\* One turn of the heartbeat counter stays below Beat.
LEMMA BeatRange ==
  ASSUME NEW n \in 0..(Beat - 1)
  PROVE  (n + 1) % Beat \in 0..(Beat - 1)
<1>1. Beat \in Nat /\ Beat > 0
  BY RetryAssumption
<1>2. n + 1 \in Nat
  BY <1>1
<1>3. QED
  BY <1>1, <1>2

\* What the loss of a connection, or of the process, makes of the samples.
LEMMA Losses ==
  ASSUME TypeOK, Landed
  PROVE  /\ \A f \in {Requeued, Forgotten} :
                /\ f \in [Sample -> {"unmade", "queued", "sent", "got", "acked", "dropped"}]
                /\ \A m \in Sample :
                    /\ f[m] \notin {"sent", "got"}
                    /\ f[m] = "acked" => sample[m] = "acked" /\ copies[m] > 0
         /\ \A m \in Sample : Requeued[m] = "queued" <=> Held(m)
         /\ \A m \in Sample : Forgotten[m] # "queued"
BY DEF TypeOK, Landed, Requeued, Forgotten, Held

\* The end of the process leaves nothing that depends on it.
LEMMA EndsKeeps ==
  ASSUME IInv, Ends, copies' = copies,
         wanted' \in BOOLEAN, brokerUp' \in BOOLEAN,
         retained' \in {"none", "online", "offline"},
         \A n \in {drops', outages', lates', crashes', stops'} : n \in Nat
  PROVE  IInv'
<1>1. TypeOK /\ Landed
  BY DEF IInv
<1>2. sample' = Forgotten
  BY DEF Ends
<1>3. 0 \in 0..(MaxRetries - 1) /\ 0 \in 0..(Beat - 1)
  BY RetryAssumption
<1>4. TypeOK'
  BY <1>1, <1>2, <1>3, Losses DEF TypeOK, Ends
<1>5. Landed'
  BY <1>1, <1>2, Losses DEF Landed
<1>6. OnTheWire'
  BY <1>1, <1>2, Losses DEF OnTheWire, Held
<1>7. ThreadStays'
  BY DEF ThreadStays, Ends
<1>8. QED
  BY <1>4, <1>5, <1>6, <1>7 DEF IInv

\* Neither does the loss of the connection.
LEMMA BrokenKeeps ==
  ASSUME IInv, Broken, brokerUp' \in BOOLEAN,
         UNCHANGED <<wanted, life, go, attempt, threaded, loops, copies, retained>>,
         \A n \in {drops', outages', lates', crashes', stops'} : n \in Nat
  PROVE  IInv'
<1>1. TypeOK /\ Landed /\ OnTheWire /\ ThreadStays
  BY DEF IInv
<1>2. sample' = Requeued
  BY DEF Broken
<1>3. TypeOK'
  BY <1>1, <1>2, Losses DEF TypeOK, Broken
<1>4. Landed'
  BY <1>1, <1>2, Losses DEF Landed
<1>5. OnTheWire'
  BY <1>1, <1>2, Losses DEF OnTheWire, Held
<1>6. ThreadStays'
  BY <1>1 DEF ThreadStays, Broken
<1>7. QED
  BY <1>3, <1>4, <1>5, <1>6 DEF IInv

\* A failed attempt is followed by another one or by the end of the process.
LEMMA RetryKeeps ==
  ASSUME IInv, Retry, life \in {"try", "wait"},
         UNCHANGED <<wanted, brokerUp, copies, retained>>,
         \A n \in {drops', outages', lates', crashes', stops'} : n \in Nat
  PROVE  IInv'
<1>1. TypeOK /\ Landed /\ OnTheWire /\ ThreadStays
  BY DEF IInv
<1>2. CASE attempt + 1 = MaxRetries
  <2>1. Ends
    BY <1>2 DEF Retry
  <2>2. QED
    BY <2>1, <1>1, EndsKeeps DEF TypeOK
<1>3. CASE attempt + 1 # MaxRetries
  <2>1. /\ life' = "try" /\ attempt' = attempt + 1
        /\ UNCHANGED <<go, connected, threaded, loops, link, sample>>
    BY <1>3 DEF Retry
  <2>2. attempt + 1 \in 0..(MaxRetries - 1)
    BY <1>1, <1>3, RetryAssumption DEF TypeOK
  <2>3. TypeOK'
    BY <1>1, <2>1, <2>2 DEF TypeOK
  <2>4. Landed'
    BY <1>1, <2>1 DEF Landed
  <2>5. OnTheWire'
    BY <1>1, <2>1 DEF OnTheWire, Held
  <2>6. ThreadStays'
    BY <1>1, <2>1 DEF ThreadStays
  <2>7. QED
    BY <2>3, <2>4, <2>5, <2>6 DEF IInv
<1>4. QED
  BY <1>2, <1>3

\* A round of the loop adds one sample at most, under way only on a connection.
LEMMA PayloadKeeps ==
  ASSUME IInv, Payload, copies' = copies, link' = link, life = "running", life' = life
  PROVE  /\ sample' \in [Sample -> {"unmade", "queued", "sent", "got", "acked", "dropped"}]
         /\ Landed' /\ OnTheWire'
         /\ \A m \in Sample : Held(m) => sample'[m] = sample[m]
<1>1. TypeOK /\ Landed /\ OnTheWire
  BY DEF IInv
<1>2. CASE UNCHANGED sample
  BY <1>1, <1>2 DEF TypeOK, Landed, OnTheWire, Held
<1>3. ASSUME NEW m \in Sample, Taken(m)
      PROVE  /\ sample' \in [Sample -> {"unmade", "queued", "sent", "got", "acked", "dropped"}]
             /\ Landed' /\ OnTheWire'
             /\ \A k \in Sample : Held(k) => sample'[k] = sample[k]
  BY <1>1, <1>3 DEF TypeOK, Landed, OnTheWire, Held, Taken
<1>4. QED
  BY <1>2, <1>3 DEF Payload

-----------------------------------------------------------------------------
(* The invariant *)

\* The invariant holds before the first start.
LEMMA InitIInv == Init => IInv
<1> SUFFICES ASSUME Init
             PROVE  IInv
  OBVIOUS
<1>1. 0 \in 0..(MaxRetries - 1) /\ 0 \in 0..(Beat - 1)
  BY RetryAssumption
<1>2. \A n \in {drops, outages, lates, crashes, stops} : n \in Nat
  BY DEF Init
<1>3. /\ sample \in [Sample -> {"unmade", "queued", "sent", "got", "acked", "dropped"}]
      /\ copies \in [Sample -> Nat]
  BY DEF Init
<1>4. TypeOK
  BY <1>1, <1>2, <1>3 DEF Init, TypeOK
<1>5. Landed /\ OnTheWire /\ ThreadStays
  BY DEF Init, Landed, OnTheWire, ThreadStays, Held
<1>6. QED
  BY <1>4, <1>5 DEF IInv

\* The invariant is inductive.
LEMMA NextIInv == IInv /\ [Next]_vars => IInv'
<1> SUFFICES ASSUME IInv, [Next]_vars
             PROVE  IInv'
  OBVIOUS
<1>0. TypeOK /\ Landed /\ OnTheWire /\ ThreadStays
  BY DEF IInv
<1> USE DEF process, counters
<1>1. CASE Connack
  <2>1. TypeOK'
    BY <1>0, <1>1 DEF TypeOK, Connack
  <2>2. Landed'
    BY <1>0, <1>1 DEF Landed, Connack, TypeOK
  <2>3. OnTheWire'
    BY <1>0, <1>1 DEF OnTheWire, Held, Connack, TypeOK
  <2>4. ThreadStays'
    BY <1>0, <1>1 DEF ThreadStays, Connack
  <2>5. QED
    BY <2>1, <2>2, <2>3, <2>4 DEF IInv
<1>2. CASE Break
  <2>1. /\ Broken /\ drops' = drops + 1
        /\ UNCHANGED <<wanted, life, go, attempt, threaded, brokerUp, loops, copies, retained,
                       outages, lates, crashes, stops>>
    BY <1>2 DEF Break
  <2>2. \A n \in {drops', outages', lates', crashes', stops'} : n \in Nat
    BY <1>0, <2>1 DEF TypeOK
  <2>3. brokerUp' \in BOOLEAN
    BY <1>0, <2>1 DEF TypeOK
  <2>4. QED
    BY <2>1, <2>2, <2>3, BrokenKeeps
<1>3. CASE Reconnect
  BY <1>0, <1>3 DEF Reconnect, IInv, TypeOK, Landed, OnTheWire, ThreadStays, Held
<1>4. CASE Outage
  <2>1. /\ Broken /\ brokerUp' = FALSE /\ outages' = outages + 1
        /\ UNCHANGED <<wanted, life, go, attempt, threaded, loops, copies, retained,
                       drops, lates, crashes, stops>>
    BY <1>4 DEF Outage
  <2>2. \A n \in {drops', outages', lates', crashes', stops'} : n \in Nat
    BY <1>0, <2>1 DEF TypeOK
  <2>3. QED
    BY <2>1, <2>2, BrokenKeeps
<1>5. CASE BrokerBack
  BY <1>0, <1>5 DEF BrokerBack, IInv, TypeOK, Landed, OnTheWire, ThreadStays, Held
<1>6. ASSUME NEW m \in Sample, Deliver(m)
      PROVE  IInv'
  <2>1. TypeOK'
    BY <1>0, <1>6 DEF TypeOK, Deliver
  <2>2. Landed'
    BY <1>0, <1>6 DEF Landed, Deliver, TypeOK
  <2>3. OnTheWire'
    BY <1>0, <1>6 DEF OnTheWire, Held, Deliver, TypeOK
  <2>4. ThreadStays'
    BY <1>0, <1>6 DEF ThreadStays, Deliver
  <2>5. QED
    BY <2>1, <2>2, <2>3, <2>4 DEF IInv
<1>7. ASSUME NEW m \in Sample, Puback(m)
      PROVE  IInv'
  <2>1. TypeOK'
    BY <1>0, <1>7 DEF TypeOK, Puback
  <2>2. Landed'
    BY <1>0, <1>7 DEF Landed, Puback, TypeOK
  <2>3. OnTheWire'
    BY <1>0, <1>7 DEF OnTheWire, Held, Puback, TypeOK
  <2>4. ThreadStays'
    BY <1>0, <1>7 DEF ThreadStays, Puback
  <2>5. QED
    BY <2>1, <2>2, <2>3, <2>4 DEF IInv
<1>8. CASE Start
  BY <1>0, <1>8 DEF Start, IInv, TypeOK, Landed, OnTheWire, ThreadStays, Held
<1>9. CASE AttemptFails
  BY <1>0, <1>9, RetryKeeps DEF AttemptFails, TypeOK
<1>10. CASE Attempt
  <2>1. TypeOK'
    BY <1>0, <1>10 DEF TypeOK, Attempt
  <2>2. Landed'
    BY <1>0, <1>10 DEF Landed, Attempt
  <2>3. OnTheWire'
    BY <1>0, <1>10 DEF OnTheWire, Held, Attempt
  <2>4. ThreadStays'
    BY <1>0, <1>10 DEF ThreadStays, Attempt
  <2>5. QED
    BY <2>1, <2>2, <2>3, <2>4 DEF IInv
<1>11. CASE Return
  BY <1>0, <1>11 DEF Return, IInv, TypeOK, Landed, OnTheWire, ThreadStays, Held
<1>12. CASE Unacknowledged
  <2>1. lates' \in Nat
    BY <1>0, <1>12 DEF Unacknowledged, TypeOK
  <2>2. QED
    BY <1>0, <1>12, <2>1, RetryKeeps DEF Unacknowledged, TypeOK
<1>13. CASE Loop
  <2>1. /\ sample' \in [Sample -> {"unmade", "queued", "sent", "got", "acked", "dropped"}]
        /\ Landed' /\ OnTheWire'
    BY <1>13, PayloadKeeps DEF Loop
  <2>2. loops' \in 0..(Beat - 1)
    BY <1>0, <1>13, BeatRange DEF Loop, TypeOK
  <2>3. retained' \in {"none", "online", "offline"}
    BY <1>0, <1>13 DEF Loop, Told, TypeOK
  <2>4. TypeOK'
    BY <1>0, <1>13, <2>1, <2>2, <2>3 DEF Loop, TypeOK
  <2>5. ThreadStays'
    BY <1>0, <1>13 DEF Loop, ThreadStays
  <2>6. QED
    BY <2>1, <2>4, <2>5 DEF IInv
<1>14. CASE Farewell
  <2>1. retained' \in {"none", "online", "offline"}
    BY <1>0, <1>14 DEF Farewell, Told, TypeOK
  <2>2. QED
    <3>1. Ends /\ UNCHANGED <<wanted, brokerUp, copies, drops, outages, lates, crashes, stops>>
      BY <1>14 DEF Farewell
    <3>2. \A n \in {drops', outages', lates', crashes', stops'} : n \in Nat
      BY <1>0, <3>1 DEF TypeOK
    <3>3. wanted' \in BOOLEAN /\ brokerUp' \in BOOLEAN
      BY <1>0, <3>1 DEF TypeOK
    <3>4. QED
      BY <2>1, <3>1, <3>2, <3>3, EndsKeeps
<1>15. CASE Stop
  <2>1. /\ wanted' = FALSE /\ stops' = stops + 1
        /\ UNCHANGED <<life, attempt, connected, threaded, link, brokerUp, loops, sample,
                       copies, retained, drops, outages, lates, crashes>>
    BY <1>15 DEF Stop
  <2>2. TypeOK'
    <3>1. go' = (life = "down")
      BY <1>15 DEF Stop
    <3>2. (life = "down") \in BOOLEAN
      OBVIOUS
    <3>3. go' \in BOOLEAN
      BY <3>1, <3>2, Zenon
    <3>4. \A n \in {drops', outages', lates', crashes', stops'} : n \in Nat
      BY <1>0, <2>1 DEF TypeOK
    <3>5. wanted' \in BOOLEAN
      BY <2>1
    <3>6. QED
      BY <1>0, <2>1, <3>3, <3>4, <3>5 DEF TypeOK
  <2>3. Landed' /\ OnTheWire' /\ ThreadStays'
    BY <1>0, <1>15 DEF Stop, Landed, OnTheWire, ThreadStays, Held
  <2>4. QED
    BY <2>2, <2>3 DEF IInv
<1>16. CASE Restart
  BY <1>0, <1>16 DEF Restart, IInv, TypeOK, Landed, OnTheWire, ThreadStays, Held
<1>17. CASE Kill
  BY <1>0, <1>17, EndsKeeps DEF Kill, TypeOK
<1>18. CASE Crash
  BY <1>0, <1>18, EndsKeeps DEF Crash, TypeOK
<1>19. CASE UNCHANGED vars
  BY <1>0, <1>19 DEF vars, IInv, TypeOK, Landed, OnTheWire, ThreadStays, Held
<1>20. QED
  BY <1>1, <1>2, <1>3, <1>4, <1>5, <1>6, <1>7, <1>8, <1>9, <1>10, <1>11, <1>12, <1>13,
     <1>14, <1>15, <1>16, <1>17, <1>18, <1>19 DEF Next

\* The invariant the theorems rest on, for every value of the constants.
THEOREM Invariance == Spec => []IInv
<1>1. Init => IInv
  BY InitIInv
<1>2. IInv /\ [Next]_vars => IInv'
  BY NextIInv
<1>3. QED
  BY <1>1, <1>2, PTL DEF Spec

\* Every variable keeps its type; connect() stays within its attempts, and the counter
\* of the heartbeats below Beat (connect, run).
THEOREM TypeCorrect == Spec => []TypeOK
<1>1. IInv => TypeOK
  BY DEF IInv
<1>2. QED
  BY <1>1, Invariance, PTL

-----------------------------------------------------------------------------
(* What a living process may lose *)

\* A step takes a sample out of paho's memory when the broker has acknowledged it, or
\* when the process ends.
LEMMA LeavesWhenSettled ==
  ASSUME IInv, Next, NEW m \in Sample, Held(m),
         sample'[m] \notin {"queued", "sent", "got"}
  PROVE  copies'[m] > 0 \/ life' = "down"
<1>0. TypeOK /\ Landed /\ OnTheWire
  BY DEF IInv
<1>1. CASE sample'[m] = sample[m]
  BY <1>1 DEF Held
<1>2. ASSUME Broken
      PROVE  FALSE
  BY <1>0, <1>2 DEF Broken, Requeued, TypeOK
<1>3. CASE Connack
  BY <1>0, <1>3 DEF Connack, Held, TypeOK
<1>4. CASE Break \/ Outage
  BY <1>2, <1>4 DEF Break, Outage
<1>5. ASSUME NEW k \in Sample, Deliver(k)
      PROVE  FALSE
  BY <1>0, <1>5 DEF Deliver, Held, TypeOK
<1>6. ASSUME NEW k \in Sample, Puback(k)
      PROVE  copies'[m] > 0
  <2>1. k = m /\ sample[m] = "got" /\ copies' = copies
    BY <1>0, <1>6 DEF Puback, Held, TypeOK
  <2>2. QED
    BY <1>0, <2>1 DEF Landed
<1>7. ASSUME Retry
      PROVE  life' = "down" \/ sample' = sample
  BY <1>7 DEF Retry, Ends
<1>8. CASE AttemptFails \/ Unacknowledged
  BY <1>1, <1>7, <1>8 DEF AttemptFails, Unacknowledged
<1>9. CASE Loop
  <2>1. sample'[m] = sample[m]
    BY <1>9, PayloadKeeps DEF Loop
  <2>2. QED
    BY <1>1, <2>1
<1>10. CASE Farewell \/ Kill \/ Crash
  BY <1>10 DEF Farewell, Kill, Crash, Ends
<1>11. CASE Reconnect \/ BrokerBack \/ Start \/ Attempt \/ Return \/ Stop \/ Restart
  BY <1>1, <1>11 DEF Reconnect, BrokerBack, Start, Attempt, Return, Stop, Restart
<1>12. QED
  BY <1>3, <1>4, <1>5, <1>6, <1>8, <1>9, <1>10, <1>11 DEF Next

\* While the process lives, whatever the connection and the broker do, a sample leaves
\* paho only once the broker has it (publish_device).
THEOREM NoSampleDroppedAlive == Spec => NothingDroppedAlive
<1>1. IInv /\ [Next]_vars =>
        [\A m \in Sample :
            Held(m) /\ sample'[m] \notin {"queued", "sent", "got"}
                => copies'[m] > 0 \/ life' = "down"]_vars
  <2> SUFFICES ASSUME IInv, Next, NEW m \in Sample, Held(m),
                      sample'[m] \notin {"queued", "sent", "got"}
               PROVE  copies'[m] > 0 \/ life' = "down"
    OBVIOUS
  <2>1. QED
    BY LeavesWhenSettled
<1>2. QED
  BY <1>1, Invariance, PTL DEF Spec, NothingDroppedAlive

\* A process that is in its loop, or has a connection, has the network thread that
\* reconnects, and nothing is under way without a connection: what a lost one did not
\* settle is in the queue of the next (connect, run, _on_disconnect).
THEOREM ThreadOutlivesConnect == Spec => [](ThreadStays /\ OnTheWire)
<1>1. IInv => ThreadStays /\ OnTheWire
  BY DEF IInv
<1>2. QED
  BY <1>1, Invariance, PTL

=============================================================================
