------------------------------ MODULE Decisions ------------------------------
(***************************************************************************)
(* User decisions on notifications, the switch actions observed for them,  *)
(* and the job that measures their impact: app/routers/decisions.py,       *)
(* app/decision_tracker.py, simulate_user_decisions (app/routers/admin.py) *)
(* and the two ways a notification disappears with what refers to it.      *)
(*                                                                         *)
(* Each request and the job is a process with one database session.  What  *)
(* it SELECTs before a commit comes from one snapshot; a commit checks the *)
(* foreign keys against the rows committed by then.                        *)
(***************************************************************************)
EXTENDS Naturals, FiniteSets

CONSTANTS
    Notif,
    Reporter,    \* requests of POST /api/decisions/
    Hook,        \* requests of POST /api/decisions/observed-action
    Simulator,   \* requests of the admin's simulate_user_decisions
    Deleter,     \* requests of DELETE /api/notifications/{id}
    Job,         \* instances of the decision_impact job
    Batch,       \* the LIMIT of one run of the job
    MaxRequests, \* bound: requests explored
    MaxCrash     \* bound: processes that die halfway

Proc == Reporter \cup Hook \cup Simulator \cup Deleter \cup Job
None == 0

ASSUME ProcAssumption ==
    LET kinds == <<Reporter, Hook, Simulator, Deleter, Job>>
    IN  \A i, j \in 1..5 : i # j => kinds[i] \cap kinds[j] = {}
ASSUME NotifAssumption == IsFiniteSet(Notif) /\ Notif # {}
ASSUME BatchAssumption == Batch \in Nat \ {0}

VARIABLES
    age,           \* of each notification: absent, fresh, old (past retention) or gone
    decisions,     \* committed rows of user_decisions
    observed,      \* committed rows of decision_observed_actions
    nextId,        \* AUTO_INCREMENT of user_decisions
    req,           \* the state of each process
    requests, crashes  \* counters that bound the exploration

vars == <<age, decisions, observed, nextId, req, requests, crashes>>

Decision == [id : Nat, notif : Notif,
             before : BOOLEAN,   \* energy_before_kwh is known
             due : BOOLEAN,      \* the measurement window has elapsed
             scored : BOOLEAN,   \* impact_calculated_at is set
             begun : Nat]        \* history: nextId when its request began

Observation == [notif : Notif, decision : Nat, save : BOOLEAN]

\* pc    - idle, about to commit, about to record the observation, or in a batch
\* notif - the notification of the request
\* todo  - the simulator's notifications
\* batch - the job's decisions, as it read them
\* saw   - the decision it read or made for the notification, or None
\* save  - the observed state is off, standby or unplugged
\* begun - nextId when it began (history)
Request == [pc : {"idle", "commit", "observe", "batch"}, notif : Notif,
            todo : SUBSET Notif, batch : SUBSET Nat, saw : Nat, save : BOOLEAN,
            begun : Nat]

TypeOK ==
    /\ age \in [Notif -> {"absent", "fresh", "old", "gone"}]
    /\ decisions \in SUBSET Decision
    /\ observed \in SUBSET Observation
    /\ nextId \in Nat \ {None}
    /\ req \in [Proc -> Request]
    /\ requests \in Nat
    /\ crashes \in Nat

Idle == [pc |-> "idle", notif |-> CHOOSE n \in Notif : TRUE, todo |-> {}, batch |-> {},
         saw |-> None, save |-> FALSE, begun |-> 0]

Init ==
    /\ age = [n \in Notif |-> "absent"]
    /\ decisions = {} /\ observed = {}
    /\ nextId = 1
    /\ req = [p \in Proc |-> Idle]
    /\ requests = 0 /\ crashes = 0

-----------------------------------------------------------------------------
(* Helpers *)

Present(n) == age[n] \in {"fresh", "old"}

DecisionsOf(n) == {d \in decisions : d.notif = n}

\* What SELECT ... LIMIT 1 may return: a decision of n, or None.
SelectDecision(n) ==
    IF DecisionsOf(n) = {} THEN {None} ELSE {d.id : d \in DecisionsOf(n)}

\* A request begins.
Begin(p) ==
    /\ req[p].pc = "idle"
    /\ requests < MaxRequests
    /\ requests' = requests + 1

\* Mutant of NewDecision: the ids it is given are swapped, so that it refers to its sender.
NewDecisionSwapped(p, n, id, before, scored) ==
    [id |-> id, notif |-> p, before |-> before, due |-> scored, scored |-> scored,
     begun |-> req[p].begun]

\* The row a request commits; a simulated one is scored from the start.
NewDecision(p, n, id, before, scored) ==
    [id |-> id, notif |-> n, before |-> before, due |-> scored, scored |-> scored,
     begun |-> req[p].begun]

\* Deleting the notifications in N cascades to what refers to them.
Cascade(N) ==
    /\ age' = [n \in Notif |-> IF n \in N THEN "gone" ELSE age[n]]
    /\ decisions' = {d \in decisions : d.notif \notin N}
    /\ observed' = {o \in observed : o.notif \notin N}

-----------------------------------------------------------------------------
(* Notifications come and age *)

\* create_notification.
Raise(n) ==
    /\ age[n] = "absent"
    /\ age' = [age EXCEPT ![n] = "fresh"]
    /\ UNCHANGED <<decisions, observed, nextId, req, requests, crashes>>

\* 90 days pass: the notification falls out of the simulator's window and becomes due
\* for cleanup.
Grow(n) ==
    /\ age[n] = "fresh"
    /\ age' = [age EXCEPT ![n] = "old"]
    /\ UNCHANGED <<decisions, observed, nextId, req, requests, crashes>>

\* DECISION_MEASURE_WINDOW_HOURS pass.
Elapse(d) ==
    /\ ~d.due
    /\ decisions' = (decisions \ {d}) \cup {[d EXCEPT !.due = TRUE]}
    /\ UNCHANGED <<age, observed, nextId, req, requests, crashes>>

-----------------------------------------------------------------------------
(* A user reports a decision *)

\* Mutant of Report: the 409 check is dropped.
ReportUnchecked(p, n) ==
    /\ p \in Reporter
    /\ Begin(p)
    /\ Present(n)
    /\ req' = [req EXCEPT ![p] = [Idle EXCEPT !.pc = "commit", !.notif = n, !.begun = nextId]]
    /\ UNCHANGED <<age, decisions, observed, nextId, crashes>>

\* record_decision: 404 for an unknown notification and 409 for a decided one change
\* nothing; otherwise it goes on to the INSERT.
Report(p, n) ==
    /\ p \in Reporter
    /\ Begin(p)
    /\ Present(n) /\ DecisionsOf(n) = {}
    /\ req' = [req EXCEPT ![p] = [Idle EXCEPT !.pc = "commit", !.notif = n, !.begun = nextId]]
    /\ UNCHANGED <<age, decisions, observed, nextId, crashes>>

\* The commit; no unique key forbids a second decision.  The foreign key fails the
\* request if the notification is gone.
ReportCommit(p) ==
    /\ p \in Reporter /\ req[p].pc = "commit"
    /\ IF Present(req[p].notif)
         THEN /\ \E before \in BOOLEAN :
                    decisions' = decisions \cup
                        {NewDecision(p, req[p].notif, nextId, before, FALSE)}
              /\ nextId' = nextId + 1
         ELSE UNCHANGED <<decisions, nextId>>
    /\ req' = [req EXCEPT ![p] = Idle]
    /\ UNCHANGED <<age, observed, requests, crashes>>

-----------------------------------------------------------------------------
(* The bridge reports a switch action *)

\* Mutant of Observe: a save action without a decision is only observed.
ObserveOnly(p, n) ==
    /\ p \in Hook
    /\ Begin(p)
    /\ Present(n)
    /\ \E save \in BOOLEAN, saw \in SelectDecision(n) :
        req' = [req EXCEPT ![p] =
            [Idle EXCEPT !.pc = "observe",
                         !.notif = n, !.saw = saw, !.save = save, !.begun = nextId]]
    /\ UNCHANGED <<age, decisions, observed, nextId, crashes>>

Observe(p, n) ==
    /\ p \in Hook
    /\ Begin(p)
    /\ Present(n)
    /\ \E save \in BOOLEAN, saw \in SelectDecision(n) :
        req' = [req EXCEPT ![p] =
            [Idle EXCEPT !.pc = IF saw = None /\ save THEN "commit" ELSE "observe",
                         !.notif = n, !.saw = saw, !.save = save, !.begun = nextId]]
    /\ UNCHANGED <<age, decisions, observed, nextId, crashes>>

\* No decision was seen for a save action: a verified one is committed first.
AutoClose(p) ==
    /\ p \in Hook /\ req[p].pc = "commit"
    /\ IF Present(req[p].notif)
         THEN /\ \E before \in BOOLEAN :
                    decisions' = decisions \cup
                        {NewDecision(p, req[p].notif, nextId, before, FALSE)}
              /\ nextId' = nextId + 1
              /\ req' = [req EXCEPT ![p].pc = "observe", ![p].saw = nextId]
         ELSE /\ req' = [req EXCEPT ![p] = Idle]
              /\ UNCHANGED <<decisions, nextId>>
    /\ UNCHANGED <<age, observed, requests, crashes>>

\* The observation's own commit.
ObserveCommit(p) ==
    /\ p \in Hook /\ req[p].pc = "observe"
    /\ observed' = IF Present(req[p].notif)
                     THEN observed \cup {[notif |-> req[p].notif, decision |-> req[p].saw,
                                          save |-> req[p].save]}
                     ELSE observed
    /\ req' = [req EXCEPT ![p] = Idle]
    /\ UNCHANGED <<age, decisions, nextId, requests, crashes>>

-----------------------------------------------------------------------------
(* The admin simulates decisions *)

\* Recent notifications without a decision.
Simulate(p) ==
    /\ p \in Simulator
    /\ Begin(p)
    /\ LET pending == {n \in Notif : age[n] = "fresh" /\ DecisionsOf(n) = {}}
       IN  /\ pending # {}
           /\ req' = [req EXCEPT ![p] =
                [Idle EXCEPT !.pc = "commit", !.todo = pending, !.begun = nextId]]
    /\ UNCHANGED <<age, decisions, observed, nextId, crashes>>

\* One commit for all of them, already scored; one missing notification fails it.
SimulateCommit(p) ==
    /\ p \in Simulator /\ req[p].pc = "commit"
    /\ IF \A n \in req[p].todo : Present(n)
         THEN \E ids \in [req[p].todo -> nextId .. nextId + Cardinality(req[p].todo) - 1] :
                /\ \A m, n \in req[p].todo : ids[m] = ids[n] => m = n
                /\ decisions' = decisions \cup
                        {NewDecision(p, n, ids[n], TRUE, TRUE) : n \in req[p].todo}
                /\ nextId' = nextId + Cardinality(req[p].todo)
         ELSE UNCHANGED <<decisions, nextId>>
    /\ req' = [req EXCEPT ![p] = Idle]
    /\ UNCHANGED <<age, observed, requests, crashes>>

-----------------------------------------------------------------------------
(* The impact job *)

Pending == {d \in decisions : d.before /\ d.due /\ ~d.scored}

\* calculate_impact_for_pending_decisions: LIMIT without ORDER BY.
JobRead(p) ==
    /\ p \in Job /\ req[p].pc = "idle"
    /\ Pending # {}
    /\ \E B \in SUBSET {d.id : d \in Pending} :
        /\ IF Cardinality(Pending) <= Batch
             THEN B = {d.id : d \in Pending}
             ELSE Cardinality(B) = Batch
        /\ req' = [req EXCEPT ![p] = [Idle EXCEPT !.pc = "batch", !.batch = B]]
    /\ UNCHANGED <<age, decisions, observed, nextId, requests, crashes>>

\* Mutant of JobScore: a decision that is gone is tried again for ever.
JobScoreAgain(p, id) ==
    /\ p \in Job /\ req[p].pc = "batch" /\ id \in req[p].batch
    /\ IF \E d \in decisions : d.id = id
         THEN /\ decisions' = {IF d.id = id THEN [d EXCEPT !.scored = TRUE] ELSE d
                                  : d \in decisions}
              /\ req' = [req EXCEPT ![p].batch = @ \ {id}]
         ELSE UNCHANGED <<decisions, req>>
    /\ UNCHANGED <<age, observed, nextId, requests, crashes>>

\* _calculate_single_impact and its commit.  If the decision is gone, the flush raises
\* StaleDataError and leaves the session unusable: the rest of the batch fails with it.
JobScore(p, id) ==
    /\ p \in Job /\ req[p].pc = "batch" /\ id \in req[p].batch
    /\ IF \E d \in decisions : d.id = id
         THEN /\ decisions' = {IF d.id = id THEN [d EXCEPT !.scored = TRUE] ELSE d
                                  : d \in decisions}
              /\ req' = [req EXCEPT ![p].batch = @ \ {id}]
         ELSE /\ req' = [req EXCEPT ![p] = Idle]
              /\ UNCHANGED decisions
    /\ UNCHANGED <<age, observed, nextId, requests, crashes>>

JobEnd(p) ==
    /\ p \in Job /\ req[p].pc = "batch" /\ req[p].batch = {}
    /\ req' = [req EXCEPT ![p] = Idle]
    /\ UNCHANGED <<age, decisions, observed, nextId, requests, crashes>>

-----------------------------------------------------------------------------
(* Notifications disappear *)

\* db.delete(notif) and the read of its decision, in one snapshot.
DeleteRead(p, n) ==
    /\ p \in Deleter
    /\ Begin(p)
    /\ Present(n)
    /\ \E saw \in SelectDecision(n) :
        req' = [req EXCEPT ![p] =
            [Idle EXCEPT !.pc = "commit", !.notif = n, !.saw = saw, !.begun = nextId]]
    /\ UNCHANGED <<age, decisions, observed, nextId, crashes>>

\* Mutant of DeleteCommit: the database deletes the decisions (passive_deletes).
DeleteCommitPassive(p) ==
    /\ p \in Deleter /\ req[p].pc = "commit"
    /\ IF Present(req[p].notif)
         THEN Cascade({req[p].notif})
         ELSE UNCHANGED <<age, decisions, observed>>
    /\ req' = [req EXCEPT ![p] = Idle]
    /\ UNCHANGED <<nextId, requests, crashes>>

\* The ORM first clears notification_id of the decision it saw, which may not be NULL:
\* the request fails.  Otherwise the DELETE cascades to what was committed meanwhile.
DeleteCommit(p) ==
    /\ p \in Deleter /\ req[p].pc = "commit"
    /\ IF req[p].saw = None /\ Present(req[p].notif)
         THEN Cascade({req[p].notif})
         ELSE UNCHANGED <<age, decisions, observed>>
    /\ req' = [req EXCEPT ![p] = Idle]
    /\ UNCHANGED <<nextId, requests, crashes>>

\* cleanup_old_notifications: one bulk DELETE.
Cleanup ==
    /\ Cascade({n \in Notif : age[n] = "old"})
    /\ UNCHANGED <<nextId, req, requests, crashes>>

\* A process dies: what it has not committed is lost.
Crash(p) ==
    /\ crashes < MaxCrash
    /\ req[p].pc # "idle"
    /\ crashes' = crashes + 1
    /\ req' = [req EXCEPT ![p] = Idle]
    /\ UNCHANGED <<age, decisions, observed, nextId, requests>>

-----------------------------------------------------------------------------
Next ==
    \/ \E n \in Notif :
        \/ Raise(n) \/ Grow(n)
        \/ \E p \in Proc : Report(p, n) \/ Observe(p, n) \/ DeleteRead(p, n)
    \/ \E d \in decisions : Elapse(d)
    \/ \E p \in Proc :
        \/ ReportCommit(p) \/ AutoClose(p) \/ ObserveCommit(p)
        \/ Simulate(p) \/ SimulateCommit(p)
        \/ JobRead(p) \/ JobEnd(p) \/ \E id \in req[p].batch : JobScore(p, id)
        \/ DeleteCommit(p) \/ Crash(p)
    \/ Cleanup

\* The job fires every 2 hours and goes on; its read is one of its steps.
JobStep(p) == JobRead(p) \/ JobEnd(p) \/ \E id \in req[p].batch : JobScore(p, id)

Fairness == \A p \in Job : WF_vars(JobStep(p))

Spec == Init /\ [][Next]_vars /\ Fairness

-----------------------------------------------------------------------------
(* Properties *)

\* "Decision already recorded": two decisions on one notification only come from requests
\* that overlapped, whether users, the bridge or the simulator sent them.
SecondDecisionNeedsOverlap ==
    \A d, e \in decisions : d.notif = e.notif /\ d.id < e.id => e.begun <= d.id

\* Every observation that names a decision names an existing one of its own notification,
\* and a save action is never left without one, so that its impact is attributed
\* (routers/decisions.py, record_observed_action).
LoopClosed ==
    \A o \in observed :
        /\ o.save => o.decision # None
        /\ o.decision # None => \E d \in decisions : d.id = o.decision /\ d.notif = o.notif

Gone(d) == \A e \in decisions' : e.id # d.id

\* A user's delete request removes a decision only if it began before that decision was
\* committed: the decisions it could see keep their notification.
DeleteKeepsWhatItSaw ==
    [][\A p \in Deleter : req[p].pc = "commit" /\ req'[p].pc = "idle" =>
            \A d \in decisions : Gone(d) => req[p].begun <= d.id]_vars

\* No measurable decision waits for its score for ever: a batch cut short by a deleted
\* decision or a crash loses none of the others for good.
MeasuredInTheEnd == []<>(Pending = {})

\* cleanup_old_notifications: "orphaned references are preserved via NULL because the FK
\* uses ON DELETE SET NULL".  The keys of both tables cascade.
CleanupKeepsDecisions ==
    [][(\A p \in Proc : req'[p] = req[p]) => \A d \in decisions : ~Gone(d)]_vars

=============================================================================
