---------------------------- MODULE Notifications ----------------------------
(***************************************************************************)
(* Creating, deduplicating and pushing notifications                       *)
(* (app/notification_engine.py), with everything else that touches the     *)
(* notifications table: the user's read, dismiss and delete requests       *)
(* (app/routers/notifications.py) and the retention job                    *)
(* (app/scheduler.py, cleanup_old_notifications).                          *)
(*                                                                         *)
(* A caller is one scheduled job or one admin or user request that runs    *)
(* create_notification for a list of keys in one database session.         *)
(* Callers run in different processes and in different coroutines of one   *)
(* process, so their steps interleave.  MySQL runs at REPEATABLE READ: the *)
(* first SELECT of a transaction fixes what the later ones see, up to the  *)
(* next commit of the session.                                             *)
(*                                                                         *)
(* Time is a count of ticks, of which the windows matter only in order:    *)
(* 1 hour, 12 hours and 90 days are TitleWindow < Window < Retention.      *)
(***************************************************************************)
EXTENDS Naturals, Sequences, FiniteSets

CONSTANTS
    User,
    Topic,        \* notification_type together with device_id (or no device)
    Title,
    Alerter,      \* callers that raise alerts
    Broadcaster,  \* callers of admin_broadcast
    TitleWindow, Window, Retention,
    MaxAlerts,    \* bound: alerts of one run
    MaxRuns,      \* bound: runs explored
    MaxTime,      \* bound: ticks explored
    MaxCrash,     \* bound: crashes explored
    MaxToggles,   \* bound: changes of users' preferences explored
    MaxActs       \* bound: users' requests on notifications explored

Caller == Alerter \cup Broadcaster
Key == User \X Topic
UserOf(k) == k[1]

ASSUME CallerAssumption ==
    /\ Alerter \cap Broadcaster = {}
    /\ IsFiniteSet(Alerter) /\ IsFiniteSet(Broadcaster)
ASSUME TitleAssumption == Title # {}
ASSUME WindowAssumption ==
    /\ {TitleWindow, Window, Retention} \subseteq Nat
    /\ TitleWindow <= Window /\ Window < Retention

(* Who calls create_notification.  A kind of caller says whether                 *)
(*   holds     - it keeps the User rows it loaded when it started,               *)
(*   tolerant  - it catches the exceptions of one user's alerts,                 *)
(*   reachable - it only alerts users who had asked for pushes when it started,  *)
(*   pushes    - it lets create_notification push.                               *)

Kind == [holds : BOOLEAN, tolerant : BOOLEAN, reachable : BOOLEAN, pushes : BOOLEAN]

Job(tolerant) == [holds |-> TRUE, tolerant |-> tolerant, reachable |-> TRUE, pushes |-> TRUE]
Scan == [holds |-> FALSE, tolerant |-> FALSE, reachable |-> FALSE, pushes |-> TRUE]
Request(pushes) == [holds |-> TRUE, tolerant |-> FALSE, reachable |-> FALSE, pushes |-> pushes]

check_daily_goal_notifications      == Job(TRUE)
send_peak_tariff_reminder           == Job(FALSE)
send_daily_summary                  == Job(TRUE)
check_device_scenario_notifications == Job(TRUE)
evaluate_analytics_thresholds       == Scan
detect_and_notify_anomalies         == Scan
trigger_smart_notifications         == {Request(TRUE), Request(FALSE)}   \* send_push
trigger_smart_notifications_all     == Request(TRUE)
admin_broadcast                     == Request(TRUE)

AlertKinds == trigger_smart_notifications \cup
    {check_daily_goal_notifications, send_peak_tariff_reminder, send_daily_summary,
     check_device_scenario_notifications, evaluate_analytics_thresholds,
     detect_and_notify_anomalies, trigger_smart_notifications_all}

KindsOf(c) == IF c \in Broadcaster THEN {admin_broadcast} ELSE AlertKinds

VARIABLES
    notifs,     \* the committed rows of the notifications table
    nextId,     \* AUTO_INCREMENT
    now,
    reach,      \* users with a push token and notifications enabled
    accepted,   \* history: ids whose push the Expo service accepted
    lost,       \* history: ids whose outcome was lost: the service took the push and its
                \* answer did not arrive, or the caller died before it recorded it
    run,        \* the state of each caller
    runs, crashes, toggles, acts   \* counters that bound the exploration

vars == <<notifs, nextId, now, reach, accepted, lost, run, runs, crashes, toggles, acts>>

Row == [id : Nat, key : Key, title : Title, at : Nat, sent : BOOLEAN,
        status : {"unread", "read", "dismissed"},
        by : Caller,     \* history: who made it
        begun : Nat]     \* history: nextId when the run that made it began

\* pc     - the step the run is at
\* kind   - what runs
\* todo   - the keys still to alert, the current one first
\* title  - the title it sends
\* tx     - its session has an open transaction
\* view   - the snapshot of that transaction
\* begun  - nextId when it began (history)
\* known  - the reachable users when it started
\* open   - users reachable at some time since it started (history)
\* mine   - the id it just inserted
\* ok     - the push service gave a receipt for that one
Run == [pc : {"idle", "check", "insert", "refresh", "push", "record", "done"},
        kind : Kind, todo : Seq(Key), title : Title, tx : BOOLEAN, view : SUBSET Row,
        begun : Nat, known : SUBSET User, open : SUBSET User,
        mine : Nat, ok : BOOLEAN]

TypeOK ==
    /\ notifs \in SUBSET Row
    /\ nextId \in Nat
    /\ now \in Nat
    /\ reach \in SUBSET User
    /\ accepted \in SUBSET Nat
    /\ lost \in SUBSET Nat
    /\ run \in [Caller -> Run]
    /\ {runs, crashes, toggles, acts} \subseteq Nat

Idle == [pc |-> "idle", kind |-> admin_broadcast, todo |-> <<>>, title |-> CHOOSE t \in Title : TRUE,
         tx |-> FALSE, view |-> {}, begun |-> 0, known |-> {}, open |-> {}, mine |-> 0,
         ok |-> FALSE]

Init ==
    /\ notifs = {}
    /\ nextId = 1
    /\ now = 0
    /\ reach \in SUBSET User
    /\ accepted = {} /\ lost = {}
    /\ run = [c \in Caller |-> Idle]
    /\ runs = 0 /\ crashes = 0 /\ toggles = 0 /\ acts = 0

-----------------------------------------------------------------------------
(* Helpers *)

Running(c) == run[c].pc \notin {"idle", "done"}

Exists(id) == \E n \in notifs : n.id = id

\* What the run reads: its transaction's snapshot, or a new one.
ViewOf(c) == IF run[c].tx THEN run[c].view ELSE notifs

\* Mutant of Recent: the window's edge is left out.
RecentStrict(n, w) == n.at + w > now

\* created_at >= utcnow() - w
Recent(n, w) == n.at + w >= now

\* The deduplication query of create_notification: the title, the severity and the
\* home are not part of the key.
Duplicate(c, k) == \E n \in ViewOf(c) : n.key = k /\ Recent(n, Window)

\* The query of admin_broadcast.
IdenticalTitle(c, k) ==
    \E n \in ViewOf(c) : n.key = k /\ n.title = run[c].title /\ Recent(n, TitleWindow)

\* Mutant of MayPush: notifications_enabled is not tested.
MayAlwaysPush(c) == run[c].kind.pushes

\* The User row create_notification tests before it pushes.  A caller that holds the
\* users it loaded gets those objects again from the session's identity map, as they
\* were (expire_on_commit is off).
MayPush(c) ==
    /\ run[c].kind.pushes
    /\ UserOf(Head(run[c].todo)) \in (IF run[c].kind.holds THEN run[c].known ELSE reach)

\* create_notification returned to the caller's loop.
Returned(r) == [r EXCEPT !.pc = "check", !.todo = Tail(@), !.mine = 0, !.ok = FALSE]

\* The keys from the next user's first one on.
FromNextUser(l) ==
    LET others == {i \in DOMAIN l : UserOf(l[i]) # UserOf(Head(l))}
    IN  IF others = {} THEN <<>>
        ELSE SubSeq(l, CHOOSE i \in others : \A j \in others : i <= j, Len(l))

\* After an exception a tolerant caller goes on with the next user; the others fail.
AfterError(r, c) ==
    IF r.kind.tolerant
      THEN [r EXCEPT !.pc = "check", !.todo = FromNextUser(@)]
      ELSE Idle

\* Lists of keys a run may raise; one topic per broadcast, each user once.
WorkLists(c, kind) ==
    LET Lists == UNION {[1..m -> Key] : m \in 1..MaxAlerts}
    IN  IF c \in Broadcaster
          THEN {l \in Lists : \A i, j \in DOMAIN l :
                    l[i][2] = l[j][2] /\ (i # j => UserOf(l[i]) # UserOf(l[j]))}
          ELSE {l \in Lists : kind.reachable => \A i \in DOMAIN l : UserOf(l[i]) \in reach}

-----------------------------------------------------------------------------
(* A run *)

\* A job fires or a request arrives, and reads its users.
Start(c) ==
    /\ ~Running(c)
    /\ runs < MaxRuns
    /\ \E kind \in KindsOf(c), t \in Title : \E l \in WorkLists(c, kind) :
        run' = [run EXCEPT ![c] =
            [Idle EXCEPT !.pc = "check", !.kind = kind, !.todo = l, !.title = t, !.begun = nextId,
                         !.tx = TRUE, !.view = notifs, !.known = reach, !.open = reach]]
    /\ runs' = runs + 1
    /\ UNCHANGED <<notifs, nextId, now, reach, accepted, lost, crashes, toggles, acts>>

\* admin_broadcast skips a user who has the identical notification.
SkipIdentical(c) ==
    /\ run[c].pc = "check" /\ run[c].todo # <<>>
    /\ c \in Broadcaster /\ IdenticalTitle(c, Head(run[c].todo))
    /\ run' = [run EXCEPT ![c] = [@ EXCEPT !.tx = TRUE, !.view = ViewOf(c), !.todo = Tail(run[c].todo)]]
    /\ UNCHANGED <<notifs, nextId, now, reach, accepted, lost, runs, crashes, toggles, acts>>

\* create_notification finds a duplicate and returns None.
Suppress(c) ==
    /\ run[c].pc = "check" /\ run[c].todo # <<>>
    /\ ~(c \in Broadcaster /\ IdenticalTitle(c, Head(run[c].todo)))
    /\ Duplicate(c, Head(run[c].todo))
    /\ run' = [run EXCEPT ![c] = [Returned(@) EXCEPT !.tx = TRUE, !.view = ViewOf(c)]]
    /\ UNCHANGED <<notifs, nextId, now, reach, accepted, lost, runs, crashes, toggles, acts>>

\* create_notification finds none and goes on to db.add.
Decide(c) ==
    /\ run[c].pc = "check" /\ run[c].todo # <<>>
    /\ ~Duplicate(c, Head(run[c].todo))
    /\ run' = [run EXCEPT ![c] = [@ EXCEPT !.tx = TRUE, !.view = ViewOf(c), !.pc = "insert"]]
    /\ UNCHANGED <<notifs, nextId, now, reach, accepted, lost, runs, crashes, toggles, acts>>

\* The INSERT and its commit, which ends the transaction and its snapshot.
Insert(c) ==
    /\ run[c].pc = "insert"
    /\ notifs' = notifs \cup
        {[id |-> nextId, key |-> Head(run[c].todo), title |-> run[c].title, at |-> now,
          sent |-> FALSE, status |-> "unread", by |-> c, begun |-> run[c].begun]}
    /\ nextId' = nextId + 1
    /\ run' = [run EXCEPT ![c] =
        [@ EXCEPT !.pc = "refresh", !.tx = FALSE, !.view = {}, !.mine = nextId]]
    /\ UNCHANGED <<now, reach, accepted, lost, runs, crashes, toggles, acts>>

\* Mutant of Refresh: the new transaction does not see the row just committed.
RefreshStale(c) ==
    /\ run[c].pc = "refresh" /\ Exists(run[c].mine)
    /\ run' = [run EXCEPT ![c] =
        [IF MayPush(c) THEN [@ EXCEPT !.pc = "push"] ELSE Returned(@)
            EXCEPT !.tx = TRUE, !.view = {}]]
    /\ UNCHANGED <<notifs, nextId, now, reach, accepted, lost, runs, crashes, toggles, acts>>

\* db.refresh opens a new transaction; the User row decides on the push.
Refresh(c) ==
    /\ run[c].pc = "refresh" /\ Exists(run[c].mine)
    /\ run' = [run EXCEPT ![c] =
        [IF MayPush(c) THEN [@ EXCEPT !.pc = "push"] ELSE Returned(@)
            EXCEPT !.tx = TRUE, !.view = notifs]]
    /\ UNCHANGED <<notifs, nextId, now, reach, accepted, lost, runs, crashes, toggles, acts>>

\* The row was deleted meanwhile: db.refresh raises.
RefreshGone(c) ==
    /\ run[c].pc = "refresh" /\ ~Exists(run[c].mine)
    /\ run' = [run EXCEPT ![c] = AfterError([@ EXCEPT !.tx = TRUE, !.view = notifs], c)]
    /\ UNCHANGED <<notifs, nextId, now, reach, accepted, lost, runs, crashes, toggles, acts>>

\* _send_expo_push: the service may take the push or not (external), and the caller may
\* get its answer with a receipt or not: after a timeout, an error or an answer without an
\* id it goes on with None, whatever became of the push, and nobody asks again.
Push(c) ==
    /\ run[c].pc = "push"
    /\ \E taken, answered \in BOOLEAN :
        /\ run' = [run EXCEPT ![c] = [@ EXCEPT !.pc = "record", !.ok = taken /\ answered]]
        /\ accepted' = IF taken THEN accepted \cup {run[c].mine} ELSE accepted
        /\ lost' = IF taken /\ ~answered THEN lost \cup {run[c].mine} ELSE lost
    /\ UNCHANGED <<notifs, nextId, now, reach, runs, crashes, toggles, acts>>

\* Mutants of Record: the push is recorded as a status of its own; the flag is set whatever
\* the service answered; the whole row is written back as it was inserted.
RecordPushed(c) ==
    /\ run[c].pc = "record" /\ Exists(run[c].mine)
    /\ notifs' = {IF n.id = run[c].mine THEN [n EXCEPT !.sent = run[c].ok, !.status = "pushed"] ELSE n : n \in notifs}
    /\ run' = [run EXCEPT ![c] = [Returned(@) EXCEPT !.tx = FALSE, !.view = {}]]
    /\ UNCHANGED <<nextId, now, reach, accepted, lost, runs, crashes, toggles, acts>>

RecordSent(c) ==
    /\ run[c].pc = "record" /\ Exists(run[c].mine)
    /\ notifs' = {IF n.id = run[c].mine THEN [n EXCEPT !.sent = TRUE] ELSE n : n \in notifs}
    /\ run' = [run EXCEPT ![c] = [Returned(@) EXCEPT !.tx = FALSE, !.view = {}]]
    /\ UNCHANGED <<nextId, now, reach, accepted, lost, runs, crashes, toggles, acts>>

RecordWholeRow(c) ==
    /\ run[c].pc = "record" /\ Exists(run[c].mine)
    /\ notifs' = {IF n.id = run[c].mine THEN [n EXCEPT !.sent = run[c].ok, !.status = "unread"] ELSE n : n \in notifs}
    /\ run' = [run EXCEPT ![c] = [Returned(@) EXCEPT !.tx = FALSE, !.view = {}]]
    /\ UNCHANGED <<nextId, now, reach, accepted, lost, runs, crashes, toggles, acts>>

\* The UPDATE of sent_via_push, push_receipt_id and sent_at (only the changed columns),
\* and its commit.
Record(c) ==
    /\ run[c].pc = "record" /\ Exists(run[c].mine)
    /\ notifs' = {IF n.id = run[c].mine THEN [n EXCEPT !.sent = run[c].ok] ELSE n : n \in notifs}
    /\ run' = [run EXCEPT ![c] = [Returned(@) EXCEPT !.tx = FALSE, !.view = {}]]
    /\ UNCHANGED <<nextId, now, reach, accepted, lost, runs, crashes, toggles, acts>>

\* Mutant of RecordGone: the commit is tried again for ever.
RecordAgain(c) ==
    /\ run[c].pc = "record" /\ ~Exists(run[c].mine)
    /\ UNCHANGED vars

\* The row was deleted meanwhile: the flush raises StaleDataError and leaves the session
\* unusable, so every later alert of the run fails, caught or not.
RecordGone(c) ==
    /\ run[c].pc = "record" /\ ~Exists(run[c].mine)
    /\ run' = [run EXCEPT ![c] = Idle]
    /\ UNCHANGED <<notifs, nextId, now, reach, accepted, lost, runs, crashes, toggles, acts>>

Finish(c) ==
    /\ run[c].pc = "check" /\ run[c].todo = <<>>
    /\ run' = [run EXCEPT ![c] =
        [Idle EXCEPT !.pc = "done"]]
    /\ UNCHANGED <<notifs, nextId, now, reach, accepted, lost, runs, crashes, toggles, acts>>

\* The caller's process dies.
Crash(c) ==
    /\ crashes < MaxCrash
    /\ Running(c)
    /\ crashes' = crashes + 1
    /\ lost' = IF run[c].pc = "record" THEN lost \cup {run[c].mine} ELSE lost
    /\ run' = [run EXCEPT ![c] = Idle]
    /\ UNCHANGED <<notifs, nextId, now, reach, accepted, runs, toggles, acts>>

-----------------------------------------------------------------------------
(* Users, the retention job and time *)

Act ==
    /\ acts < MaxActs
    /\ acts' = acts + 1

MarkRead(n) ==
    /\ Act
    /\ n.status = "unread"
    /\ notifs' = (notifs \ {n}) \cup {[n EXCEPT !.status = "read"]}
    /\ UNCHANGED <<nextId, now, reach, accepted, lost, run, runs, crashes, toggles>>

MarkAllRead(u) ==
    /\ Act
    /\ notifs' = {IF UserOf(n.key) = u /\ n.status = "unread"
                    THEN [n EXCEPT !.status = "read"] ELSE n : n \in notifs}
    /\ UNCHANGED <<nextId, now, reach, accepted, lost, run, runs, crashes, toggles>>

Dismiss(n) ==
    /\ Act
    /\ notifs' = (notifs \ {n}) \cup {[n EXCEPT !.status = "dismissed"]}
    /\ UNCHANGED <<nextId, now, reach, accepted, lost, run, runs, crashes, toggles>>

Delete(n) ==
    /\ Act
    /\ notifs' = notifs \ {n}
    /\ UNCHANGED <<nextId, now, reach, accepted, lost, run, runs, crashes, toggles>>

\* cleanup_old_notifications: one bulk DELETE.
Cleanup ==
    /\ notifs' = {n \in notifs : Recent(n, Retention)}
    /\ UNCHANGED <<nextId, now, reach, accepted, lost, run, runs, crashes, toggles, acts>>

\* The columns notifications_enabled and push_token of some users are committed.
SetReach(r) ==
    /\ toggles < MaxToggles /\ r # reach
    /\ toggles' = toggles + 1
    /\ reach' = r
    /\ run' = [c \in Caller |-> [run[c] EXCEPT !.open = @ \cup reach']]
    /\ UNCHANGED <<notifs, nextId, now, accepted, lost, runs, crashes, acts>>

\* A user turns notifications on, which helps with a token only, or off; a token comes
\* with notifications on.
update_profile(u) == SetReach(reach \cup {u}) \/ SetReach(reach \ {u})
update_push_token(u) == SetReach(reach \cup {u})

\* An admin does it, for one user, to the opposite of what the row said, or for several in
\* one commit.  (bulk_operation's other branches call admin_broadcast and assign a persona.)
toggle_notifications(u) == SetReach(IF u \in reach THEN reach \ {u} ELSE reach \cup {u})
bulk_operation(users) ==
    \/ \E withToken \in SUBSET users : SetReach(reach \cup withToken)
    \/ SetReach(reach \ users)

Tick ==
    /\ now < MaxTime
    /\ now' = now + 1
    /\ UNCHANGED <<notifs, nextId, reach, accepted, lost, run, runs, crashes, toggles, acts>>

-----------------------------------------------------------------------------
Step(c) ==
    \/ SkipIdentical(c) \/ Suppress(c) \/ Decide(c) \/ Insert(c) \/ Refresh(c)
    \/ RefreshGone(c) \/ Push(c) \/ Record(c) \/ RecordGone(c) \/ Finish(c)

Next ==
    \/ \E c \in Caller :
        \/ Start(c)
        \/ SkipIdentical(c) \/ Suppress(c) \/ Decide(c) \/ Insert(c) \/ Refresh(c)
        \/ RefreshGone(c) \/ Push(c) \/ Record(c) \/ RecordGone(c) \/ Finish(c)
        \/ Crash(c)
    \/ \E n \in notifs : MarkRead(n) \/ Dismiss(n) \/ Delete(n)
    \/ \E u \in User : MarkAllRead(u)
    \/ \E u \in User : update_profile(u) \/ update_push_token(u) \/ toggle_notifications(u)
    \/ \E users \in SUBSET User : bulk_operation(users)
    \/ Cleanup
    \/ Tick

\* A run that has begun goes on: every call it waits for returns or times out (15 s for
\* a push).  Nothing obliges a job to fire, a user to act or time to pass.
Fairness == \A c \in Caller : WF_vars(Step(c))

Spec == Init /\ [][Next]_vars /\ Fairness

-----------------------------------------------------------------------------
(* Properties *)

\* Two notifications of one key inside the deduplication window only come from runs
\* that overlapped: the later one's run began before the earlier one was committed.
\* So runs that follow each other are idempotent, as detect_and_notify_anomalies says,
\* whatever was deleted, crashed or pushed in between.
RepeatsNeedOverlap ==
    \A m, n \in notifs :
        m.key = n.key /\ m.id < n.id /\ n.at <= m.at + Window => n.begun <= m.id

\* However the callers interleave, a user gets at most one notification of a key from
\* each of them in a window (create_notification: "to prevent notification spam").
SpamBounded ==
    \A m \in notifs :
        Cardinality({n \in notifs : n.key = m.key /\ m.at <= n.at /\ n.at <= m.at + Window})
            <= Cardinality(Caller)

\* sent_via_push never claims a push the service did not take; and a push it took is on
\* record, unless its run is about to write it or nobody learned the outcome, because the
\* answer was lost or the run's process died.
PushRecordAgrees ==
    \A n \in notifs :
        /\ n.sent => n.id \in accepted
        /\ n.id \in accepted =>
            \/ n.sent
            \/ n.id \in lost
            \/ \E c \in Caller : run[c].pc = "record" /\ run[c].mine = n.id

\* A run never pushes to a user who was unreachable during all of it: turning
\* notifications off may be ignored by the runs in progress, and by no later one.
OptOutHonoured ==
    [][\A c \in Caller : run[c].pc = "push" /\ run'[c].pc = "record" =>
            UserOf(Head(run[c].todo)) \in run[c].open]_vars

Rank(s) == CASE s = "unread" -> 0 [] s = "read" -> 1 [] s = "dismissed" -> 2

\* What the user did to a notification is never undone by a push recorded late or by
\* another request (routers/notifications.py).
StatusOnlyAdvances ==
    [][\A n \in notifs, m \in notifs' : n.id = m.id => Rank(n.status) <= Rank(m.status)]_vars

\* No failing push, deleted row or dead session wedges a run; with max_instances = 1 a
\* wedged job would never fire again.
RunsEnd == \A c \in Caller : Running(c) ~> ~Running(c)

=============================================================================
