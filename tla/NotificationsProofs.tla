------------------------- MODULE NotificationsProofs -------------------------
(***************************************************************************)
(* Proofs about Notifications for every number of users, topics, callers,  *)
(* alerts, crashes and requests, and for every length of the windows.      *)
(*                                                                         *)
(* The properties speak of the table and are not inductive: what keeps     *)
(* two rows of a key apart is what a run in progress has seen.  Known(c,m) *)
(* says that c has to know of the row m: m was committed before c's run    *)
(* began, or c made it.  Such a row is in the snapshot c reads (Seen), it  *)
(* is out of the window once c has found no duplicate (Unaware), and so    *)
(* the row c inserts is a window away from it (Spaced).  Delivery and      *)
(* Consent say what a run carries on its way to the push service.          *)
(***************************************************************************)
EXTENDS Notifications, FiniteSetTheorems, SequenceTheorems, WellFoundedInduction, TLAPS

\* The run of c has inserted a row and is not done with it.
Fresh(c) == run[c].pc \in {"refresh", "push", "record"}

Busy == \A c \in Caller : run[c].pc = "insert" \/ Fresh(c) => run[c].todo # <<>>

\* Ids and times only grow, and an id names one row.
Books ==
    /\ \A n \in notifs : n.id < nextId /\ n.at <= now /\ n.begun <= n.id
    /\ \A m, n \in notifs : m.id = n.id => m = n
    /\ \A i \in accepted : i < nextId
    /\ \A c \in Caller : run[c].begun <= nextId

Known(c, m) == m.id < run[c].begun \/ m.by = c

Seen ==
    \A c \in Caller : run[c].tx =>
        \A m \in notifs : Known(c, m) =>
            \E v \in run[c].view : v.key = m.key /\ v.at = m.at

Unaware ==
    \A c \in Caller : run[c].pc = "insert" =>
        \A m \in notifs : Known(c, m) /\ m.key = Head(run[c].todo) => m.at + Window < now

Spaced ==
    \A m, n \in notifs :
        m.key = n.key /\ m.id < n.id /\ (m.id < n.begun \/ m.by = n.by)
            => m.at + Window < n.at

Delivery ==
    /\ \A c \in Caller : Fresh(c) => run[c].mine < nextId
    /\ \A c, d \in Caller : Fresh(c) /\ Fresh(d) /\ run[c].mine = run[d].mine => c = d
    /\ \A c \in Caller :
        /\ run[c].pc \in {"refresh", "push"} => run[c].mine \notin accepted
        /\ run[c].pc = "record" /\ run[c].ok => run[c].mine \in accepted
        /\ run[c].pc = "record" /\ run[c].mine \in accepted => run[c].ok \/ run[c].mine \in lost

Consent ==
    \A c \in Caller :
        /\ Running(c) => run[c].known \subseteq run[c].open /\ reach \subseteq run[c].open
        /\ run[c].pc = "push" => UserOf(Head(run[c].todo)) \in run[c].open

\* What a push does, whether the service takes it and whether its answer arrives.
Pushes(c, taken, answered) ==
    /\ run' = [run EXCEPT ![c] = [@ EXCEPT !.pc = "record", !.ok = taken /\ answered]]
    /\ accepted' = IF taken THEN accepted \cup {run[c].mine} ELSE accepted
    /\ lost' = IF taken /\ ~answered THEN lost \cup {run[c].mine} ELSE lost

IInv ==
    /\ TypeOK /\ Busy /\ Books
    /\ Seen /\ Unaware /\ Spaced
    /\ Delivery /\ PushRecordAgrees /\ Consent

-----------------------------------------------------------------------------
(* The lists of keys *)

\* A set of naturals that is not empty has a least member.
LEMMA LeastNatural ==
  ASSUME NEW S \in SUBSET Nat, S # {}
  PROVE  \E i \in S : \A j \in S : i <= j
<1>1. PICK i \in S : \A j \in S : <<j, i>> \notin OpToRel(<, Nat)
  BY NatLessThanWellFounded, WFMin
<1>2. ASSUME NEW j \in S
      PROVE  i <= j
  <2>1. i \in Nat /\ j \in Nat
    OBVIOUS
  <2>2. <<j, i>> \notin OpToRel(<, Nat)
    BY <1>1
  <2>3. ~(j < i)
    BY <2>1, <2>2 DEF OpToRel
  <2>4. QED
    BY <2>1, <2>3
<1>3. QED
  BY <1>2

\* Giving up the alerts of one user leaves a list of keys.
LEMMA NextUserType ==
  ASSUME NEW l \in Seq(Key), l # <<>>
  PROVE  FromNextUser(l) \in Seq(Key)
<1> DEFINE others == {i \in DOMAIN l : UserOf(l[i]) # UserOf(Head(l))}
<1> DEFINE first == CHOOSE i \in others : \A j \in others : i <= j
<1>1. Len(l) \in Nat /\ DOMAIN l = 1..Len(l) /\ \A i \in 1..Len(l) : l[i] \in Key
  BY LenProperties
<1>2. CASE others = {}
  BY <1>2 DEF FromNextUser
<1>3. CASE others # {}
  <2>1. others \in SUBSET Nat
    BY <1>1
  <2>2. first \in others
    <3>1. \E i \in others : \A j \in others : i <= j
      BY <1>3, <2>1, LeastNatural
    <3>2. QED
      BY <3>1
  <2>3. first \in 1..Len(l)
    BY <1>1, <2>2
  <2>4. \A i \in first..Len(l) : l[i] \in Key
    BY <1>1, <2>3
  <2>5. SubSeq(l, first, Len(l)) \in Seq(Key)
    <3> HIDE DEF first
    <3>1. first \in Int /\ Len(l) \in Int
      BY <1>1, <2>3
    <3>2. QED
      BY <2>4, <3>1, SubSeqProperties
  <2>6. FromNextUser(l) = SubSeq(l, first, Len(l))
    BY <1>3 DEF FromNextUser
  <2>7. QED
    BY <2>5, <2>6
<1>4. QED
  BY <1>2, <1>3

-----------------------------------------------------------------------------
(* Types *)

\* A caller without a run is well typed.
LEMMA IdleType == Idle \in Run
<1>1. (CHOOSE t \in Title : TRUE) \in Title
  BY TitleAssumption
<1>2. admin_broadcast \in Kind
  BY DEF admin_broadcast, Request, Kind
<1>3. <<>> \in Seq(Key)
  OBVIOUS
<1>4. QED
  BY <1>1, <1>2, <1>3 DEF Idle, Run

\* Every caller's kind is a kind.
LEMMA KindsType ==
  ASSUME NEW c \in Caller
  PROVE  KindsOf(c) \subseteq Kind
<1>1. \A tolerant \in BOOLEAN : Job(tolerant) \in Kind
  BY DEF Job, Kind
<1>2. \A pushes \in BOOLEAN : Request(pushes) \in Kind
  BY DEF Request, Kind
<1>3. Scan \in Kind
  BY DEF Scan, Kind
<1>4. trigger_smart_notifications \subseteq Kind
  BY <1>2 DEF trigger_smart_notifications
<1>5. /\ trigger_smart_notifications_all \in Kind
      /\ admin_broadcast \in Kind
  BY <1>2 DEF trigger_smart_notifications_all, admin_broadcast
<1>6. /\ check_daily_goal_notifications \in Kind
      /\ send_peak_tariff_reminder \in Kind
      /\ send_daily_summary \in Kind
      /\ check_device_scenario_notifications \in Kind
  BY <1>1 DEF check_daily_goal_notifications, send_peak_tariff_reminder, send_daily_summary,
              check_device_scenario_notifications
<1>7. evaluate_analytics_thresholds \in Kind /\ detect_and_notify_anomalies \in Kind
  BY <1>3 DEF evaluate_analytics_thresholds, detect_and_notify_anomalies
<1>8. QED
  BY <1>4, <1>5, <1>6, <1>7 DEF KindsOf, AlertKinds

\* The work lists are lists of keys.
LEMMA WorkType ==
  ASSUME NEW c \in Caller, NEW kind \in Kind, NEW l \in WorkLists(c, kind)
  PROVE  l \in Seq(Key)
<1>1. l \in UNION {[1..m -> Key] : m \in 1..MaxAlerts}
  BY DEF WorkLists
<1>2. PICK m \in 1..MaxAlerts : l \in [1..m -> Key]
  BY <1>1
<1>3. m \in Nat
  BY <1>2
<1>4. QED
  BY <1>2, <1>3

\* What a run reads, and what is left of its list, have their types.
LEMMA ReadType ==
  ASSUME TypeOK, NEW c \in Caller
  PROVE  /\ run[c] \in Run
         /\ ViewOf(c) \subseteq Row
         /\ run[c].todo # <<>> =>
               /\ Head(run[c].todo) \in Key
               /\ Tail(run[c].todo) \in Seq(Key)
               /\ Returned(run[c]) \in Run
<1>1. run[c] \in Run
  BY DEF TypeOK
<1>2. ViewOf(c) \subseteq Row
  BY <1>1 DEF TypeOK, ViewOf, Run
<1>3. ASSUME run[c].todo # <<>>
      PROVE  Head(run[c].todo) \in Key /\ Tail(run[c].todo) \in Seq(Key)
  BY <1>1, <1>3, HeadTailProperties DEF Run
<1>4. ASSUME run[c].todo # <<>>
      PROVE  Returned(run[c]) \in Run
  BY <1>1, <1>3, <1>4 DEF Returned, Run
<1>5. QED
  BY <1>1, <1>2, <1>3, <1>4

\* The table begins well typed.
LEMMA InitType == Init => TypeOK
BY IdleType DEF Init, TypeOK

\* The changes of preferences are one action.
Preference == \E r \in SUBSET User : SetReach(r)

\* What a step is.
LEMMA NextCases ==
  ASSUME TypeOK, [Next]_vars
  PROVE  \/ UNCHANGED vars
         \/ \E c \in Caller :
               \/ Start(c) \/ SkipIdentical(c) \/ Suppress(c) \/ Decide(c) \/ Insert(c)
               \/ Refresh(c) \/ RefreshGone(c) \/ Push(c) \/ Record(c) \/ RecordGone(c)
               \/ Finish(c) \/ Crash(c)
         \/ \E n \in notifs : MarkRead(n) \/ Dismiss(n) \/ Delete(n)
         \/ \E u \in User : MarkAllRead(u)
         \/ Preference
         \/ Cleanup
         \/ Tick
<1>1. ASSUME NEW u \in User, update_profile(u) \/ update_push_token(u) \/ toggle_notifications(u)
      PROVE  Preference
  <2>1. /\ reach \cup {u} \in SUBSET User
        /\ reach \ {u} \in SUBSET User
    BY DEF TypeOK
  <2>2. SetReach(reach \cup {u}) \/ SetReach(reach \ {u})
    BY <1>1 DEF update_profile, update_push_token, toggle_notifications
  <2>3. QED
    BY <2>1, <2>2 DEF Preference
<1>2. ASSUME NEW users \in SUBSET User, bulk_operation(users)
      PROVE  Preference
  <2>1. /\ reach \ users \in SUBSET User
        /\ \A withToken \in SUBSET users : reach \cup withToken \in SUBSET User
    BY DEF TypeOK
  <2>2. QED
    BY <1>2, <2>1 DEF bulk_operation, Preference
<1>3. QED
  BY <1>1, <1>2 DEF Next

\* A run that changes only its own record keeps the types of the rest.
LEMMA TypeStep ==
  ASSUME TypeOK, Busy, [Next]_vars
  PROVE  TypeOK'
<1>1. CASE UNCHANGED vars
  BY <1>1 DEF vars, TypeOK
<1>2. ASSUME NEW c \in Caller, Start(c)
      PROVE  TypeOK'
  <2>1. PICK kind \in KindsOf(c), t \in Title : \E l \in WorkLists(c, kind) :
           run' = [run EXCEPT ![c] =
            [Idle EXCEPT !.pc = "check", !.kind = kind, !.todo = l, !.title = t, !.begun = nextId,
                         !.tx = TRUE, !.view = notifs, !.known = reach, !.open = reach]]
    BY <1>2 DEF Start
  <2>2. PICK l \in WorkLists(c, kind) :
           run' = [run EXCEPT ![c] =
            [Idle EXCEPT !.pc = "check", !.kind = kind, !.todo = l, !.title = t, !.begun = nextId,
                         !.tx = TRUE, !.view = notifs, !.known = reach, !.open = reach]]
    BY <2>1
  <2>3. kind \in Kind
    BY KindsType
  <2>4. l \in Seq(Key)
    BY <2>3, WorkType
  <2>5. [Idle EXCEPT !.pc = "check", !.kind = kind, !.todo = l, !.title = t, !.begun = nextId,
                     !.tx = TRUE, !.view = notifs, !.known = reach, !.open = reach] \in Run
    BY <2>3, <2>4, IdleType DEF TypeOK, Run
  <2>6. QED
    BY <1>2, <2>2, <2>5 DEF Start, TypeOK
<1>3. ASSUME NEW c \in Caller, SkipIdentical(c)
      PROVE  TypeOK'
  <2>1. run[c] \in Run /\ ViewOf(c) \subseteq Row /\ Tail(run[c].todo) \in Seq(Key)
    BY <1>3, ReadType DEF SkipIdentical
  <2> DEFINE r == [run[c] EXCEPT !.tx = TRUE, !.view = ViewOf(c), !.todo = Tail(run[c].todo)]
  <2>2. r \in Run
    BY <2>1 DEF Run
  <2>3. run' = [run EXCEPT ![c] = r]
    BY <1>3 DEF SkipIdentical
  <2> HIDE DEF r
  <2>4. QED
    BY <1>3, <2>2, <2>3 DEF SkipIdentical, TypeOK
<1>4. ASSUME NEW c \in Caller, Suppress(c)
      PROVE  TypeOK'
  <2>1. [Returned(run[c]) EXCEPT !.tx = TRUE, !.view = ViewOf(c)] \in Run
    BY <1>4, ReadType DEF Suppress, Run
  <2>2. QED
    BY <1>4, <2>1 DEF Suppress, TypeOK
<1>5. ASSUME NEW c \in Caller, Decide(c)
      PROVE  TypeOK'
  <2>1. [run[c] EXCEPT !.tx = TRUE, !.view = ViewOf(c), !.pc = "insert"] \in Run
    <3>1. run[c] \in Run /\ ViewOf(c) \subseteq Row
      BY ReadType
    <3>2. QED
      BY <3>1 DEF Run
  <2>2. QED
    BY <1>5, <2>1 DEF Decide, TypeOK
<1>6. ASSUME NEW c \in Caller, Insert(c)
      PROVE  TypeOK'
  <2>1. run[c].todo # <<>>
    BY <1>6 DEF Insert, Busy
  <2>2. run[c] \in Run /\ Head(run[c].todo) \in Key
    BY <2>1, ReadType
  <2>3. [id |-> nextId, key |-> Head(run[c].todo), title |-> run[c].title, at |-> now,
         sent |-> FALSE, status |-> "unread", by |-> c, begun |-> run[c].begun] \in Row
    BY <2>2 DEF TypeOK, Run, Row
  <2>4. notifs' \subseteq Row
    BY <1>6, <2>3 DEF Insert, TypeOK
  <2>5. run' \in [Caller -> Run]
    <3>1. [run[c] EXCEPT !.pc = "refresh", !.tx = FALSE, !.view = {}, !.mine = nextId] \in Run
      BY <2>2 DEF Run, TypeOK
    <3>2. QED
      BY <1>6, <3>1 DEF Insert, TypeOK
  <2>6. QED
    BY <1>6, <2>4, <2>5 DEF Insert, TypeOK
<1>7. ASSUME NEW c \in Caller, Refresh(c)
      PROVE  TypeOK'
  <2>1. run[c].todo # <<>>
    BY <1>7 DEF Refresh, Busy, Fresh
  <2>2. [IF MayPush(c) THEN [run[c] EXCEPT !.pc = "push"] ELSE Returned(run[c])
            EXCEPT !.tx = TRUE, !.view = notifs] \in Run
    <3>1. run[c] \in Run /\ Returned(run[c]) \in Run /\ notifs \subseteq Row
      BY <2>1, ReadType DEF TypeOK
    <3>2. [run[c] EXCEPT !.pc = "push"] \in Run
      BY <3>1 DEF Run
    <3>3. \A r \in Run : [r EXCEPT !.tx = TRUE, !.view = notifs] \in Run
      BY <3>1 DEF Run
    <3>4. QED
      BY <3>1, <3>2, <3>3
  <2>3. QED
    BY <1>7, <2>2 DEF Refresh, TypeOK
<1>8. ASSUME NEW c \in Caller, RefreshGone(c)
      PROVE  TypeOK'
  <2>1. run[c].todo # <<>>
    BY <1>8 DEF RefreshGone, Busy, Fresh
  <2>2. run[c] \in Run /\ FromNextUser(run[c].todo) \in Seq(Key)
    BY <2>1, ReadType, NextUserType DEF Run
  <2>3. AfterError([run[c] EXCEPT !.tx = TRUE, !.view = notifs], c) \in Run
    BY <2>2, IdleType DEF AfterError, TypeOK, Run
  <2>4. QED
    BY <1>8, <2>3 DEF RefreshGone, TypeOK
<1>9. ASSUME NEW c \in Caller, Push(c)
      PROVE  TypeOK'
  <2>1. PICK taken \in BOOLEAN, answered \in BOOLEAN : Pushes(c, taken, answered)
    BY <1>9 DEF Push, Pushes
  <2>2. run[c] \in Run
    BY ReadType
  <2>3. run' \in [Caller -> Run]
    <3>1. (taken /\ answered) \in BOOLEAN
      OBVIOUS
    <3>2. [run[c] EXCEPT !.pc = "record", !.ok = taken /\ answered] \in Run
      BY <2>2, <3>1 DEF Run
    <3>3. QED
      BY <2>1, <3>2 DEF TypeOK, Pushes
  <2>4. accepted' \subseteq Nat /\ lost' \subseteq Nat
    BY <2>1, <2>2 DEF TypeOK, Run, Pushes
  <2>5. QED
    BY <1>9, <2>3, <2>4 DEF Push, TypeOK
<1>10. ASSUME NEW c \in Caller, Record(c)
       PROVE  TypeOK'
  <2>1. run[c].todo # <<>>
    BY <1>10 DEF Record, Busy, Fresh
  <2>2. run[c] \in Run /\ Returned(run[c]) \in Run
    BY <2>1, ReadType
  <2>3. [Returned(run[c]) EXCEPT !.tx = FALSE, !.view = {}] \in Run
    BY <2>2 DEF Run
  <2>4. notifs' \subseteq Row
    <3>1. run[c].ok \in BOOLEAN
      BY <2>2 DEF Run
    <3>2. \A n \in notifs : [n EXCEPT !.sent = run[c].ok] \in Row
      BY <3>1 DEF TypeOK, Row
    <3>3. QED
      BY <1>10, <3>2 DEF Record, TypeOK
  <2>5. QED
    BY <1>10, <2>3, <2>4 DEF Record, TypeOK
<1>11. ASSUME NEW c \in Caller, RecordGone(c)
       PROVE  TypeOK'
  BY <1>11, IdleType DEF RecordGone, TypeOK
<1>12. ASSUME NEW c \in Caller, Finish(c)
       PROVE  TypeOK'
  BY <1>12, IdleType DEF Finish, TypeOK, Run
<1>13. ASSUME NEW c \in Caller, Crash(c)
       PROVE  TypeOK'
  <2>1. run[c] \in Run
    BY ReadType
  <2>2. QED
    <3>1. run' \in [Caller -> Run]
      BY <1>13, IdleType DEF Crash, TypeOK
    <3>2. lost' \subseteq Nat
      <4>1. run[c].mine \in Nat
        BY <2>1 DEF Run
      <4>2. QED
        BY <1>13, <4>1 DEF Crash, TypeOK
    <3>3. QED
      BY <1>13, <3>1, <3>2 DEF Crash, TypeOK
<1>14. ASSUME NEW n \in notifs, MarkRead(n) \/ Dismiss(n) \/ Delete(n)
       PROVE  TypeOK'
  BY <1>14 DEF MarkRead, Dismiss, Delete, Act, TypeOK, Row
<1>15. ASSUME NEW u \in User, MarkAllRead(u)
       PROVE  TypeOK'
  BY <1>15 DEF MarkAllRead, Act, TypeOK, Row
<1>16. ASSUME NEW r \in SUBSET User, SetReach(r)
       PROVE  TypeOK'
  <2>1. \A c \in Caller : [run[c] EXCEPT !.open = @ \cup reach'] \in Run
    BY <1>16 DEF SetReach, TypeOK, Run
  <2>2. QED
    BY <1>16, <2>1 DEF SetReach, TypeOK
<1>17. CASE Cleanup
  BY <1>17 DEF Cleanup, TypeOK
<1>18. CASE Tick
  BY <1>18 DEF Tick, TypeOK
<1>19. QED
  BY <1>1, <1>2, <1>3, <1>4, <1>5, <1>6, <1>7, <1>8, <1>9, <1>10, <1>11, <1>12, <1>13,
     <1>14, <1>15, <1>16, <1>17, <1>18, NextCases DEF Preference

-----------------------------------------------------------------------------
(* What a step does to the rows and to the runs *)

\* r is n, whatever was recorded about it.
SameRow(n, r) ==
    /\ r.id = n.id /\ r.key = n.key /\ r.at = n.at
    /\ r.by = n.by /\ r.begun = n.begun

Made(c, r) ==
    /\ r.id = nextId /\ r.key = Head(run[c].todo) /\ r.at = now
    /\ r.by = c /\ r.begun = run[c].begun /\ r.sent = FALSE

\* What a step may change of n: the flag by the run that made it, the status forward.
Advances(n, r) ==
    /\ SameRow(n, r)
    /\ Rank(n.status) <= Rank(r.status)
    /\ r.sent = n.sent \/ \E c \in Caller : Record(c) /\ r.id = run[c].mine

\* Every row after a step was there before, or was just inserted.
LEMMA RowStep ==
  ASSUME TypeOK, [Next]_vars, NEW r \in notifs'
  PROVE  \/ \E n \in notifs : Advances(n, r)
         \/ \E c \in Caller : Insert(c) /\ Made(c, r)
<1> DEFINE Old == \E n \in notifs : Advances(n, r)
<1>0. notifs \subseteq Row /\ \A s \in {"unread", "read", "dismissed"} : Rank(s) \in Nat
  BY DEF TypeOK, Rank
<1>1. ASSUME r \in notifs
      PROVE  Old
  BY <1>0, <1>1 DEF Advances, SameRow, Row
<1>2. ASSUME UNCHANGED notifs
      PROVE  Old
  BY <1>1, <1>2
<1>3. ASSUME NEW c \in Caller, Insert(c)
      PROVE  Old \/ Made(c, r)
  BY <1>1, <1>3 DEF Insert, Made
<1>4. ASSUME NEW c \in Caller, Record(c)
      PROVE  Old
  <2>1. PICK n \in notifs : r = IF n.id = run[c].mine THEN [n EXCEPT !.sent = run[c].ok] ELSE n
    BY <1>4 DEF Record
  <2>2. SameRow(n, r) /\ r.status = n.status
    BY <1>0, <2>1 DEF SameRow, Row
  <2>3. r.sent = n.sent \/ r.id = run[c].mine
    BY <2>1, <2>2 DEF SameRow
  <2>4. QED
    BY <1>0, <1>4, <2>2, <2>3 DEF Advances, Row
<1>5. ASSUME NEW n \in notifs, MarkRead(n) \/ Dismiss(n) \/ Delete(n)
      PROVE  Old
  <2>1. CASE r \in notifs
    BY <1>1, <2>1
  <2>2. CASE r = [n EXCEPT !.status = "read"] /\ n.status = "unread"
    BY <1>0, <2>2 DEF Advances, SameRow, Row, Rank
  <2>3. CASE r = [n EXCEPT !.status = "dismissed"]
    BY <1>0, <2>3 DEF Advances, SameRow, Row, Rank
  <2>4. QED
    BY <1>5, <2>1, <2>2, <2>3 DEF MarkRead, Dismiss, Delete
<1>6. ASSUME NEW u \in User, MarkAllRead(u)
      PROVE  Old
  <2>1. PICK n \in notifs : r = IF UserOf(n.key) = u /\ n.status = "unread"
                                  THEN [n EXCEPT !.status = "read"] ELSE n
    BY <1>6 DEF MarkAllRead
  <2>2. QED
    BY <1>0, <2>1 DEF Advances, SameRow, Row, Rank
<1>7. CASE Cleanup
  BY <1>1, <1>7 DEF Cleanup
<1>8. CASE UNCHANGED vars \/ Preference \/ Tick
  BY <1>2, <1>8 DEF vars, Preference, SetReach, Tick
<1>9. ASSUME NEW c \in Caller,
             \/ Start(c) \/ SkipIdentical(c) \/ Suppress(c) \/ Decide(c)
             \/ Refresh(c) \/ RefreshGone(c) \/ Push(c) \/ RecordGone(c)
             \/ Finish(c) \/ Crash(c)
      PROVE  Old
  BY <1>2, <1>9 DEF Start, SkipIdentical, Suppress, Decide, Refresh, RefreshGone, Push,
                    RecordGone, Finish, Crash
<1>10. QED
  BY <1>3, <1>4, <1>5, <1>6, <1>7, <1>8, <1>9, NextCases

\* An id still names one row.
LEMMA UniqueStep ==
  ASSUME TypeOK, Books, [Next]_vars
  PROVE  \A m, n \in notifs' : m.id = n.id => m = n
<1> DEFINE Unique == \A m, n \in notifs' : m.id = n.id => m = n
<1>0. /\ notifs \subseteq Row /\ nextId \in Nat
      /\ \A n \in notifs : n.id < nextId
      /\ \A m, n \in notifs : m.id = n.id => m = n
  BY DEF TypeOK, Books
<1>1. ASSUME notifs' \subseteq notifs
      PROVE  Unique
  BY <1>0, <1>1
<1>2. ASSUME NEW c \in Caller, Insert(c)
      PROVE  Unique
  <2>1. PICK r : notifs' = notifs \cup {r} /\ r.id = nextId
    <3>1. \E r : notifs' = notifs \cup {r} /\ r.id = nextId
      <4> DEFINE row == [id |-> nextId, key |-> Head(run[c].todo), title |-> run[c].title,
                         at |-> now, sent |-> FALSE, status |-> "unread", by |-> c,
                         begun |-> run[c].begun]
      <4>1. notifs' = notifs \cup {row}
        BY <1>2 DEF Insert
      <4>2. row.id = nextId
        OBVIOUS
      <4> HIDE DEF row
      <4>3. QED
        BY <4>1, <4>2
    <3>2. QED
      BY <3>1
  <2>2. \A n \in notifs : n.id \in Nat /\ n.id # nextId
    BY <1>0 DEF Row
  <2>3. QED
    BY <1>0, <2>1, <2>2
<1>3. ASSUME NEW c \in Caller, Record(c)
      PROVE  Unique
  <2> DEFINE f(n) == IF n.id = run[c].mine THEN [n EXCEPT !.sent = run[c].ok] ELSE n
  <2>1. notifs' = {f(n) : n \in notifs}
    BY <1>3 DEF Record
  <2>2. \A n \in notifs : f(n).id = n.id
    BY <1>0 DEF Row
  <2> HIDE DEF f
  <2>3. QED
    BY <1>0, <2>1, <2>2
<1>4. ASSUME NEW n \in notifs, MarkRead(n) \/ Dismiss(n) \/ Delete(n)
      PROVE  Unique
  <2>1. CASE MarkRead(n)
    BY <1>0, <2>1 DEF MarkRead, Row
  <2>2. CASE Dismiss(n)
    BY <1>0, <2>2 DEF Dismiss, Row
  <2>3. CASE Delete(n)
    BY <1>1, <2>3 DEF Delete
  <2>4. QED
    BY <1>4, <2>1, <2>2, <2>3
<1>5. ASSUME NEW u \in User, MarkAllRead(u)
      PROVE  Unique
  <2> DEFINE f(n) == IF UserOf(n.key) = u /\ n.status = "unread"
                       THEN [n EXCEPT !.status = "read"] ELSE n
  <2>1. notifs' = {f(n) : n \in notifs}
    BY <1>5 DEF MarkAllRead
  <2>2. \A n \in notifs : f(n).id = n.id
    BY <1>0 DEF Row
  <2> HIDE DEF f
  <2>3. QED
    BY <1>0, <2>1, <2>2
<1>6. CASE UNCHANGED vars \/ Preference \/ Tick \/ Cleanup
  BY <1>1, <1>6 DEF vars, Preference, SetReach, Tick, Cleanup
<1>7. ASSUME NEW c \in Caller,
             \/ Start(c) \/ SkipIdentical(c) \/ Suppress(c) \/ Decide(c)
             \/ Refresh(c) \/ RefreshGone(c) \/ Push(c) \/ RecordGone(c)
             \/ Finish(c) \/ Crash(c)
      PROVE  Unique
  BY <1>1, <1>7 DEF Start, SkipIdentical, Suppress, Decide, Refresh, RefreshGone, Push,
                    RecordGone, Finish, Crash
<1>8. QED
  BY <1>2, <1>3, <1>4, <1>5, <1>6, <1>7, NextCases

\* The flag a run records.
LEMMA RecordRow ==
  ASSUME TypeOK, NEW c \in Caller, Record(c), NEW r \in notifs', r.id = run[c].mine
  PROVE  r.sent = run[c].ok
<1>1. PICK n \in notifs : r = IF n.id = run[c].mine THEN [n EXCEPT !.sent = run[c].ok] ELSE n
  BY DEF Record
<1>2. n \in Row
  BY DEF TypeOK
<1>3. QED
  BY <1>1, <1>2 DEF Row

\* What c may do.
Acts(c) ==
    \/ Start(c) \/ SkipIdentical(c) \/ Suppress(c) \/ Decide(c) \/ Insert(c)
    \/ Refresh(c) \/ RefreshGone(c) \/ Push(c) \/ Record(c) \/ RecordGone(c)
    \/ Finish(c) \/ Crash(c)

\* A step of the others leaves the run of d alone, but for what is recorded of consent.
Same(d) ==
    /\ run'[d].pc = run[d].pc /\ run'[d].todo = run[d].todo
    /\ run'[d].tx = run[d].tx /\ run'[d].view = run[d].view
    /\ run'[d].begun = run[d].begun
    /\ run'[d].mine = run[d].mine /\ run'[d].ok = run[d].ok
    /\ run'[d].known = run[d].known
    /\ run'[d].open = run[d].open \cup (IF reach' = reach THEN {} ELSE reach')

\* A step is one of a caller, or leaves its run as it is.
LEMMA RunStep ==
  ASSUME TypeOK, [Next]_vars, NEW d \in Caller
  PROVE  Same(d) \/ Acts(d)
<1>0. run \in [Caller -> Run]
  BY DEF TypeOK
<1>1. ASSUME run'[d] = run[d], reach' = reach
      PROVE  Same(d)
  BY <1>0, <1>1 DEF Same, Run
<1>2. ASSUME NEW c \in Caller, Acts(c), c # d
      PROVE  Same(d)
  <2>1. run'[d] = run[d] /\ reach' = reach
    BY <1>0, <1>2 DEF Acts, Start, SkipIdentical, Suppress, Decide, Insert, Refresh,
          RefreshGone, Push, Record, RecordGone, Finish, Crash
  <2>2. QED
    BY <1>1, <2>1
<1>3. ASSUME NEW r \in SUBSET User, SetReach(r)
      PROVE  Same(d)
  <2>1. run'[d] = [run[d] EXCEPT !.open = @ \cup reach'] /\ reach' # reach
    BY <1>3 DEF SetReach
  <2>2. run[d] \in Run
    BY <1>0
  <2>3. QED
    BY <2>1, <2>2 DEF Same, Run
<1>4. ASSUME NEW n \in notifs, MarkRead(n) \/ Dismiss(n) \/ Delete(n)
      PROVE  Same(d)
  BY <1>1, <1>4 DEF MarkRead, Dismiss, Delete
<1>5. ASSUME NEW u \in User, MarkAllRead(u)
      PROVE  Same(d)
  BY <1>1, <1>5 DEF MarkAllRead
<1>6. CASE UNCHANGED vars \/ Cleanup \/ Tick
  BY <1>1, <1>6 DEF vars, Cleanup, Tick
<1>7. QED
  BY <1>2, <1>3, <1>4, <1>5, <1>6, NextCases DEF Acts, Preference

\* Ids and times only grow, and the service only accepts the push of a run.
LEMMA Grows ==
  ASSUME TypeOK, [Next]_vars
  PROVE  /\ nextId' = nextId \/ \E c \in Caller : Insert(c) /\ nextId' = nextId + 1
         /\ now' = now \/ now' = now + 1
         /\ accepted' = accepted \/
               \E c \in Caller : Push(c) /\ accepted' = accepted \cup {run[c].mine}
<1> DEFINE Goal ==
      /\ nextId' = nextId \/ \E c \in Caller : Insert(c) /\ nextId' = nextId + 1
      /\ now' = now \/ now' = now + 1
      /\ accepted' = accepted \/
            \E c \in Caller : Push(c) /\ accepted' = accepted \cup {run[c].mine}
<1>1. ASSUME NEW c \in Caller, Insert(c)
      PROVE  Goal
  BY <1>1 DEF Insert
<1>2. ASSUME NEW c \in Caller, Push(c)
      PROVE  Goal
  BY <1>2 DEF Push
<1>3. ASSUME NEW c \in Caller,
             \/ Start(c) \/ SkipIdentical(c) \/ Suppress(c) \/ Decide(c)
             \/ Refresh(c) \/ RefreshGone(c) \/ Record(c) \/ RecordGone(c)
             \/ Finish(c) \/ Crash(c)
      PROVE  Goal
  BY <1>3 DEF Start, SkipIdentical, Suppress, Decide, Refresh, RefreshGone, Record,
              RecordGone, Finish, Crash
<1>4. ASSUME NEW n \in notifs, MarkRead(n) \/ Dismiss(n) \/ Delete(n)
      PROVE  Goal
  BY <1>4 DEF MarkRead, Dismiss, Delete
<1>5. ASSUME NEW u \in User, MarkAllRead(u)
      PROVE  Goal
  BY <1>5 DEF MarkAllRead
<1>6. CASE UNCHANGED vars \/ Preference \/ Cleanup \/ Tick
  BY <1>6 DEF vars, Preference, SetReach, Cleanup, Tick
<1>7. QED
  BY <1>1, <1>2, <1>3, <1>4, <1>5, <1>6, NextCases

-----------------------------------------------------------------------------
(* The parts of the invariant *)

\* After a step of its own: a run goes on, it reads in a transaction, it is with the
\* same alert, it is over.
Keeps(d) ==
    /\ Running(d)
    /\ run'[d].begun = run[d].begun
    /\ run'[d].known = run[d].known /\ run'[d].open = run[d].open

Reads(d, view) == run'[d].tx /\ run'[d].view = view

Carries(d) == run'[d].todo = run[d].todo /\ run'[d].mine = run[d].mine

Ended(d) ==
    /\ run'[d].pc \in {"idle", "done"}
    /\ ~run'[d].tx /\ run'[d].view = {} /\ run'[d].begun = 0

\* What each step of a caller does to its run: where it goes, what it keeps and reads.
LEMMA OwnStep ==
  ASSUME TypeOK, TypeOK', NEW d \in Caller
  PROVE  /\ run[d] \in Run /\ run'[d] \in Run
         /\ Start(d) =>
               /\ run'[d].pc = "check" /\ run'[d].begun = nextId /\ Reads(d, notifs)
               /\ run'[d].known = reach /\ run'[d].open = reach
         /\ SkipIdentical(d) =>
               /\ run'[d].pc = "check" /\ Keeps(d) /\ Reads(d, ViewOf(d))
         /\ Suppress(d) =>
               /\ run'[d].pc = "check" /\ Keeps(d) /\ Reads(d, ViewOf(d))
         /\ Decide(d) =>
               /\ run'[d].pc = "insert" /\ Keeps(d) /\ Carries(d)
               /\ run[d].todo # <<>> /\ Reads(d, ViewOf(d))
         /\ Insert(d) =>
               /\ run'[d].pc = "refresh" /\ Keeps(d) /\ ~run'[d].tx
               /\ run'[d].mine = nextId /\ run'[d].todo = run[d].todo
         /\ Refresh(d) =>
               /\ Keeps(d) /\ Reads(d, notifs)
               /\ run'[d].pc = "check" \/ (run'[d].pc = "push" /\ MayPush(d) /\ Carries(d))
         /\ RefreshGone(d) =>
               /\ Ended(d) \/ (run'[d].pc = "check" /\ Keeps(d) /\ Reads(d, notifs))
         /\ Push(d) =>
               /\ run'[d].pc = "record" /\ Keeps(d) /\ Carries(d)
               /\ run'[d].tx = run[d].tx /\ run'[d].view = run[d].view
         /\ Record(d) =>
               /\ run'[d].pc = "check" /\ Keeps(d) /\ ~run'[d].tx
         /\ RecordGone(d) \/ Crash(d) =>
               /\ Ended(d)
         /\ Finish(d) =>
               /\ Ended(d)
<1>0. run[d] \in Run /\ run'[d] \in Run /\ run \in [Caller -> Run]
  BY DEF TypeOK
<1>1. ASSUME Start(d)
      PROVE  /\ run'[d].pc = "check" /\ run'[d].begun = nextId /\ Reads(d, notifs)
             /\ run'[d].known = reach /\ run'[d].open = reach
  BY <1>0, <1>1 DEF Start, Idle, Reads
<1>2. ASSUME SkipIdentical(d)
      PROVE  /\ run'[d].pc = "check" /\ Keeps(d) /\ Reads(d, ViewOf(d))
  BY <1>0, <1>2 DEF SkipIdentical, Run, Running, Keeps, Reads
<1>3. ASSUME Suppress(d)
      PROVE  /\ run'[d].pc = "check" /\ Keeps(d) /\ Reads(d, ViewOf(d))
  BY <1>0, <1>3 DEF Suppress, Returned, Run, Running, Keeps, Reads
<1>4. ASSUME Decide(d)
      PROVE  /\ run'[d].pc = "insert" /\ Keeps(d) /\ Carries(d)
             /\ run[d].todo # <<>> /\ Reads(d, ViewOf(d))
  BY <1>0, <1>4 DEF Decide, Run, Running, Keeps, Reads, Carries
<1>5. ASSUME Insert(d)
      PROVE  /\ run'[d].pc = "refresh" /\ Keeps(d) /\ ~run'[d].tx
             /\ run'[d].mine = nextId /\ run'[d].todo = run[d].todo
  BY <1>0, <1>5 DEF Insert, Run, Running, Keeps
<1>6. ASSUME Refresh(d)
      PROVE  /\ Keeps(d) /\ Reads(d, notifs)
             /\ run'[d].pc = "check" \/ (run'[d].pc = "push" /\ MayPush(d) /\ Carries(d))
  <2>1. CASE MayPush(d)
    BY <1>0, <1>6, <2>1 DEF Refresh, Run, Running, Keeps, Reads, Carries
  <2>2. CASE ~MayPush(d)
    BY <1>0, <1>6, <2>2 DEF Refresh, Returned, Run, Running, Keeps, Reads
  <2>3. QED
    BY <2>1, <2>2
<1>7. ASSUME RefreshGone(d)
      PROVE  /\ Ended(d) \/ (run'[d].pc = "check" /\ Keeps(d) /\ Reads(d, notifs))
  BY <1>0, <1>7 DEF RefreshGone, AfterError, Run, Running, Keeps, Reads, Ended, Idle
<1>8. ASSUME Push(d)
      PROVE  /\ run'[d].pc = "record" /\ Keeps(d) /\ Carries(d)
             /\ run'[d].tx = run[d].tx /\ run'[d].view = run[d].view
  BY <1>0, <1>8 DEF Push, Run, Running, Keeps, Carries
<1>9. ASSUME Record(d)
      PROVE  /\ run'[d].pc = "check" /\ Keeps(d) /\ ~run'[d].tx
  BY <1>0, <1>9 DEF Record, Returned, Run, Running, Keeps
<1>10. ASSUME RecordGone(d) \/ Crash(d)
       PROVE  /\ Ended(d)
  BY <1>0, <1>10 DEF RecordGone, Crash, Ended, Idle
<1>11. ASSUME Finish(d)
       PROVE  /\ Ended(d)
  BY <1>0, <1>11 DEF Finish, Ended, Idle
<1>12. QED
  BY <1>0, <1>1, <1>2, <1>3, <1>4, <1>5, <1>6, <1>7, <1>8, <1>9, <1>10, <1>11

\* A run about to insert, or at work on a row it made, has that alert on its list still.
LEMMA BusyStep ==
  ASSUME TypeOK, TypeOK', Busy, [Next]_vars
  PROVE  Busy'
<1> SUFFICES ASSUME NEW d \in Caller,
                    run'[d].pc \in {"insert", "refresh", "push", "record"}
             PROVE  run'[d].todo # <<>>
  BY DEF Busy, Fresh
<1>1. CASE Same(d)
  BY <1>1 DEF Same, Busy, Fresh
<1>2. CASE Acts(d)
  <2>1. CASE Decide(d) \/ Insert(d) \/ Refresh(d) \/ Push(d)
    BY <2>1, OwnStep DEF Busy, Fresh, Carries, Insert, Refresh, Push
  <2>2. QED
    BY <1>2, <2>1, OwnStep DEF Acts, Ended
<1>3. QED
  BY <1>1, <1>2, RunStep

\* Ids are given once and in order, and no row is of the future.
LEMMA BooksStep ==
  ASSUME TypeOK, TypeOK', Books, Delivery, [Next]_vars
  PROVE  Books'
<1>0. /\ nextId \in Nat /\ nextId' \in Nat /\ now \in Nat /\ now' \in Nat
      /\ nextId <= nextId' /\ now <= now'
      /\ notifs \subseteq Row /\ notifs' \subseteq Row
  BY Grows DEF TypeOK
<1>1. ASSUME NEW r \in notifs'
      PROVE  r.id < nextId' /\ r.at <= now' /\ r.begun <= r.id
  <2>1. ASSUME NEW n \in notifs, SameRow(n, r)
        PROVE  r.id < nextId' /\ r.at <= now' /\ r.begun <= r.id
    BY <1>0, <2>1 DEF SameRow, Row, Books
  <2>2. ASSUME NEW c \in Caller, Insert(c), Made(c, r)
        PROVE  r.id < nextId' /\ r.at <= now' /\ r.begun <= r.id
    BY <1>0, <2>2 DEF Insert, Made, Books
  <2>3. QED
    BY <2>1, <2>2, RowStep DEF Advances
<1>2. ASSUME NEW i \in accepted'
      PROVE  i < nextId'
  <2>1. i \in accepted \/ \E c \in Caller : Push(c) /\ i = run[c].mine
    BY Grows
  <2>2. i < nextId
    BY <2>1 DEF Books, Delivery, Fresh, Push
  <2>3. i \in Nat
    BY DEF TypeOK
  <2>4. QED
    BY <1>0, <2>2, <2>3
<1>3. ASSUME NEW d \in Caller
      PROVE  run'[d].begun <= nextId'
  <2>0. run[d].begun \in Nat /\ run[d].begun <= nextId
    BY DEF TypeOK, Run, Books
  <2>1. run'[d].begun \in {run[d].begun, nextId, 0}
    <3>1. CASE Same(d)
      BY <3>1 DEF Same
    <3>2. CASE Acts(d)
      BY <3>2, OwnStep DEF Acts, Keeps, Ended
    <3>3. QED
      BY <3>1, <3>2, RunStep
  <2>2. QED
    BY <1>0, <2>0, <2>1
<1>4. QED
  BY <1>1, <1>2, <1>3, UniqueStep DEF Books

\* What a run has to know after a step that was not its own it had to know before.
LEMMA KnownStep ==
  ASSUME TypeOK, Books, [Next]_vars, NEW d \in Caller, NEW r \in notifs', Known(d, r)',
         run'[d].begun = run[d].begun, ~Insert(d)
  PROVE  \E n \in notifs : SameRow(n, r) /\ Known(d, n)
<1>1. CASE \E n \in notifs : SameRow(n, r)
  BY <1>1 DEF SameRow, Known
<1>2. ASSUME NEW c \in Caller, Insert(c), Made(c, r)
      PROVE  FALSE
  <2>1. r.id = nextId /\ r.by = c /\ c # d
    BY <1>2 DEF Made
  <2>2. run[d].begun \in Nat /\ run[d].begun <= nextId /\ nextId \in Nat
    BY DEF Books, TypeOK, Run
  <2>3. r.id < run[d].begun
    BY <2>1 DEF Known
  <2>4. QED
    BY <2>1, <2>2, <2>3
<1>3. QED
  BY <1>1, <1>2, RowStep DEF Advances

\* The snapshot of a run holds every row it has to know of, or is opened anew.
LEMMA SeenStep ==
  ASSUME TypeOK, TypeOK', Books, Seen, [Next]_vars
  PROVE  Seen'
<1> SUFFICES ASSUME NEW d \in Caller, run'[d].tx, NEW r \in notifs', Known(d, r)'
             PROVE  \E v \in run'[d].view : v.key = r.key /\ v.at = r.at
  BY DEF Seen
<1>1. ASSUME run'[d].view = notifs'
      PROVE  \E v \in run'[d].view : v.key = r.key /\ v.at = r.at
  BY <1>1
<1>2. ASSUME run'[d].begun = run[d].begun, ~Insert(d),
             \/ run[d].tx /\ run'[d].view = run[d].view
             \/ run'[d].view = ViewOf(d)
      PROVE  \E v \in run'[d].view : v.key = r.key /\ v.at = r.at
  <2>1. PICK n \in notifs : SameRow(n, r) /\ Known(d, n)
    BY <1>2, KnownStep
  <2>2. CASE run[d].tx
    <3>1. \E v \in run[d].view : v.key = n.key /\ v.at = n.at
      BY <2>1, <2>2 DEF Seen
    <3>2. run'[d].view = run[d].view
      BY <1>2, <2>2 DEF ViewOf
    <3>3. QED
      BY <2>1, <3>1, <3>2 DEF SameRow
  <2>3. CASE ~run[d].tx
    <3>1. run'[d].view = notifs
      BY <1>2, <2>3 DEF ViewOf
    <3>2. QED
      BY <2>1, <3>1 DEF SameRow
  <2>4. QED
    BY <2>2, <2>3
<1>3. CASE Same(d)
  <2>1. CASE Insert(d)
    BY <1>3, <2>1, OwnStep DEF Same
  <2>2. QED
    BY <1>2, <1>3, <2>1 DEF Same
<1>4. CASE Start(d) \/ Refresh(d) \/ RefreshGone(d)
  <2>1. notifs' = notifs
    BY <1>4 DEF Start, Refresh, RefreshGone
  <2>2. run'[d].view = notifs
    BY <1>4, OwnStep DEF Reads, Ended
  <2>3. QED
    BY <1>1, <2>1, <2>2
<1>5. CASE SkipIdentical(d) \/ Suppress(d) \/ Decide(d) \/ Push(d)
  <2>1. ~Insert(d)
    BY <1>5, OwnStep DEF SkipIdentical, Suppress, Decide, Push, Insert
  <2>2. run'[d].begun = run[d].begun
    BY <1>5, OwnStep DEF Keeps
  <2>3. \/ run[d].tx /\ run'[d].view = run[d].view
        \/ run'[d].view = ViewOf(d)
    BY <1>5, OwnStep DEF Reads
  <2>4. QED
    BY <1>2, <2>1, <2>2, <2>3
<1>6. CASE Insert(d) \/ Record(d) \/ RecordGone(d) \/ Crash(d) \/ Finish(d)
  BY <1>6, OwnStep DEF Ended
<1>7. QED
  BY <1>3, <1>4, <1>5, <1>6, RunStep DEF Acts

\* A run about to insert knows no row of its key within the window.
LEMMA UnawareStep ==
  ASSUME TypeOK, TypeOK', Books, Seen, Unaware, [Next]_vars
  PROVE  Unaware'
<1> SUFFICES ASSUME NEW d \in Caller, run'[d].pc = "insert",
                    NEW r \in notifs', Known(d, r)', r.key = Head(run'[d].todo)
             PROVE  r.at + Window < now'
  BY DEF Unaware
<1>0. /\ now \in Nat /\ now' \in Nat /\ now <= now' /\ Window \in Nat
      /\ \A n \in notifs : n.at \in Nat
  BY Grows, WindowAssumption DEF TypeOK, Row
<1>1. CASE Same(d)
  <2>1. ~Insert(d)
    BY <1>1, OwnStep DEF Same, Insert
  <2>2. PICK n \in notifs : SameRow(n, r) /\ Known(d, n)
    BY <1>1, <2>1, KnownStep DEF Same
  <2>3. n.at + Window < now
    BY <1>1, <2>2 DEF Same, Unaware, SameRow
  <2>4. QED
    BY <1>0, <2>2, <2>3 DEF SameRow
<1>2. CASE Decide(d)
  <2>1. notifs' = notifs /\ now' = now
    BY <1>2 DEF Decide
  <2>2. Known(d, r) /\ r.key = Head(run[d].todo)
    BY <1>2, OwnStep DEF Known, Keeps, Carries
  <2>3. PICK v \in ViewOf(d) : v.key = r.key /\ v.at = r.at
    BY <2>1, <2>2 DEF Seen, ViewOf
  <2>4. ~Recent(v, Window)
    BY <1>2, <2>2, <2>3 DEF Decide, Duplicate
  <2>5. QED
    BY <1>0, <2>1, <2>3, <2>4 DEF Recent
<1>3. CASE Acts(d) /\ ~Decide(d)
  BY <1>3, OwnStep DEF Acts, Ended
<1>4. QED
  BY <1>1, <1>2, <1>3, RunStep

\* Rows a run knew of are a window away from the one it inserts.
LEMMA SpacedStep ==
  ASSUME TypeOK, TypeOK', Books, Unaware, Spaced, [Next]_vars
  PROVE  Spaced'
<1> SUFFICES ASSUME NEW m \in notifs', NEW n \in notifs',
                    m.key = n.key, m.id < n.id, m.id < n.begun \/ m.by = n.by
             PROVE  m.at + Window < n.at
  BY DEF Spaced
<1>0. /\ nextId \in Nat
      /\ \A r \in notifs : r.id \in Nat /\ r.id < nextId
  BY DEF TypeOK, Books, Row
<1>1. ASSUME NEW m0 \in notifs, SameRow(m0, m), NEW n0 \in notifs, SameRow(n0, n)
      PROVE  m.at + Window < n.at
  BY <1>1 DEF SameRow, Spaced
<1>2. ASSUME NEW m0 \in notifs, SameRow(m0, m), NEW c \in Caller, Insert(c), Made(c, n)
      PROVE  m.at + Window < n.at
  <2>1. Known(c, m0) /\ m0.key = Head(run[c].todo) /\ run[c].pc = "insert"
    BY <1>2 DEF SameRow, Made, Known, Insert
  <2>2. m0.at + Window < now
    BY <2>1 DEF Unaware
  <2>3. QED
    BY <1>2, <2>2 DEF SameRow, Made
<1>3. ASSUME NEW c \in Caller, Insert(c), Made(c, m)
      PROVE  FALSE
  <2>1. m.id = nextId
    BY <1>3 DEF Made
  <2>2. n.id \in Nat /\ n.id <= nextId
    <3>1. CASE \E n0 \in notifs : SameRow(n0, n)
      BY <1>0, <3>1 DEF SameRow
    <3>2. CASE \E e \in Caller : Made(e, n)
      BY <1>0, <3>2 DEF Made
    <3>3. QED
      BY <3>1, <3>2, RowStep DEF Advances
  <2>3. QED
    BY <1>0, <2>1, <2>2
<1>4. QED
  BY <1>1, <1>2, <1>3, RowStep DEF Advances

\* Where the id a run holds comes from.
LEMMA MineStep ==
  ASSUME TypeOK, TypeOK', [Next]_vars, NEW d \in Caller, Fresh(d)'
  PROVE  \/ Insert(d) /\ run'[d].mine = nextId
         \/ ~Insert(d) /\ Fresh(d) /\ run'[d].mine = run[d].mine
<1>1. CASE Same(d)
  BY <1>1, OwnStep DEF Same, Fresh, Insert
<1>2. CASE Insert(d)
  BY <1>2, OwnStep
<1>3. CASE Refresh(d) \/ Push(d)
  BY <1>3, OwnStep DEF Refresh, Push, Fresh, Carries, Insert
<1>4. CASE Acts(d) /\ ~(Insert(d) \/ Refresh(d) \/ Push(d))
  BY <1>4, OwnStep DEF Acts, Ended, Fresh
<1>5. QED
  BY <1>1, <1>2, <1>3, <1>4, RunStep

\* Only one inserts at a time.
LEMMA InsertAlone ==
  ASSUME TypeOK, TypeOK', NEW c \in Caller, NEW d \in Caller, Insert(c), Insert(d)
  PROVE  c = d
<1>1. ASSUME c # d
      PROVE  run'[d] = run[d]
  BY <1>1 DEF Insert, TypeOK
<1>2. run[d].pc = "insert" /\ run'[d].pc = "refresh"
  BY OwnStep DEF Insert
<1>3. QED
  BY <1>1, <1>2

\* What is lost stays lost, and a crash loses the outcome its run had in hand.
LEMMA LostStep ==
  ASSUME TypeOK, [Next]_vars
  PROVE  /\ lost \subseteq lost'
         /\ \A c \in Caller : Crash(c) /\ run[c].pc = "record" => run[c].mine \in lost'
<1>1. \A c \in Caller : Crash(c) => lost \subseteq lost' /\ (run[c].pc = "record" => run[c].mine \in lost')
  BY DEF Crash
<1>2. ASSUME NEW c \in Caller, Acts(c), ~Crash(c)
      PROVE  lost \subseteq lost'
  BY <1>2 DEF Acts, Start, SkipIdentical, Suppress, Decide, Insert, Refresh, RefreshGone, Push,
              Record, RecordGone, Finish
<1>3. ASSUME NEW n \in notifs, MarkRead(n) \/ Dismiss(n) \/ Delete(n)
      PROVE  lost' = lost
  BY <1>3 DEF MarkRead, Dismiss, Delete
<1>4. ASSUME NEW u \in User, MarkAllRead(u)
      PROVE  lost' = lost
  BY <1>4 DEF MarkAllRead
<1>5. CASE UNCHANGED vars \/ Preference \/ Cleanup \/ Tick
  BY <1>1, <1>5 DEF vars, Preference, SetReach, Cleanup, Tick
<1>6. QED
  BY <1>1, <1>2, <1>3, <1>4, <1>5, NextCases DEF Acts

\* No two runs work on one row, and a run remembers what the push service answered.
LEMMA DeliveryStep ==
  ASSUME TypeOK, TypeOK', Books, Delivery, [Next]_vars
  PROVE  Delivery'
<1>0. /\ nextId \in Nat /\ nextId' \in Nat /\ nextId <= nextId'
      /\ \A c \in Caller : run[c].mine \in Nat /\ run'[c].mine \in Nat
      /\ \A i \in accepted : i < nextId
      /\ \A c \in Caller : Fresh(c) => run[c].mine < nextId
  <2>1. nextId \in Nat /\ nextId' \in Nat
    BY DEF TypeOK
  <2>2. nextId <= nextId'
    BY <2>1, Grows
  <2>3. \A c \in Caller : run[c] \in Run /\ run'[c] \in Run
    BY DEF TypeOK
  <2>4. \A c \in Caller : run[c].mine \in Nat /\ run'[c].mine \in Nat
    BY <2>3 DEF Run
  <2>5. QED
    BY <2>1, <2>2, <2>4 DEF Books, Delivery
<1>1. ASSUME NEW d \in Caller, Fresh(d)'
      PROVE  run'[d].mine < nextId'
  <2>1. CASE Insert(d)
    <3>1. nextId' = nextId + 1
      BY <2>1 DEF Insert
    <3>2. run'[d].mine = nextId
      BY <2>1, OwnStep
    <3>3. QED
      BY <1>0, <3>1, <3>2
  <2>2. CASE ~Insert(d)
    BY <1>0, <1>1, <2>2, MineStep
  <2>3. QED
    BY <2>1, <2>2
<1>2. ASSUME NEW c \in Caller, NEW d \in Caller, Fresh(c)', Fresh(d)',
             run'[c].mine = run'[d].mine
      PROVE  c = d
  <2>1. CASE Insert(c) /\ Insert(d)
    BY <2>1, InsertAlone
  <2>2. CASE ~Insert(c) /\ ~Insert(d)
    BY <1>2, <2>2, MineStep DEF Delivery
  <2>3. CASE Insert(c) /\ ~Insert(d)
    BY <1>0, <1>2, <2>3, MineStep
  <2>4. CASE ~Insert(c) /\ Insert(d)
    BY <1>0, <1>2, <2>4, MineStep
  <2>5. QED
    BY <2>1, <2>2, <2>3, <2>4
<1>3. ASSUME NEW d \in Caller, run'[d].pc \in {"refresh", "push"}
      PROVE  run'[d].mine \notin accepted'
  <2>1. CASE Insert(d)
    <3>1. run'[d].mine = nextId
      BY <2>1, OwnStep
    <3>2. accepted' = accepted
      BY <2>1 DEF Insert
    <3>3. nextId \notin accepted
      BY <1>0
    <3>4. QED
      BY <3>1, <3>2, <3>3
  <2>2. CASE ~Insert(d)
    <3>1. Fresh(d) /\ run'[d].mine = run[d].mine
      BY <1>3, <2>2, MineStep DEF Fresh
    <3>2. run[d].pc \in {"refresh", "push"}
      <4>1. CASE Same(d)
        BY <1>3, <4>1 DEF Same
      <4>2. CASE Acts(d)
        BY <1>3, <2>2, <4>2, OwnStep DEF Acts, Ended, Refresh
      <4>3. QED
        BY <4>1, <4>2, RunStep
    <3>3. run[d].mine \notin accepted
      BY <3>2 DEF Delivery
    <3>4. ASSUME NEW c \in Caller, Push(c)
          PROVE  run[c].mine # run[d].mine
      <4>1. c # d
        BY <1>3, <3>4, OwnStep
      <4>2. Fresh(c)
        BY <3>4 DEF Push, Fresh
      <4>3. QED
        BY <3>1, <4>1, <4>2 DEF Delivery
    <3>5. QED
      BY <3>1, <3>3, <3>4, Grows
  <2>3. QED
    BY <2>1, <2>2
<1>4. ASSUME NEW d \in Caller, run'[d].pc = "record"
      PROVE  /\ run'[d].ok => run'[d].mine \in accepted'
             /\ run'[d].mine \in accepted' => run'[d].ok \/ run'[d].mine \in lost'
  <2>1. CASE Push(d)
    <3>1. PICK taken \in BOOLEAN, answered \in BOOLEAN : Pushes(d, taken, answered)
      BY <2>1 DEF Push, Pushes
    <3>2. run \in [Caller -> Run]
      BY DEF TypeOK
    <3>3. run'[d].ok = (taken /\ answered) /\ run'[d].mine = run[d].mine
      BY <3>1, <3>2 DEF Run, Pushes
    <3>4. run[d].mine \notin accepted
      BY <2>1 DEF Push, Delivery
    <3>5. taken => run[d].mine \in accepted'
      BY <3>1 DEF Pushes
    <3>6. ~taken => run[d].mine \notin accepted'
      BY <3>1, <3>4 DEF Pushes
    <3>7. taken /\ ~answered => run[d].mine \in lost'
      BY <3>1 DEF Pushes
    <3>8. run'[d].ok <=> taken /\ answered
      BY <3>3
    <3>9. QED
      BY <3>3, <3>5, <3>6, <3>7, <3>8
  <2>2. CASE ~Push(d)
    <3>1. Same(d)
      BY <1>4, <2>2, RunStep, OwnStep DEF Acts, Ended
    <3>2. run[d].pc = "record" /\ run'[d].ok = run[d].ok /\ run'[d].mine = run[d].mine
      BY <1>4, <3>1 DEF Same
    <3>3. /\ run[d].ok => run[d].mine \in accepted
          /\ run[d].mine \in accepted => run[d].ok \/ run[d].mine \in lost
      BY <3>2 DEF Delivery
    <3>4. ASSUME NEW c \in Caller, Push(c)
          PROVE  run[c].mine # run[d].mine
      <4>1. Fresh(c) /\ Fresh(d) /\ c # d
        BY <2>2, <3>2, <3>4 DEF Push, Fresh
      <4>2. QED
        BY <4>1 DEF Delivery
    <3>5. lost \subseteq lost'
      BY LostStep
    <3>6. QED
      BY <3>2, <3>3, <3>4, <3>5, Grows
  <2>3. QED
    BY <2>1, <2>2
<1>5. QED
  BY <1>1, <1>2, <1>3, <1>4 DEF Delivery

\* The record of a push is written as the service answered.
LEMMA AgreesStep ==
  ASSUME TypeOK, TypeOK', Books, Delivery, PushRecordAgrees, [Next]_vars
  PROVE  PushRecordAgrees'
<1> DEFINE Recording(i) == \E c \in Caller : run'[c].pc = "record" /\ run'[c].mine = i
           Agrees(r) == /\ r.sent => r.id \in accepted'
                        /\ r.id \in accepted' => r.sent \/ r.id \in lost' \/ Recording(r.id)
<1> SUFFICES ASSUME NEW r \in notifs'
             PROVE  Agrees(r)
  BY DEF PushRecordAgrees
<1>0. accepted \subseteq accepted' /\ lost \subseteq lost'
  BY Grows, LostStep
<1>1. ASSUME NEW c \in Caller, Insert(c), Made(c, r)
      PROVE  Agrees(r)
  <2>1. accepted' = accepted /\ r.id = nextId /\ r.sent = FALSE
    BY <1>1 DEF Insert, Made
  <2>2. nextId \notin accepted
    <3>1. \A i \in accepted : i < nextId
      BY DEF Books
    <3>2. nextId \in Nat
      BY DEF TypeOK
    <3>3. QED
      BY <3>1, <3>2
  <2>3. QED
    BY <2>1, <2>2
<1>2. ASSUME NEW c \in Caller, Record(c), r.id = run[c].mine
      PROVE  Agrees(r)
  <2>1. r.sent = run[c].ok
    BY <1>2, RecordRow
  <2>2. accepted' = accepted /\ run[c].pc = "record"
    BY <1>2 DEF Record
  <2>3. QED
    BY <1>0, <1>2, <2>1, <2>2 DEF Delivery
<1>3. ASSUME NEW n \in notifs, SameRow(n, r), r.sent = n.sent,
             \A c \in Caller : ~(Record(c) /\ r.id = run[c].mine)
      PROVE  Agrees(r)
  <2>1. n.id = r.id
    BY <1>3 DEF SameRow
  <2>2. r.sent => r.id \in accepted'
    BY <1>0, <1>3, <2>1 DEF PushRecordAgrees
  <2>3. ASSUME r.id \in accepted', r.id \notin accepted
        PROVE  Recording(r.id)
    <3>1. PICK c \in Caller : Push(c) /\ run[c].mine = r.id
      BY <2>3, Grows
    <3>2. QED
      BY <3>1, OwnStep DEF Carries
  <2>4. ASSUME NEW c \in Caller, run[c].pc = "record", run[c].mine = r.id
        PROVE  r.id \in lost' \/ Recording(r.id)
    <3>1. CASE Same(c)
      BY <2>4, <3>1 DEF Same
    <3>2. CASE Acts(c)
      <4>1. Exists(run[c].mine)
        BY <2>1, <2>4 DEF Exists
      <4>2. ~Record(c) /\ ~RecordGone(c)
        BY <1>3, <2>4, <4>1 DEF RecordGone
      <4>3. Crash(c)
        BY <2>4, <3>2, <4>2, OwnStep DEF Acts, Start, Running, SkipIdentical, Suppress, Decide,
              Insert, Refresh, RefreshGone, Push, Finish
      <4>4. QED
        BY <2>4, <4>3, LostStep
    <3>3. QED
      BY <3>1, <3>2, RunStep
  <2>5. r.id \in accepted => r.sent \/ r.id \in lost' \/ Recording(r.id)
    <3>1. r.id \in accepted =>
            \/ r.sent
            \/ r.id \in lost
            \/ \E c \in Caller : run[c].pc = "record" /\ run[c].mine = r.id
      BY <1>3, <2>1 DEF PushRecordAgrees
    <3> HIDE DEF Recording
    <3>2. QED
      BY <1>0, <2>4, <3>1
  <2>6. QED
    <3> HIDE DEF Recording
    <3>1. QED
      BY <2>2, <2>3, <2>5
<1>4. QED
  BY <1>1, <1>2, <1>3, RowStep DEF Advances

\* Whoever is about to be pushed to was reachable at some time in the run.
LEMMA ConsentStep ==
  ASSUME TypeOK, TypeOK', Busy, Consent, [Next]_vars
  PROVE  Consent'
<1>1. ASSUME NEW d \in Caller, Same(d)
      PROVE  /\ Running(d)' => run'[d].known \subseteq run'[d].open /\ reach' \subseteq run'[d].open
             /\ run'[d].pc = "push" => UserOf(Head(run'[d].todo)) \in run'[d].open
  BY <1>1 DEF Same, Consent, Running
<1>2. ASSUME NEW d \in Caller, Acts(d)
      PROVE  /\ Running(d)' => run'[d].known \subseteq run'[d].open /\ reach' \subseteq run'[d].open
             /\ run'[d].pc = "push" => UserOf(Head(run'[d].todo)) \in run'[d].open
  <2>0. reach' = reach
    BY <1>2 DEF Acts, Start, SkipIdentical, Suppress, Decide, Insert, Refresh, RefreshGone, Push,
                Record, RecordGone, Finish, Crash
  <2>1. CASE Start(d)
    BY <2>0, <2>1, OwnStep
  <2>2. CASE Ended(d)
    BY <2>2 DEF Ended, Running
  <2>3. CASE Keeps(d)
    <3>1. run[d].known \subseteq run[d].open /\ reach \subseteq run[d].open
      BY <2>3 DEF Keeps, Consent
    <3>2. ASSUME run'[d].pc = "push"
          PROVE  MayPush(d) /\ run'[d].todo = run[d].todo
      BY <1>2, <3>2, OwnStep DEF Acts, Carries, Ended
    <3>3. QED
      BY <2>0, <2>3, <3>1, <3>2 DEF Keeps, MayPush
  <2>4. QED
    BY <1>2, <2>1, <2>2, <2>3, OwnStep DEF Acts
<1>3. QED
  BY <1>1, <1>2, RunStep DEF Consent

-----------------------------------------------------------------------------
(* The theorems *)

\* The invariant holds of the empty table.
LEMMA InitInv == Init => IInv
<1> SUFFICES ASSUME Init PROVE IInv
  OBVIOUS
<1>1. TypeOK
  BY InitType
<1>2. notifs = {} /\ \A c \in Caller : run[c] = Idle
  BY DEF Init
<1>3. /\ Idle.pc = "idle" /\ Idle.tx = FALSE /\ Idle.begun = 0
  BY DEF Idle
<1>4. nextId = 1 /\ accepted = {}
  BY DEF Init
<1>5. Busy /\ Seen /\ Unaware /\ Spaced /\ PushRecordAgrees
  BY <1>2, <1>3 DEF Busy, Fresh, Seen, Unaware, Spaced, PushRecordAgrees
<1>6. Books
  BY <1>2, <1>3, <1>4 DEF Books
<1>7. Delivery /\ Consent
  BY <1>2, <1>3 DEF Delivery, Fresh, Consent, Running
<1>8. QED
  BY <1>1, <1>5, <1>6, <1>7 DEF IInv

\* The invariant is inductive.
LEMMA StepInv == IInv /\ [Next]_vars => IInv'
<1> SUFFICES ASSUME IInv, [Next]_vars PROVE IInv'
  OBVIOUS
<1>1. TypeOK'
  BY TypeStep DEF IInv
<1>2. Busy' /\ Books'
  BY <1>1, BusyStep, BooksStep DEF IInv
<1>3. Seen' /\ Unaware' /\ Spaced'
  BY <1>1, SeenStep, UnawareStep, SpacedStep DEF IInv
<1>4. Delivery' /\ PushRecordAgrees' /\ Consent'
  BY <1>1, DeliveryStep, AgreesStep, ConsentStep DEF IInv
<1>5. QED
  BY <1>1, <1>2, <1>3, <1>4 DEF IInv

\* The invariant holds in every reachable state.
THEOREM Invariance == Spec => []IInv
<1>1. Init => IInv
  BY InitInv
<1>2. IInv /\ [Next]_vars => IInv'
  BY StepInv
<1>3. QED
  BY <1>1, <1>2, PTL DEF Spec

\* Types (Notifications.TypeOK).
THEOREM TypeCorrect == Spec => []TypeOK
<1>1. IInv => TypeOK
  BY DEF IInv
<1>2. QED
  BY <1>1, Invariance, PTL

\* Two notifications of one key inside the window only come from runs that overlapped:
\* create_notification's query is enough for runs that follow each other.
THEOREM RepeatsOnlyFromOverlap == Spec => []RepeatsNeedOverlap
<1>1. IInv => RepeatsNeedOverlap
  <2> SUFFICES ASSUME IInv, NEW m \in notifs, NEW n \in notifs,
                      m.key = n.key, m.id < n.id, n.at <= m.at + Window, ~(n.begun <= m.id)
               PROVE  FALSE
    BY DEF RepeatsNeedOverlap
  <2>1. m.id \in Nat /\ n.begun \in Nat /\ m.at \in Nat /\ n.at \in Nat /\ Window \in Nat
    BY WindowAssumption DEF IInv, TypeOK, Row
  <2>2. m.id < n.begun
    BY <2>1
  <2>3. m.at + Window < n.at
    BY <2>2 DEF IInv, Spaced
  <2>4. QED
    BY <2>1, <2>3
<1>2. QED
  BY <1>1, Invariance, PTL

\* A user gets at most one notification of a key from each caller in a window, however many
\* callers overlap: no two of them are by the same caller.
THEOREM SpamIsBounded == Spec => []SpamBounded
<1>1. IInv => SpamBounded
  <2> SUFFICES ASSUME IInv, NEW m \in notifs
               PROVE  Cardinality({n \in notifs : /\ n.key = m.key
                                                  /\ m.at <= n.at /\ n.at <= m.at + Window})
                        <= Cardinality(Caller)
    BY DEF SpamBounded
  <2> DEFINE W == {n \in notifs : n.key = m.key /\ m.at <= n.at /\ n.at <= m.at + Window}
  <2> DEFINE by == [n \in W |-> n.by]
  <2>0. Window \in Nat /\ \A n \in notifs : n \in Row
    BY WindowAssumption DEF IInv, TypeOK
  <2>1. IsFiniteSet(Caller)
    BY CallerAssumption, FS_Union DEF Caller
  <2>2. by \in [W -> Caller]
    BY <2>0 DEF Row
  <2>3. ASSUME NEW a \in W, NEW b \in W, a.by = b.by, a.id < b.id
        PROVE  FALSE
    <3>1. a.at + Window < b.at
      BY <2>3 DEF IInv, Spaced
    <3>2. m.at <= a.at /\ b.at <= m.at + Window
      OBVIOUS
    <3>3. m.at \in Nat /\ a.at \in Nat /\ b.at \in Nat
      BY <2>0 DEF Row
    <3>4. QED
      BY <2>0, <3>1, <3>2, <3>3
  <2>4. ASSUME NEW a \in W, NEW b \in W, a.by = b.by
        PROVE  a = b
    <3>1. a.id \in Nat /\ b.id \in Nat
      BY <2>0 DEF Row
    <3>2. a.id = b.id
      BY <2>3, <2>4, <3>1
    <3>3. QED
      BY <3>2 DEF IInv, Books
  <2>5. by \in Injection(W, Caller)
    BY <2>2, <2>4 DEF Injection, IsInjective
  <2>6. QED
    BY <2>1, <2>5, FS_Injection
<1>2. QED
  BY <1>1, Invariance, PTL

\* sent_via_push agrees with the push service but for a run about to record it or one that
\* died in between.
THEOREM PushRecordsAgree == Spec => []PushRecordAgrees
<1>1. IInv => PushRecordAgrees
  BY DEF IInv
<1>2. QED
  BY <1>1, Invariance, PTL

\* No run pushes to a user who was unreachable during all of it.
THEOREM OptOutIsHonoured == Spec => OptOutHonoured
<1>1. IInv => [\A c \in Caller : run[c].pc = "push" /\ run'[c].pc = "record" =>
                  UserOf(Head(run[c].todo)) \in run[c].open]_vars
  BY DEF IInv, Consent
<1>2. QED
  BY <1>1, Invariance, PTL DEF OptOutHonoured

\* What a user did to a notification is never undone.
THEOREM StatusAdvances == Spec => StatusOnlyAdvances
<1>1. IInv /\ [Next]_vars =>
        [\A n \in notifs, m \in notifs' : n.id = m.id => Rank(n.status) <= Rank(m.status)]_vars
  <2> SUFFICES ASSUME IInv, [Next]_vars, NEW n \in notifs, NEW m \in notifs', n.id = m.id
               PROVE  Rank(n.status) <= Rank(m.status)
    OBVIOUS
  <2>1. TypeOK /\ n.id \in Nat /\ n.id < nextId /\ nextId \in Nat
    BY DEF IInv, TypeOK, Books, Row
  <2>2. ASSUME NEW k \in notifs, Advances(k, m)
        PROVE  Rank(n.status) <= Rank(m.status)
    <3>1. k = n
      BY <2>2 DEF Advances, SameRow, IInv, Books
    <3>2. QED
      BY <2>2, <3>1 DEF Advances
  <2>3. ASSUME NEW c \in Caller, Made(c, m)
        PROVE  FALSE
    BY <2>1, <2>3 DEF Made
  <2>4. QED
    BY <2>1, <2>2, <2>3, RowStep
<1>2. QED
  BY <1>1, Invariance, PTL DEF Spec, StatusOnlyAdvances

=============================================================================
