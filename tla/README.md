# WattWise: a TLA+ model of the system

WattWise measures household appliances and nudges their owners. Raspberry Pi
publishers send readings over MQTT; a FastAPI server (four worker processes,
`src/Server Side/backend/app`) stores them in InfluxDB and MySQL, aggregates
them, ranks homes, raises notifications, records what users did about them and
measures the effect. This directory holds TLA+ modules for the parts where
processes, coroutines, sessions, jobs and connections interleave and for the
computations whose results users act on, the TLC configurations that check them,
and TLAPS proofs.

Paths below are relative to `src/Server Side/backend/app` unless they say
otherwise.

## 1. Inventory

| Component | State it keeps | Operations | Interacts with | Hard behaviours | Modules |
|---|---|---|---|---|---|
| Process life cycle and election (`main.py`) | the lock session, the APScheduler, MySQL's `ww_scheduler` | start-up, seeding, election, job triggers, shutdown | supervisor, MySQL | crash, restart, sessions cut by MySQL, four concurrent starts | `SchedulerOwner`, `Lease` |
| Backfill lock (`scheduler.py`, `bootstrap_aggregator.py`) | MySQL's `ww_backfill` | take, skip, release | start-up task, 30-minute job, bootstrap container | overlap, a lock left behind | `SchedulerOwner`, `Lease` |
| Raspberry Pi publisher (`src/Sensing Layer/rpi_mqtt_publisher.py`) | connection flag, paho's queue and thread, retained status | connect, loop, heartbeat, signals | broker, systemd | broken connections, late CONNACKs, outages, crashes, restarts | `Publisher` |
| MQTT ingestion (`mqtt_client.py`) and HTTP readings (`routers/readings.py`) | `energy_readings`, InfluxDB points, queued coroutines, the subscription | join, leave, receive, guard, insert, submit | broker, event loop, both databases | redelivery, interleaved coroutines, two databases without a transaction | `Ingestion` |
| Homes and devices (`routers/devices.py`) | `devices.is_active`, `entity_id` | add, deactivate | ingestion, aggregation | `entity_id` shared by two homes | as seen by `Ingestion`, `Aggregation` |
| Aggregation (`scheduler.py`) | `hourly_summary`, `daily_summary`, `home_daily_totals` | `aggregate_hourly`, `aggregate_daily`, `backfill_recent`, the admin's trigger | readings, devices | snapshots, unique keys, late readings, concurrent runs | `Aggregation` |
| Energy analysis (`energy_analysis.py`), scenarios (`appliance_scenarios.py`, `routers/smart_notifications.py`) | none of their own | cycles, energy integral, alerts of an appliance, advice | aggregation, notifications | boundaries of hours; each caller looks at a room of its own choice; an alert stands for hours while the use grows | `Scenarios`, `DeviceUsage`, `Sums` |
| Goals and thresholds (`routers/goals.py`, `energy_analysis.py`, `scheduler.py`) | none of their own | streak, progress, 95th percentile, anomaly baseline | summaries | boundaries of days and percentiles | `Goals`, `Thresholds`, `Sums` |
| Rankings (`scheduler.py`, `routers/admin.py`) | `energy_rankings` | `compute_rankings` | home totals | rows found by user, computed by home; overlapping runs | `Rankings` |
| Persona classification (`persona_classifier.py`) | `users.persona_id`, the record of runs | seed, classify, assign | rankings, bootstrap container, admin | stale write-back | `Personas` (seeding in `SchedulerOwner`) |
| Notification engine (`notification_engine.py`) | `notifications` | `create_notification`, push and its record, broadcast, retention | jobs, requests, Expo push service | check then insert, a push whose answer is lost, crash between push and record, rows deleted meanwhile | `Notifications` |
| Notification requests (`routers/notifications.py`) | same table | read, read all, dismiss, delete | decisions (cascade) | requests against a run in progress | `Notifications`, `Decisions` |
| Decisions and impact (`routers/decisions.py`, `decision_tracker.py`) | `user_decisions`, `decision_observed_actions` | report, observed action, simulation, impact job | notifications | check then insert, two commits in one request, a batch cut short | `Decisions` |
| Log-in and rate limiting (`routers/auth.py`, `security.py`) | windows of each process | log-in, limiter | none of the above | state that is per process | not modelled |
| E-mail report, exports, analysis and environment endpoints, backups, observability, synthetic data | none of their own | read and format | databases | none | not modelled |
| Web front ends, Android app | presentation | the requests above | server | none | not modelled |

What would make each modelled part correct:

- one scheduler owner and one backfill at a time, and neither ever gone for good;
- a publisher that drops no sample while it lives, and always comes back;
- each reading stored once, none lost without a cause on record, and the two
  databases in agreement;
- tables that converge to what the readings say, and totals that are the sums
  they claim to be;
- rankings that are rankings, personas that agree with their record, advice that
  follows from the figures shown;
- no repeated alert, no push to a user who opted out, a record of pushes that
  is true, no user action undone;
- one decision per notification, no saving action left without a decision,
  every measurable decision measured.

`PROJECT.json` lists the hazards of each part with their lines and the
properties that cover them, and says of the others why none does.

## 2. Modules

### SchedulerOwner, Lease (and SchedulerOwnerProofs)

One name per worker process; `Slots` are the workers uvicorn keeps alive. A
process goes through `lifespan` (`pc`): boot, seeding, election, serving,
stopping. `schedLock` and `fillLock` are MySQL's advisory locks, which belong
to sessions: `RELEASE_LOCK`, the client's death once MySQL notices it (`Reap`)
or a cut session (`LoseElection`, `LoseFill`) free them. `scheduling` is the set
of processes whose APScheduler runs. A run of `backfill_recent` is the start-up
task or the 30-minute job of a process, or the bootstrap container's one run.

Faults: crashes at any step, a start-up that fails because two processes
insert the same personas, and sessions cut under a living client. The shutdown
cancels jobs in progress: APScheduler's asyncio executor cannot wait for
coroutines, although the call says `wait=True`.

`PromptReap = TRUE` says that MySQL notices a dead client before the supervisor
has started its replacement, which is the case for a process that dies on a
running host: the kernel closes its sockets. With `FALSE`, `OwnerReturns` is
violated: a replacement that asks for the lock first loses the election, serves
without scheduling, and nobody asks again until some process restarts.

`Lease` is what a lock taken once and never looked at again can promise: a
rightful client at most, and orphans, whose lock was cut away and whose work ends
only by itself. `SchedulerOwner` implements it twice: the clients are the
processes and the work is scheduling (`ElectionIsLease`), or the clients are the
runs of `backfill_recent` and the work is filling (`FillingIsLease`). The mapping
calls rightful whoever works and still holds the lock, and orphans the others at
work.

### Publisher (and PublisherProofs)

One Raspberry Pi. `life` is the process as systemd sees it: down, in `connect()`
(trying or waiting), or in its loop; `link` and `threaded` are paho's connection
and network thread, which outlive an attempt of `connect()` and reconnect by
themselves. A sample is queued, sent, received by the broker and acknowledged,
and may be sent again on a new connection (`Requeued`). `retained` is the status
message the broker keeps. Faults: connections that break, a CONNACK later than
the two seconds an attempt waits, outages of the broker, crashes and power cuts,
and the service stopped and started. Not modelled: systemd's limit on restarts
(`connect()` alone takes longer than its interval), and the reading of the local
InfluxDB, which yields data or none.

### Ingestion (MCIngestion, IngestionProofs)

A published message has a timestamp or not, is valid or not, and reaches one
worker of the shared subscription, perhaps twice. `joined` are the workers in the
subscription: `Routed` is what the broker does with a message when there is none,
`Leave` a worker that stops or crashes with its coroutines, `Outage` a broker that
comes back. `Receive` is `on_message` on the network thread: the InfluxDB point,
then a coroutine for the event loop. `Check`/`Skip` is the duplicate guard,
`Insert` the INSERT, a later step that other coroutines come before. All devices
of the model share one `entity_id`, as two homes with the same appliance do, so
`NoDevice` covers both an unknown device and the lookup that raises because there
are several. `WriteFails` is a MySQL write that fails for any other reason, which
`_write_reading_to_db` logs and forgets. Devices are added, deactivated and
reactivated meanwhile (`Toggle`).
`Submit` is the HTTP alternative. `uniqueKey` is whether
`uq_reading_device_time` exists: `models.py` declares it, and
`mysql/init/01-schema.sql`, which creates the table first in the deployment, does
not; the initial states have both. `MCIngestion` adds the symmetry of the workers.

### Aggregation (and AggregationProofs)

A runner is one caller of `aggregate_hourly` and `aggregate_daily` (backfill,
jobs, admin). Each call is a transaction: one snapshot read (`ReadHour`,
`ReadDay`), then a commit that meets the unique keys as they are by then and
writes the columns that differ from what was read (`CommitHour`, `CommitDay`), or
fails with the whole call (`Fail`). What a row says is represented by the set of
readings it was computed from, except `min_watts`, which the update branch never
writes and so is kept apart.

Abstractions: one home and one day; a row's other columns change together; goals
and scores stored with a daily row are left out.

### Scenarios and DeviceUsage (MCDeviceUsage, AdviceProofs)

`Scenarios` is the catalogue of `appliance_scenarios.py`: for each appliance, the
scenarios, their conditions on the day's use, and the factors of the room's
temperature and humidity. `DeviceUsage` is a device's day: readings arrive
(`Pass`), a backfill takes those of each clock hour (`InHour`), runs
`detect_usage_cycles` on them (`Hourly`) and adds up the day (`Summed`,
`Backfill`), and the scheduled check, a user or an admin has the scenarios
evaluated and their alerts deduplicated by type. The advisors
(`check_device_before_use`, `check_all_devices`) ask the same scenarios. Each of
the five callers takes the conditions of a room it chooses in its own way
(`Homes`): the job and the user's request that of the room named as the device's
location, or the first of the home (`NamedRoom`); the admin's request and
`check_all_devices` the first (`FirstRoom`); `check_device_before_use` the first
that has the location as its name or `entity_id`, or none (`MatchedRoom`). Where
there is no room or no sensor, 20 degrees and 50 % stand for it, and the job takes
a measured 0 for that, too. The rooms' sensors may report something else at each
call. Readings come in order here and one backfill runs at a time. Energy is in Wh
and time in slots; texts, savings and roundings are left out, and so are rooms of a
home that share a name, of which the callers would find the last one.

### Goals and Thresholds (AdviceProofs)

Computations without state: the streak of a daily goal and the progress of any
goal (`Goals`); who is alerted for consumption beyond the 95th percentile, and
when an hour counts as an anomaly (`Thresholds`). Each module states what the
computation should amount to (`StreakIsRun`, `TrackIsFair`, `FewStandOut`,
`HistoryIsNeeded`). `MCDeviceUsage` evaluates these over bounded inputs as
assumptions when the run `device_usage` starts, and `AdviceProofs` proves them for
all inputs.

### Rankings and Personas (MCStanding, StandingProofs)

`Rankings` is `compute_rankings` for one period: a session reads totals, owners
and the users' rows in one snapshot (`RankRead`) and later commits all of its
updates and inserts (`RankCommit`) or fails on the unique key of user and period
(`RankFail`). Rows are found by user and computed by home, so a user with two homes has
one row written twice, or two inserts that collide. An update sends only the columns
that differ from the row it loaded, so overlapping runs can mix their columns.

`Personas` extends it: `classify_all_users` reads users and features
(`ClassifyRead`), and commits personas and its record (`ClassifyCommit`); an
admin's `assign_persona` is two steps as well. The number of days a user is
ranked on decides who is engaged and therefore couples the two. Scores, clusters
and trends are inputs: any order of the cohort, any partition k-means could find.

### Notifications (and NotificationsProofs)

A caller is a job or request that runs `create_notification` for a list of
keys (user and topic) in one session; its steps are the round trips of the
code: the query (`SkipIdentical`, `Suppress`, `Decide`), the insert and its
commit, the refresh that opens a new snapshot, the push, and the commit that
records it. MySQL runs at REPEATABLE READ, so what a caller sees is the
snapshot its transaction opened with (`view`). Nine functions of the code call
`create_notification`; a record for each says whether it keeps the `User` rows it
loaded at its start (and so sees a user's settings as they were), whether it has
a `try` per user and goes on after an error, whether it selects users who asked
for pushes, and whether it pushes. Functions that agree on all of it are one
kind, and a run of a caller is a run of any kind. Which alerts they decide to
raise is left open (`WorkLists`). A row deleted before the push is recorded makes
the flush raise StaleDataError and the session unusable, so the run is over
(`RecordGone`). A push has two outcomes that are independent (`Push`): whether the
service takes it, and whether its answer reaches the caller with a receipt. After a
timeout, an error or an answer without an id the caller records that nothing was
sent, and nobody asks the service again. `reach` is the set of users with a token and notifications on; the
user's requests and the admin's switches change it (`SetReach`). A row's `begun` and
`by` are history: what the table had when its run began, and whose run made it.

### Decisions (and DecisionsProofs)

The request of a user (`Report`), of the Home Assistant bridge (`Observe`,
`AutoClose`, `ObserveCommit`: two commits in one request), the admin's simulator,
a delete request, the impact job and the retention job, each a process with its
own session. Rows reference notifications through keys that cascade. A delete
request through the ORM first clears the reference of the decision it sees,
which may not be NULL, and so fails; the bulk delete of the retention job
cascades.

### How they compose

`Personas` extends `Rankings`, `DeviceUsage` extends `Scenarios`, and `DeviceUsage`
and `Goals` share the sum over a list (`Sums`); the other modules share tables, not
variables. `Publisher` delivers each sample to the
broker once or more, in any order: `Ingestion` publishes such messages (`Publish`,
`Resend`). `Ingestion` gives `Aggregation` its `Record` steps: readings of any hour,
at any time. `SchedulerOwner` yields how many owners and backfills there can be at
once; `Aggregation`, `Rankings`, `Notifications` and `Decisions` take their sessions
as constants and do not assume that the owner is alone: their unlocked sessions (an
admin's trigger, a second worker) include what a second owner would add.
`Notifications` gives `Decisions` its new and its disappearing notifications.

## 3. Runs

| Run | Bounds | Properties | What it shows |
|---|---|---|---|
| `scheduler_owner` | 3 names on 2 slots, 1 crash, 1 cut session | `TypeOK`, `OwnersBounded`, `BackfillsBounded`, `OwnerReturns`, `BackfillLockReturns`, `ElectionIsLease`, `FillingIsLease` | owners and backfills exceed one only by the sessions that were cut, both always come back, and both locks are leases |
| `scheduler_owner_loss` | same | `SingleOwner` (violated) | finding 1 |
| `publisher` | 2 samples, 3 attempts (10 in the code), a heartbeat every 3 loops (10), 2 broken connections, 1 outage, 1 late CONNACK, 1 crash, 1 stop | `TypeOK`, `NothingDroppedAlive`, `DeliveredInTheEnd`, `PublisherReturns`, `StatusCatchesUp` | a living publisher drops nothing, a wanted one comes back, and its status is shown in the end |
| `ingestion` | 2 messages, 2 devices, 2 workers, guard 1 and interval 2 on a clock of 0 to 2, 1 message sent again, 1 HTTP reading, 1 fault, with and without the unique key | `TypeOK`, `RepeatsNeedOverlap`, `HandledIsStored`, `NoSilentLoss` | the guard drops no reading and fails only for copies that overlap; every loss has a cause on record |
| `aggregation` | 2 devices, 1 hour that starts empty or with two readings, 1 late reading, a backfill and 2 other runs, 1 crash, 1 device removed | `TypeOK`, `HomeTotalIsSum`, `HarmNeedsOverlap`, `SummariesConverge` | only runs that overlap lose readings or fail, and the backfill repairs it |
| `minimum_heals` | 1 device, two readings and a late, lower one | `MinimumHeals` (violated) | finding 3 |
| `device_usage` | 11 appliances, 5 slots of half an hour, power 0, 8 or 3000 W, three ways the day began, homes of up to 2 rooms, each hot (30), at 0, humid or without sensors | `TypeOK`, `SplitByHour`, `NoFalseAllClear` | what cutting at the hours costs, and when an adviser may give an all-clear against a notification of the day |
| `standing` | 2 users, 3 homes, 2 sessions of each kind, use of 1 or 2, 7 steps of rankings, of which 2 beside 3 classifications, assignments or silences | `TypeOK`, `RecordAgrees`, `BoardHeals`, `FailureExplained`, `ClassificationSettles` | what overlapping computations may leave behind, and that the next one heals it |
| `notifications_dedup` | 1 user and topic, 2 callers, 3 runs of up to 2 alerts, 3 ticks, the retention job | `TypeOK`, `RepeatsNeedOverlap`, `SpamBounded` | only runs that overlap repeat an alert, at most one per caller in a window |
| `notifications_delivery` | 2 runs, 1 crash, 1 change of settings, 1 user request | `PushRecordAgrees`, `OptOutHonoured`, `StatusOnlyAdvances`, `RunsEnd` | pushes, their record, opting out, and termination of runs |
| `decisions` | 2 notifications, one process of each kind, 3 requests, batches of 2, 1 crash | `TypeOK`, `SecondDecisionNeedsOverlap`, `LoopClosed`, `DeleteKeepsWhatItSaw`, `MeasuredInTheEnd` | what the checks before the inserts guarantee without a unique key, and that a batch cut short loses no other decision |
| `cleanup_cascade` | same, 2 requests | `CleanupKeepsDecisions` (violated) | finding 2 |

Why the bounds are enough to be interesting: every race in this code is between
two parties over one key, with a third event (a crash, a deletion, a later run)
in between, so two actors, one shared key and one or two extra events reach each
outcome; three names on two slots let a replacement meet a lingering session of
its predecessor; three runs of two callers let a later run meet the leftovers of
two that raced, and three ticks let the
retention job delete one of their rows (users delete rows in
`notifications_delivery`, and in the proofs, whose theorems cover both); an hour that has energy (two readings) and gains a late one is
the least whose rows, daily sums and totals can be stale; three homes of two
users make one user own two; three attempts include a first, a middle and a last
one; five slots of two to the hour hold two hour boundaries, with a run of the
appliance across one. `MinCohort` is 2 instead of 12, so that a cohort of two users
reaches both branches of the classification. Times are ticks of which only the
order of the windows matters. The bounds (`MaxCrash`, `MaxLoss`, `MaxRuns`, ...)
are guards of the actions they name; `MaxMixed` keeps the histories with both
rankings and classifications short, while either alone is explored to its bound.

Symmetry is used for the workers of `ingestion` and for the users, homes and
sessions of `standing`; neither run has a liveness property. `CHECK_DEADLOCK
FALSE` stands where an exploration ends when its budget of requests, messages,
slots or ticks is used up; `SchedulerOwner`, `Publisher` and `Aggregation` never
stop, and are checked for deadlock.

History variables (`begun`, `at`, `by`, `clean`, `lost`, `handled`, `accepted`,
`touched`, `summed`, `told`, ...) are marked as such at their declaration; no guard
reads them.

## 4. Fairness

- The supervisor respawns workers, coroutines that began go on, MySQL ends the
  sessions of dead clients: weak fairness of `Spawn`, `Startup`, `Exit`, `Reap`,
  `JobEnd` and the backfill's steps.
- systemd starts the publisher (`Restart=always`) and kills one that does not stop,
  its loop and `connect()` go on, paho's thread reconnects, messages and
  acknowledgements travel while a connection lasts, and an outage of the broker
  ends. systemd gives up after five starts in 300 s; ten attempts of `connect()`
  take longer than that, so only crashes in close succession would reach it, and
  the bounded crashes of the model do not.
- A notification run goes on: each of its calls returns or times out (15 s for a
  push), so weak fairness of its steps. Nothing obliges a run to start.
- The impact job fires every two hours, and its read is one of its steps; the
  backfill fires every thirty minutes. Both are weakly fair.
- Nothing obliges a user, an admin, a fault, the clock or another job to act.

`Ingestion`, `DeviceUsage`, `Rankings` and `Personas` have no fairness: they make no
liveness claim.

## 5. Proofs

All theorems hold for every value of the constants that satisfies the named
assumptions: processes, callers, users, homes and notifications are finite sets,
kinds of processes are disjoint (`ProcAssumption`, `CallerAssumption`,
`RunnerAssumption`, `CommunityAssumption`, `NotifAssumption`), times, windows and
thresholds are natural numbers, a day has at least one slot, and so has an hour
(`DayAssumption`), a home has a number of rooms and temperatures are integers
(`RoomAssumption`), and publishers send at longer intervals than the guard reaches
(`GuardAssumption`). Bounds on how much is explored (`MaxCrash`,
`MaxRuns`, ...) are arbitrary: no proof uses them.

Each proof module has one inductive invariant, `IInv`, but `AdviceProofs`, which has
a second one for the day's row. Most properties speak of
tables or outputs; what makes them true is what a run, a coroutine or a session
carries from the moment it read to the moment it writes, and that is what the
strengthenings say. TLC checked each of them on the runs of the module before it was
proved.

`SchedulerOwnerProofs`: `TypeOK`, `OwnersBounded`, `BackfillsBounded`, and the two
refinements of `Lease`. The bounds are not inductive, since they do not say whether
an owner still holds the lock it was elected with: from a state with one owner and
a free lock, an election makes two. The strengthening

    IInv == TypeOK /\ Placement /\ OrphansBounded

counts the orphans, i.e. the owners and backfills that no longer hold the lock
that admitted them. `OrphansStep` shows that only a cut session adds an orphan,
and one at most; a crash, a release or a reap cannot, because by `Placement` a
process that is down or was not elected schedules and backfills nothing. At most
one owner is not an orphan, the holder of the lock, which gives the bound.
`BoundKept` is the lemma about cardinalities both bounds rest on. The refinements
go action by action (`ElectionStep`, `FillingStep`): each step grants, cuts or ends a
lease, or leaves it alone.

`IngestionProofs`: `TypeOK`, `RepeatsNeedOverlap`, `HandledIsStored`, `NoSilentLoss`.
`FreshTask` picks an unused id by CHOOSE, so types need the coroutines to stay
finite (`FiniteTasks`, `FreshId`). The strengthening

    IInv == TypeOK /\ FiniteTasks /\ Pending /\ Books

says of a coroutine past the guard (`Pending`) that every row of its device within
the guard's reach is one that was inserted after its message was received; since
rows are only added, and numbered in order (`Books`), this survives whatever the
others insert, and becomes `RepeatsNeedOverlap` when the coroutine inserts its own.

`DecisionsProofs`: `TypeOK`, `SecondDecisionNeedsOverlap`, `LoopClosed`,
`DeleteKeepsWhatItSaw`. The strengthening

    IInv == TypeOK /\ Ids /\ Unaware /\ SecondDecisionNeedsOverlap
            /\ Linked /\ Lasting /\ LoopClosed

says what a request about to commit does not know (`Unaware`: only decisions newer
than its beginning), that the bridge's second commit links to a decision that
exists unless its notification is gone (`Linked`), and that no observation outlives
its notification (`Lasting`), without which a cascade could leave one that points
nowhere.

`NotificationsProofs`: `TypeOK`, `RepeatsNeedOverlap`, `SpamBounded`,
`PushRecordAgrees`, `OptOutHonoured`, `StatusOnlyAdvances`. The strengthening

    IInv == TypeOK /\ Busy /\ Books /\ Seen /\ Unaware /\ Spaced
            /\ Delivery /\ PushRecordAgrees /\ Consent

says which rows a run has to know of: those committed before it began and those its
own caller made. They are in the snapshot it reads (`Seen`: a transaction is opened
after the caller's last commit), out of the window once it has found no duplicate
(`Unaware`), and so a window away from the row it inserts (`Spaced`). Two rows closer
than that are of two callers whose runs overlapped, which is `RepeatsNeedOverlap`;
and each caller has at most one row of a key in a window, which gives `SpamBounded` by
an injection from the rows into the callers. `Delivery` says that no two runs work on
one row, that a run has a receipt only for a push the service took, and that of one
it took without a receipt the answer is among the lost; `Consent` that whoever a run is about to push to was reachable at some time
during it.

`AggregationProofs`: `TypeOK`, `HomeTotalIsSum`, `HarmNeedsOverlap`. The strengthening

    IInv == TypeOK /\ Books /\ Plans /\ HomeTotalIsSum

says of the rows a run is about to commit (`Plans`) that they hold every reading of a
stored row that is no newer than their snapshot, since readings are never deleted
(`HourPlan`), and that while nobody else commits (`begun = seq`) their inserts meet no
existing row and the home's total they carry is that of the rows they write
(`DayPlan`). An hourly commit can then lose only what a later one stored, and an
insert can collide only after another commit.

`PublisherProofs`: `TypeOK`, `NothingDroppedAlive`, and `ThreadOutlivesConnect`. The
strengthening

    IInv == TypeOK /\ Landed /\ OnTheWire /\ ThreadStays

says that what was acknowledged had arrived (`Landed`), that nothing is under way
without a connection, so that a new one finds in the queue all that the old one did
not settle, and only a process in its loop holds samples (`OnTheWire`), and that the
thread that reconnects is there whenever something may depend on it (`ThreadStays`).
The last two are the safety half of `DeliveredInTheEnd`.

`StandingProofs`: `TypeOK`, `RecordAgrees`, `BoardHeals`, `FailureExplained`,
`ClassificationSettles`. The strengthening

    IInv == TypeOK /\ Sessions /\ Cohorts /\ RecordAgrees

says that a session of the rankings holds each home once, in the order of use, and
that neither the totals nor the rows it read can disappear (`Sessions`); and that a
classification makes Disengaged exactly those outside its cohort and leaves a small
cohort a high consumer (`Cohorts`, from `LastBand`: the lowest position reaches no
other band, in a cohort of one as well). The hypotheses of the properties (`Undisturbed`,
the cohort read is still the engaged users) carry this over from the session to the
tables. `Max` of a user's positions and the enumeration of homes are dealt with by
lemmas (`MaxType`, `EnumerationType`).

`AdviceProofs`: what users are told of their use. Three parts.

*Thresholds and goals*, for every number of homes and days. Fewer than one home in
twenty can be alerted, and of twenty or fewer nobody (`PercentileAlertsFew`); since the
hour under test is part of its own baseline, no anomaly is reported before the third
day and no critical one before the sixth (`AnomaliesNeedHistory`); the two streaks are
runs of days that met the goal, up to today and the longest there is
(`StreaksAreRuns`); and the verdict on a goal says
what the sum of its days says, on track included (`TracksAreFair`, `OnTrackIsFair`).

*The row of a day* (`TypeCorrect`, `DaySplitsByHour`). The row is a sum over clock
hours of loops over readings, so both are by induction over the list of readings.
`SplitByHour` itself does not carry over from a list to the same list with one reading
more: whether the new stretch begins a run depends on how the last one ended, for the
loop and for the true runs alike, and the two disagree just after an hour was cut. The
strengthening

    Split(s)   the energy, exactly; the cycles less the runs, at least minus the
               stretches cut while on, and at most as many as those before the last
               stretch, which has not added a cycle yet; the last hour ends with the
               device on exactly when the last stretch is on and was not cut; the
               minutes are no more than passed

does (`SplitOfOne`, `SplitAppends`, `SplitHolds`): a reading in a new hour starts that
hour's usage and cuts a stretch, and one in the same hour advances it
(`HourlyAppends`). The invariant of the module, `DayInv`, says that the readings come
in order, none after the clock, and that the row is none or `Summed` of the readings
there were when it was written.

The provers cannot instantiate an induction theorem. `SetInduction` derives what is
needed from the pigeonhole theorem of the library: if a set holds 0 and every successor
of a natural in it but not n, then adding one sends its members up to n into those
other than 0, which are fewer. `RecursionExists` then gives that the loops of the model, each
a function defined from its value one step before, exist and satisfy their equation,
for every step function that is given as a function.

*Alerts* (`NothingIsTakenBack`, for every key, use of the day, number of rooms and
time): `NoFalseAllClear` compares what was notified, at some earlier use of the day and
for one caller's room, with what an adviser says now of another's. It is not inductive,
since it says nothing of the use in between. `IInv` adds that the day's row is no more
than its readings would give (`ReadingsAdd`: a reading only adds to every column, so
each backfill does), that what was notified was so at a use no greater than the row's,
and that it held then, under some factors of the room (`Held`). `AlertsLast` is the
lemma about the catalogue, by cases over the eleven appliances: a scenario that is
pushed and holds of less use comes with one that is pushed and holds of more, the same
or a graver one, unless it was about the energy of a cycle and there are more cycles,
or about a hot room and this one is not. So the limits of each appliance have to meet
without a gap (a kettle's 9 to 12 uses and more than 12), which is what the mutant of
the run breaks. The two exceptions are what `Eased` says, and both happen.

Only model-checked: liveness, which needs ENABLED (`OwnerReturns`,
`BackfillLockReturns`, `DeliveredInTheEnd`, `PublisherReturns`, `StatusCatchesUp`,
`SummariesConverge`, `RunsEnd`, `MeasuredInTheEnd`). Every other property of a run
that passes is a theorem.

## 6. Findings

Each is a run that TLC finds violated by what the code does.

1. `main.py:232` promises one scheduler owner for the life of the process. The
   lock is in one idle session that nothing keeps alive; if MySQL cuts it, the
   next worker to start is elected as well.
2. `cleanup_old_notifications` says that decisions survive with a NULL reference;
   the keys are ON DELETE CASCADE, so they are deleted.
3. The upsert of an hourly row does not write `min_watts`, so "self-healing"
   backfills never lower it when a late reading arrives.

Met while reading, and not the matter of a run of its own:

- The tests of the classification assert other rules than the code has.
  `backend/tests/test_wattwise_suite.py:187-223` tests a copy that, it says,
  "Mirrors the logic in persona_classifier._classify_user": Disengaged below three
  ranked days (`test_disengaged_no_data` asserts it of two), or when decisions and
  adherence are at most 10 (`test_disengaged_low_interaction`), and fixed thresholds
  for the rest. The code has no `_classify_user`; its gate is `MIN_RANKING_DAYS = 2`
  (`persona_classifier.py:94`, `:170`) and fourteen days of silence, low scores never
  make a user Disengaged, and the other personas come from clusters or percentiles of
  the cohort. `Personas` and `ClassificationSettles` follow the code: with two ranked
  days and a recent reading a user is not Disengaged, where the test asserts the
  opposite.
- A push whose answer is lost or has no id is recorded as not sent for ever
  (`notification_engine.py:179-192`), without any crash: hence the exception in
  `PushRecordAgrees`.
- An adviser can say that it is a good time to use a device of which a temperature alert
  has just been pushed, since it looks at another room: `check_device_before_use`
  assumes 20 degrees when no room matches the location, where the job and the user's
  request take the first room; `check_all_devices` and the admin's request always take
  the first. And a device without a location matches any room without an `entity_id`
  (`routers/smart_notifications.py:265-270`). This is one of the two exceptions
  of `NoFalseAllClear`.
- The anomaly scan (`scheduler.py:626-648`) raises its alerts of a device under one key,
  whatever their hour and severity: within 12 hours a WARNING about one hour keeps back
  a CRITICAL about another, and as the job looks back two hours only
  (`main.py:179`) nobody is told of that one later, where the docstring has "a per-user
  notification about each anomaly found". The alerts of scenarios have a type
  for each severity; these do not.

- `compute_rankings` fails for a user with two homes and no row yet, every time it
  is tried (`FailureExplained` says that this and overlap are the only causes).
- `admin_broadcast` "returns the count of notifications created"; it also counts the
  users whose notification was suppressed.
- `get_goal_streak` (`routers/goals.py:185`) raises for a daily goal that has a cost
  target alone: it converts a missing `target_kwh`.
- The Android app's polling worker asks `GET /api/notifications/history`, which no
  router serves, so each of its polls ends in a retry.
- The duplicate guard of `mqtt_client.py` is a check before an insert: two copies of
  one message handled at once both pass it. With the key of `models.py` copies of
  one timestamp are then refused by the database; with the schema script, which
  lacks it, both are stored (`RepeatsNeedOverlap` says it takes an overlap).

## 7. Not modelled

- Log-in, tokens and rate limiting: access control, whose state (windows of each
  process) nothing modelled reads.
- The e-mail report, exports, analysis and environment endpoints, backups,
  observability: they read and format, or call external programs.
- The web front ends and the Android app: presentation; their requests are the
  requests of the modules.
- Synthetic data: generators of test data.
- Of modelled parts: the calendar of the jobs (which days a run covers, with the
  daily job at 00:15 London time and days in UTC), `aggregate_all_history` (no caller),
  the per-device tables of `device_tables.py`, efficiency scores and costs, the
  broker's statistics that feed a cache for one page, texts, savings and roundings.

## 8. Plan

Done: election, locks and their abstract lease; publisher; ingestion; aggregation;
a device's day, scenarios, goals and thresholds; rankings and personas;
notifications; decisions; proofs of every safety property of these.

Left, the most useful first:

1. An abstract specification of deduplication (at most one row per key and window,
   atomically checked) which `Notifications` implements for runs that do not overlap.
2. The calendar of the jobs: which hours and days each run covers across midnight
   and the change to summer time, as input of `Aggregation`.
3. The limiter's windows in several processes.
