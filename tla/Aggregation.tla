----------------------------- MODULE Aggregation -----------------------------
(***************************************************************************)
(* The summary tables (app/scheduler.py): readings of an hour become an    *)
(* hourly_summary row of their device, the hourly rows of a day its        *)
(* daily_summary row, and the devices' days the home_daily_totals row.     *)
(*                                                                         *)
(* A runner is one caller of aggregate_hourly and aggregate_daily: the     *)
(* backfill, the hourly and daily jobs, or an admin's request.  Each call  *)
(* is one transaction at REPEATABLE READ: it reads one snapshot, its       *)
(* INSERTs meet the unique keys as committed by then, and its UPDATEs send *)
(* the columns that differ from the row it read.                           *)
(*                                                                         *)
(* The model has one home and one day.  What is computed from readings is  *)
(* represented by the set of readings it was computed from.                *)
(***************************************************************************)
EXTENDS Naturals, Sequences, FiniteSets, FiniteSetsExt

CONSTANTS
    Device,
    Hours,        \* the hours of the day
    Watts,        \* a reading is its power
    Backfiller,   \* runs of backfill_recent, one at a time by ww_backfill
    Other,        \* the hourly and daily jobs and the admin's trigger: no lock
    Loads,        \* what an hour's readings may be before anything is aggregated
    MaxLate,      \* bound: readings that arrive later
    MaxRuns,      \* bound: runs of the others
    MaxCrash,     \* bound: runners that die
    MaxRemoved    \* bound: devices deactivated

ASSUME RunnerAssumption == Backfiller \cap Other = {}
ASSUME DataAssumption == Hours \in Nat \ {0} /\ Watts \in SUBSET Nat /\ Loads \subseteq SUBSET Watts

Runner == Backfiller \cup Other
Hour == 1..Hours
Day == 0       \* the target of aggregate_daily, beside the hours
Key == Device \X Hour

VARIABLES
    readings,   \* energy_readings of each device and hour
    active,     \* devices with is_active
    hourly,     \* hourly_summary: a row for some of the keys
    daily,      \* daily_summary: a row for some of the devices
    home,       \* home_daily_totals: at most one row
    seq,        \* history: commits that wrote something
    run,
    late, runs, crashes   \* counters that bound the exploration

vars == <<readings, active, hourly, daily, home, seq, run, late, runs, crashes>>

DayStats == [Hour -> SUBSET Watts]

\* at - seq when the row was last written (history)
HourlyRow == [stats : SUBSET Watts, min : Watts, at : Nat]

\* parts - the devices' days that were added up
\* clean - no other run wrote between the snapshot and the commit (history)
HomeRow == [parts : UNION {[D -> DayStats] : D \in SUBSET Device}, clean : BOOLEAN]

Partial(S, T) == UNION {[D -> T] : D \in SUBSET S}
Empty == [x \in {} |-> x]

\* pc      - idle, between two calls, or about to commit one
\* todo    - the calls still to make, the current one first
\* rows    - the rows of its session, new or changed, by key (hour) or device (day)
\* inserts - those that are new
\* total   - the days aggregate_daily added up, and how it writes them to the home's row
\* begun   - seq when its snapshot was taken (history)
Run == [pc : {"idle", "next", "commit"}, todo : Seq(Hour \cup {Day}),
        rows : Partial(Key, SUBSET Watts) \cup Partial(Device, DayStats),
        inserts : (SUBSET Key) \cup (SUBSET Device),
        total : Partial(Device, DayStats), totalAs : {"none", "insert", "update"}, begun : Nat]

TypeOK ==
    /\ readings \in [Key -> SUBSET Watts]
    /\ active \in SUBSET Device
    /\ DOMAIN hourly \in SUBSET Key /\ \A k \in DOMAIN hourly : hourly[k] \in HourlyRow
    /\ DOMAIN daily \in SUBSET Device /\ \A d \in DOMAIN daily : daily[d] \in DayStats
    /\ home \in SUBSET HomeRow /\ Cardinality(home) <= 1
    /\ {seq, late, runs, crashes} \subseteq Nat
    /\ run \in [Runner -> Run]

Idle == [pc |-> "idle", todo |-> <<>>, rows |-> Empty, inserts |-> {},
         total |-> Empty, totalAs |-> "none", begun |-> 0]

Init ==
    /\ readings \in [Key -> Loads]
    /\ active = Device
    /\ hourly = Empty /\ daily = Empty /\ home = {}
    /\ seq = 0
    /\ run = [r \in Runner |-> Idle]
    /\ late = 0 /\ runs = 0 /\ crashes = 0

-----------------------------------------------------------------------------
(* Helpers *)

\* The calls of a backfill, and of the admin's trigger: every hour, then the day.
AllTargets == [i \in 1 .. Hours + 1 |-> IF i <= Hours THEN i ELSE Day]

\* detect_usage_cycles integrates between two readings: one alone has no energy.
Positive(S) == Cardinality(S) >= 2

\* What aggregate_daily sums up for a device.
DayOf(d) == [h \in Hour |-> IF <<d, h>> \in DOMAIN hourly THEN hourly[<<d, h>>].stats ELSE {}]

\* The devices whose day has a total_kwh to report.
Counted == {d \in active : \E h \in Hour : Positive(DayOf(d)[h])}

\* The rows a session writes to a table that holds old: new ones, and changed ones.
Writes(new, old) ==
    [x \in {y \in DOMAIN new : y \in DOMAIN old => old[y] # new[y]} |-> new[x]]

\* A table once the rows written to it are committed.
Upsert(rows, table) ==
    [x \in DOMAIN rows \cup DOMAIN table |-> IF x \in DOMAIN rows THEN rows[x] ELSE table[x]]

StatsOf(table) == [k \in DOMAIN table |-> table[k].stats]

\* A commit that wrote something.
Wrote(r) == run[r].rows # Empty \/ run[r].totalAs # "none"

Overlapped(r) == run[r].begun < seq

\* Mutant of Computed: only the readings that came since the row was written.
ComputedFromNew(h) ==
    LET Since(k) == readings[k] \ (IF k \in DOMAIN hourly THEN hourly[k].stats ELSE {})
    IN  [k \in {j \in active \X {h} : Since(j) # {}} |-> Since(k)]

\* Mutant of Computed: an hour that has its row is not computed again.
ComputedOnce(h) ==
    [k \in {j \in active \X {h} : readings[j] # {} /\ j \notin DOMAIN hourly} |-> readings[k]]

\* What the hour's rows of the active devices should say.
Computed(h) == [k \in {j \in active \X {h} : readings[j] # {}} |-> readings[k]]

\* The calls of r after the one it makes.
Proceed(r) == [Idle EXCEPT !.pc = "next", !.todo = Tail(run[r].todo)]

-----------------------------------------------------------------------------
(* Readings and devices *)

\* A reading arrives, of whatever hour.
Record(k, w) ==
    /\ late < MaxLate /\ late' = late + 1
    /\ w \notin readings[k]
    /\ readings' = [readings EXCEPT ![k] = @ \cup {w}]
    /\ UNCHANGED <<active, hourly, daily, home, seq, run, runs, crashes>>

\* delete_device clears is_active.
Remove(d) ==
    /\ d \in active
    /\ Cardinality(Device \ active) < MaxRemoved
    /\ active' = active \ {d}
    /\ UNCHANGED <<readings, hourly, daily, home, seq, run, late, runs, crashes>>

-----------------------------------------------------------------------------
(* Runners *)

\* The 30-minute trigger and GET_LOCK, which a second backfill fails.
StartBackfill(r) ==
    /\ r \in Backfiller
    /\ \A b \in Backfiller : run[b].pc = "idle"
    /\ run' = [run EXCEPT ![r] = [Idle EXCEPT !.pc = "next", !.todo = AllTargets]]
    /\ UNCHANGED <<readings, active, hourly, daily, home, seq, late, runs, crashes>>

\* A job fires or an admin asks.
StartOther(r) ==
    /\ r \in Other /\ run[r].pc = "idle"
    /\ runs < MaxRuns /\ runs' = runs + 1
    /\ \E targets \in {AllTargets, <<Day>>} \cup {<<h>> : h \in Hour} :
        run' = [run EXCEPT ![r] = [Idle EXCEPT !.pc = "next", !.todo = targets]]
    /\ UNCHANGED <<readings, active, hourly, daily, home, seq, late, crashes>>

\* aggregate_hourly reads the devices, their readings of the hour and its rows.
ReadHour(r) ==
    /\ run[r].pc = "next" /\ run[r].todo # <<>>
    /\ LET h == Head(run[r].todo)
           rows == Writes(Computed(h), StatsOf(hourly))
       IN  /\ h \in Hour
           /\ run' = [run EXCEPT ![r] =
                [@ EXCEPT !.pc = "commit", !.begun = seq, !.rows = rows,
                          !.inserts = DOMAIN rows \ DOMAIN hourly]]
    /\ UNCHANGED <<readings, active, hourly, daily, home, seq, late, runs, crashes>>

\* A unique key refuses a row that the session's snapshot did not show.
Conflict(r) ==
    \/ run[r].inserts \cap (IF Head(run[r].todo) = Day THEN DOMAIN daily ELSE DOMAIN hourly) # {}
    \/ run[r].totalAs = "insert" /\ home # {}

\* An update leaves min_watts as it was inserted.
HourlyRowOf(r, k) ==
    [stats |-> run[r].rows[k],
     min |-> IF k \in run[r].inserts THEN Min(run[r].rows[k]) ELSE hourly[k].min,
     at |-> seq + 1]

\* Mutant of CommitHour: min_watts is left out of the insert as well.
CommitHourBare(r) ==
    /\ run[r].pc = "commit" /\ Head(run[r].todo) \in Hour
    /\ ~Conflict(r)
    /\ hourly' = Upsert([k \in DOMAIN run[r].rows |->
                            [stats |-> run[r].rows[k], at |-> seq + 1]], hourly)
    /\ seq' = IF Wrote(r) THEN seq + 1 ELSE seq
    /\ run' = [run EXCEPT ![r] = Proceed(r)]
    /\ UNCHANGED <<readings, active, daily, home, late, runs, crashes>>

\* The commit of aggregate_hourly.
CommitHour(r) ==
    /\ run[r].pc = "commit" /\ Head(run[r].todo) \in Hour
    /\ ~Conflict(r)
    /\ hourly' = Upsert([k \in DOMAIN run[r].rows |-> HourlyRowOf(r, k)], hourly)
    /\ seq' = IF Wrote(r) THEN seq + 1 ELSE seq
    /\ run' = [run EXCEPT ![r] = Proceed(r)]
    /\ UNCHANGED <<readings, active, daily, home, late, runs, crashes>>

\* aggregate_daily reads the hourly rows, the daily rows and the home's total.  A home
\* with nothing to count keeps the row it has.
ReadDay(r) ==
    /\ run[r].pc = "next" /\ run[r].todo # <<>> /\ Head(run[r].todo) = Day
    /\ LET days == [d \in Counted |-> DayOf(d)]
           rows == Writes(days, daily)
       IN  run' = [run EXCEPT ![r] =
                [@ EXCEPT !.pc = "commit", !.begun = seq, !.rows = rows,
                          !.inserts = DOMAIN rows \ DOMAIN daily,
                          !.total = days,
                          !.totalAs = IF days = Empty \/ \E t \in home : t.parts = days
                                        THEN "none"
                                      ELSE IF home = {} THEN "insert" ELSE "update"]]
    /\ UNCHANGED <<readings, active, hourly, daily, home, seq, late, runs, crashes>>

\* Mutant of CommitDay: the home's total is inserted and never updated.
CommitDayOnce(r) ==
    /\ run[r].pc = "commit" /\ Head(run[r].todo) = Day
    /\ ~Conflict(r)
    /\ daily' = Upsert(run[r].rows, daily)
    /\ home' = IF run[r].totalAs # "insert" THEN {[t EXCEPT !.clean = ~Overlapped(r)] : t \in home}
               ELSE {[parts |-> run[r].total, clean |-> ~Overlapped(r)]}
    /\ seq' = IF Wrote(r) THEN seq + 1 ELSE seq
    /\ run' = [run EXCEPT ![r] = Proceed(r)]
    /\ UNCHANGED <<readings, active, hourly, late, runs, crashes>>

CommitDay(r) ==
    /\ run[r].pc = "commit" /\ Head(run[r].todo) = Day
    /\ ~Conflict(r)
    /\ daily' = Upsert(run[r].rows, daily)
    /\ home' = IF run[r].total = Empty THEN home
               ELSE {[parts |-> p, clean |-> ~Overlapped(r)] :
                        p \in IF run[r].totalAs = "none" THEN {t.parts : t \in home}
                              ELSE {run[r].total}}
    /\ seq' = IF Wrote(r) THEN seq + 1 ELSE seq
    /\ run' = [run EXCEPT ![r] = Proceed(r)]
    /\ UNCHANGED <<readings, active, hourly, late, runs, crashes>>

\* The IntegrityError leaves the session unusable: what is left of the call fails with
\* it, its commit raises, and the caller gives up the calls still to make.
Fail(r) ==
    /\ run[r].pc = "commit" /\ Conflict(r)
    /\ run' = [run EXCEPT ![r] = Idle]
    /\ UNCHANGED <<readings, active, hourly, daily, home, seq, late, runs, crashes>>

Finish(r) ==
    /\ run[r].pc = "next" /\ run[r].todo = <<>>
    /\ run' = [run EXCEPT ![r] = Idle]
    /\ UNCHANGED <<readings, active, hourly, daily, home, seq, late, runs, crashes>>

\* The process dies; its open transaction is rolled back.
Crash(r) ==
    /\ crashes < MaxCrash /\ crashes' = crashes + 1
    /\ run[r].pc # "idle"
    /\ run' = [run EXCEPT ![r] = Idle]
    /\ UNCHANGED <<readings, active, hourly, daily, home, seq, late, runs>>

-----------------------------------------------------------------------------
Call(r) == ReadHour(r) \/ CommitHour(r) \/ ReadDay(r) \/ CommitDay(r) \/ Fail(r) \/ Finish(r)

Next ==
    \/ \E k \in Key, w \in Watts : Record(k, w)
    \/ \E d \in Device : Remove(d)
    \/ \E r \in Runner :
        \/ StartBackfill(r) \/ StartOther(r)
        \/ ReadHour(r) \/ CommitHour(r) \/ ReadDay(r) \/ CommitDay(r) \/ Fail(r)
        \/ Finish(r) \/ Crash(r)

\* The backfill is triggered every 30 minutes, and a run that began goes on.
Fairness ==
    /\ WF_vars(\E r \in Backfiller : StartBackfill(r))
    /\ \A r \in Runner : WF_vars(Call(r))

Spec == Init /\ [][Next]_vars /\ Fairness

-----------------------------------------------------------------------------
(* Properties *)

\* Once readings stop, the tables become and remain what the readings say for every
\* device still active, whatever runs raced, failed or died meanwhile (backfill_recent,
\* "self-healing aggregation").
SummariesConverge ==
    <>[](\A d \in active :
            /\ \A h \in Hour : readings[<<d, h>>] # {} =>
                    <<d, h>> \in DOMAIN hourly /\ hourly[<<d, h>>].stats = readings[<<d, h>>]
            /\ d \in Counted =>
                    /\ d \in DOMAIN daily /\ daily[d] = DayOf(d)
                    /\ \E t \in home : d \in DOMAIN t.parts /\ t.parts[d] = daily[d])

\* The home's total is the sum of its devices' daily rows, except after a daily
\* aggregation that overlapped another writer, and until the next that does not
\* (aggregate_daily, "Write home daily totals").
HomeTotalIsSum ==
    \A t \in home : t.clean => \A d \in DOMAIN t.parts : d \in DOMAIN daily /\ t.parts[d] = daily[d]

\* Runs that follow each other only add what arrived late, and "idempotent": an hourly row
\* loses readings, and an aggregation fails on a unique key, only when another run
\* committed after the snapshot of this one (aggregate_hourly, the upsert).
HarmNeedsOverlap ==
    [][/\ \A k \in DOMAIN hourly :
            k \in DOMAIN hourly' /\
            (~(hourly[k].stats \subseteq hourly'[k].stats) =>
                \E r \in Runner : run[r].pc = "commit" /\ run'[r].pc = "next"
                                  /\ run[r].begun < hourly[k].at)
       /\ \A r \in Runner :
            run[r].pc = "commit" /\ run'[r].pc = "idle" /\ crashes' = crashes
                => Overlapped(r)]_vars

\* "Self-healing": the minimum of every hourly row becomes that of its readings.  An
\* update never writes min_watts.
MinimumHeals ==
    <>[](\A k \in DOMAIN hourly : k[1] \in active => hourly[k].min = Min(readings[k]))

=============================================================================
