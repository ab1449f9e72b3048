---------------------------- MODULE DeviceUsage -----------------------------
(***************************************************************************)
(* One device's day: readings arrive, a backfill sums them up by hour and  *)
(* day (energy_analysis.py, detect_usage_cycles; scheduler.py,             *)
(* aggregate_hourly and aggregate_daily), and the scenario checks          *)
(* (notification_engine.py, smart_notifications.py, admin.py) tell the     *)
(* user about the day's row.                                               *)
(*                                                                         *)
(* detect_usage_cycles is given the readings of one hour at a time: what   *)
(* lies between the last reading of an hour and the first of the next is   *)
(* in no hour.  Readings come in order and one backfill runs at a time     *)
(* here; Aggregation.tla is about those that overlap.                      *)
(*                                                                         *)
(* Time is in slots, HourSlots to an hour; energy in Wh.  The rounding of  *)
(* the columns is left out.                                                *)
(***************************************************************************)
EXTENDS Scenarios, Sums, Sequences, FiniteSetsExt

CONSTANTS
    Key,          \* appliance_key of the device
    Watts,        \* the power a reading may report
    HourSlots,    \* slots of an hour
    Slots,        \* bound: the slots of the day that are modelled
    Earlier,      \* what the hourly rows of the day's earlier hours add up to
    Temperature, Humidity,   \* what a room's sensors may report
    MaxRooms,     \* bound: the rooms of a home
    Missing       \* no sensor reports

Use == [cycles : Nat, minutes : Nat, wh : Nat]

ASSUME DayAssumption ==
    /\ HourSlots \in Nat \ {0} /\ Slots \in Nat \ {0}
    /\ Watts \subseteq Nat /\ Missing \notin Watts
    /\ Earlier \subseteq Use

ASSUME RoomAssumption == MaxRooms \in Nat /\ Temperature \subseteq Int

VARIABLES
    key, earlier,
    clock,       \* the slots that passed
    readings,    \* energy_readings of the device
    daily,       \* its daily_summary, or none
    summed,      \* history: the readings there were when daily was written
    notified     \* what was notified within 12 hours, by type of notification: the
                 \* scenario, and (history) the day's row by then

vars == <<key, earlier, clock, readings, daily, summed, notified>>

Reading == [at : 1..Slots, watts : Watts]
NoRow == [cycles |-> 0, minutes |-> 0, wh |-> 0]    \* the day has no row

NotificationType == {"ENERGY_ALERT", "RECOMMENDATION"}

TypeOK ==
    /\ key \in Key /\ earlier \in Earlier
    /\ clock \in 0..Slots
    /\ readings \in Seq(Reading)
    /\ \A i \in 2..Len(readings) : readings[i - 1].at < readings[i].at
    /\ daily \in Use
    /\ HourSlots * (daily.minutes - earlier.minutes) <= 60 * clock
    /\ summed \in 0..Len(readings)
    /\ DOMAIN notified \subseteq NotificationType

Init ==
    /\ key \in Key /\ earlier \in Earlier
    /\ clock = 0 /\ readings = <<>>
    /\ daily = NoRow /\ summed = 0
    /\ notified = [t \in {} |-> t]

-----------------------------------------------------------------------------
(* Usage of a sequence of readings *)

ACTIVE_THRESHOLD_W == 10

\* Readings more than an hour apart say nothing of the time between.
Continuous(p, c) == c.at - p.at <= HourSlots

\* Twice the average power between two readings, the energy used there, and whether the
\* device was on.
Twice(p, c) == p.watts + c.watts
Energy(p, c) == (Twice(p, c) * (c.at - p.at)) \div (2 * HourSlots)
On(p, c) == Twice(p, c) >= 2 * ACTIVE_THRESHOLD_W

\* Mutant of Advance: the time since midnight is added, not since the last reading.
AdvanceSinceMidnight(u, p, c) ==
    IF ~Continuous(p, c) THEN [u EXCEPT !.was_active = FALSE]
    ELSE [was_active |-> On(p, c),
          cycles  |-> u.cycles + (IF On(p, c) /\ ~u.was_active THEN 1 ELSE 0),
          minutes |-> u.minutes + (IF On(p, c) THEN (60 * c.at) \div HourSlots ELSE 0),
          wh      |-> u.wh + Energy(p, c)]

\* The step of detect_usage_cycles from one reading to the next.
Advance(u, p, c) ==
    IF ~Continuous(p, c) THEN [u EXCEPT !.was_active = FALSE]
    ELSE [was_active |-> On(p, c),
          cycles  |-> u.cycles + (IF On(p, c) /\ ~u.was_active THEN 1 ELSE 0),
          minutes |-> u.minutes + (IF On(p, c) THEN (60 * (c.at - p.at)) \div HourSlots ELSE 0),
          wh      |-> u.wh + Energy(p, c)]

Unused == [was_active |-> FALSE, cycles |-> 0, minutes |-> 0, wh |-> 0]

\* The loop over a list of readings.
detect_usage_cycles(s) ==
    LET usage[i \in 1..Len(s)] == IF i = 1 THEN Unused ELSE Advance(usage[i - 1], s[i - 1], s[i])
    IN  IF s = <<>> THEN Unused ELSE usage[Len(s)]

-----------------------------------------------------------------------------
(* The day *)

\* The hours of the day, counted from 1.
HourOf(slot) == (slot - 1) \div HourSlots + 1
LastHour == HourOf(Slots)

\* Mutant of InHour: the first reading of the next hour is taken in.
InHourInclusive(s, h) ==
    {i \in DOMAIN s : HourOf(s[i].at) = h \/ s[i].at = h * HourSlots + 1}

InHour(s, h) == {i \in DOMAIN s : HourOf(s[i].at) = h}

\* aggregate_hourly: the usage of the readings of one hour, which come in order; an hour
\* without readings has no row and adds nothing to the day.
Hourly(s, h) ==
    IF InHour(s, h) = {} THEN Unused
    ELSE detect_usage_cycles(SubSeq(s, Min(InHour(s, h)), Max(InHour(s, h))))

\* aggregate_daily: the sums over the hours.
Summed(s) ==
    [cycles  |-> earlier.cycles + SumTo([h \in 1..LastHour |-> Hourly(s, h).cycles], LastHour),
     minutes |-> earlier.minutes + SumTo([h \in 1..LastHour |-> Hourly(s, h).minutes], LastHour),
     wh      |-> earlier.wh + SumTo([h \in 1..LastHour |-> Hourly(s, h).wh], LastHour)]

\* A slot passes, with a reading or without one.
Pass(power) ==
    /\ clock < Slots /\ clock' = clock + 1
    /\ readings' = IF power = Missing THEN readings
                   ELSE Append(readings, [at |-> clock + 1, watts |-> power])
    /\ UNCHANGED <<key, earlier, daily, summed, notified>>

\* The backfill aggregates every hour and then the day; a day without energy is skipped.
Backfill ==
    /\ Summed(readings).wh > 0 /\ daily' = Summed(readings)
    /\ summed' = Len(readings)
    /\ UNCHANGED <<key, earlier, clock, readings, notified>>

-----------------------------------------------------------------------------
(* Scenario checks *)

\* What the checks feed the scenarios with, from the day's row or from zeros
\* (_build_usage_data_for_device; the job builds the same).
UsageData(peak) ==
    [N |-> daily.cycles, wh |-> daily.wh, minutes |-> daily.minutes, isPeakTime |-> peak]

Conditions == [temperature : Temperature \cup {Missing}, humidity : Humidity \cup {Missing}]
NoRoom == [temperature |-> Missing, humidity |-> Missing]

\* The rooms of the device's home, in the order of the query, with what their sensors
\* report: the one that has the device's location as its name, or 0, and those that have it
\* as their name or entity_id.
Homes ==
    {home \in UNION {[rooms : [1..n -> Conditions], named : 0..n, matched : SUBSET (1..n)] :
                        n \in 0..MaxRooms} :
        home.named = 0 \/ home.named \in home.matched}

\* The callers choose the room of a device each in their way.
FirstRoom(home) == IF home.rooms = <<>> THEN NoRoom ELSE home.rooms[1]
NamedRoom(home) == IF home.named = 0 THEN FirstRoom(home) ELSE home.rooms[home.named]
MatchedRoom(home) == IF home.matched = {} THEN NoRoom ELSE home.rooms[Min(home.matched)]

\* What they can find there.
FirstRooms == {FirstRoom(home) : home \in Homes}
NamedRooms == {NamedRoom(home) : home \in Homes}
MatchedRooms == {MatchedRoom(home) : home \in Homes}

\* What is taken for a value of the sensors: a default for those that count as unset, which
\* for the two-hourly job a value of 0 does too.
Given(v, unset, default) == IF v \in unset THEN default ELSE v

\* The alerts for the conditions of a room (calculate_optimization).
AtRoom(unset, room, peak) ==
    Optimized(key, Given(room.temperature, unset, 20), Given(room.humidity, unset, 50),
              UsageData(peak))

\* Only these two priorities become notifications.
Grave(alerts) == {a \in alerts : a[1] \in {"critical", "warning"}}

TypeOf(priority) == IF priority = "critical" THEN "ENERGY_ALERT" ELSE "RECOMMENDATION"

\* create_notification deduplicates by user, type and device: of the alerts of a type the
\* first is made unless one was made within 12 hours, which the modelled slots are.
Notify(alerts) ==
    /\ \E first \in [{TypeOf(a[1]) : a \in alerts} -> {a[2] : a \in alerts}] :
        /\ \A t \in DOMAIN first : \E a \in alerts : TypeOf(a[1]) = t /\ first[t] = a[2]
        /\ notified' = [t \in DOMAIN notified \cup DOMAIN first |->
                            IF t \in DOMAIN notified THEN notified[t]
                            ELSE [scenario |-> first[t], told |-> daily]]
    /\ UNCHANGED <<key, earlier, clock, readings, daily, summed>>

\* The two-hourly job, for the room with the device's location as its name, or the first.
check_device_scenario_notifications(room, peak) ==
    Notify(Grave(AtRoom({Missing, 0}, room, peak)))

\* The request of a user, for the same room.
trigger_smart_notifications(room, peak) ==
    Notify(Grave(AtRoom({Missing}, room, peak)))

\* The request of an admin for all homes, for the first room.
trigger_smart_notifications_all(room, peak) ==
    Notify(Grave(AtRoom({Missing}, room, peak)))

-----------------------------------------------------------------------------
(* The advisors: the same alerts, asked for and not pushed *)

DelayAtPeak == {"dryer", "dishwasher", "washingmachine", "washing_machine", "airfryer"}

\* The verdict of check_device_before_use, for the first room that matches the device's
\* location or none; any alert keeps it from an all-clear.
check_device_before_use(room, peak) ==
    CASE peak /\ key \in DelayAtPeak -> "delay"
      [] ~(peak /\ key \in DelayAtPeak) /\ AtRoom({Missing}, room, peak) = {} -> "good"
      [] OTHER -> "see alerts"

\* The verdict of check_all_devices, for the first room of the home: it counts the alerts of
\* the pushed priorities and has one more appliance to delay.
check_all_devices(room, peak) ==
    CASE peak /\ key \in DelayAtPeak \cup {"cooker"} -> "delay"
      [] ~(peak /\ key \in DelayAtPeak \cup {"cooker"})
         /\ Grave(AtRoom({Missing}, room, peak)) # {} -> "review"
      [] OTHER -> "ok"

\* Peak prices run from 16:00 to 19:00 of the UK's clock, whose hours are not tied to the
\* slots here.
Hours == 0..23
is_peak_time(hour) == 16 <= hour /\ hour < 19

Next ==
    \/ \E power \in Watts \cup {Missing} : Pass(power)
    \/ Backfill
    \/ \E peak \in {is_peak_time(hour) : hour \in Hours} :
        \/ \E room \in NamedRooms : \/ check_device_scenario_notifications(room, peak)
                                  \/ trigger_smart_notifications(room, peak)
        \/ \E room \in FirstRooms : trigger_smart_notifications_all(room, peak)

Spec == Init /\ [][Next]_vars

-----------------------------------------------------------------------------
(* Properties *)

\* Of a list of readings: the stretches between two that are at most an hour apart, those
\* in which the device was on, those that lead from one clock hour into another, and those
\* that begin a run.
Stretches(s) == {i \in 1..(Len(s) - 1) : Continuous(s[i], s[i + 1])}
OnStretches(s) == {i \in Stretches(s) : On(s[i], s[i + 1])}
Crossing(s) == {i \in Stretches(s) : HourOf(s[i].at) # HourOf(s[i + 1].at)}
CutWhileOn(s) == Crossing(s) \cap OnStretches(s)
Runs(s) == {i \in OnStretches(s) : i - 1 \notin OnStretches(s)}

WhOf(S, s) ==
    SumTo([i \in 1..(Len(s) - 1) |-> IF i \in S THEN Energy(s[i], s[i + 1]) ELSE 0], Len(s) - 1)

\* What summing by hours does to a day: exactly the energy of the stretches that cross an
\* hour is missing from the day's row, and each of those in which the device was on adds
\* a cycle to the true number of runs, or takes one away, at most.
SplitByHour ==
    LET s == SubSeq(readings, 1, summed)
        cut == Cardinality(CutWhileOn(s))
    IN  summed > 0 =>
            /\ daily.wh = earlier.wh + WhOf(Stretches(s), s) - WhOf(Crossing(s), s)
            /\ daily.cycles - earlier.cycles - Cardinality(Runs(s)) \in (-cut)..cut

\* The two reasons for which an alert of the day may no longer hold: it was about the energy
\* of a cycle, and there were more cycles since; or about a hot room, and whoever asks looks
\* at one that is not.
EnergyOfCycle == {"High_energy_per_cycle", "High_energy_per_wash", "Not_full",
                  "Extended_session_energy", "Very_high_energy_session",
                  "Abnormally_high_energy"}
Eased(n, room) ==
    \/ n.scenario \in EnergyOfCycle /\ daily.cycles > n.told.cycles
    \/ n.scenario = "High_temperature_effect" /\ Given(room.temperature, {Missing}, 20) <= 28

\* However the day goes on after a user was notified, no advisor takes it back: with what
\* was read and summed since, for whatever room it looks at, it gives an all-clear only if
\* one of the two reasons stands against the notification.
NoFalseAllClear ==
    \A type \in DOMAIN notified, peak \in BOOLEAN :
        /\ \A room \in MatchedRooms :
            check_device_before_use(room, peak) = "good" => Eased(notified[type], room)
        /\ \A room \in FirstRooms :
            check_all_devices(room, peak) = "ok" => Eased(notified[type], room)
=============================================================================
