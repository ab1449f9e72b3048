----------------------------- MODULE Thresholds -----------------------------
(***************************************************************************)
(* The two scans that compare uses with one another before they alert      *)
(* anybody (scheduler.py): yesterday's totals of the homes against their   *)
(* 95th percentile (evaluate_analytics_thresholds), and an hour of a       *)
(* device against the average of that hour of the day over 30 days         *)
(* (detect_and_notify_anomalies).  Notifications.tla is about what happens *)
(* to the alerts; here is who is alerted at all.                           *)
(*                                                                         *)
(* Energy is in Wh.                                                        *)
(***************************************************************************)
EXTENDS Integers, Sequences

-----------------------------------------------------------------------------
(* The community's percentile *)

MinHomes == 5        \* no scan of this few homes
Negligible == 5000   \* a threshold is not lower than this

\* totals lists the uses in ascending order.
Ascending(totals) == \A i, j \in DOMAIN totals : i <= j => totals[i] <= totals[j]

\* The place of the 95th percentile: int(n * 0.95), counted from 1.
p95_index(n) == (95 * n) \div 100 + 1

\* The places of the homes that are alerted.
HighConsumption(totals) ==
    {i \in DOMAIN totals : /\ Len(totals) > MinHomes
                           /\ totals[i] > totals[p95_index(Len(totals))]
                           /\ totals[i] > Negligible}

\* What the percentile amounts to: the places from the first home alerted to the last are
\* fewer than one in twenty, and none out of twenty or fewer homes.
FewStandOut(totals) ==
    /\ \A i \in HighConsumption(totals) : 20 * (Len(totals) - i + 1) < Len(totals)
    /\ Len(totals) <= 20 => HighConsumption(totals) = {}

-----------------------------------------------------------------------------
(* The baseline of an hour *)

threshold_factor == 3
BaselineFloor == 5   \* a lower average is no baseline

\* wh is the hour's use, others what the same hour of the other days of the window adds
\* up to, and days their number with the hour itself, which the average takes in too.
baseline_avg(wh, others, days) == [sum |-> wh + others, of |-> days]

\* The ratio of the hour to an average reaches a factor.
Reaches(factor, wh, average) ==
    /\ average.sum > BaselineFloor * average.of
    /\ wh * average.of >= factor * average.sum

Anomalous(wh, others, days) == Reaches(threshold_factor, wh, baseline_avg(wh, others, days))
Critical(wh, others, days) == Reaches(2 * threshold_factor, wh, baseline_avg(wh, others, days))

\* What an average over the hour under test does to the scan: it reports nothing before the
\* third day and nothing critical before the sixth, and on the third only an hour beside
\* which the others used nothing.
HistoryIsNeeded(wh, others, days) ==
    /\ days < 3 => ~Anomalous(wh, others, days)
    /\ days < 6 => ~Critical(wh, others, days)
    /\ days = 3 /\ Anomalous(wh, others, days) => others = 0
=============================================================================
