--------------------------- MODULE MCDeviceUsage ----------------------------
(* A few slots of the day of each appliance, for TLC, and goals and thresholds on bounded
   inputs. *)
EXTENDS DeviceUsage, Goals, Thresholds

\* The day begins here, or had some uses, or many and long ones.
Mornings == {[cycles |-> 0, minutes |-> 0, wh |-> 0],
             [cycles |-> 8, minutes |-> 30, wh |-> 960],
             [cycles |-> 12, minutes |-> 200, wh |-> 7000]}

\* Every history of up to five days of low or high use or none, against every target.
Histories == UNION {[1..n -> {NoRecord, 2, 5}] : n \in 0..5}

\* The streak is what it should be (get_goal_streak).
ASSUME StreakAssumption ==
    \A history \in Histories, target \in {NoGoal, 0, 2, 3, 5} : StreakIsRun(history, target)

\* The verdict on a goal is what it should be, for goals that started on any of the days and
\* end before, on or after the last (evaluate_goal_progress).
ASSUME TrackAssumption ==
    \A history \in Histories, type \in GoalType, target \in {0, 2, 5, 12}, left \in {0, 3} :
        \A start \in DOMAIN history, end \in {NoEnd, 3, 5, 7} :
            TrackIsFair(history, start, end, type, target, left)

\* Who is alerted when uses are compared, of up to 45 homes some of which used more, and of
\* an hour among up to seven (evaluate_analytics_thresholds, detect_and_notify_anomalies).
ASSUME ThresholdAssumption ==
    /\ \A n \in 0..45 : \A k \in 0..n :
          FewStandOut([i \in 1..n |-> IF i <= k THEN 4000 ELSE 9000])
    /\ \A wh \in {0, 4, 9, 60, 900}, others \in {0, 1, 30, 200}, days \in 1..7 :
          HistoryIsNeeded(wh, others, days)
=============================================================================
