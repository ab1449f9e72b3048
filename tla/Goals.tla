------------------------------- MODULE Goals --------------------------------
(***************************************************************************)
(* What a user is told of an energy goal (routers/goals.py and             *)
(* energy_analysis.py, evaluate_goal_progress): the streak of a daily goal *)
(* of the whole home, and the progress of any goal.  Both are computed     *)
(* from the daily rows, the day still running among them.                  *)
(*                                                                         *)
(* Energy is in Wh.  Nothing here changes state: the module holds the two  *)
(* computations and what they should amount to, which MCDeviceUsage checks *)
(* over bounded inputs and AdviceProofs proves for all.                    *)
(***************************************************************************)
EXTENDS Sums, Sequences, FiniteSetsExt

CONSTANTS
    NoGoal,     \* the user has no active daily goal of the home
    NoRecord,   \* a day without a row in home_daily_totals
    NoEnd       \* the goal has no end date

-----------------------------------------------------------------------------
(* The streak *)

\* history lists the use of each day of the window, the last of them today.
Met(wh, target) == wh # NoRecord /\ target # NoGoal /\ wh <= target

\* The loop from today backwards, which ends at the first day that did not meet the goal.
active_streak(history, target) ==
    LET back[i \in 0..Len(history)] ==
            IF i > 0 /\ Met(history[i], target) THEN back[i - 1] + 1 ELSE 0
    IN  back[Len(history)]

\* The loop over the window that keeps the longest run.
longest_streak(history, target) ==
    LET after[i \in 0..Len(history)] ==
            IF i = 0 THEN [run |-> 0, longest |-> 0]
            ELSE LET run == IF Met(history[i], target) THEN after[i - 1].run + 1 ELSE 0
                 IN  [run |-> run, longest |-> Max({after[i - 1].longest, run})]
    IN  after[Len(history)].longest

Days(history, Test(_)) == Cardinality({i \in DOMAIN history : Test(history[i])})

get_goal_streak(history, target) ==
    [active_streak  |-> active_streak(history, target),
     longest_streak |-> longest_streak(history, target),
     days_under     |-> Days(history, LAMBDA wh : Met(wh, target)),
     days_over      |-> Days(history, LAMBDA wh : /\ wh # NoRecord /\ target # NoGoal
                                                  /\ ~Met(wh, target)),
     days_no_data   |-> Days(history, LAMBDA wh : wh = NoRecord)]

\* The days from i to j all met the goal.
AllMet(history, target, i, j) == \A k \in i..j : Met(history[k], target)

\* What the streak should be: the longest stretch of days that met the goal, and the one
\* that ends today, which a day without a row ends: so it is zero from midnight until the
\* first aggregation of the day, whatever the days before were.
StreakIsRun(history, target) ==
    LET s == get_goal_streak(history, target)
        n == Len(history)
        Streaks == {p \in (1..n) \X (1..n) : p[1] <= p[2] /\ AllMet(history, target, p[1], p[2])}
    IN  /\ s.active_streak = Max({k \in 0..n : AllMet(history, target, n - k + 1, n)})
        /\ s.longest_streak = Max({0} \cup {p[2] - p[1] + 1 : p \in Streaks})
        /\ s.active_streak <= s.longest_streak /\ s.longest_streak <= s.days_under
        /\ target # NoGoal => s.days_under + s.days_over + s.days_no_data = n
        /\ n > 0 /\ history[n] = NoRecord => s.active_streak = 0

-----------------------------------------------------------------------------
(* Progress *)

GoalType == {"daily", "weekly", "monthly", "per_device"}

\* get_goal_progress sums every daily row since the goal's start, whatever its period.
UsedSince(history, start) ==
    SumTo([i \in DOMAIN history |-> IF i < start \/ history[i] = NoRecord THEN 0 ELSE history[i]],
          Len(history))

\* Days of the period that are left, up to the goal's end date if it has one: else a week
\* counts from the goal's start; a month is the calendar's, left days of which remain; a goal
\* of a device has no period.  Those of an end date or a week go below zero afterwards.
days_remaining(type, start, end, today, left) ==
    CASE end # NoEnd -> end - today
      [] end = NoEnd /\ type = "weekly" -> 6 - (today - start)
      [] end = NoEnd /\ type = "monthly" -> left
      [] OTHER -> 0

\* evaluate_goal_progress: a goal of cost alone has the target 0, of which every use is
\* 0 per cent.  The projection, of weekly and monthly goals only, continues the average so
\* far; it is compared here as a product.
on_track(type, target, used, start, end, today, left) ==
    LET elapsed == (today - start) + 1
    IN  /\ target = 0 \/ used <= target
        /\ type \in {"weekly", "monthly"} =>
               used * (elapsed + days_remaining(type, start, end, today, left)) <= target * elapsed

\* The days of a goal that is projected to an end date, or of a week.
Span(start, end) == IF end = NoEnd THEN 7 ELSE (end - start) + 1

\* The user is told to be on track of a target only while the goal is met; and, of a goal
\* with an end date or a weekly one, until that ends, exactly when the average so far keeps
\* all of its days under the target.
TrackIsFair(history, start, end, type, target, left) ==
    LET used == UsedSince(history, start)
        today == Len(history)
        told == on_track(type, target, used, start, end, today, left)
    IN  /\ told => target = 0 \/ used <= target
        /\ type = "weekly" \/ (type = "monthly" /\ end # NoEnd) =>
               (today - start < Span(start, end) =>
                    (told <=> used * Span(start, end) <= target * (today - start + 1)))
=============================================================================
