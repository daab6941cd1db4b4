------------------------------ MODULE MatchClock ------------------------------
(* The match clock of a fixture row: what a clock action writes              *)
(* (queries/fixtures.py) and what a board shows of it (match_clock.py).      *)
(* Time is in milliseconds.                                                  *)
EXTENDS MatchRules

MinuteMs == 60000
TICKING_PERIODS == {"first_half", "second_half"}
ClockActions == ClockTransitions \cup {"nudge", "set_stoppage"}

\* apply_clock_action raises ValueError: nothing is ticking, or no value given.
ClockActionInvalid(fx, q) ==
  \/ q.action = "nudge" /\ (q.minute = None \/ fx.period \notin TICKING_PERIODS)
  \/ q.action = "set_stoppage"
     /\ (q.stoppage = None \/ fx.period \notin TICKING_PERIODS)

\* Mutant of StartHalf: the match is not made live.
StartHalfQuietly(fx, period, base, t) ==
  [fx EXCEPT !.period = period, !.period_started_at = t,
             !.period_base_minute = base, !.stoppage_minutes = None]
StartHalf(fx, period, base, t) ==
  [fx EXCEPT !.status = "live", !.period = period, !.period_started_at = t,
             !.period_base_minute = base, !.stoppage_minutes = None]

\* Mutant of StopClock: the announced stoppage stays.
StopKeepingStoppage(fx, status, period) ==
  [fx EXCEPT !.status = status, !.period = period, !.period_started_at = None]
StopClock(fx, status, period) ==
  [fx EXCEPT !.status = status, !.period = period, !.period_started_at = None,
             !.stoppage_minutes = None]

apply_clock_action(fx, q, t) ==
  CASE q.action = "start_1h" -> StartHalf(fx, "first_half", 0, t)
    [] q.action = "ht"       -> StopClock(fx, "live", "half_time")
    [] q.action = "start_2h" -> StartHalf(fx, "second_half", 45, t)
    [] q.action = "ft"       -> StopClock(fx, "completed", "full_time")
    [] q.action = "nudge"    -> [fx EXCEPT !.period_base_minute = q.minute,
                                           !.period_started_at = t]
    [] q.action = "set_stoppage" -> [fx EXCEPT !.stoppage_minutes = q.stoppage]

-------------------------------------------------------------------------------
(* Display *)

compute_elapsed_minute(fx, t) ==
  IF fx.period \notin TICKING_PERIODS \/ fx.period_started_at = None THEN None
  ELSE LET elapsed == (t - fx.period_started_at) \div MinuteMs
       IN  fx.period_base_minute + (IF elapsed > 0 THEN elapsed ELSE 0)

RegulationEnd(fx) == IF fx.period = "first_half" THEN 45 ELSE 90

\* The label as [text, minute, extra]: "HT", "FT", 23' or 45+2'.
Label(text, minute, extra) == [text |-> text, minute |-> minute, extra |-> extra]

\* Mutant of clock_label: stoppage time is shown without the half it extends.
label_without_half(fx, t) ==
  LET minute == compute_elapsed_minute(fx, t)
  IN  IF minute = None THEN None
      ELSE IF minute <= RegulationEnd(fx) THEN Label("minute", minute, 0)
      ELSE Label("minute", minute - RegulationEnd(fx), 0)
clock_label(fx, t) ==
  LET minute == compute_elapsed_minute(fx, t)
      end    == RegulationEnd(fx)
  IN  IF fx.period = "half_time" THEN Label("HT", 0, 0)
      ELSE IF fx.period = "full_time" THEN Label("FT", 0, 0)
      ELSE IF minute = None THEN None
      ELSE IF minute <= end THEN Label("minute", minute, 0)
      ELSE Label("minute", end, minute - end)
===============================================================================
