------------------------------ MODULE MatchRules ------------------------------
(* The rule engine of a match: what a tournament's ruleset says of an event, *)
(* a clock action or a deletion, and when the resulting decisions may be     *)
(* acknowledged or overridden.  Pure: rulesets.py, match_rules.py,           *)
(* policy.py.  Messages are left out, decisions are [level, code] records.   *)
EXTENDS Integers, FiniteSets

CONSTANT None                  \* None in the code, NULL in a column

Statuses == {"scheduled", "live", "completed", "postponed", "cancelled"}
Periods == {"first_half", "half_time", "second_half", "full_time"}
EventTypes == {"goal", "own_goal", "yellow_card", "red_card",
               "substitution_in", "substitution_out",
               "penalty_scored", "penalty_missed"}

PLATFORM_OPS_ROLES == {"super_admin", "platform_admin"}
STAFF_ROLES == PLATFORM_OPS_ROLES \cup {"club_manager"}

-------------------------------------------------------------------------------
(* Rulesets *)

Windows == {ms \in Nat : ms <= 30000}

MatchRuleset ==
  [preset : {"grassroots", "cup_formal", "custom"},
   second_yellow_policy : {"warn", "auto_red"},
   events_after_ft : {"allow_with_warning", "block"},
   max_substitutions : (0..12) \cup {None},
   require_player_on_events : BOOLEAN,
   clock_transitions : {"flexible", "strict"},
   duplicate_event_window_ms : Windows]

\* What a tournament stores: a preset and the fields it overrides.
RulesetConfig ==
  [preset : {"grassroots", "cup_formal", "custom"},
   second_yellow_policy : {"warn", "auto_red"} \cup {None},
   events_after_ft : {"allow_with_warning", "block"} \cup {None},
   max_substitutions : (0..12) \cup {None},
   require_player_on_events : BOOLEAN \cup {None},
   clock_transitions : {"flexible", "strict"} \cup {None},
   duplicate_event_window_ms : Windows \cup {None}]

Grassroots ==
  [preset |-> "grassroots", second_yellow_policy |-> "warn",
   events_after_ft |-> "allow_with_warning", max_substitutions |-> None,
   require_player_on_events |-> FALSE, clock_transitions |-> "flexible",
   duplicate_event_window_ms |-> 3000]

CupFormal ==
  [preset |-> "cup_formal", second_yellow_policy |-> "auto_red",
   events_after_ft |-> "block", max_substitutions |-> 5,
   require_player_on_events |-> TRUE, clock_transitions |-> "strict",
   duplicate_event_window_ms |-> 3000]

OrElse(value, default) == IF value = None THEN default ELSE value

\* cfg is a stored config or an already resolved snapshot: both go through here.
resolve_ruleset(cfg) ==
  LET base == IF cfg.preset = "cup_formal" THEN CupFormal ELSE Grassroots
  IN  [preset |-> cfg.preset,
       second_yellow_policy |->
         OrElse(cfg.second_yellow_policy, base.second_yellow_policy),
       events_after_ft |-> OrElse(cfg.events_after_ft, base.events_after_ft),
       max_substitutions |->
         OrElse(cfg.max_substitutions, base.max_substitutions),
       require_player_on_events |->
         OrElse(cfg.require_player_on_events, base.require_player_on_events),
       clock_transitions |->
         OrElse(cfg.clock_transitions, base.clock_transitions),
       duplicate_event_window_ms |->
         OrElse(cfg.duplicate_event_window_ms, base.duplicate_event_window_ms)]

-------------------------------------------------------------------------------
(* Evaluation.  evs maps event ids to the stored row, None where there is no *)
(* such row; fx is the fixture row; t is the application's clock.            *)

Recorded(evs) == {i \in DOMAIN evs : evs[i] # None}

\* Mutant of AtFullTime: a reopened match counts as running.
AtFullTimeByStatus(fx) == fx.status = "completed"
AtFullTime(fx) == fx.status = "completed" \/ fx.period = "full_time"

Decision(level, code) == [level |-> level, code |-> code]

FullTimeDecision(rules, code) ==
  Decision(IF rules.events_after_ft = "block" THEN "block" ELSE "warn", code)

\* Mutant of SecondYellow: the count is taken to include the new card.
ThirdYellow(q, evs) ==
  /\ q.event_type = "yellow_card" /\ q.player # None
  /\ Cardinality({i \in Recorded(evs) : /\ evs[i].player = q.player
                                        /\ evs[i].event_type = "yellow_card"}) >= 2
SecondYellow(q, evs) ==
  /\ q.event_type = "yellow_card" /\ q.player # None
  /\ \E i \in Recorded(evs) : /\ evs[i].player = q.player
                              /\ evs[i].event_type = "yellow_card"

Substitutions(evs, club) ==
  {i \in Recorded(evs) : /\ evs[i].club = club
                         /\ evs[i].event_type = "substitution_in"}

\* Mutant of SubstitutionLimitReached: one more than the limit.
SubstitutionLimitPassed(q, evs, rules) ==
  /\ q.event_type = "substitution_in"
  /\ rules.max_substitutions # None
  /\ Cardinality(Substitutions(evs, q.club)) > rules.max_substitutions
SubstitutionLimitReached(q, evs, rules) ==
  /\ q.event_type = "substitution_in"
  /\ rules.max_substitutions # None
  /\ Cardinality(Substitutions(evs, q.club)) >= rules.max_substitutions

\* The five compared fields; minute stands for (minute, extra_time_minute).
SameIncident(e, q) ==
  /\ e.club = q.club /\ e.player = q.player
  /\ e.event_type = q.event_type /\ e.minute = q.minute

\* Mutant of RecentDuplicate: the end of the window is left out.
DuplicateBeforeEnd(q, evs, window, t) ==
  /\ window > 0
  /\ \E i \in Recorded(evs) : /\ SameIncident(evs[i], q)
                              /\ t - evs[i].created_at \in 0..(window - 1)
RecentDuplicate(q, evs, window, t) ==
  /\ window > 0
  /\ \E i \in Recorded(evs) : /\ SameIncident(evs[i], q)
                              /\ t - evs[i].created_at \in 0..window

When(condition, decision) == IF condition THEN {decision} ELSE {}

evaluate_event(q, fx, evs, rules, t) ==
  [decisions |->
     When(AtFullTime(fx), FullTimeDecision(rules, "events_after_ft"))
     \cup When(rules.require_player_on_events /\ q.player = None,
               Decision("block", "player_required"))
     \cup When(SecondYellow(q, evs) /\ rules.second_yellow_policy # "auto_red",
               Decision("warn", "second_yellow"))
     \cup When(SubstitutionLimitReached(q, evs, rules),
               Decision("block", "substitution_limit"))
     \cup When(RecentDuplicate(q, evs, rules.duplicate_event_window_ms, t),
               Decision("warn", "possible_duplicate")),
   auto_red |-> SecondYellow(q, evs) /\ rules.second_yellow_policy = "auto_red"]

\* The period a transition is meant to leave; nudges and stoppage are no transition.
ClockTransitions == {"start_1h", "ht", "start_2h", "ft"}
ExpectedPeriod(action) ==
  CASE action = "start_1h" -> None
    [] action = "ht"       -> "first_half"
    [] action = "start_2h" -> "half_time"
    [] action = "ft"       -> "second_half"

\* Mutant of ValidTransition: only the kick-off is checked.
ValidKickOff(action, fx) == action = "start_1h" => fx.status = "scheduled"
ValidTransition(action, fx) ==
  /\ fx.period = ExpectedPeriod(action)
  /\ action = "start_1h" => fx.status = "scheduled"

evaluate_clock(action, fx, rules) ==
  When(action \in ClockTransitions /\ ~ValidTransition(action, fx),
       Decision(IF rules.clock_transitions = "strict" THEN "block" ELSE "warn",
                "invalid_clock_transition"))

evaluate_event_deletion(fx, rules) ==
  When(AtFullTime(fx), FullTimeDecision(rules, "delete_after_ft"))

-------------------------------------------------------------------------------
(* Enforcement *)

Blocks(decisions) == {d \in decisions : d.level = "block"}
Unacknowledged(decisions, q) ==
  {d \in decisions : d.level = "warn" /\ d.code \notin q.ack}

\* The error enforce_policy raises, or "ok".  A request that overrides a block
\* is not asked to acknowledge the warnings that came with it.
enforce_policy(decisions, q) ==
  IF Blocks(decisions) # {} /\ ~q.override THEN "policy"
  ELSE IF q.override /\ q.role \notin PLATFORM_OPS_ROLES THEN "forbidden"
  ELSE IF q.override /\ ~q.reason THEN "bad_request"
  ELSE IF Blocks(decisions) = {} /\ Unacknowledged(decisions, q) # {} THEN "policy"
  ELSE "ok"
===============================================================================
