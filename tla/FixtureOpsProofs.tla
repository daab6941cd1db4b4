--------------------------- MODULE FixtureOpsProofs ---------------------------
(* Lemmas about the operators of FixtureOps, for any clubs, players, payloads *)
(* and rulesets: the types of verdicts and rows, what decides the score, and *)
(* what a verdict rests on.                                                  *)
EXTENDS FixtureOps, FiniteSetTheorems, TLAPS

EventTable == [EventIds -> EventRow \cup {None}]

-------------------------------------------------------------------------------
(* Rulesets and verdicts *)

LEMMA OrElseType ==
  ASSUME NEW S, NEW value \in S \cup {None}, NEW default \in S
  PROVE  OrElse(value, default) \in S
BY DEF OrElse

LEMMA PresetTypes == CupFormal \in MatchRuleset /\ Grassroots \in MatchRuleset
BY DEF CupFormal, Grassroots, MatchRuleset, Windows

LEMMA SnapshotIsConfig ==
  ASSUME NEW rules \in MatchRuleset
  PROVE  rules \in RulesetConfig
BY DEF MatchRuleset, RulesetConfig

\* A stored config, or a snapshot resolved before, resolves to a full ruleset.
LEMMA ResolveType ==
  ASSUME NEW cfg \in RulesetConfig
  PROVE  resolve_ruleset(cfg) \in MatchRuleset
<1> DEFINE base == IF cfg.preset = "cup_formal" THEN CupFormal ELSE Grassroots
<1>1. base \in MatchRuleset
  BY PresetTypes
<1> HIDE DEF base
<1>2. OrElse(cfg.second_yellow_policy, base.second_yellow_policy)
        \in {"warn", "auto_red"}
  BY <1>1, OrElseType DEF RulesetConfig, MatchRuleset
<1>3. OrElse(cfg.events_after_ft, base.events_after_ft)
        \in {"allow_with_warning", "block"}
  BY <1>1, OrElseType DEF RulesetConfig, MatchRuleset
<1>4. OrElse(cfg.max_substitutions, base.max_substitutions) \in (0..12) \cup {None}
  BY <1>1 DEF RulesetConfig, MatchRuleset, OrElse
<1>5. OrElse(cfg.require_player_on_events, base.require_player_on_events)
        \in BOOLEAN
  BY <1>1, OrElseType DEF RulesetConfig, MatchRuleset
<1>6. OrElse(cfg.clock_transitions, base.clock_transitions)
        \in {"flexible", "strict"}
  BY <1>1, OrElseType DEF RulesetConfig, MatchRuleset
<1>7. OrElse(cfg.duplicate_event_window_ms, base.duplicate_event_window_ms)
        \in Windows
  BY <1>1, OrElseType DEF RulesetConfig, MatchRuleset
<1>8. cfg.preset \in {"grassroots", "cup_formal", "custom"}
  BY DEF RulesetConfig
<1> QED
  BY <1>2, <1>3, <1>4, <1>5, <1>6, <1>7, <1>8
  DEF resolve_ruleset, MatchRuleset, base

LEMMA EffectiveType ==
  ASSUME NEW fx \in FixtureRow, NEW cfg \in Configs
  PROVE  EffectiveRuleset(fx, cfg) \in MatchRuleset
<1>1. CASE fx.ruleset_snapshot = None
  BY <1>1, ConfigsTyped, ResolveType DEF EffectiveRuleset
<1>2. CASE fx.ruleset_snapshot # None
  <2>1. fx.ruleset_snapshot \in MatchRuleset
    BY <1>2 DEF FixtureRow
  <2>2. fx.ruleset_snapshot \in RulesetConfig
    BY <2>1, SnapshotIsConfig
  <2> QED BY <1>2, <2>2, ResolveType DEF EffectiveRuleset
<1> QED BY <1>1, <1>2

LEMMA SnapshotType ==
  ASSUME NEW fx \in FixtureRow, NEW rules \in MatchRuleset
  PROVE  /\ snapshot_ruleset(fx, rules) \in FixtureRow
         /\ snapshot_ruleset(fx, rules).home_score = fx.home_score
         /\ snapshot_ruleset(fx, rules).away_score = fx.away_score
BY DEF snapshot_ruleset, FixtureRow

LEMMA EnforcedType ==
  ASSUME NEW ds, NEW q, NEW rules \in MatchRuleset, NEW auto \in BOOLEAN
  PROVE  LET v == Enforced(ds, q, rules, auto)
         IN  /\ v.answer \in Answers
             /\ v.answer = "ok" => v \in Plan /\ v.rules \in MatchRuleset
BY DEF Enforced, Verdict, Plan, Answers, enforce_policy

LEMMA CreateVerdictType ==
  ASSUME NEW fx \in FixtureRow, NEW evs, NEW belongs, NEW cfg \in Configs,
         NEW q, NEW t
  PROVE  LET v == CreateVerdict(fx, evs, belongs, cfg, q, t)
         IN  /\ v.answer \in Answers
             /\ v.answer = "ok" => /\ v \in Plan /\ v.rules \in MatchRuleset
                                   /\ q.club \in Clubs
<1> DEFINE rules == EffectiveRuleset(fx, cfg)
           eval  == evaluate_event(q, fx, evs, rules, t)
           v == Enforced(eval.decisions, q, rules, eval.auto_red)
<1>1. rules \in MatchRuleset
  BY EffectiveType
<1>2. eval.auto_red \in BOOLEAN
  BY DEF evaluate_event, SecondYellow
<1>3. v.answer \in Answers /\ (v.answer = "ok" => v \in Plan /\ v.rules \in MatchRuleset)
  BY <1>1, <1>2, EnforcedType
<1> QED
  BY <1>3 DEF CreateVerdict, Refuse, Verdict, Answers

LEMMA DeleteVerdictType ==
  ASSUME NEW fx \in FixtureRow, NEW evs, NEW cfg \in Configs, NEW q
  PROVE  LET v == DeleteVerdict(fx, evs, cfg, q)
         IN  /\ v.answer \in Answers
             /\ v.answer = "ok" => v \in Plan /\ v.rules \in MatchRuleset
BY EffectiveType, EnforcedType DEF DeleteVerdict, Refuse, Verdict, Answers

LEMMA ClockVerdictType ==
  ASSUME NEW fx \in FixtureRow, NEW cfg \in Configs, NEW q
  PROVE  LET v == ClockVerdict(fx, cfg, q)
         IN  /\ v.answer \in Answers
             /\ v.answer = "ok" => /\ v \in Plan /\ v.rules \in MatchRuleset
                                   /\ ~ClockActionInvalid(fx, q)
BY EffectiveType, EnforcedType DEF ClockVerdict, Refuse, Verdict, Answers

LEMMA UpdateVerdictType ==
  ASSUME NEW q
  PROVE  /\ UpdateVerdict(q).answer \in Answers
         /\ UpdateVerdict(q).answer = "ok" => UpdateVerdict(q) \in Plan
BY DEF UpdateVerdict, Refuse, Verdict, Answers, Plan

-------------------------------------------------------------------------------
(* Scores *)

LEMMA EventIdsFinite == IsFiniteSet(EventIds)
<1>1. IsFiniteSet({"main", "auto"})
  <2>1. IsFiniteSet({"main"})
    BY FS_Singleton
  <2>2. {"main", "auto"} = {"main"} \cup {"auto"}
    OBVIOUS
  <2> QED BY <2>1, <2>2, FS_AddElement
<1> QED BY <1>1, RequestsFinite, FS_Product DEF EventIds

\* Counting events gives a number whatever the table holds.
LEMMA ScoreNat ==
  ASSUME NEW evs
  PROVE  HomeScore(evs) \in Nat /\ AwayScore(evs) \in Nat
<1>1. ASSUME NEW club PROVE Goals(evs, club) \in Nat
  BY EventIdsFinite, FS_Subset, FS_CardinalityType DEF Goals
<1>2. ASSUME NEW club PROVE OwnGoals(evs, club) \in Nat
  BY EventIdsFinite, FS_Subset, FS_CardinalityType DEF OwnGoals
<1> QED BY <1>1, <1>2 DEF HomeScore, AwayScore

LEMMA RecalculateType ==
  ASSUME NEW fx \in FixtureRow, NEW evs
  PROVE  /\ recalculate_score(fx, evs) \in FixtureRow
         /\ ScoreMatches(recalculate_score(fx, evs), evs)
BY ScoreNat DEF recalculate_score, ScoreMatches, FixtureRow

\* Tables that agree on which events exist, for which club, of which type and
\* from which source have the same score.
SameTally(evs, other) ==
  \A i \in EventIds :
    /\ evs[i] = None <=> other[i] = None
    /\ evs[i] # None => /\ evs[i].club = other[i].club
                        /\ evs[i].event_type = other[i].event_type
                        /\ evs[i].source = other[i].source

LEMMA TallyDecidesScore ==
  ASSUME NEW evs, NEW other, SameTally(evs, other)
  PROVE  HomeScore(evs) = HomeScore(other) /\ AwayScore(evs) = AwayScore(other)
<1>1. ASSUME NEW club PROVE Goals(evs, club) = Goals(other, club)
  <2>1. {i \in EventIds : evs[i] # None /\ evs[i].club = club
           /\ evs[i].event_type \in {"goal", "penalty_scored"}}
        = {i \in EventIds : other[i] # None /\ other[i].club = club
           /\ other[i].event_type \in {"goal", "penalty_scored"}}
    BY DEF SameTally
  <2> QED BY <2>1 DEF Goals
<1>2. ASSUME NEW club PROVE OwnGoals(evs, club) = OwnGoals(other, club)
  <2>1. {i \in EventIds : evs[i] # None /\ evs[i].club = club
           /\ evs[i].event_type = "own_goal"}
        = {i \in EventIds : other[i] # None /\ other[i].club = club
           /\ other[i].event_type = "own_goal"}
    BY DEF SameTally
  <2> QED BY <2>1 DEF OwnGoals
<1> QED BY <1>1, <1>2 DEF HomeScore, AwayScore
\* ... and keep the same score whatever a transaction adds or deletes.
LEMMA TallyAfterCreate ==
  ASSUME NEW evs \in EventTable, NEW other \in EventTable, SameTally(evs, other),
         NEW r, NEW q, NEW auto, NEW t
  PROVE  SameTally(EventsAfterCreate(evs, r, q, auto, t),
                   EventsAfterCreate(other, r, q, auto, t))
BY DEF SameTally, EventsAfterCreate

LEMMA TallyAfterDelete ==
  ASSUME NEW evs \in EventTable, NEW other \in EventTable, SameTally(evs, other),
         NEW id
  PROVE  SameTally(EventsAfterDelete(evs, id), EventsAfterDelete(other, id))
BY DEF SameTally, EventsAfterDelete

-------------------------------------------------------------------------------
(* What a transaction writes *)

LEMMA PayloadByOp ==
  ASSUME NEW q \in Payloads
  PROVE  /\ q # None
         /\ q.op = "create_event" => q \in CreatePayload
         /\ q.op = "delete_event" => q \in DeletePayload
         /\ q.op = "clock" => q \in ClockPayload
         /\ q.op = "update_fixture" => q \in UpdatePayload
         /\ q.op \in {"create_event", "delete_event", "clock", "update_fixture",
                     "delete_fixture"}
<1>1. q \in CreatePayload \cup DeletePayload \cup ClockPayload
           \cup UpdatePayload \cup DropPayload
  BY PayloadsTyped
<1>2. q # None
  BY <1>1, NullIsNoRow
<1>3. CASE q \in CreatePayload
  BY <1>2, <1>3 DEF CreatePayload
<1>4. CASE q \in DeletePayload
  BY <1>2, <1>4 DEF DeletePayload
<1>5. CASE q \in ClockPayload
  BY <1>2, <1>5 DEF ClockPayload
<1>6. CASE q \in UpdatePayload
  BY <1>2, <1>6 DEF UpdatePayload
<1>7. CASE q \in DropPayload
  BY <1>2, <1>7 DEF DropPayload
<1> QED BY <1>1, <1>3, <1>4, <1>5, <1>6, <1>7

LEMMA NewEventType ==
  ASSUME NEW q \in CreatePayload, q.club \in Clubs, NEW t \in Nat
  PROVE  NewEvent(q, t) \in EventRow
BY DEF NewEvent, EventRow, CreatePayload

LEMMA AutoRedType ==
  ASSUME NEW e \in EventRow, NEW r \in Requests
  PROVE  AutoRed(e, r) \in EventRow
<1>1. <<r, "main">> \in EventIds
  BY DEF EventIds
<1> QED BY <1>1 DEF AutoRed, EventRow, EventTypes

LEMMA EventsAfterCreateType ==
  ASSUME NEW evs \in EventTable, NEW r \in Requests, NEW q \in CreatePayload,
         q.club \in Clubs, NEW auto, NEW t \in Nat
  PROVE  EventsAfterCreate(evs, r, q, auto, t) \in EventTable
<1>1. NewEvent(q, t) \in EventRow
  BY NewEventType
<1>2. AutoRed(NewEvent(q, t), r) \in EventRow
  BY <1>1, AutoRedType
<1> QED BY <1>1, <1>2 DEF EventsAfterCreate, EventTable

LEMMA EventsAfterDeleteType ==
  ASSUME NEW evs \in EventTable, NEW id
  PROVE  EventsAfterDelete(evs, id) \in EventTable
BY DEF EventsAfterDelete, EventTable

LEMMA RowAfterCreateType ==
  ASSUME NEW fx \in FixtureRow, NEW rules \in MatchRuleset, NEW evs
  PROVE  /\ RowAfterCreate(fx, rules, evs) \in FixtureRow
         /\ ScoreMatches(RowAfterCreate(fx, rules, evs), evs)
<1> DEFINE frozen == snapshot_ruleset(fx, rules)
           live == [frozen EXCEPT !.status = IF @ = "scheduled" THEN "live" ELSE @]
<1>1. frozen \in FixtureRow
  BY SnapshotType
<1>2. live \in FixtureRow
  BY <1>1 DEF FixtureRow, Statuses
<1> QED BY <1>2, RecalculateType DEF RowAfterCreate

LEMMA StartHalfType ==
  ASSUME NEW fx \in FixtureRow, NEW period \in Periods, NEW base \in 0..130,
         NEW t \in Nat
  PROVE  /\ StartHalf(fx, period, base, t) \in FixtureRow
         /\ StartHalf(fx, period, base, t).home_score = fx.home_score
         /\ StartHalf(fx, period, base, t).away_score = fx.away_score
BY ZenonT(30) DEF StartHalf, FixtureRow, Statuses

LEMMA StopClockType ==
  ASSUME NEW fx \in FixtureRow, NEW status \in Statuses, NEW period \in Periods
  PROVE  /\ StopClock(fx, status, period) \in FixtureRow
         /\ StopClock(fx, status, period).home_score = fx.home_score
         /\ StopClock(fx, status, period).away_score = fx.away_score
BY ZenonT(30) DEF StopClock, FixtureRow

LEMMA ClockActionType ==
  ASSUME NEW fx \in FixtureRow, NEW q \in ClockPayload, NEW t \in Nat,
         q.action = "nudge" => q.minute # None
  PROVE  LET g == apply_clock_action(fx, q, t)
         IN  /\ g \in FixtureRow
             /\ g.home_score = fx.home_score /\ g.away_score = fx.away_score
<1> DEFINE g == apply_clock_action(fx, q, t)
<1>0. {"first_half", "second_half", "half_time", "full_time"} \subseteq Periods
      /\ {"live", "completed"} \subseteq Statuses
      /\ 0 \in 0..130 /\ 45 \in 0..130
  BY DEF Periods, Statuses
<1>1. CASE q.action = "start_1h"
  <2>1. g = StartHalf(fx, "first_half", 0, t)
    BY <1>1 DEF apply_clock_action
  <2> QED BY <1>0, <2>1, StartHalfType
<1>2. CASE q.action = "ht"
  <2>1. g = StopClock(fx, "live", "half_time")
    BY <1>2 DEF apply_clock_action
  <2> QED BY <1>0, <2>1, StopClockType
<1>3. CASE q.action = "start_2h"
  <2>1. g = StartHalf(fx, "second_half", 45, t)
    BY <1>3 DEF apply_clock_action
  <2> QED BY <1>0, <2>1, StartHalfType
<1>4. CASE q.action = "ft"
  <2>1. g = StopClock(fx, "completed", "full_time")
    BY <1>4 DEF apply_clock_action
  <2> QED BY <1>0, <2>1, StopClockType
<1>5. CASE q.action = "nudge"
  <2>1. g = [fx EXCEPT !.period_base_minute = q.minute, !.period_started_at = t]
    BY <1>5 DEF apply_clock_action
  <2>2. q.minute \in 0..130
    BY <1>5 DEF ClockPayload
  <2> QED BY <2>1, <2>2 DEF FixtureRow
<1>6. CASE q.action = "set_stoppage"
  <2>1. g = [fx EXCEPT !.stoppage_minutes = q.stoppage]
    BY <1>6 DEF apply_clock_action
  <2>2. q.stoppage \in (0..30) \cup {None}
    BY DEF ClockPayload
  <2> QED BY <2>1, <2>2 DEF FixtureRow
<1>7. q.action \in {"start_1h", "ht", "start_2h", "ft", "nudge", "set_stoppage"}
  BY DEF ClockPayload, ClockActions, ClockTransitions
<1> QED BY <1>1, <1>2, <1>3, <1>4, <1>5, <1>6, <1>7

LEMMA RowAfterClockType ==
  ASSUME NEW fx \in FixtureRow, NEW rules \in MatchRuleset, NEW q \in ClockPayload,
         NEW t \in Nat, NEW evs, ScoreMatches(fx, evs),
         q.action = "nudge" => q.minute # None
  PROVE  /\ RowAfterClock(fx, rules, q, t) \in FixtureRow
         /\ ScoreMatches(RowAfterClock(fx, rules, q, t), evs)
BY SnapshotType, ClockActionType DEF RowAfterClock, ScoreMatches

LEMMA RowAfterUpdateType ==
  ASSUME NEW fx \in FixtureRow, NEW q \in UpdatePayload, NEW evs,
         ScoreMatches(fx, evs)
  PROVE  /\ RowAfterUpdate(fx, q) \in FixtureRow
         /\ ScoreMatches(RowAfterUpdate(fx, q), evs)
BY DEF RowAfterUpdate, UpdatePayload, FixtureRow, ScoreMatches

-------------------------------------------------------------------------------
(* What a verdict rests on *)

\* Resolving a snapshot gives back what it says.
LEMMA ResolveSnapshot ==
  ASSUME NEW rules \in MatchRuleset
  PROVE  LET again == resolve_ruleset(rules)
         IN  /\ again.second_yellow_policy = rules.second_yellow_policy
             /\ again.events_after_ft = rules.events_after_ft
             /\ again.clock_transitions = rules.clock_transitions
             /\ again.duplicate_event_window_ms = rules.duplicate_event_window_ms
             /\ rules.max_substitutions # None =>
                  again.max_substitutions = rules.max_substitutions
<1>1. /\ rules.second_yellow_policy # None /\ rules.events_after_ft # None
      /\ rules.clock_transitions # None /\ rules.duplicate_event_window_ms # None
  <2>1. /\ rules.second_yellow_policy \in {"warn", "auto_red"}
        /\ rules.events_after_ft \in {"allow_with_warning", "block"}
        /\ rules.clock_transitions \in {"flexible", "strict"}
    BY DEF MatchRuleset
  <2>2. rules.duplicate_event_window_ms \in Int
    BY DEF MatchRuleset, Windows
  <2> QED BY <2>1, <2>2, NullIsNoValue
<1> QED BY <1>1 DEF resolve_ruleset, OrElse

\* Two rulesets that judge alike, but for a limit only the second one sets.
JudgesLike(rules, frozen) ==
  /\ frozen \in MatchRuleset
  /\ rules.second_yellow_policy = frozen.second_yellow_policy
  /\ rules.events_after_ft = frozen.events_after_ft
  /\ rules.clock_transitions = frozen.clock_transitions
  /\ rules.duplicate_event_window_ms = frozen.duplicate_event_window_ms
  /\ frozen.max_substitutions # None =>
       rules.max_substitutions = frozen.max_substitutions

\* A fixture is judged by the rules it is frozen with, now or before.
LEMMA JudgedByFrozen ==
  ASSUME NEW fx \in FixtureRow, NEW cfg \in Configs
  PROVE  LET rules == EffectiveRuleset(fx, cfg)
         IN  JudgesLike(rules, snapshot_ruleset(fx, rules).ruleset_snapshot)
<1> DEFINE rules == EffectiveRuleset(fx, cfg)
<1>1. rules \in MatchRuleset
  BY EffectiveType
<1>2. CASE fx.ruleset_snapshot = None
  <2>1. snapshot_ruleset(fx, rules).ruleset_snapshot = rules
    BY <1>2 DEF snapshot_ruleset, FixtureRow
  <2> QED BY <1>1, <2>1 DEF JudgesLike
<1>3. CASE fx.ruleset_snapshot # None
  <2>1. fx.ruleset_snapshot \in MatchRuleset
    BY <1>3 DEF FixtureRow
  <2>2. /\ rules = resolve_ruleset(fx.ruleset_snapshot)
        /\ snapshot_ruleset(fx, rules).ruleset_snapshot = fx.ruleset_snapshot
    BY <1>3 DEF EffectiveRuleset, snapshot_ruleset
  <2>3. JudgesLike(resolve_ruleset(fx.ruleset_snapshot), fx.ruleset_snapshot)
    BY <2>1, ResolveSnapshot DEF JudgesLike
  <2> QED BY <2>2, <2>3
<1> QED BY <1>2, <1>3

\* Who passes without an override passes no block, and acknowledged each warning.
LEMMA PolicyPassed ==
  ASSUME NEW ds, NEW q, enforce_policy(ds, q) = "ok"
  PROVE  /\ Blocks(ds) # {} => q.override
         /\ \A d \in ds : d.level = "block" => Blocks(ds) # {}
         /\ \A d \in ds : Blocks(ds) = {} /\ d.level = "warn" => d.code \in q.ack
BY DEF enforce_policy, Blocks, Unacknowledged

LEMMA BlockingDecision ==
  ASSUME NEW ds, NEW code, Decision("block", code) \in ds
  PROVE  Blocks(ds) # {}
<1>1. Decision("block", code).level = "block"
  BY DEF Decision
<1> QED BY <1>1 DEF Blocks

LEMMA CreateAllowed ==
  ASSUME NEW fx \in FixtureRow, NEW evs, NEW belongs, NEW cfg \in Configs,
         NEW q, NEW t, CreateVerdict(fx, evs, belongs, cfg, q, t).answer = "ok"
  PROVE  LET v     == CreateVerdict(fx, evs, belongs, cfg, q, t)
             rules == EffectiveRuleset(fx, cfg)
         IN  /\ v \in Plan /\ rules \in MatchRuleset
             /\ q.club \in Clubs /\ WithKey(evs, q.key) = {}
             /\ q.player # None => belongs
             /\ v.auto_red <=> /\ SecondYellow(q, evs)
                               /\ rules.second_yellow_policy = "auto_red"
             /\ v.overridden => q.override
             /\ ~v.overridden =>
                  /\ ~SubstitutionLimitReached(q, evs, rules)
                  /\ ~(AtFullTime(fx) /\ rules.events_after_ft = "block")
                  /\ RecentDuplicate(q, evs, rules.duplicate_event_window_ms, t)
                       => "possible_duplicate" \in q.ack
<1> DEFINE v    == CreateVerdict(fx, evs, belongs, cfg, q, t)
           rules == EffectiveRuleset(fx, cfg)
           eval == evaluate_event(q, fx, evs, rules, t)
           ds   == eval.decisions
<1>1. /\ v = Enforced(ds, q, rules, eval.auto_red)
      /\ WithKey(evs, q.key) = {} /\ q.club \in Clubs
      /\ q.player # None => belongs
  BY DEF CreateVerdict, Refuse, Verdict
<1>2. /\ enforce_policy(ds, q) = "ok" /\ v.rules = rules
      /\ v.auto_red = eval.auto_red /\ v.overridden = (Blocks(ds) # {})
  BY <1>1 DEF Enforced, Verdict
<1>3. v \in Plan /\ rules \in MatchRuleset
  BY EffectiveType, CreateVerdictType
<1>4. eval.auto_red <=> (SecondYellow(q, evs) /\ rules.second_yellow_policy = "auto_red")
  BY DEF evaluate_event
<1>5. SubstitutionLimitReached(q, evs, rules) =>
        Decision("block", "substitution_limit") \in ds
  BY DEF evaluate_event, When
<1>6. AtFullTime(fx) /\ rules.events_after_ft = "block" =>
        Decision("block", "events_after_ft") \in ds
  BY DEF evaluate_event, When, FullTimeDecision
<1>7. RecentDuplicate(q, evs, rules.duplicate_event_window_ms, t) =>
        Decision("warn", "possible_duplicate") \in ds
  BY DEF evaluate_event, When
<1>8. \A level, code : /\ Decision(level, code).level = level
                       /\ Decision(level, code).code = code
  BY DEF Decision
<1> HIDE DEF ds, eval, v, rules
<1>9. /\ Blocks(ds) # {} => q.override
      /\ \A d \in ds : d.level = "block" => Blocks(ds) # {}
      /\ \A d \in ds : Blocks(ds) = {} /\ d.level = "warn" => d.code \in q.ack
  BY <1>2, PolicyPassed
<1>10. ~v.overridden =>
         /\ ~SubstitutionLimitReached(q, evs, rules)
         /\ ~(AtFullTime(fx) /\ rules.events_after_ft = "block")
         /\ RecentDuplicate(q, evs, rules.duplicate_event_window_ms, t)
              => "possible_duplicate" \in q.ack
  <2> SUFFICES ASSUME ~v.overridden
               PROVE  /\ ~SubstitutionLimitReached(q, evs, rules)
                      /\ ~(AtFullTime(fx) /\ rules.events_after_ft = "block")
                      /\ RecentDuplicate(q, evs, rules.duplicate_event_window_ms, t)
                           => "possible_duplicate" \in q.ack
    OBVIOUS
  <2>1. Blocks(ds) = {}
    BY <1>2
  <2>2. \A code : Decision("block", code) \notin ds
    BY <2>1, BlockingDecision
  <2>3. Decision("warn", "possible_duplicate") \in ds => "possible_duplicate" \in q.ack
    BY <1>8, <1>9, <2>1
  <2> QED BY <1>5, <1>6, <1>7, <2>2, <2>3
<1> QED BY <1>1, <1>2, <1>3, <1>4, <1>9, <1>10 DEF v, rules

LEMMA DeleteAllowed ==
  ASSUME NEW fx \in FixtureRow, NEW evs, NEW cfg \in Configs, NEW q,
         NEW v, v = DeleteVerdict(fx, evs, cfg, q),
         NEW rules, rules = EffectiveRuleset(fx, cfg), v.answer = "ok"
  PROVE  /\ v \in Plan /\ v.rules = rules /\ rules \in MatchRuleset
         /\ evs[q.target] # None
         /\ ~v.overridden => ~(AtFullTime(fx) /\ rules.events_after_ft = "block")
<1> DEFINE ds == evaluate_event_deletion(fx, rules)
<1>1. v = Enforced(ds, q, rules, FALSE) /\ evs[q.target] # None
  BY DEF DeleteVerdict, Refuse, Verdict
<1>2. /\ enforce_policy(ds, q) = "ok" /\ v.rules = rules
      /\ v.overridden = (Blocks(ds) # {})
  BY <1>1 DEF Enforced, Verdict
<1>3. v \in Plan /\ rules \in MatchRuleset
  BY EffectiveType, DeleteVerdictType
<1>4. AtFullTime(fx) /\ rules.events_after_ft = "block" => Blocks(ds) # {}
  <2>1. AtFullTime(fx) /\ rules.events_after_ft = "block" =>
          Decision("block", "delete_after_ft") \in ds
    BY DEF evaluate_event_deletion, When, FullTimeDecision
  <2> QED BY <2>1, BlockingDecision
<1> QED BY <1>1, <1>2, <1>3, <1>4

LEMMA ClockAllowed ==
  ASSUME NEW fx \in FixtureRow, NEW cfg \in Configs, NEW q,
         NEW v, v = ClockVerdict(fx, cfg, q),
         NEW rules, rules = EffectiveRuleset(fx, cfg), v.answer = "ok"
  PROVE  /\ v \in Plan /\ v.rules = rules /\ rules \in MatchRuleset
         /\ ~ClockActionInvalid(fx, q)
         /\ ~v.overridden /\ rules.clock_transitions = "strict"
            /\ q.action \in ClockTransitions => ValidTransition(q.action, fx)
<1> DEFINE ds == evaluate_clock(q.action, fx, rules)
<1>1. v = Enforced(ds, q, rules, FALSE) /\ ~ClockActionInvalid(fx, q)
  BY DEF ClockVerdict, Refuse, Verdict
<1>2. v.rules = rules /\ v.overridden = (Blocks(ds) # {})
  BY <1>1 DEF Enforced, Verdict
<1>3. v \in Plan /\ rules \in MatchRuleset
  BY EffectiveType, ClockVerdictType
<1>4. /\ rules.clock_transitions = "strict" /\ q.action \in ClockTransitions
      /\ ~ValidTransition(q.action, fx)
      => Blocks(ds) # {}
  <2>1. /\ rules.clock_transitions = "strict" /\ q.action \in ClockTransitions
        /\ ~ValidTransition(q.action, fx)
        => Decision("block", "invalid_clock_transition") \in ds
    BY DEF evaluate_clock, When
  <2> QED BY <2>1, BlockingDecision
<1> QED BY <1>1, <1>2, <1>3, <1>4
===============================================================================
