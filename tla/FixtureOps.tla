------------------------------ MODULE FixtureOps ------------------------------
(* What each state-changing request does to one fixture: the verdict of its  *)
(* checks on the rows it reads, and the rows it writes.  One fixture is      *)
(* enough: the row lock is per fixture and no request touches two.           *)
EXTENDS MatchClock

CONSTANTS
  Requests,     \* one id per HTTP request
  Home, Away,   \* the fixture's two clubs
  AllClubs,     \* every club
  Players, Keys, Minutes, Notes,
  Configs,      \* rulesets a tournament may be given
  Payloads,     \* what requests may ask for
  Instants      \* readings of the clock, in milliseconds

Clubs == {Home, Away}
EventIds == Requests \X {"main", "auto"}

EventRow ==
  [club : Clubs, player : Players \cup {None}, event_type : EventTypes,
   minute : Minutes, description : Notes \cup {"automatic"},
   key : Keys \cup {None}, source : EventIds \cup {None}, created_at : Nat]

FixtureRow ==
  [status : Statuses, period : Periods \cup {None},
   period_started_at : Nat \cup {None}, period_base_minute : 0..130,
   stoppage_minutes : (0..30) \cup {None},
   ruleset_snapshot : MatchRuleset \cup {None},
   home_score : Nat, away_score : Nat]

AuditEntry ==
  [action : {"event.create", "event.delete", "clock", "fixture.update",
             "policy.override"},
   entity : EventIds \cup {None},   \* None: the fixture itself
   by : Requests]

WarningCodes == {"events_after_ft", "second_yellow", "possible_duplicate",
                 "invalid_clock_transition", "delete_after_ft"}

\* manages: the clubs the actor has a club_managers row for.
CreatePayload ==
  [op : {"create_event"}, role : STAFF_ROLES, manages : SUBSET AllClubs,
   club : AllClubs, player : Players \cup {None}, event_type : EventTypes,
   minute : Minutes, description : Notes, key : Keys \cup {None},
   ack : SUBSET WarningCodes, override : BOOLEAN, reason : BOOLEAN]
DeletePayload ==
  [op : {"delete_event"}, role : STAFF_ROLES, manages : SUBSET AllClubs,
   target : EventIds,
   ack : {{}} \cup {{code} : code \in WarningCodes},
   override : BOOLEAN, reason : BOOLEAN]
ClockPayload ==
  [op : {"clock"}, role : STAFF_ROLES, action : ClockActions,
   minute : (0..130) \cup {None}, stoppage : (0..30) \cup {None},
   ack : SUBSET WarningCodes, override : BOOLEAN, reason : BOOLEAN]
UpdatePayload ==
  [op : {"update_fixture"}, role : STAFF_ROLES, status : Statuses \cup {None}]
DropPayload == [op : {"delete_fixture"}, role : STAFF_ROLES]

ASSUME RequestsFinite == IsFiniteSet(Requests) /\ None \notin Requests
ASSUME NullIsNoRow == /\ None \notin EventRow
                      /\ None \notin FixtureRow
                      /\ None \notin CreatePayload \cup DeletePayload
                          \cup ClockPayload \cup UpdatePayload \cup DropPayload
ASSUME NullIsNoValue == /\ None \notin MatchRuleset /\ None \notin EventIds
                        /\ None \notin Int /\ None \notin Periods /\ None \notin AllClubs
                        /\ None \notin {"warn", "auto_red", "block", "strict",
                                       "allow_with_warning", "flexible"}
                        /\ None \notin [text : {"minute", "HT", "FT"},
                                        minute : Int, extra : Int]
ASSUME ClubsDiffer == Home # Away /\ {Home, Away} \subseteq AllClubs
ASSUME ConfigsTyped == Configs \subseteq RulesetConfig /\ Configs # {}
ASSUME PayloadsTyped ==
  Payloads \subseteq CreatePayload \cup DeletePayload \cup ClockPayload
                     \cup UpdatePayload \cup DropPayload
ASSUME InstantsTyped == Instants \subseteq Nat /\ 0 \in Instants

-------------------------------------------------------------------------------
(* Shared *)

\* The row a fixture is created with, and its events and audit: none.
NewFixture ==
  [status |-> "scheduled", period |-> None, period_started_at |-> None,
   period_base_minute |-> 0, stoppage_minutes |-> None,
   ruleset_snapshot |-> None, home_score |-> 0, away_score |-> 0]
NoEvents == [i \in EventIds |-> None]

EffectiveRuleset(fx, cfg) ==
  resolve_ruleset(IF fx.ruleset_snapshot = None THEN cfg ELSE fx.ruleset_snapshot)

\* UPDATE ... WHERE ruleset_snapshot IS NULL
snapshot_ruleset(fx, rules) ==
  IF fx.ruleset_snapshot = None THEN [fx EXCEPT !.ruleset_snapshot = rules] ELSE fx

HasClubAccess(q, club) == q.role \in PLATFORM_OPS_ROLES \/ club \in q.manages

Goals(evs, club) ==
  Cardinality({i \in EventIds :
    evs[i] # None /\ evs[i].club = club
    /\ evs[i].event_type \in {"goal", "penalty_scored"}})
OwnGoals(evs, club) ==
  Cardinality({i \in EventIds :
    evs[i] # None /\ evs[i].club = club /\ evs[i].event_type = "own_goal"})

\* Own goals count for the other side.
HomeScore(evs) == Goals(evs, Home) + OwnGoals(evs, Away)
\* Mutant of AwayScore: the other side's own goals are taken away.
AwayScoreLessOwnGoals(evs) == Goals(evs, Away) - OwnGoals(evs, Home)
AwayScore(evs) == Goals(evs, Away) + OwnGoals(evs, Home)

recalculate_score(fx, evs) ==
  [fx EXCEPT !.home_score = HomeScore(evs), !.away_score = AwayScore(evs)]

ScoreMatches(fx, evs) ==
  fx.home_score = HomeScore(evs) /\ fx.away_score = AwayScore(evs)

Answers == {"ok", "replayed", "conflict", "policy", "forbidden", "bad_request",
            "not_found", "lost"}

\* A verdict that lets the handler write.
Plan == [answer : {"ok"}, rules : MatchRuleset \cup {None},
         overridden : BOOLEAN, auto_red : BOOLEAN]

Verdict(answer, rules, overridden, auto) ==
  [answer |-> answer, rules |-> rules, overridden |-> overridden, auto_red |-> auto]
Refuse(answer) == Verdict(answer, None, FALSE, FALSE)

\* enforce_policy raises, or returns the overridden blocks.
Enforced(decisions, q, rules, auto) ==
  Verdict(enforce_policy(decisions, q), rules, Blocks(decisions) # {}, auto)

\* Mutant of AuditOf: an override is recorded in place of the action.
AuditOfOverride(action, entity, r, overridden) ==
  {[action |-> IF overridden THEN "policy.override" ELSE action,
    entity |-> entity, by |-> r]}
AuditOf(action, entity, r, overridden) ==
  {[action |-> action, entity |-> entity, by |-> r]}
  \cup IF overridden
       THEN {[action |-> "policy.override", entity |-> entity, by |-> r]} ELSE {}

-------------------------------------------------------------------------------
(* create_event *)

SameEvent(e, q) ==
  /\ e.player = q.player /\ e.club = q.club /\ e.event_type = q.event_type
  /\ e.minute = q.minute /\ e.description = q.description

WithKey(evs, key) == {i \in Recorded(evs) : key # None /\ evs[i].key = key}

\* belongs: whether the players row of q.player names q.club.
CreateVerdict(fx, evs, belongs, cfg, q, t) ==
  LET earlier == WithKey(evs, q.key)
      rules   == EffectiveRuleset(fx, cfg)
      eval    == evaluate_event(q, fx, evs, rules, t)
  IN  IF ~HasClubAccess(q, q.club) THEN Refuse("forbidden")
      ELSE IF q.club \notin Clubs \/ (q.player # None /\ ~belongs)
           THEN Refuse("bad_request")
      ELSE IF earlier # {}
           THEN Refuse(IF \A i \in earlier : SameEvent(evs[i], q)
                       THEN "replayed" ELSE "conflict")
      ELSE IF fx.status \notin {"live", "scheduled", "completed"}
           THEN Refuse("bad_request")
      ELSE Enforced(eval.decisions, q, rules, eval.auto_red)

\* began: NOW() is the start of the transaction, so of the wait for the lock.
NewEvent(q, began) ==
  [club |-> q.club, player |-> q.player, event_type |-> q.event_type,
   minute |-> q.minute, description |-> q.description, key |-> q.key,
   source |-> None, created_at |-> began]

AutoRed(e, r) ==
  [e EXCEPT !.key = None, !.source = <<r, "main">>, !.event_type = "red_card",
            !.description = "automatic"]

EventsAfterCreate(evs, r, q, auto, began) ==
  [i \in EventIds |-> IF i = <<r, "main">> THEN NewEvent(q, began)
                      ELSE IF i = <<r, "auto">> /\ auto
                           THEN AutoRed(NewEvent(q, began), r)
                      ELSE evs[i]]

\* The first event kicks a scheduled match live.
RowAfterCreate(fx, rules, evsAfter) ==
  LET frozen == snapshot_ruleset(fx, rules)
  IN  recalculate_score(
        [frozen EXCEPT !.status = IF @ = "scheduled" THEN "live" ELSE @], evsAfter)

-------------------------------------------------------------------------------
(* delete_event; the source_event_id foreign key cascades *)

DeleteVerdict(fx, evs, cfg, q) ==
  LET rules == EffectiveRuleset(fx, cfg)
  IN  IF evs[q.target] = None THEN Refuse("not_found")
      ELSE IF ~HasClubAccess(q, evs[q.target].club) THEN Refuse("forbidden")
      ELSE Enforced(evaluate_event_deletion(fx, rules), q, rules, FALSE)

\* Mutant of EventsAfterDelete: the foreign key does not cascade.
EventsAfterLoneDelete(evs, id) == [evs EXCEPT ![id] = None]
EventsAfterDelete(evs, id) ==
  [i \in EventIds |-> IF i = id \/ (evs[i] # None /\ evs[i].source = id)
                      THEN None ELSE evs[i]]

-------------------------------------------------------------------------------
(* update_clock and update_fixture *)

ClockVerdict(fx, cfg, q) ==
  LET rules == EffectiveRuleset(fx, cfg)
      v     == Enforced(evaluate_clock(q.action, fx, rules), q, rules, FALSE)
  IN  IF v.answer = "ok" /\ ClockActionInvalid(fx, q)
      THEN Refuse("bad_request") ELSE v

\* Mutant of RowAfterClock: the rules are not frozen.
RowAfterClockUnfrozen(fx, rules, q, t) == apply_clock_action(fx, q, t)
RowAfterClock(fx, rules, q, t) ==
  apply_clock_action(snapshot_ruleset(fx, rules), q, t)

UpdateVerdict(q) ==
  IF q.status \in {"live", "completed"} THEN Refuse("bad_request")
  ELSE Verdict("ok", None, FALSE, FALSE)

\* Mutant of RowAfterUpdate: rescheduling forgets the frozen rules.
RowAfterReschedule(fx, q) ==
  IF q.status = None THEN fx
  ELSE [fx EXCEPT !.status = q.status,
                  !.ruleset_snapshot = IF q.status = "scheduled" THEN None ELSE @]

\* Date, time, venue and round are left out; the router never sees "completed".
RowAfterUpdate(fx, q) ==
  IF q.status = None THEN fx ELSE [fx EXCEPT !.status = q.status]
===============================================================================
