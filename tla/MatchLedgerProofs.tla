--------------------------- MODULE MatchLedgerProofs --------------------------
(* Proofs about MatchLedger, for any requests, clubs, players, payloads,     *)
(* rulesets and instants: what the rows of a fixture satisfy, and what a     *)
(* step may never do.                                                        *)
EXTENDS MatchLedger, FixtureOpsProofs

-------------------------------------------------------------------------------
(* What a step changes *)

LEMMA PastIsNat == LedgerTypeOK => Past \subseteq Nat
BY InstantsTyped DEF Past

\* What a step that stores an event relies on and leaves.
Created(r, q, v, began) ==
  /\ q \in CreatePayload /\ q.club \in Clubs
  /\ fixture \in FixtureRow /\ Unserved(r)
  /\ v \in Plan /\ v.rules \in MatchRuleset /\ began \in Nat
  /\ JudgesLike(v.rules, snapshot_ruleset(fixture, v.rules).ruleset_snapshot)
  /\ v.auto_red <=> /\ SecondYellow(q, events)
                    /\ v.rules.second_yellow_policy = "auto_red"
  /\ ~v.overridden => /\ ~SubstitutionLimitReached(q, events, v.rules)
                      /\ ~(/\ AtFullTime(fixture)
                           /\ v.rules.events_after_ft = "block")
  /\ events' = EventsAfterCreate(events, r, q, v.auto_red, began)
  /\ fixture' = RowAfterCreate(fixture, v.rules, events')
  /\ audit' = audit \cup AuditOf("event.create", <<r, "main">>, r, v.overridden)
  /\ now' = now

LEMMA CreateStep ==
  ASSUME LedgerTypeOK, NEW r \in Requests, NEW q \in Payloads, CreateEvent(r, q)
  PROVE  \E v \in Plan, began \in Nat : Created(r, q, v, began)
<1>1. PICK cfg \in Configs, began \in Past, t \in Past, judged \in Judged(q) :
        LET v == CreateVerdict(fixture, events, TRUE, cfg, judged, t)
        IN  /\ v.answer = "ok"
            /\ events' = EventsAfterCreate(events, r, q, v.auto_red, began)
            /\ fixture' = RowAfterCreate(fixture, v.rules, events')
            /\ audit' = audit \cup AuditOf("event.create", <<r, "main">>, r,
                                           v.overridden)
  BY DEF CreateEvent
<1> DEFINE belongs == TRUE
           v == CreateVerdict(fixture, events, belongs, cfg, judged, t)
           rules == EffectiveRuleset(fixture, cfg)
<1>2. /\ v = CreateVerdict(fixture, events, belongs, cfg, judged, t)
      /\ rules = EffectiveRuleset(fixture, cfg)
      /\ v.answer = "ok"
      /\ events' = EventsAfterCreate(events, r, q, v.auto_red, began)
      /\ fixture' = RowAfterCreate(fixture, v.rules, events')
      /\ audit' = audit \cup AuditOf("event.create", <<r, "main">>, r, v.overridden)
  BY <1>1
<1>3. /\ q \in CreatePayload /\ fixture \in FixtureRow /\ Unserved(r)
      /\ now' = now /\ began \in Nat
  BY PayloadByOp, PastIsNat DEF CreateEvent, LedgerTypeOK
<1>4. /\ judged.club = q.club /\ judged.player = q.player
      /\ judged.event_type = q.event_type
  BY <1>3 DEF Judged, CreatePayload
<1>5. JudgesLike(rules, snapshot_ruleset(fixture, rules).ruleset_snapshot)
  BY <1>3, JudgedByFrozen
<1>6. v.rules = rules
  BY <1>2 DEF CreateVerdict, Enforced, Refuse, Verdict
<1> HIDE DEF v, rules, belongs
<1>7. v \in Plan /\ rules \in MatchRuleset /\ judged.club \in Clubs
  BY <1>2, <1>3, CreateAllowed
<1>8. v.auto_red <=> /\ SecondYellow(judged, events)
                     /\ rules.second_yellow_policy = "auto_red"
  BY <1>2, <1>3, CreateAllowed
<1>9. ~v.overridden => /\ ~SubstitutionLimitReached(judged, events, rules)
                       /\ ~(/\ AtFullTime(fixture)
                            /\ rules.events_after_ft = "block")
  BY <1>2, <1>3, CreateAllowed
<1>10. /\ SecondYellow(judged, events) = SecondYellow(q, events)
      /\ SubstitutionLimitReached(judged, events, rules)
           = SubstitutionLimitReached(q, events, rules)
  BY <1>4 DEF SecondYellow, SubstitutionLimitReached
<1>11. Created(r, q, v, began)
  BY <1>2, <1>3, <1>4, <1>5, <1>6, <1>7, <1>8, <1>9, <1>10
  DEF Created
<1> QED BY <1>3, <1>7, <1>11

Deleted(r, q, v) ==
  /\ q \in DeletePayload
  /\ fixture \in FixtureRow /\ Unserved(r) /\ events[q.target] # None
  /\ v \in Plan /\ v.rules \in MatchRuleset
  /\ JudgesLike(v.rules, snapshot_ruleset(fixture, v.rules).ruleset_snapshot)
  /\ ~v.overridden => ~(/\ AtFullTime(fixture)
                        /\ v.rules.events_after_ft = "block")
  /\ events' = EventsAfterDelete(events, q.target)
  /\ fixture' = recalculate_score(fixture, events')
  /\ audit' = audit \cup AuditOf("event.delete", q.target, r, v.overridden)
  /\ now' = now

LEMMA DeleteStep ==
  ASSUME LedgerTypeOK, NEW r \in Requests, NEW q \in Payloads, DeleteEvent(r, q)
  PROVE  \E v \in Plan : Deleted(r, q, v)
<1>1. PICK cfg \in Configs :
        LET v == DeleteVerdict(fixture, events, cfg, q)
        IN  /\ v.answer = "ok"
            /\ events' = EventsAfterDelete(events, q.target)
            /\ fixture' = recalculate_score(fixture, events')
            /\ audit' = audit \cup AuditOf("event.delete", q.target, r, v.overridden)
  BY DEF DeleteEvent
<1> DEFINE v == DeleteVerdict(fixture, events, cfg, q)
           rules == EffectiveRuleset(fixture, cfg)
<1>2. q \in DeletePayload /\ fixture \in FixtureRow /\ Unserved(r) /\ now' = now
  BY PayloadByOp DEF DeleteEvent, LedgerTypeOK
<1>3. /\ v \in Plan /\ v.rules = rules /\ rules \in MatchRuleset
      /\ events[q.target] # None
      /\ ~v.overridden => ~(/\ AtFullTime(fixture)
                            /\ rules.events_after_ft = "block")
  BY <1>1, <1>2, DeleteAllowed
<1>4. JudgesLike(rules, snapshot_ruleset(fixture, rules).ruleset_snapshot)
  BY <1>2, JudgedByFrozen
<1>5. /\ events' = EventsAfterDelete(events, q.target)
      /\ fixture' = recalculate_score(fixture, events')
      /\ audit' = audit \cup AuditOf("event.delete", q.target, r, v.overridden)
  BY <1>1
<1> HIDE DEF v, rules
<1>6. Deleted(r, q, v)
  BY <1>2, <1>3, <1>4, <1>5 DEF Deleted
<1> QED BY <1>3, <1>6

Clocked(r, q, v, t) ==
  /\ q \in ClockPayload /\ t \in Nat
  /\ fixture \in FixtureRow /\ Unserved(r)
  /\ v \in Plan /\ v.rules \in MatchRuleset
  /\ JudgesLike(v.rules, snapshot_ruleset(fixture, v.rules).ruleset_snapshot)
  /\ ~ClockActionInvalid(fixture, q)
  /\ ~v.overridden /\ v.rules.clock_transitions = "strict"
     /\ q.action \in ClockTransitions => ValidTransition(q.action, fixture)
  /\ fixture' = RowAfterClock(fixture, v.rules, q, t)
  /\ audit' = audit \cup AuditOf("clock", None, r, v.overridden)
  /\ events' = events /\ now' = now

LEMMA ClockStep ==
  ASSUME LedgerTypeOK, NEW r \in Requests, NEW q \in Payloads, UpdateClock(r, q)
  PROVE  \E v \in Plan, t \in Nat : Clocked(r, q, v, t)
<1>1. PICK cfg \in Configs, t \in Past :
        LET v == ClockVerdict(fixture, cfg, q)
        IN  /\ v.answer = "ok"
            /\ fixture' = RowAfterClock(fixture, v.rules, q, t)
            /\ audit' = audit \cup AuditOf("clock", None, r, v.overridden)
  BY DEF UpdateClock
<1> DEFINE v == ClockVerdict(fixture, cfg, q)
           rules == EffectiveRuleset(fixture, cfg)
<1>2. /\ q \in ClockPayload /\ fixture \in FixtureRow /\ Unserved(r)
      /\ events' = events /\ now' = now /\ t \in Nat
  BY PayloadByOp, PastIsNat DEF UpdateClock, LedgerTypeOK
<1>3. /\ v \in Plan /\ v.rules = rules /\ rules \in MatchRuleset
      /\ ~ClockActionInvalid(fixture, q)
      /\ ~v.overridden /\ rules.clock_transitions = "strict"
         /\ q.action \in ClockTransitions => ValidTransition(q.action, fixture)
  BY <1>1, <1>2, ClockAllowed
<1>4. JudgesLike(rules, snapshot_ruleset(fixture, rules).ruleset_snapshot)
  BY <1>2, JudgedByFrozen
<1>5. /\ fixture' = RowAfterClock(fixture, v.rules, q, t)
      /\ audit' = audit \cup AuditOf("clock", None, r, v.overridden)
  BY <1>1
<1> HIDE DEF v, rules
<1>6. Clocked(r, q, v, t)
  BY <1>2, <1>3, <1>4, <1>5 DEF Clocked
<1> QED BY <1>2, <1>3, <1>6

Updated(r, q) ==
  /\ q \in UpdatePayload /\ fixture \in FixtureRow /\ Unserved(r)
  /\ q.status \notin {"live", "completed"}
  /\ fixture' = RowAfterUpdate(fixture, q)
  /\ audit' = audit \cup {[action |-> "fixture.update", entity |-> None, by |-> r]}
  /\ events' = events /\ now' = now

LEMMA UpdateStep ==
  ASSUME LedgerTypeOK, NEW r \in Requests, NEW q \in Payloads, UpdateFixture(r, q)
  PROVE  Updated(r, q)
BY PayloadByOp DEF UpdateFixture, Updated, UpdateVerdict, Refuse, Verdict, AuditOf,
                   LedgerTypeOK

Idle == /\ UNCHANGED <<fixture, events, audit>>
        /\ now' = now \/ (now' \in Instants /\ now' > now)

\* What any step does, in these terms.
LedgerStep ==
  \/ \E r \in Requests, q \in Payloads, v \in Plan, t \in Nat :
       Created(r, q, v, t) \/ Clocked(r, q, v, t)
  \/ \E r \in Requests, q \in Payloads, v \in Plan : Deleted(r, q, v)
  \/ \E r \in Requests, q \in Payloads : Updated(r, q)
  \/ DeleteFixture
  \/ \E p \in Players : ForgetPlayer(p)
  \/ Idle

LEMMA StepsAreLedgerSteps ==
  ASSUME LedgerTypeOK, [LedgerNext]_ledgerVars
  PROVE  LedgerStep
<1>1. CASE \E r \in Requests, q \in Payloads : CreateEvent(r, q)
  BY <1>1, CreateStep DEF LedgerStep
<1>2. CASE \E r \in Requests, q \in Payloads : DeleteEvent(r, q)
  BY <1>2, DeleteStep DEF LedgerStep
<1>3. CASE \E r \in Requests, q \in Payloads : UpdateClock(r, q)
  BY <1>3, ClockStep DEF LedgerStep
<1>4. CASE \E r \in Requests, q \in Payloads : UpdateFixture(r, q)
  BY <1>4, UpdateStep DEF LedgerStep
<1>5. CASE Tick \/ UNCHANGED ledgerVars
  <2>1. Idle
    BY <1>5 DEF Idle, Tick, ledgerVars
  <2> QED BY <2>1 DEF LedgerStep
<1>6. CASE DeleteFixture \/ \E p \in Players : ForgetPlayer(p)
  BY <1>6 DEF LedgerStep
<1> QED BY <1>1, <1>2, <1>3, <1>4, <1>5, <1>6 DEF LedgerNext

-------------------------------------------------------------------------------
(* Rows *)

LEMMA CreatedRow ==
  ASSUME NEW fx \in FixtureRow, NEW rules \in MatchRuleset, NEW evs
  PROVE  LET g == RowAfterCreate(fx, rules, evs)
         IN  /\ g \in FixtureRow /\ ScoreMatches(g, evs)
             /\ g.status = IF fx.status = "scheduled" THEN "live" ELSE fx.status
             /\ g.period = fx.period
             /\ g.period_started_at = fx.period_started_at
             /\ g.period_base_minute = fx.period_base_minute
             /\ g.stoppage_minutes = fx.stoppage_minutes
             /\ g.ruleset_snapshot = snapshot_ruleset(fx, rules).ruleset_snapshot
<1>1. /\ RowAfterCreate(fx, rules, evs) \in FixtureRow
      /\ ScoreMatches(RowAfterCreate(fx, rules, evs), evs)
  BY RowAfterCreateType
<1> QED BY <1>1 DEF RowAfterCreate, snapshot_ruleset, recalculate_score, FixtureRow

\* Freezing gives a fixture rules and leaves those it has.
LEMMA FrozenSnapshot ==
  ASSUME NEW fx \in FixtureRow, NEW rules \in MatchRuleset
  PROVE  LET frozen == snapshot_ruleset(fx, rules)
         IN  /\ frozen \in FixtureRow /\ frozen.ruleset_snapshot \in MatchRuleset
             /\ frozen.ruleset_snapshot # None
             /\ fx.ruleset_snapshot # None =>
                  frozen.ruleset_snapshot = fx.ruleset_snapshot
             /\ frozen.status = fx.status /\ frozen.period = fx.period
             /\ frozen.period_started_at = fx.period_started_at
             /\ frozen.stoppage_minutes = fx.stoppage_minutes
BY NullIsNoValue DEF snapshot_ruleset, FixtureRow

LEMMA RecalculatedRow ==
  ASSUME NEW fx \in FixtureRow, NEW evs
  PROVE  LET g == recalculate_score(fx, evs)
         IN  /\ g \in FixtureRow /\ ScoreMatches(g, evs)
             /\ g.status = fx.status /\ g.period = fx.period
             /\ g.period_started_at = fx.period_started_at
             /\ g.period_base_minute = fx.period_base_minute
             /\ g.stoppage_minutes = fx.stoppage_minutes
             /\ g.ruleset_snapshot = fx.ruleset_snapshot
BY RecalculateType DEF recalculate_score, FixtureRow

LEMMA UpdatedRow ==
  ASSUME NEW fx \in FixtureRow, NEW q \in UpdatePayload
  PROVE  LET g == RowAfterUpdate(fx, q)
         IN  /\ g \in FixtureRow
             /\ g.status = IF q.status = None THEN fx.status ELSE q.status
             /\ g.period = fx.period
             /\ g.period_started_at = fx.period_started_at
             /\ g.period_base_minute = fx.period_base_minute
             /\ g.stoppage_minutes = fx.stoppage_minutes
             /\ g.ruleset_snapshot = fx.ruleset_snapshot
             /\ g.home_score = fx.home_score /\ g.away_score = fx.away_score
BY DEF RowAfterUpdate, FixtureRow, UpdatePayload

\* The columns a clock action leaves: a half begins, the clock stops, or the
\* half that ticks goes on.
LEMMA ClockedRow ==
  ASSUME NEW fx \in FixtureRow, NEW rules \in MatchRuleset, NEW q \in ClockPayload,
         NEW t \in Nat, ~ClockActionInvalid(fx, q)
  PROVE  LET g == RowAfterClock(fx, rules, q, t)
         IN  /\ g \in FixtureRow
             /\ g.home_score = fx.home_score /\ g.away_score = fx.away_score
             /\ g.ruleset_snapshot = snapshot_ruleset(fx, rules).ruleset_snapshot
             /\ \/ /\ q.action \in {"start_1h", "start_2h"} /\ g.status = "live"
                   /\ g.period = IF q.action = "start_1h" THEN "first_half"
                                 ELSE "second_half"
                   /\ g.period_started_at = t /\ g.stoppage_minutes = None
                \/ /\ q.action = "ht" /\ g.status = "live" /\ g.period = "half_time"
                   /\ g.period_started_at = None /\ g.stoppage_minutes = None
                \/ /\ q.action = "ft" /\ g.status = "completed"
                   /\ g.period = "full_time"
                   /\ g.period_started_at = None /\ g.stoppage_minutes = None
                \/ /\ q.action \notin ClockTransitions
                   /\ fx.period \in TICKING_PERIODS
                   /\ g.status = fx.status /\ g.period = fx.period
                   /\ g.period_started_at = t
                      \/ g.period_started_at = fx.period_started_at
<1> DEFINE frozen == snapshot_ruleset(fx, rules)
           g == RowAfterClock(fx, rules, q, t)
<1>1. /\ frozen \in FixtureRow /\ frozen.status = fx.status
      /\ frozen.period = fx.period
      /\ frozen.period_started_at = fx.period_started_at
      /\ frozen.home_score = fx.home_score /\ frozen.away_score = fx.away_score
  BY FrozenSnapshot, SnapshotType
<1>2. g = apply_clock_action(frozen, q, t)
  BY DEF RowAfterClock
<1> HIDE DEF frozen
<1>3. /\ g \in FixtureRow
      /\ g.home_score = fx.home_score /\ g.away_score = fx.away_score
  BY <1>1, <1>2, ClockActionType DEF ClockActionInvalid
<1>4. CASE q.action = "start_1h"
  <2>1. g = StartHalf(frozen, "first_half", 0, t)
    BY <1>2, <1>4 DEF apply_clock_action
  <2>2. /\ g.status = "live" /\ g.period = "first_half"
        /\ g.period_started_at = t /\ g.stoppage_minutes = None
        /\ g.ruleset_snapshot = frozen.ruleset_snapshot
    BY <1>1, <2>1 DEF StartHalf, FixtureRow
  <2> QED BY <1>3, <1>4, <2>2 DEF frozen
<1>5. CASE q.action = "start_2h"
  <2>1. g = StartHalf(frozen, "second_half", 45, t)
    BY <1>2, <1>5 DEF apply_clock_action
  <2>2. /\ g.status = "live" /\ g.period = "second_half"
        /\ g.period_started_at = t /\ g.stoppage_minutes = None
        /\ g.ruleset_snapshot = frozen.ruleset_snapshot
    BY <1>1, <2>1 DEF StartHalf, FixtureRow
  <2> QED BY <1>3, <1>5, <2>2 DEF frozen
<1>6. CASE q.action = "ht"
  <2>1. g = StopClock(frozen, "live", "half_time")
    BY <1>2, <1>6 DEF apply_clock_action
  <2>2. /\ g.status = "live" /\ g.period = "half_time"
        /\ g.period_started_at = None /\ g.stoppage_minutes = None
        /\ g.ruleset_snapshot = frozen.ruleset_snapshot
    BY <1>1, <2>1 DEF StopClock, FixtureRow
  <2> QED BY <1>3, <1>6, <2>2 DEF frozen
<1>7. CASE q.action = "ft"
  <2>1. g = StopClock(frozen, "completed", "full_time")
    BY <1>2, <1>7 DEF apply_clock_action
  <2>2. /\ g.status = "completed" /\ g.period = "full_time"
        /\ g.period_started_at = None /\ g.stoppage_minutes = None
        /\ g.ruleset_snapshot = frozen.ruleset_snapshot
    BY <1>1, <2>1 DEF StopClock, FixtureRow
  <2> QED BY <1>3, <1>7, <2>2 DEF frozen
<1>8. CASE q.action \in {"nudge", "set_stoppage"}
  <2>1. fx.period \in TICKING_PERIODS
    BY <1>8 DEF ClockActionInvalid
  <2>2. \/ g = [frozen EXCEPT !.period_base_minute = q.minute,
                              !.period_started_at = t]
        \/ g = [frozen EXCEPT !.stoppage_minutes = q.stoppage]
    BY <1>2, <1>8 DEF apply_clock_action
  <2>3. /\ g.status = fx.status /\ g.period = fx.period
        /\ g.period_started_at = t \/ g.period_started_at = fx.period_started_at
        /\ g.ruleset_snapshot = frozen.ruleset_snapshot
    BY <1>1, <2>2 DEF FixtureRow
  <2>4. q.action \notin ClockTransitions
    BY <1>8 DEF ClockTransitions
  <2> QED BY <1>3, <2>1, <2>3, <2>4 DEF frozen
<1>9. q.action \in {"start_1h", "ht", "start_2h", "ft", "nudge", "set_stoppage"}
  BY DEF ClockPayload, ClockActions, ClockTransitions
<1> QED BY <1>4, <1>5, <1>6, <1>7, <1>8, <1>9

-------------------------------------------------------------------------------
(* Events *)

LEMMA CreatedEvents ==
  ASSUME NEW evs \in EventTable, NEW r \in Requests, NEW q \in CreatePayload,
         q.club \in Clubs, NEW auto, NEW began \in Nat
  PROVE  LET after == EventsAfterCreate(evs, r, q, auto, began)
             main  == after[<<r, "main">>]
             red   == after[<<r, "auto">>]
         IN  /\ after \in EventTable
             /\ main # None /\ main.source = None /\ main.club = q.club
             /\ main.event_type = q.event_type /\ main.player = q.player
             /\ auto => /\ red # None /\ red.source = <<r, "main">>
                        /\ red.event_type = "red_card" /\ red.player = q.player
             /\ ~auto => red = evs[<<r, "auto">>]
             /\ \A i \in EventIds : i \notin {<<r, "main">>, <<r, "auto">>}
                                      => after[i] = evs[i]
<1> DEFINE e == NewEvent(q, began)
           after == EventsAfterCreate(evs, r, q, auto, began)
<1>1. after \in EventTable
  BY EventsAfterCreateType
<1>2. e \in EventRow /\ AutoRed(e, r) \in EventRow
  BY NewEventType, AutoRedType
<1>3. e # None /\ AutoRed(e, r) # None
  BY <1>2, NullIsNoRow
<1>4. /\ <<r, "main">> \in EventIds /\ <<r, "auto">> \in EventIds
      /\ <<r, "main">> # <<r, "auto">>
  BY DEF EventIds
<1>5. /\ e.source = None /\ e.club = q.club /\ e.event_type = q.event_type
      /\ e.player = q.player
  BY DEF NewEvent
<1>6. /\ AutoRed(e, r).source = <<r, "main">> /\ AutoRed(e, r).player = q.player
      /\ AutoRed(e, r).event_type = "red_card"
  BY <1>2, <1>5 DEF AutoRed, EventRow
<1>7. /\ after[<<r, "main">>] = e
      /\ after[<<r, "auto">>] = IF auto THEN AutoRed(e, r) ELSE evs[<<r, "auto">>]
      /\ \A i \in EventIds : i \notin {<<r, "main">>, <<r, "auto">>}
                               => after[i] = evs[i]
  BY <1>4 DEF EventsAfterCreate
<1> HIDE DEF after, e
<1> QED BY <1>1, <1>3, <1>5, <1>6, <1>7 DEF after

\* The table after a creation: the new event, perhaps its red card, all else kept.
LEMMA CreatedTable ==
  ASSUME LedgerTypeOK, NEW r \in Requests, NEW q, NEW v, NEW t, Created(r, q, v, t)
  PROVE  /\ events \in EventTable /\ events' \in EventTable
         /\ events'[<<r, "main">>] # None /\ events'[<<r, "main">>].source = None
         /\ events'[<<r, "main">>].club = q.club
         /\ events'[<<r, "main">>].player = q.player
         /\ events'[<<r, "main">>].event_type = q.event_type
         /\ v.auto_red => /\ events'[<<r, "auto">>] # None
                          /\ events'[<<r, "auto">>].source = <<r, "main">>
                          /\ events'[<<r, "auto">>].event_type = "red_card"
                          /\ events'[<<r, "auto">>].player = q.player
         /\ ~v.auto_red => events'[<<r, "auto">>] = events[<<r, "auto">>]
         /\ \A i \in EventIds : i \notin {<<r, "main">>, <<r, "auto">>}
                                  => events'[i] = events[i]
<1>1. /\ events \in EventTable /\ q \in CreatePayload /\ q.club \in Clubs
      /\ t \in Nat /\ events' = EventsAfterCreate(events, r, q, v.auto_red, t)
  BY DEF LedgerTypeOK, EventTable, Created
<1> DEFINE auto  == v.auto_red
           after == EventsAfterCreate(events, r, q, auto, t)
<1> HIDE DEF auto
<1>2. /\ after \in EventTable
      /\ after[<<r, "main">>] # None /\ after[<<r, "main">>].source = None
      /\ after[<<r, "main">>].club = q.club
      /\ after[<<r, "main">>].player = q.player
      /\ after[<<r, "main">>].event_type = q.event_type
      /\ auto => /\ after[<<r, "auto">>] # None
                 /\ after[<<r, "auto">>].source = <<r, "main">>
                 /\ after[<<r, "auto">>].event_type = "red_card"
                 /\ after[<<r, "auto">>].player = q.player
      /\ ~auto => after[<<r, "auto">>] = events[<<r, "auto">>]
      /\ \A i \in EventIds : i \notin {<<r, "main">>, <<r, "auto">>}
                               => after[i] = events[i]
  BY <1>1, CreatedEvents
<1>3. events' = after
  BY <1>1 DEF auto
<1> HIDE DEF after
<1> QED BY <1>1, <1>2, <1>3 DEF auto

LEMMA DeletedEvents ==
  ASSUME NEW evs \in EventTable, NEW id
  PROVE  LET after == EventsAfterDelete(evs, id)
         IN  /\ after \in EventTable
             /\ \A i \in EventIds :
                  /\ i = id => after[i] = None
                  /\ evs[i] # None /\ evs[i].source = id => after[i] = None
                  /\ evs[i] = None => after[i] = None
                  /\ evs[i] # None /\ i # id /\ evs[i].source # id => after[i] = evs[i]
BY EventsAfterDeleteType DEF EventsAfterDelete

\* A row whose player is forgotten is otherwise as it was.
LEMMA ForgottenEvents ==
  ASSUME LedgerTypeOK, NEW p \in Players, ForgetPlayer(p)
  PROVE  /\ events' \in EventTable /\ SameTally(events', events)
<1>1. events \in EventTable
  BY DEF LedgerTypeOK, EventTable
<1>2. ASSUME NEW e \in EventRow
      PROVE  /\ [e EXCEPT !.player = None] \in EventRow
             /\ [e EXCEPT !.player = None].club = e.club
             /\ [e EXCEPT !.player = None].event_type = e.event_type
             /\ [e EXCEPT !.player = None].source = e.source
  BY DEF EventRow
<1>3. events' = [i \in EventIds |->
                   IF events[i] # None /\ events[i].player = p
                   THEN [events[i] EXCEPT !.player = None] ELSE events[i]]
  BY DEF ForgetPlayer
<1>4. ASSUME NEW i \in EventIds
      PROVE  /\ events'[i] \in EventRow \cup {None}
             /\ events'[i] = None <=> events[i] = None
             /\ events'[i] # None => /\ events'[i].club = events[i].club
                                     /\ events'[i].event_type = events[i].event_type
                                     /\ events'[i].source = events[i].source
  <2>1. CASE events[i] # None /\ events[i].player = p
    <3>1. events[i] \in EventRow
      BY <1>1, <2>1 DEF EventTable
    <3>2. events'[i] = [events[i] EXCEPT !.player = None]
      BY <1>3, <2>1
    <3> QED BY <1>2, <2>1, <3>1, <3>2, NullIsNoRow
  <2>2. CASE ~(events[i] # None /\ events[i].player = p)
    <3>1. events'[i] = events[i]
      BY <1>3, <2>2
    <3> QED BY <1>1, <3>1 DEF EventTable
  <2> QED BY <2>1, <2>2
<1>5. DOMAIN events' = EventIds /\ events' = [i \in EventIds |-> events'[i]]
  BY <1>3
<1> QED BY <1>4, <1>5 DEF EventTable, SameTally

-------------------------------------------------------------------------------
(* Types and the score *)

LEMMA NewRow == NewFixture \in FixtureRow /\ NoEvents \in EventTable
<1>1. "scheduled" \in Statuses
  BY DEF Statuses
<1> QED BY <1>1 DEF NewFixture, FixtureRow, NoEvents, EventTable

LEMMA NoEventsNoScore == HomeScore(NoEvents) = 0 /\ AwayScore(NoEvents) = 0
<1>1. ASSUME NEW club PROVE Goals(NoEvents, club) = 0 /\ OwnGoals(NoEvents, club) = 0
  <2>1. /\ {i \in EventIds : NoEvents[i] # None /\ NoEvents[i].club = club
              /\ NoEvents[i].event_type \in {"goal", "penalty_scored"}} = {}
        /\ {i \in EventIds : NoEvents[i] # None /\ NoEvents[i].club = club
              /\ NoEvents[i].event_type = "own_goal"} = {}
    BY DEF NoEvents
  <2> QED BY <2>1, FS_EmptySet DEF Goals, OwnGoals
<1> QED BY <1>1 DEF HomeScore, AwayScore

LEMMA AuditType ==
  ASSUME NEW r \in Requests, NEW overridden,
         NEW action \in {"event.create", "event.delete", "clock", "fixture.update"},
         NEW entity \in EventIds \cup {None}
  PROVE  AuditOf(action, entity, r, overridden) \subseteq AuditEntry
BY DEF AuditOf, AuditEntry

LEMMA RowsKept ==
  ASSUME LedgerTypeOK, ScoreMatchesEvents, LedgerStep
  PROVE  LedgerTypeOK' /\ ScoreMatchesEvents'
<1> USE DEF LedgerTypeOK, ScoreMatchesEvents
<1>0. events \in EventTable
  BY DEF EventTable
<1>1. ASSUME NEW r \in Requests, NEW q \in Payloads, NEW v \in Plan, NEW t \in Nat,
             Created(r, q, v, t)
      PROVE  LedgerTypeOK' /\ ScoreMatchesEvents'
  <2>1. <<r, "main">> \in EventIds /\ v.auto_red \in BOOLEAN
    BY DEF EventIds, Plan
  <2>2. events' \in EventTable
    BY <1>0, <1>1, <2>1, CreatedEvents DEF Created
  <2>3. fixture' \in FixtureRow /\ ScoreMatches(fixture', events')
    BY <1>1, RowAfterCreateType DEF Created
  <2>4. audit' \subseteq AuditEntry
    BY <1>1, <2>1, AuditType DEF Created
  <2> QED BY <1>1, <2>2, <2>3, <2>4 DEF EventTable, Created
<1>2. ASSUME NEW r \in Requests, NEW q \in Payloads, NEW v \in Plan, NEW t \in Nat,
             Clocked(r, q, v, t)
      PROVE  LedgerTypeOK' /\ ScoreMatchesEvents'
  <2>1. fixture' \in FixtureRow /\ ScoreMatches(fixture', events)
    <3>1. ScoreMatches(fixture, events)
      BY <1>2, NullIsNoRow DEF Clocked
    <3>2. q.action = "nudge" => q.minute # None
      BY <1>2 DEF Clocked, ClockActionInvalid
    <3> QED BY <1>2, <3>1, <3>2, RowAfterClockType DEF Clocked
  <2>2. audit' \subseteq AuditEntry
    BY <1>2, AuditType DEF Clocked
  <2> QED BY <1>2, <2>1, <2>2 DEF Clocked
<1>3. ASSUME NEW r \in Requests, NEW q \in Payloads, NEW v \in Plan, Deleted(r, q, v)
      PROVE  LedgerTypeOK' /\ ScoreMatchesEvents'
  <2>1. q.target \in EventIds
    BY <1>3 DEF Deleted, DeletePayload
  <2>2. events' \in EventTable
    BY <1>0, <1>3, DeletedEvents DEF Deleted
  <2>3. fixture' \in FixtureRow /\ ScoreMatches(fixture', events')
    BY <1>3, RecalculateType DEF Deleted
  <2>4. audit' \subseteq AuditEntry
    BY <1>3, <2>1, AuditType DEF Deleted
  <2> QED BY <1>3, <2>2, <2>3, <2>4 DEF EventTable, Deleted
<1>4. ASSUME NEW r \in Requests, NEW q \in Payloads, Updated(r, q)
      PROVE  LedgerTypeOK' /\ ScoreMatchesEvents'
  <2>1. fixture' \in FixtureRow /\ ScoreMatches(fixture', events)
    <3>1. ScoreMatches(fixture, events)
      BY <1>4, NullIsNoRow DEF Updated
    <3> QED BY <1>4, <3>1, RowAfterUpdateType DEF Updated
  <2>2. audit' \subseteq AuditEntry
    BY <1>4 DEF Updated, AuditEntry
  <2> QED BY <1>4, <2>1, <2>2 DEF Updated
<1>5. CASE DeleteFixture
  BY <1>5, NewRow DEF DeleteFixture, EventTable
<1>6. ASSUME NEW p \in Players, ForgetPlayer(p)
      PROVE  LedgerTypeOK' /\ ScoreMatchesEvents'
  <2>1. events' \in EventTable /\ SameTally(events', events)
    BY <1>6, ForgottenEvents
  <2>2. HomeScore(events') = HomeScore(events) /\ AwayScore(events') = AwayScore(events)
    BY <2>1, TallyDecidesScore
  <2> QED BY <1>6, <2>1, <2>2 DEF ForgetPlayer, EventTable, ScoreMatches
<1>7. CASE Idle
  BY <1>7 DEF Idle
<1> QED BY <1>1, <1>2, <1>3, <1>4, <1>5, <1>6, <1>7 DEF LedgerStep

-------------------------------------------------------------------------------
(* The fixture row *)

ColumnsAgree == KickoffFreezesRules /\ ClockColumnsAgree

LEMMA NoPeriod ==
  /\ None \notin TICKING_PERIODS
  /\ \A t \in Nat : t # None
BY NullIsNoValue DEF TICKING_PERIODS, Periods

LEMMA ColumnsKept ==
  ASSUME LedgerTypeOK, ColumnsAgree, LedgerStep
  PROVE  ColumnsAgree'
<1> USE DEF ColumnsAgree, KickoffFreezesRules, ClockColumnsAgree
<1>0. events \in EventTable
  BY DEF LedgerTypeOK, EventTable
<1>1. ASSUME NEW r \in Requests, NEW q \in Payloads, NEW v \in Plan, NEW t \in Nat,
             Created(r, q, v, t)
      PROVE  ColumnsAgree'
  <2>1. fixture \in FixtureRow /\ fixture # None /\ v.rules \in MatchRuleset
        /\ fixture' = RowAfterCreate(fixture, v.rules, events')
        /\ audit \subseteq audit'
    BY <1>1, NullIsNoRow DEF Created
  <2>2. /\ fixture'.status = IF fixture.status = "scheduled" THEN "live"
                             ELSE fixture.status
        /\ fixture'.period = fixture.period
        /\ fixture'.period_started_at = fixture.period_started_at
        /\ fixture'.stoppage_minutes = fixture.stoppage_minutes
        /\ fixture'.ruleset_snapshot # None
    BY <2>1, CreatedRow, FrozenSnapshot
  <2>3. KickoffFreezesRules'
    BY <2>2
  <2>4. ClockColumnsAgree'
    BY <2>1, <2>2
  <2> QED BY <2>3, <2>4
<1>2. ASSUME NEW r \in Requests, NEW q \in Payloads, NEW v \in Plan, NEW t \in Nat,
             Clocked(r, q, v, t)
      PROVE  ColumnsAgree'
  <2>1. /\ fixture \in FixtureRow /\ fixture # None /\ v.rules \in MatchRuleset
        /\ q \in ClockPayload /\ ~ClockActionInvalid(fixture, q) /\ t # None
        /\ fixture' = RowAfterClock(fixture, v.rules, q, t)
        /\ audit \subseteq audit'
    BY <1>2, NullIsNoRow, NoPeriod DEF Clocked
  <2>2. /\ fixture'.ruleset_snapshot # None
        /\ \/ /\ fixture'.status = "live" /\ fixture'.period \in TICKING_PERIODS
              /\ fixture'.period_started_at = t /\ fixture'.stoppage_minutes = None
           \/ /\ fixture'.status = "live" /\ fixture'.period = "half_time"
              /\ fixture'.period_started_at = None
              /\ fixture'.stoppage_minutes = None
           \/ /\ fixture'.status = "completed" /\ fixture'.period = "full_time"
              /\ fixture'.period_started_at = None
              /\ fixture'.stoppage_minutes = None
           \/ /\ fixture.period \in TICKING_PERIODS
              /\ fixture'.status = fixture.status /\ fixture'.period = fixture.period
              /\ fixture'.period_started_at \in {t, fixture.period_started_at}
    BY <1>2, <2>1, ClockedRow, FrozenSnapshot DEF TICKING_PERIODS, Clocked
  <2>3. KickoffFreezesRules'
    BY <2>2
  <2>4. ClockColumnsAgree'
    BY <2>1, <2>2 DEF TICKING_PERIODS
  <2> QED BY <2>3, <2>4
<1>3. ASSUME NEW r \in Requests, NEW q \in Payloads, NEW v \in Plan, Deleted(r, q, v)
      PROVE  ColumnsAgree'
  <2>1. /\ fixture \in FixtureRow /\ fixture # None /\ audit \subseteq audit'
        /\ fixture' = recalculate_score(fixture, events')
        /\ q.target \in Recorded(events)
    BY <1>0, <1>3, NullIsNoRow DEF Deleted, Recorded, DeletePayload, EventTable
  <2>2. /\ fixture'.status = fixture.status /\ fixture'.period = fixture.period
        /\ fixture'.period_started_at = fixture.period_started_at
        /\ fixture'.stoppage_minutes = fixture.stoppage_minutes
        /\ fixture'.ruleset_snapshot = fixture.ruleset_snapshot
    BY <2>1, RecalculatedRow
  <2>3. KickoffFreezesRules'
    BY <2>1, <2>2
  <2>4. ClockColumnsAgree'
    BY <2>1, <2>2
  <2> QED BY <2>3, <2>4
<1>4. ASSUME NEW r \in Requests, NEW q \in Payloads, Updated(r, q)
      PROVE  ColumnsAgree'
  <2>1. /\ fixture \in FixtureRow /\ fixture # None /\ q \in UpdatePayload
        /\ q.status \notin {"live", "completed"}
        /\ fixture' = RowAfterUpdate(fixture, q) /\ events' = events
    BY <1>4, NullIsNoRow DEF Updated
  <2>2. /\ fixture'.status = IF q.status = None THEN fixture.status ELSE q.status
        /\ fixture'.period = fixture.period
        /\ fixture'.period_started_at = fixture.period_started_at
        /\ fixture'.stoppage_minutes = fixture.stoppage_minutes
        /\ fixture'.ruleset_snapshot = fixture.ruleset_snapshot
    BY <2>1, UpdatedRow
  <2>3. KickoffFreezesRules'
    BY <2>1, <2>2
  <2>4. ClockColumnsAgree'
    BY <2>1, <2>2
  <2> QED BY <2>3, <2>4
<1>5. CASE DeleteFixture
  BY <1>5 DEF DeleteFixture
<1>6. ASSUME NEW p \in Players, ForgetPlayer(p)
      PROVE  ColumnsAgree'
  <2>1. /\ events' \in EventTable
        /\ \A i \in EventIds : events'[i] = None <=> events[i] = None
    BY <1>6, ForgottenEvents DEF SameTally
  <2>2. Recorded(events') = Recorded(events)
    BY <1>0, <2>1 DEF Recorded, EventTable
  <2>3. UNCHANGED <<fixture, audit>>
    BY <1>6 DEF ForgetPlayer
  <2> QED BY <2>2, <2>3
<1>7. CASE Idle
  BY <1>7 DEF Idle
<1> QED BY <1>1, <1>2, <1>3, <1>4, <1>5, <1>6, <1>7 DEF LedgerStep

-------------------------------------------------------------------------------
(* Events and the audit log *)

\* Every stored event belongs to a request that is in the audit log, and an
\* automatic red card to the yellow of the same request.
EventsTraced ==
  \A r \in Requests :
    LET main == events[<<r, "main">>]
        red  == events[<<r, "auto">>]
    IN  /\ main # None => fixture # None /\ ~Unserved(r) /\ main.source = None
        /\ red # None => /\ red.source = <<r, "main">>
                         /\ red.event_type = "red_card"
                         /\ main # None /\ main.event_type = "yellow_card"

\* An audited deletion is of an event that was there, and is there no more.
AuditTraced ==
  \A a \in audit :
    /\ a.action = "event.create" => a.entity = <<a.by, "main">>
    /\ a.action = "event.delete" =>
         /\ \E r \in Requests : /\ ~Unserved(r)
                                /\ a.entity \in {<<r, "main">>, <<r, "auto">>}
         /\ events[a.entity] = None

LEMMA IdsByRequest ==
  /\ \A r \in Requests : /\ <<r, "main">> \in EventIds /\ <<r, "auto">> \in EventIds
                         /\ <<r, "main">> # <<r, "auto">>
                         /\ <<r, "main">> # None /\ <<r, "auto">> # None
  /\ \A r, s \in Requests : r # s => /\ <<r, "main">> # <<s, "main">>
                                     /\ <<r, "main">> # <<s, "auto">>
                                     /\ <<r, "auto">> # <<s, "auto">>
  /\ \A i \in EventIds : \E r \in Requests : i \in {<<r, "main">>, <<r, "auto">>}
<1>1. \A r \in Requests : <<r, "main">> \in EventIds /\ <<r, "auto">> \in EventIds
  BY DEF EventIds
<1> QED BY <1>1, NullIsNoValue DEF EventIds

LEMMA AuditAdds ==
  ASSUME NEW action, NEW entity, NEW r, NEW overridden
  PROVE  LET added == AuditOf(action, entity, r, overridden)
         IN  /\ \E a \in added : a.action = action /\ a.entity = entity /\ a.by = r
             /\ \A a \in added :
                  /\ a.entity = entity /\ a.by = r
                  /\ a.action \in {action, "policy.override"}
             /\ overridden => \E a \in added : /\ a.action = "policy.override"
                                               /\ a.entity = entity
             /\ ~overridden => \A a \in added : a.action = action
<1> DEFINE done     == [action |-> action, entity |-> entity, by |-> r]
           override == [action |-> "policy.override", entity |-> entity, by |-> r]
<1>1. AuditOf(action, entity, r, overridden)
        = {done} \cup IF overridden THEN {override} ELSE {}
  BY DEF AuditOf
<1>2. /\ done.action = action /\ done.entity = entity /\ done.by = r
      /\ override.action = "policy.override" /\ override.entity = entity
      /\ override.by = r
  OBVIOUS
<1> HIDE DEF done, override
<1> QED BY <1>1, <1>2

LEMMA ServedStays ==
  ASSUME audit \subseteq audit'
  PROVE  \A r \in Requests : ~Unserved(r) => ~Unserved(r)'
BY DEF Unserved

LEMMA EventsKept ==
  ASSUME LedgerTypeOK, EventsTraced, LedgerStep
  PROVE  EventsTraced'
<1>0. events \in EventTable
  BY DEF LedgerTypeOK, EventTable
<1>1. ASSUME NEW r \in Requests, NEW q \in Payloads, NEW v \in Plan, NEW t \in Nat,
             Created(r, q, v, t)
      PROVE  EventsTraced'
  <2>1. /\ q \in CreatePayload /\ q.club \in Clubs /\ v.auto_red \in BOOLEAN
        /\ v.auto_red => q.event_type = "yellow_card"
        /\ events' = EventsAfterCreate(events, r, q, v.auto_red, t)
        /\ fixture' # None /\ Unserved(r) /\ audit \subseteq audit'
    <3>1. fixture' \in FixtureRow
      BY <1>1, RowAfterCreateType DEF Created
    <3> QED BY <1>1, <3>1, NullIsNoRow DEF Created, Plan, SecondYellow
  <2>2. ~Unserved(r)'
    BY <1>1, AuditAdds DEF Created, Unserved
  <2>3. /\ events'[<<r, "main">>] # None /\ events'[<<r, "main">>].source = None
        /\ events'[<<r, "main">>].event_type = q.event_type
        /\ v.auto_red => /\ events'[<<r, "auto">>].source = <<r, "main">>
                         /\ events'[<<r, "auto">>].event_type = "red_card"
        /\ ~v.auto_red => events'[<<r, "auto">>] = events[<<r, "auto">>]
        /\ \A i \in EventIds : i \notin {<<r, "main">>, <<r, "auto">>}
                                 => events'[i] = events[i]
    BY <1>1, CreatedTable
  <2>4. events[<<r, "auto">>] = None
    BY <2>1 DEF EventsTraced
  <2>5. ASSUME NEW s \in Requests, s # r
        PROVE  /\ events'[<<s, "main">>] = events[<<s, "main">>]
               /\ events'[<<s, "auto">>] = events[<<s, "auto">>]
    BY <2>3, <2>5, IdsByRequest
  <2> QED BY <2>1, <2>2, <2>3, <2>4, <2>5, ServedStays DEF EventsTraced
<1>2. ASSUME NEW r \in Requests, NEW q \in Payloads, NEW v \in Plan, NEW t \in Nat,
             Clocked(r, q, v, t)
      PROVE  EventsTraced'
  <2>1. fixture' \in FixtureRow
    BY <1>2, ClockedRow DEF Clocked
  <2> QED BY <1>2, <2>1, NullIsNoRow, ServedStays DEF Clocked, EventsTraced
<1>3. ASSUME NEW r \in Requests, NEW q \in Payloads, NEW v \in Plan, Deleted(r, q, v)
      PROVE  EventsTraced'
  <2>1. /\ events' = EventsAfterDelete(events, q.target) /\ q.target \in EventIds
        /\ audit \subseteq audit'
    BY <1>3 DEF Deleted, DeletePayload
  <2>2. fixture' # None
    BY <1>3, RecalculateType, NullIsNoRow DEF Deleted
  <2>3. \A i \in EventIds :
          /\ events[i] = None => events'[i] = None
          /\ events'[i] # None =>
               /\ events[i] # None /\ events'[i] = events[i]
               /\ i # q.target /\ events[i].source # q.target
          /\ events[i] # None /\ i # q.target /\ events[i].source # q.target
               => events'[i] = events[i]
    BY <1>0, <2>1, DeletedEvents
  <2>4. q.target # None
    BY <2>1, NullIsNoValue
  <2>5. ASSUME NEW s \in Requests, events'[<<s, "main">>] # None
        PROVE  ~Unserved(s)' /\ events'[<<s, "main">>].source = None
    <3>1. events[<<s, "main">>] # None /\ events'[<<s, "main">>] = events[<<s, "main">>]
      BY <2>3, <2>5, IdsByRequest
    <3> QED BY <2>1, <3>1, ServedStays DEF EventsTraced
  <2>6. ASSUME NEW s \in Requests, events'[<<s, "auto">>] # None
        PROVE  LET main == events'[<<s, "main">>]
                   red  == events'[<<s, "auto">>]
               IN  /\ red.source = <<s, "main">> /\ red.event_type = "red_card"
                   /\ main # None /\ main.event_type = "yellow_card"
    <3>1. /\ events[<<s, "auto">>] # None
          /\ events'[<<s, "auto">>] = events[<<s, "auto">>]
          /\ events[<<s, "auto">>].source # q.target
      BY <2>3, <2>6, IdsByRequest
    <3>2. /\ events[<<s, "auto">>].source = <<s, "main">>
          /\ events[<<s, "auto">>].event_type = "red_card"
          /\ events[<<s, "main">>] # None /\ events[<<s, "main">>].source = None
          /\ events[<<s, "main">>].event_type = "yellow_card"
      BY <3>1 DEF EventsTraced
    <3>3. events'[<<s, "main">>] = events[<<s, "main">>]
      BY <2>3, <2>4, <3>1, <3>2, IdsByRequest
    <3> QED BY <3>1, <3>2, <3>3
  <2> QED BY <2>2, <2>5, <2>6 DEF EventsTraced
<1>4. ASSUME NEW r \in Requests, NEW q \in Payloads, Updated(r, q)
      PROVE  EventsTraced'
  <2>1. fixture' \in FixtureRow
    BY <1>4, UpdatedRow DEF Updated
  <2> QED BY <1>4, <2>1, NullIsNoRow, ServedStays DEF Updated, EventsTraced
<1>5. CASE DeleteFixture
  BY <1>5, IdsByRequest DEF DeleteFixture, NoEvents, EventsTraced
<1>6. ASSUME NEW p \in Players, ForgetPlayer(p)
      PROVE  EventsTraced'
  <2>1. SameTally(events', events)
    BY <1>6, ForgottenEvents
  <2>2. UNCHANGED <<fixture, audit>>
    BY <1>6 DEF ForgetPlayer
  <2>3. \A i \in EventIds :
          events'[i] # None => /\ events[i] # None
                               /\ events'[i].event_type = events[i].event_type
                               /\ events'[i].source = events[i].source
    BY <2>1 DEF SameTally
  <2>4. \A i \in EventIds : events[i] # None => events'[i] # None
    BY <2>1 DEF SameTally
  <2>5. ASSUME NEW s \in Requests, events'[<<s, "main">>] # None
        PROVE  ~Unserved(s)' /\ fixture' # None /\ events'[<<s, "main">>].source = None
    BY <2>2, <2>3, <2>5, IdsByRequest, ServedStays DEF EventsTraced
  <2>6. ASSUME NEW s \in Requests, events'[<<s, "auto">>] # None
        PROVE  LET main == events'[<<s, "main">>]
                   red  == events'[<<s, "auto">>]
               IN  /\ red.source = <<s, "main">> /\ red.event_type = "red_card"
                   /\ main # None /\ main.event_type = "yellow_card"
    <3>1. /\ events[<<s, "auto">>] # None
          /\ events'[<<s, "auto">>].source = events[<<s, "auto">>].source
          /\ events'[<<s, "auto">>].event_type = events[<<s, "auto">>].event_type
      BY <2>3, <2>6, IdsByRequest
    <3>2. /\ events[<<s, "auto">>].source = <<s, "main">>
          /\ events[<<s, "auto">>].event_type = "red_card"
          /\ events[<<s, "main">>] # None
          /\ events[<<s, "main">>].event_type = "yellow_card"
      BY <3>1 DEF EventsTraced
    <3> QED BY <2>3, <2>4, <3>1, <3>2, IdsByRequest
  <2> QED BY <2>5, <2>6 DEF EventsTraced
<1>7. CASE Idle
  BY <1>7 DEF Idle, EventsTraced, Unserved
<1> QED BY <1>1, <1>2, <1>3, <1>4, <1>5, <1>6, <1>7 DEF LedgerStep

LEMMA AuditTracedKept ==
  ASSUME LedgerTypeOK, EventsTraced, AuditTraced, LedgerStep
  PROVE  AuditTraced'
<1>0. events \in EventTable
  BY DEF LedgerTypeOK, EventTable
\* It is enough that no audited event comes back and new entries are traced.
<1>1. ASSUME NEW added, audit' = audit \cup added,
             \A i \in EventIds : \A s \in Requests :
               ~Unserved(s) /\ i \in {<<s, "main">>, <<s, "auto">>}
               /\ events[i] = None => events'[i] = None,
             \A a \in added :
               /\ a.action = "event.create" => a.entity = <<a.by, "main">>
               /\ a.action = "event.delete" =>
                    /\ \E s \in Requests :
                         /\ ~Unserved(s)
                         /\ a.entity \in {<<s, "main">>, <<s, "auto">>}
                    /\ events'[a.entity] = None
      PROVE  AuditTraced'
  <2>1. \A s \in Requests : ~Unserved(s) => ~Unserved(s)'
    BY <1>1, ServedStays
  <2>2. ASSUME NEW a \in audit, a.action = "event.delete"
        PROVE  /\ \E s \in Requests : /\ ~Unserved(s)
                                      /\ a.entity \in {<<s, "main">>, <<s, "auto">>}
               /\ events'[a.entity] = None
    <3>1. PICK s \in Requests : ~Unserved(s) /\ a.entity \in {<<s, "main">>, <<s, "auto">>}
      BY <2>2 DEF AuditTraced
    <3>2. a.entity \in EventIds /\ events[a.entity] = None
      BY <2>2, <3>1, IdsByRequest DEF AuditTraced
    <3> QED BY <1>1, <3>1, <3>2
  <2>3. \A a \in audit : a.action = "event.create" => a.entity = <<a.by, "main">>
    BY DEF AuditTraced
  <2> QED BY <1>1, <2>1, <2>2, <2>3 DEF AuditTraced
<1>2. ASSUME NEW r \in Requests, NEW q \in Payloads, NEW v \in Plan, NEW t \in Nat,
             Created(r, q, v, t)
      PROVE  AuditTraced'
  <2> DEFINE added == AuditOf("event.create", <<r, "main">>, r, v.overridden)
  <2>1. \A a \in added : /\ a.entity = <<r, "main">> /\ a.by = r
                         /\ a.action \in {"event.create", "policy.override"}
    BY AuditAdds
  <2>2. \A i \in EventIds : i \notin {<<r, "main">>, <<r, "auto">>} =>
                              events'[i] = events[i]
    BY <1>2, CreatedTable
  <2>3. Unserved(r) /\ audit' = audit \cup added
    BY <1>2 DEF Created
  <2>4. \A i \in EventIds : \A s \in Requests :
          ~Unserved(s) /\ i \in {<<s, "main">>, <<s, "auto">>} => events'[i] = events[i]
    BY <2>2, <2>3, IdsByRequest
  <2> HIDE DEF added
  <2> QED BY <1>1, <2>1, <2>3, <2>4
<1>3. ASSUME NEW r \in Requests, NEW q \in Payloads, NEW v \in Plan, NEW t \in Nat,
             Clocked(r, q, v, t)
      PROVE  AuditTraced'
  <2> DEFINE added == AuditOf("clock", None, r, v.overridden)
  <2>1. \A a \in added : a.action \in {"clock", "policy.override"}
    BY AuditAdds
  <2>2. audit' = audit \cup added /\ events' = events
    BY <1>3 DEF Clocked
  <2> HIDE DEF added
  <2> QED BY <1>1, <2>1, <2>2
<1>4. ASSUME NEW r \in Requests, NEW q \in Payloads, NEW v \in Plan, Deleted(r, q, v)
      PROVE  AuditTraced'
  <2> DEFINE added == AuditOf("event.delete", q.target, r, v.overridden)
  <2>1. \A a \in added : /\ a.entity = q.target
                         /\ a.action \in {"event.delete", "policy.override"}
    BY AuditAdds
  <2>2. /\ audit' = audit \cup added /\ q.target \in EventIds
        /\ events[q.target] # None
    BY <1>4 DEF Deleted, DeletePayload
  <2>3. /\ events'[q.target] = None
        /\ \A i \in EventIds : events[i] = None => events'[i] = None
    BY <1>0, <1>4, <2>2, DeletedEvents DEF Deleted
  <2>4. \E s \in Requests : ~Unserved(s) /\ q.target \in {<<s, "main">>, <<s, "auto">>}
    BY <2>2, IdsByRequest DEF EventsTraced
  <2> HIDE DEF added
  <2> QED BY <1>1, <2>1, <2>2, <2>3, <2>4
<1>5. ASSUME NEW r \in Requests, NEW q \in Payloads, Updated(r, q)
      PROVE  AuditTraced'
  <2> DEFINE added == {[action |-> "fixture.update", entity |-> None, by |-> r]}
  <2>1. \A a \in added : a.action = "fixture.update"
    OBVIOUS
  <2>2. audit' = audit \cup added /\ events' = events
    BY <1>5 DEF Updated
  <2> HIDE DEF added
  <2> QED BY <1>1, <2>1, <2>2
<1>6. CASE DeleteFixture \/ \E p \in Players : ForgetPlayer(p)
  <2> DEFINE added == {}
  <2>1. audit' = audit \cup added /\ \A a \in added : FALSE
    BY <1>6 DEF DeleteFixture, ForgetPlayer
  <2>2. \A i \in EventIds : events[i] = None => events'[i] = None
    BY <1>6, ForgottenEvents DEF DeleteFixture, NoEvents, SameTally
  <2> HIDE DEF added
  <2> QED BY <1>1, <2>1, <2>2
<1>7. CASE Idle
  BY <1>7 DEF Idle, AuditTraced, Unserved
<1> QED BY <1>2, <1>3, <1>4, <1>5, <1>6, <1>7 DEF LedgerStep

\* The table after a deletion: the target and its red card are gone, all else kept.
LEMMA DeletedTable ==
  ASSUME LedgerTypeOK, NEW r, NEW q, NEW v, Deleted(r, q, v)
  PROVE  /\ events \in EventTable /\ events' \in EventTable
         /\ q.target \in EventIds /\ events'[q.target] = None
         /\ \A i \in EventIds :
              /\ events'[i] # None => events[i] # None /\ events'[i] = events[i]
              /\ events[i] # None /\ i # q.target /\ events[i].source # q.target
                   => events'[i] = events[i]
<1>1. /\ events \in EventTable /\ q.target \in EventIds
      /\ events' = EventsAfterDelete(events, q.target)
  BY DEF LedgerTypeOK, EventTable, Deleted, DeletePayload
<1> QED BY <1>1, DeletedEvents

\* AuditExplainsEvents, by event and by entry.
TypedEventsAudited ==
  fixture # None =>
    \A r \in Requests :
      events[<<r, "main">>] # None <=>
        /\ \E a \in audit : a.action = "event.create" /\ a.entity = <<r, "main">>
        /\ \A a \in audit : a.action = "event.delete" => a.entity # <<r, "main">>
DeletedOnce ==
  \A a, b \in audit : /\ a.action = "event.delete" /\ b.action = "event.delete"
                      /\ a.entity = b.entity
                      => a = b

LEMMA AuditedByEntry == AuditExplainsEvents <=> TypedEventsAudited /\ DeletedOnce
BY DEF AuditExplainsEvents, TypedEventsAudited, DeletedOnce

LEMMA TypedEventsKept ==
  ASSUME LedgerTypeOK, EventsTraced, AuditTraced, TypedEventsAudited, LedgerStep
  PROVE  TypedEventsAudited'
<1>1. ASSUME NEW r \in Requests, NEW q \in Payloads, NEW v \in Plan, NEW t \in Nat,
             Created(r, q, v, t)
      PROVE  TypedEventsAudited'
  <2> DEFINE added == AuditOf("event.create", <<r, "main">>, r, v.overridden)
  <2>1. /\ fixture # None /\ Unserved(r) /\ audit' = audit \cup added
    BY <1>1, NullIsNoRow DEF Created
  <2>2. /\ \E a \in added : a.action = "event.create" /\ a.entity = <<r, "main">>
        /\ \A a \in added : /\ a.entity = <<r, "main">>
                            /\ a.action \in {"event.create", "policy.override"}
    BY AuditAdds
  <2> HIDE DEF added
  <2>3. \A a \in audit : a.action = "event.delete" => a.entity # <<r, "main">>
    BY <2>1, IdsByRequest DEF AuditTraced
  <2>4. events'[<<r, "main">>] # None
    BY <1>1, CreatedTable
  <2>5. ASSUME NEW s \in Requests, s # r
        PROVE  /\ events'[<<s, "main">>] = events[<<s, "main">>]
               /\ \A a \in added : a.entity # <<s, "main">>
    <3>1. /\ <<s, "main">> \in EventIds /\ <<s, "main">> # <<r, "main">>
          /\ <<s, "main">> # <<r, "auto">>
      BY <2>5, IdsByRequest
    <3> QED BY <1>1, <2>2, <3>1, CreatedTable
  <2>6. \A s \in Requests :
          events[<<s, "main">>] # None <=>
            /\ \E a \in audit : a.action = "event.create" /\ a.entity = <<s, "main">>
            /\ \A a \in audit : a.action = "event.delete" => a.entity # <<s, "main">>
    BY <2>1 DEF TypedEventsAudited
  <2>7. ASSUME NEW s \in Requests, s # r
        PROVE  events'[<<s, "main">>] # None <=>
                 /\ \E a \in audit' : /\ a.action = "event.create"
                                      /\ a.entity = <<s, "main">>
                 /\ \A a \in audit' : a.action = "event.delete" => a.entity # <<s, "main">>
    BY <2>1, <2>5, <2>6, <2>7
  <2>8. events'[<<r, "main">>] # None <=>
          /\ \E a \in audit' : a.action = "event.create" /\ a.entity = <<r, "main">>
          /\ \A a \in audit' : a.action = "event.delete" => a.entity # <<r, "main">>
    BY <2>1, <2>2, <2>3, <2>4
  <2> QED BY <2>7, <2>8 DEF TypedEventsAudited
\* Entries of other kinds change nothing.
<1>2. ASSUME fixture # None, events' = events, NEW added, audit' = audit \cup added,
             \A a \in added : a.action \notin {"event.create", "event.delete"}
      PROVE  TypedEventsAudited'
  BY <1>2 DEF TypedEventsAudited
<1>3. ASSUME NEW r \in Requests, NEW q \in Payloads, NEW v \in Plan, NEW t \in Nat,
             Clocked(r, q, v, t)
      PROVE  TypedEventsAudited'
  <2> DEFINE added == AuditOf("clock", None, r, v.overridden)
  <2>1. \A a \in added : a.action \in {"clock", "policy.override"}
    BY AuditAdds
  <2>2. audit' = audit \cup added /\ events' = events /\ fixture # None
    BY <1>3, NullIsNoRow DEF Clocked
  <2> HIDE DEF added
  <2> QED BY <1>2, <2>1, <2>2
<1>4. ASSUME NEW r \in Requests, NEW q \in Payloads, NEW v \in Plan, Deleted(r, q, v)
      PROVE  TypedEventsAudited'
  <2> DEFINE added == AuditOf("event.delete", q.target, r, v.overridden)
  <2>1. /\ \E a \in added : a.action = "event.delete" /\ a.entity = q.target
        /\ \A a \in added : /\ a.entity = q.target
                            /\ a.action \in {"event.delete", "policy.override"}
    BY AuditAdds
  <2>2. audit' = audit \cup added /\ fixture # None
    BY <1>4, NullIsNoRow DEF Deleted
  <2> HIDE DEF added
  <2>3. q.target # None
    BY <1>4, DeletedTable, NullIsNoValue
  <2>4. \A s \in Requests :
          events[<<s, "main">>] # None <=>
            /\ \E a \in audit : a.action = "event.create" /\ a.entity = <<s, "main">>
            /\ \A a \in audit : a.action = "event.delete" => a.entity # <<s, "main">>
    BY <2>2 DEF TypedEventsAudited
  <2>5. ASSUME NEW s \in Requests
        PROVE  events'[<<s, "main">>] # None <=>
                 /\ \E a \in audit' : /\ a.action = "event.create"
                                      /\ a.entity = <<s, "main">>
                 /\ \A a \in audit' : a.action = "event.delete" => a.entity # <<s, "main">>
    <3>1. CASE <<s, "main">> = q.target
      <4>1. events'[<<s, "main">>] = None
        BY <1>4, <3>1, DeletedTable
      <4> QED BY <2>1, <2>2, <3>1, <4>1
    <3>2. CASE <<s, "main">> # q.target
      <4>1. events[<<s, "main">>] # None => events[<<s, "main">>].source # q.target
        BY <2>3 DEF EventsTraced
      <4>2. events'[<<s, "main">>] # None <=> events[<<s, "main">>] # None
        BY <1>4, <3>2, <4>1, DeletedTable, IdsByRequest, ZenonT(30)
      <4> QED BY <2>1, <2>2, <2>4, <3>2, <4>2
    <3> QED BY <3>1, <3>2
  <2> QED BY <2>5 DEF TypedEventsAudited
<1>5. ASSUME NEW r \in Requests, NEW q \in Payloads, Updated(r, q)
      PROVE  TypedEventsAudited'
  <2> DEFINE added == {[action |-> "fixture.update", entity |-> None, by |-> r]}
  <2>1. \A a \in added : a.action = "fixture.update"
    OBVIOUS
  <2>2. audit' = audit \cup added /\ events' = events /\ fixture # None
    BY <1>5, NullIsNoRow DEF Updated
  <2> HIDE DEF added
  <2> QED BY <1>2, <2>1, <2>2
<1>6. CASE DeleteFixture
  BY <1>6 DEF DeleteFixture, TypedEventsAudited
<1>7. ASSUME NEW p \in Players, ForgetPlayer(p)
      PROVE  TypedEventsAudited'
  <2>1. \A i \in EventIds : events'[i] = None <=> events[i] = None
    BY <1>7, ForgottenEvents DEF SameTally
  <2>2. \A s \in Requests : events'[<<s, "main">>] # None <=> events[<<s, "main">>] # None
    BY <2>1, IdsByRequest
  <2>3. audit' = audit /\ fixture' = fixture
    BY <1>7 DEF ForgetPlayer
  <2> QED BY <2>2, <2>3 DEF TypedEventsAudited
<1>8. CASE Idle
  BY <1>8 DEF Idle, TypedEventsAudited
<1> QED BY <1>1, <1>3, <1>4, <1>5, <1>6, <1>7, <1>8 DEF LedgerStep

LEMMA DeletedOnceKept ==
  ASSUME LedgerTypeOK, AuditTraced, DeletedOnce, LedgerStep
  PROVE  DeletedOnce'
<1>1. ASSUME NEW added, audit' = audit \cup added,
             \A a \in added : a.action # "event.delete"
      PROVE  DeletedOnce'
  BY <1>1 DEF DeletedOnce
<1>2. ASSUME NEW r \in Requests, NEW q \in Payloads, NEW v \in Plan, NEW t \in Nat,
             Created(r, q, v, t)
      PROVE  DeletedOnce'
  <2> DEFINE added == AuditOf("event.create", <<r, "main">>, r, v.overridden)
  <2>1. \A a \in added : a.action \in {"event.create", "policy.override"}
    BY AuditAdds
  <2>2. audit' = audit \cup added
    BY <1>2 DEF Created
  <2> HIDE DEF added
  <2> QED BY <1>1, <2>1, <2>2
<1>3. ASSUME NEW r \in Requests, NEW q \in Payloads, NEW v \in Plan, NEW t \in Nat,
             Clocked(r, q, v, t)
      PROVE  DeletedOnce'
  <2> DEFINE added == AuditOf("clock", None, r, v.overridden)
  <2>1. \A a \in added : a.action \in {"clock", "policy.override"}
    BY AuditAdds
  <2>2. audit' = audit \cup added
    BY <1>3 DEF Clocked
  <2> HIDE DEF added
  <2> QED BY <1>1, <2>1, <2>2
<1>4. ASSUME NEW r \in Requests, NEW q \in Payloads, NEW v \in Plan, Deleted(r, q, v)
      PROVE  DeletedOnce'
  <2> DEFINE deletion == [action |-> "event.delete", entity |-> q.target, by |-> r]
             added == AuditOf("event.delete", q.target, r, v.overridden)
  <2>1. /\ \A a \in added : a.action = "event.delete" => a = deletion
        /\ deletion.entity = q.target
    BY DEF AuditOf
  <2>2. audit' = audit \cup added /\ events[q.target] # None
    BY <1>4 DEF Deleted
  <2> HIDE DEF added, deletion
  <2>3. \A a \in audit : a.action = "event.delete" => a.entity # q.target
    BY <2>2 DEF AuditTraced
  <2> QED BY <2>1, <2>2, <2>3 DEF DeletedOnce
<1>5. ASSUME NEW r \in Requests, NEW q \in Payloads, Updated(r, q)
      PROVE  DeletedOnce'
  <2> DEFINE added == {[action |-> "fixture.update", entity |-> None, by |-> r]}
  <2>1. \A a \in added : a.action = "fixture.update"
    OBVIOUS
  <2>2. audit' = audit \cup added
    BY <1>5 DEF Updated
  <2> HIDE DEF added
  <2> QED BY <1>1, <2>1, <2>2
<1>6. CASE DeleteFixture \/ (\E p \in Players : ForgetPlayer(p)) \/ Idle
  BY <1>6 DEF DeleteFixture, ForgetPlayer, Idle, DeletedOnce
<1> QED BY <1>2, <1>3, <1>4, <1>5, <1>6 DEF LedgerStep

-------------------------------------------------------------------------------
(* The substitution limit *)

UnexcusedSubstitutions(c) == {i \in Substitutions(events, c) : ~Overridden(i)}

LEMMA SubstitutionsFinite ==
  ASSUME NEW evs \in EventTable, NEW c
  PROVE  /\ Substitutions(evs, c) \subseteq EventIds
         /\ IsFiniteSet(Substitutions(evs, c))
<1>1. Substitutions(evs, c) \subseteq EventIds
  BY DEF Substitutions, Recorded, EventTable
<1> QED BY <1>1, EventIdsFinite, FS_Subset

LEMMA ExcusesStay ==
  ASSUME audit \subseteq audit'
  PROVE  \A i : Overridden(i) => Overridden(i)'
BY DEF Overridden

LEMMA NoEventsNoSubstitutions ==
  ASSUME NEW evs, Recorded(evs) = {}, NEW c
  PROVE  Substitutions(evs, c) = {}
BY DEF Substitutions

\* The limit holds on when no unexcused substitution is added and frozen rules stay.
LEMMA LimitStillHeld ==
  ASSUME LedgerTypeOK, LedgerTypeOK', KickoffFreezesRules, SubstitutionLimitHeld,
         fixture # None, fixture' # None,
         fixture.ruleset_snapshot # None
           => fixture'.ruleset_snapshot = fixture.ruleset_snapshot,
         NEW c \in Clubs, UnexcusedSubstitutions(c)' \subseteq UnexcusedSubstitutions(c),
         fixture'.ruleset_snapshot # None,
         fixture'.ruleset_snapshot.max_substitutions # None
  PROVE  Cardinality(UnexcusedSubstitutions(c)')
           <= fixture'.ruleset_snapshot.max_substitutions
<1> DEFINE limit == fixture'.ruleset_snapshot.max_substitutions
           before == UnexcusedSubstitutions(c)
           after  == UnexcusedSubstitutions(c)'
<1>1. limit \in Nat
  BY DEF LedgerTypeOK, FixtureRow, MatchRuleset
<1>2. events \in EventTable
  BY DEF LedgerTypeOK, EventTable
<1>3. IsFiniteSet(before) /\ before \subseteq Substitutions(events, c)
  BY <1>2, SubstitutionsFinite, FS_Subset DEF UnexcusedSubstitutions
<1>4. /\ Cardinality(after) <= Cardinality(before)
      /\ Cardinality(after) \in Nat /\ Cardinality(before) \in Nat
  <2>1. after \subseteq before
    OBVIOUS
  <2> HIDE DEF after, before
  <2> QED BY <1>3, <2>1, FS_Subset, FS_CardinalityType
<1>5. CASE fixture.ruleset_snapshot = None
  <2>1. before = {}
    BY <1>3, <1>5, NoEventsNoSubstitutions DEF KickoffFreezesRules
  <2> HIDE DEF before, after, limit
  <2> QED BY <1>1, <1>4, <2>1, FS_EmptySet DEF after, limit
<1>6. CASE fixture.ruleset_snapshot # None
  <2>1. Cardinality(before) <= limit
    BY <1>6 DEF SubstitutionLimitHeld, UnexcusedSubstitutions
  <2> HIDE DEF before, after, limit
  <2> QED BY <1>1, <1>4, <2>1 DEF after, limit
<1> QED BY <1>5, <1>6

LEMMA LimitKept ==
  ASSUME LedgerTypeOK, LedgerTypeOK', EventsTraced, KickoffFreezesRules,
         SubstitutionLimitHeld, LedgerStep
  PROVE  SubstitutionLimitHeld'
<1>0. events \in EventTable /\ events' \in EventTable
  BY DEF LedgerTypeOK, EventTable
<1> SUFFICES ASSUME NEW c \in Clubs, fixture' # None, fixture'.ruleset_snapshot # None,
                    fixture'.ruleset_snapshot.max_substitutions # None
             PROVE  Cardinality(UnexcusedSubstitutions(c)')
                      <= fixture'.ruleset_snapshot.max_substitutions
  BY DEF SubstitutionLimitHeld, UnexcusedSubstitutions
\* Steps that store no substitution
<1>1. ASSUME fixture # None, audit \subseteq audit',
             fixture.ruleset_snapshot # None
               => fixture'.ruleset_snapshot = fixture.ruleset_snapshot,
             Substitutions(events', c) \subseteq Substitutions(events, c)
      PROVE  Cardinality(UnexcusedSubstitutions(c)')
               <= fixture'.ruleset_snapshot.max_substitutions
  <2>1. UnexcusedSubstitutions(c)' \subseteq UnexcusedSubstitutions(c)
    BY <1>1, ExcusesStay DEF UnexcusedSubstitutions
  <2> QED BY <1>1, <2>1, LimitStillHeld
<1>2. ASSUME NEW r \in Requests, NEW q \in Payloads, NEW v \in Plan, NEW t \in Nat,
             Created(r, q, v, t)
      PROVE  Cardinality(UnexcusedSubstitutions(c)')
               <= fixture'.ruleset_snapshot.max_substitutions
  <2> DEFINE id == <<r, "main">>
  <2>1. /\ fixture \in FixtureRow /\ fixture # None /\ v.rules \in MatchRuleset
        /\ fixture' = RowAfterCreate(fixture, v.rules, events')
        /\ JudgesLike(v.rules, snapshot_ruleset(fixture, v.rules).ruleset_snapshot)
        /\ v.auto_red => q.event_type = "yellow_card"
        /\ Unserved(r) /\ audit \subseteq audit'
    BY <1>2, NullIsNoRow DEF Created, SecondYellow
  <2>2. /\ fixture'.ruleset_snapshot
             = snapshot_ruleset(fixture, v.rules).ruleset_snapshot
        /\ fixture.ruleset_snapshot # None
             => fixture'.ruleset_snapshot = fixture.ruleset_snapshot
    BY <2>1, CreatedRow, FrozenSnapshot
  <2>3. events[<<r, "auto">>] = None
    BY <2>1 DEF EventsTraced
  <2>4. Substitutions(events', c) \subseteq Substitutions(events, c) \cup {id}
    <3>1. /\ events'[<<r, "auto">>] # None
               => events'[<<r, "auto">>].event_type # "substitution_in"
          /\ \A i \in EventIds : i \notin {<<r, "main">>, <<r, "auto">>}
                                   => events'[i] = events[i]
      BY <1>2, <2>3, CreatedTable
    <3> QED BY <1>0, <3>1 DEF Substitutions, Recorded, EventTable
  <2>5. id \in Substitutions(events', c) =>
          q.event_type = "substitution_in" /\ q.club = c
    <3>1. events'[id].event_type = q.event_type /\ events'[id].club = q.club
      BY <1>2, CreatedTable
    <3> QED BY <3>1 DEF Substitutions
  <2>6. v.overridden => Overridden(id)'
    <3> DEFINE over == [action |-> "policy.override", entity |-> id, by |-> r]
    <3>1. v.overridden => over \in audit'
      BY <1>2 DEF Created, AuditOf
    <3>2. over.action = "policy.override" /\ over.entity = id
      OBVIOUS
    <3> QED BY <3>1, <3>2 DEF Overridden
  <2>7. CASE v.overridden \/ ~(q.event_type = "substitution_in" /\ q.club = c)
    <3>1. UnexcusedSubstitutions(c)' \subseteq UnexcusedSubstitutions(c)
      BY <2>1, <2>4, <2>5, <2>6, <2>7, ExcusesStay DEF UnexcusedSubstitutions
    <3> QED BY <2>1, <2>2, <3>1, LimitStillHeld
  <2>8. CASE ~v.overridden /\ q.event_type = "substitution_in" /\ q.club = c
    <3> DEFINE limit == fixture'.ruleset_snapshot.max_substitutions
               before == Substitutions(events, c)
               after == UnexcusedSubstitutions(c)'
    <3>1. limit \in Nat /\ v.rules.max_substitutions = limit
      BY <2>1, <2>2 DEF LedgerTypeOK, FixtureRow, MatchRuleset, JudgesLike
    <3>2. ~SubstitutionLimitReached(q, events, v.rules)
      BY <1>2, <2>8 DEF Created
    <3>3. IsFiniteSet(before) /\ Cardinality(before) \in Nat
      BY <1>0, SubstitutionsFinite, FS_CardinalityType
    <3>4. Cardinality(before) < limit
      BY <2>8, <3>1, <3>2, <3>3 DEF SubstitutionLimitReached
    <3>5. after \subseteq before \cup {id}
      BY <2>4 DEF UnexcusedSubstitutions
    <3> HIDE DEF before, after, limit, id
    <3>6. IsFiniteSet(before \cup {id})
          /\ Cardinality(before \cup {id}) <= Cardinality(before) + 1
      BY <3>3, FS_AddElement
    <3>7. /\ Cardinality(after) <= Cardinality(before \cup {id})
          /\ Cardinality(after) \in Nat /\ Cardinality(before \cup {id}) \in Nat
      BY <3>5, <3>6, FS_Subset, FS_CardinalityType
    <3> QED BY <3>1, <3>3, <3>4, <3>6, <3>7 DEF after, limit
  <2> QED BY <2>7, <2>8
<1>3. ASSUME NEW r \in Requests, NEW q \in Payloads, NEW v \in Plan, NEW t \in Nat,
             Clocked(r, q, v, t)
      PROVE  Cardinality(UnexcusedSubstitutions(c)')
               <= fixture'.ruleset_snapshot.max_substitutions
  <2>1. /\ fixture # None /\ audit \subseteq audit' /\ events' = events
        /\ fixture.ruleset_snapshot # None
             => fixture'.ruleset_snapshot = fixture.ruleset_snapshot
    BY <1>3, NullIsNoRow, ClockedRow, FrozenSnapshot DEF Clocked
  <2> QED BY <1>1, <2>1
<1>4. ASSUME NEW r \in Requests, NEW q \in Payloads, NEW v \in Plan, Deleted(r, q, v)
      PROVE  Cardinality(UnexcusedSubstitutions(c)')
               <= fixture'.ruleset_snapshot.max_substitutions
  <2>1. /\ fixture # None /\ audit \subseteq audit'
        /\ fixture'.ruleset_snapshot = fixture.ruleset_snapshot
    BY <1>4, NullIsNoRow, RecalculatedRow DEF Deleted
  <2>2. Substitutions(events', c) \subseteq Substitutions(events, c)
    BY <1>0, <1>4, DeletedTable DEF Substitutions, Recorded, EventTable
  <2> QED BY <1>1, <2>1, <2>2
<1>5. ASSUME NEW r \in Requests, NEW q \in Payloads, Updated(r, q)
      PROVE  Cardinality(UnexcusedSubstitutions(c)')
               <= fixture'.ruleset_snapshot.max_substitutions
  <2>1. /\ fixture # None /\ audit \subseteq audit' /\ events' = events
        /\ fixture'.ruleset_snapshot = fixture.ruleset_snapshot
    BY <1>5, NullIsNoRow, UpdatedRow DEF Updated
  <2> QED BY <1>1, <2>1
<1>6. CASE DeleteFixture
  BY <1>6 DEF DeleteFixture
<1>7. ASSUME NEW p \in Players, ForgetPlayer(p)
      PROVE  Cardinality(UnexcusedSubstitutions(c)')
               <= fixture'.ruleset_snapshot.max_substitutions
  <2>1. \A i \in EventIds : /\ events'[i] = None <=> events[i] = None
                            /\ events'[i] # None =>
                                 /\ events'[i].club = events[i].club
                                 /\ events'[i].event_type = events[i].event_type
    BY <1>7, ForgottenEvents DEF SameTally
  <2>2. Substitutions(events', c) \subseteq Substitutions(events, c)
    BY <1>0, <2>1 DEF Substitutions, Recorded, EventTable
  <2> QED BY <1>1, <1>7, <2>2 DEF ForgetPlayer
<1>8. CASE Idle
  BY <1>1, <1>8 DEF Idle
<1> QED BY <1>2, <1>3, <1>4, <1>5, <1>6, <1>7, <1>8 DEF LedgerStep

-------------------------------------------------------------------------------
(* The invariants *)

\* What every step relies on and keeps.
LedgerInv ==
  /\ LedgerTypeOK
  /\ ScoreMatchesEvents
  /\ ColumnsAgree
  /\ EventsTraced
  /\ AuditTraced
  /\ TypedEventsAudited
  /\ DeletedOnce
  /\ SubstitutionLimitHeld

LEMMA LedgerInvInit == LedgerInit => LedgerInv
<1> SUFFICES ASSUME LedgerInit PROVE LedgerInv
  OBVIOUS
<1> USE DEF LedgerInit
<1>1. fixture \in FixtureRow /\ events \in EventTable /\ fixture # None
  BY NewRow, NullIsNoRow
<1>2. \A i \in EventIds : events[i] = None
  BY DEF NoEvents
<1>3. LedgerTypeOK
  BY <1>1, InstantsTyped DEF LedgerTypeOK, EventTable
<1>4. ScoreMatchesEvents
  BY NoEventsNoScore DEF ScoreMatchesEvents, ScoreMatches, NewFixture
<1>5. Recorded(events) = {}
  BY <1>1, <1>2 DEF Recorded, EventTable
<1>6. ColumnsAgree
  BY <1>5, NoPeriod DEF ColumnsAgree, KickoffFreezesRules, ClockColumnsAgree,
                        NewFixture
<1>7. EventsTraced /\ AuditTraced /\ TypedEventsAudited /\ DeletedOnce
  BY <1>2, IdsByRequest DEF EventsTraced, AuditTraced, TypedEventsAudited, DeletedOnce
<1>8. SubstitutionLimitHeld
  BY DEF SubstitutionLimitHeld, NewFixture
<1> QED BY <1>3, <1>4, <1>6, <1>7, <1>8 DEF LedgerInv

LEMMA LedgerInvStep == LedgerInv /\ [LedgerNext]_ledgerVars => LedgerInv'
<1> SUFFICES ASSUME LedgerInv, [LedgerNext]_ledgerVars PROVE LedgerInv'
  OBVIOUS
<1> USE DEF LedgerInv
<1>1. LedgerStep
  BY StepsAreLedgerSteps
<1>2. LedgerTypeOK' /\ ScoreMatchesEvents'
  BY <1>1, RowsKept
<1>3. ColumnsAgree'
  BY <1>1, ColumnsKept
<1>4. EventsTraced' /\ AuditTraced'
  BY <1>1, EventsKept, AuditTracedKept
<1>5. TypedEventsAudited' /\ DeletedOnce'
  BY <1>1, TypedEventsKept, DeletedOnceKept
<1>6. SubstitutionLimitHeld'
  BY <1>1, <1>2, LimitKept DEF ColumnsAgree
<1> QED BY <1>2, <1>3, <1>4, <1>5, <1>6

LEMMA LedgerInvAlways == LedgerSpec => []LedgerInv
<1> QED BY LedgerInvInit, LedgerInvStep, PTL DEF LedgerSpec

\* The rows have the columns' types.
THEOREM LedgerTypes == LedgerSpec => []LedgerTypeOK
<1>1. LedgerInv => LedgerTypeOK
  BY DEF LedgerInv
<1> QED BY <1>1, LedgerInvAlways, PTL

\* The score on the row is the tally of the stored events (_recalculate_score).
THEOREM ScoreIsTally == LedgerSpec => []ScoreMatchesEvents
<1>1. LedgerInv => ScoreMatchesEvents
  BY DEF LedgerInv
<1> QED BY <1>1, LedgerInvAlways, PTL

\* A match with a period, an event or a kick-off has frozen rules
\* (snapshot_ruleset runs in each of these transactions).
THEOREM RulesFrozenAtKickoff == LedgerSpec => []KickoffFreezesRules
<1>1. LedgerInv => KickoffFreezesRules
  BY DEF LedgerInv, ColumnsAgree
<1> QED BY <1>1, LedgerInvAlways, PTL

\* Start time, stoppage and status agree with the period (apply_clock_action).
THEOREM ClockColumns == LedgerSpec => []ClockColumnsAgree
<1>1. LedgerInv => ClockColumnsAgree
  BY DEF LedgerInv, ColumnsAgree
<1> QED BY <1>1, LedgerInvAlways, PTL

\* The substitutions beyond the frozen limit are audited overrides.
THEOREM SubstitutionsLimited == LedgerSpec => []SubstitutionLimitHeld
<1>1. LedgerInv => SubstitutionLimitHeld
  BY DEF LedgerInv
<1> QED BY <1>1, LedgerInvAlways, PTL

\* The events typed by staff are the audited creations less the audited deletions.
THEOREM EventsAreAudited == LedgerSpec => []AuditExplainsEvents
<1>1. LedgerInv => AuditExplainsEvents
  BY AuditedByEntry DEF LedgerInv
<1> QED BY <1>1, LedgerInvAlways, PTL

\* An automatic red card stands beside the second yellow it was given for.
THEOREM AutoRedKeepsYellow == LedgerSpec => []AutoRedHasSource
<1>1. LedgerInv => AutoRedHasSource
  <2> SUFFICES ASSUME LedgerInv, NEW i \in Recorded(events), events[i].source # None
               PROVE  /\ events[events[i].source] # None
                      /\ events[events[i].source].event_type = "yellow_card"
    BY DEF AutoRedHasSource
  <2>1. i \in EventIds /\ events[i] # None
    BY DEF LedgerInv, LedgerTypeOK, Recorded
  <2>2. PICK r \in Requests : i \in {<<r, "main">>, <<r, "auto">>}
    BY <2>1, IdsByRequest
  <2> QED BY <2>1, <2>2 DEF LedgerInv, EventsTraced
<1> QED BY <1>1, LedgerInvAlways, PTL

-------------------------------------------------------------------------------
(* What a step may never do *)

\* A request's first entry in the audit log is new, and so is its override.
LEMMA NewEntries ==
  ASSUME NEW r, Unserved(r), NEW action, NEW entity, NEW overridden,
         audit' = audit \cup AuditOf(action, entity, r, overridden)
  PROVE  /\ overridden => \E a \in audit' \ audit : a.action = "policy.override"
         /\ \E a \in audit' \ audit : a.action = action
<1> DEFINE done     == [action |-> action, entity |-> entity, by |-> r]
           override == [action |-> "policy.override", entity |-> entity, by |-> r]
<1>1. done \in audit' /\ (overridden => override \in audit')
  BY DEF AuditOf
<1>2. /\ done.by = r /\ done.action = action
      /\ override.by = r /\ override.action = "policy.override"
  OBVIOUS
<1> HIDE DEF done, override
<1>3. done \notin audit /\ override \notin audit
  BY <1>2 DEF Unserved
<1> QED BY <1>1, <1>2, <1>3

\* Once frozen the rules of a fixture never change ("IS NULL" in snapshot_ruleset).
THEOREM RulesStayAsFrozen == LedgerSpec => RulesStayFrozen
<1>1. ASSUME LedgerInv, [LedgerNext]_ledgerVars
      PROVE  [fixture # None /\ fixture.ruleset_snapshot # None /\ fixture' # None
              => fixture'.ruleset_snapshot = fixture.ruleset_snapshot]_ledgerVars
  <2> SUFFICES ASSUME fixture # None, fixture.ruleset_snapshot # None, fixture' # None
               PROVE  fixture'.ruleset_snapshot = fixture.ruleset_snapshot
    OBVIOUS
  <2>1. LedgerStep
    BY <1>1, StepsAreLedgerSteps DEF LedgerInv
  <2>2. ASSUME NEW r \in Requests, NEW q \in Payloads, NEW v \in Plan, NEW t \in Nat,
               Created(r, q, v, t) \/ Clocked(r, q, v, t)
        PROVE  fixture'.ruleset_snapshot = fixture.ruleset_snapshot
    BY <2>2, CreatedRow, ClockedRow, FrozenSnapshot DEF Created, Clocked
  <2>3. ASSUME NEW r \in Requests, NEW q \in Payloads, NEW v \in Plan, Deleted(r, q, v)
        PROVE  fixture'.ruleset_snapshot = fixture.ruleset_snapshot
    BY <2>3, RecalculatedRow DEF Deleted
  <2>4. ASSUME NEW r \in Requests, NEW q \in Payloads, Updated(r, q)
        PROVE  fixture'.ruleset_snapshot = fixture.ruleset_snapshot
    BY <2>4, UpdatedRow DEF Updated
  <2>5. CASE DeleteFixture \/ (\E p \in Players : ForgetPlayer(p)) \/ Idle
    BY <2>5 DEF DeleteFixture, ForgetPlayer, Idle
  <2> QED BY <2>1, <2>2, <2>3, <2>4, <2>5 DEF LedgerStep
<1> QED BY <1>1, LedgerInvAlways, PTL DEF LedgerSpec, RulesStayFrozen

\* Under strict rules the period leaves each half only for the next, or by an
\* audited override (evaluate_clock, enforce_policy).
THEOREM PeriodsInOrder == LedgerSpec => StrictPeriodOrder
<1>1. ASSUME LedgerInv, [LedgerNext]_ledgerVars
      PROVE  [fixture # None /\ fixture' # None /\ fixture'.period # fixture.period
              /\ fixture'.ruleset_snapshot.clock_transitions = "strict"
              => \/ <<fixture.period, fixture'.period>> \in
                      {<<None, "first_half">>, <<"first_half", "half_time">>,
                       <<"half_time", "second_half">>, <<"second_half", "full_time">>}
                 \/ \E a \in audit' \ audit : a.action = "policy.override"]_ledgerVars
  <2> SUFFICES ASSUME fixture # None, fixture' # None,
                      fixture'.period # fixture.period,
                      fixture'.ruleset_snapshot.clock_transitions = "strict",
                      \A a \in audit' \ audit : a.action # "policy.override"
               PROVE  <<fixture.period, fixture'.period>> \in
                        {<<None, "first_half">>, <<"first_half", "half_time">>,
                         <<"half_time", "second_half">>, <<"second_half", "full_time">>}
    OBVIOUS
  <2>1. LedgerStep
    BY <1>1, StepsAreLedgerSteps DEF LedgerInv
  <2>2. ASSUME NEW r \in Requests, NEW q \in Payloads, NEW v \in Plan, NEW t \in Nat,
               Clocked(r, q, v, t)
        PROVE  <<fixture.period, fixture'.period>> \in
                 {<<None, "first_half">>, <<"first_half", "half_time">>,
                  <<"half_time", "second_half">>, <<"second_half", "full_time">>}
    <3>1. ~v.overridden
      BY <2>2, NewEntries DEF Clocked
    <3>2. v.rules.clock_transitions = "strict"
      BY <2>2, ClockedRow DEF Clocked, JudgesLike
    <3>3. q.action \in ClockTransitions => fixture.period = ExpectedPeriod(q.action)
      BY <2>2, <3>1, <3>2 DEF Clocked, ValidTransition
    <3>4. \/ q.action \in {"start_1h", "start_2h"}
             /\ fixture'.period = IF q.action = "start_1h" THEN "first_half"
                                  ELSE "second_half"
          \/ q.action = "ht" /\ fixture'.period = "half_time"
          \/ q.action = "ft" /\ fixture'.period = "full_time"
      BY <2>2, ClockedRow DEF Clocked
    <3> QED BY <3>3, <3>4 DEF ClockTransitions, ExpectedPeriod
  <2>3. ASSUME NEW r \in Requests, NEW q \in Payloads, NEW v \in Plan, NEW t \in Nat,
               Created(r, q, v, t) \/ Deleted(r, q, v)
        PROVE  FALSE
    BY <2>3, CreatedRow, RecalculatedRow DEF Created, Deleted
  <2>4. ASSUME NEW r \in Requests, NEW q \in Payloads, Updated(r, q)
        PROVE  FALSE
    BY <2>4, UpdatedRow DEF Updated
  <2>5. CASE DeleteFixture \/ (\E p \in Players : ForgetPlayer(p)) \/ Idle
    BY <2>5 DEF DeleteFixture, ForgetPlayer, Idle
  <2> QED BY <2>1, <2>2, <2>3, <2>4, <2>5 DEF LedgerStep
<1> QED BY <1>1, LedgerInvAlways, PTL DEF LedgerSpec, StrictPeriodOrder

\* A half ticks on in a match that is not live only because an audited update
\* set the match aside in that half (apply_clock_action makes the match live).
THEOREM SetAsideByUpdate == LedgerSpec => OnlyUpdatesSetAside
<1>1. ASSUME LedgerInv, [LedgerNext]_ledgerVars
      PROVE  [fixture' # None /\ fixture'.period \in TICKING_PERIODS
              /\ fixture'.status # "live"
              => /\ fixture # None /\ fixture.period = fixture'.period
                 /\ \/ fixture.status = fixture'.status
                    \/ \E a \in audit' \ audit : a.action = "fixture.update"]_ledgerVars
  <2> SUFFICES ASSUME fixture' # None, fixture'.period \in TICKING_PERIODS,
                      fixture'.status # "live"
               PROVE  /\ fixture # None /\ fixture.period = fixture'.period
                      /\ \/ fixture.status = fixture'.status
                         \/ \E a \in audit' \ audit : a.action = "fixture.update"
    OBVIOUS
  <2>1. LedgerStep
    BY <1>1, StepsAreLedgerSteps DEF LedgerInv
  <2>2. ASSUME NEW r \in Requests, NEW q \in Payloads, NEW v \in Plan, NEW t \in Nat,
               Clocked(r, q, v, t)
        PROVE  fixture # None /\ fixture.period = fixture'.period
               /\ fixture.status = fixture'.status
    <3>1. fixture # None /\ fixture'.status # "live" /\ fixture'.period \in TICKING_PERIODS
      BY <2>2, NullIsNoRow DEF Clocked
    <3>2. fixture'.period \notin {"half_time", "full_time"}
      BY <3>1 DEF TICKING_PERIODS
    <3> QED BY <2>2, <3>1, <3>2, ClockedRow DEF Clocked
  <2>3. ASSUME NEW r \in Requests, NEW q \in Payloads, NEW v \in Plan, NEW t \in Nat,
               Created(r, q, v, t) \/ Deleted(r, q, v)
        PROVE  fixture # None /\ fixture.period = fixture'.period
               /\ fixture.status = fixture'.status
    BY <2>3, CreatedRow, RecalculatedRow, NullIsNoRow DEF Created, Deleted
  <2>4. ASSUME NEW r \in Requests, NEW q \in Payloads, Updated(r, q)
        PROVE  /\ fixture # None /\ fixture.period = fixture'.period
               /\ \E a \in audit' \ audit : a.action = "fixture.update"
    <3>1. fixture # None /\ fixture.period = fixture'.period
      BY <2>4, UpdatedRow, NullIsNoRow DEF Updated
    <3>2. audit' = audit \cup AuditOf("fixture.update", None, r, FALSE) /\ Unserved(r)
      BY <2>4 DEF Updated, AuditOf
    <3> QED BY <3>1, <3>2, NewEntries
  <2>5. CASE DeleteFixture \/ (\E p \in Players : ForgetPlayer(p)) \/ Idle
    BY <2>5 DEF DeleteFixture, ForgetPlayer, Idle
  <2> QED BY <2>1, <2>2, <2>3, <2>4, <2>5 DEF LedgerStep
<1> QED BY <1>1, LedgerInvAlways, PTL DEF LedgerSpec, OnlyUpdatesSetAside

\* Under "block" a match at full time keeps its events, but for audited overrides
\* (FullTimeDecision for new events and for deletions).
THEOREM EventsFinalAtFullTime == LedgerSpec => FullTimeIsFinal
<1>1. ASSUME LedgerInv, [LedgerNext]_ledgerVars
      PROVE  [fixture # None /\ fixture' # None
              /\ (fixture.status = "completed" \/ fixture.period = "full_time")
              /\ fixture.ruleset_snapshot # None
              /\ fixture.ruleset_snapshot.events_after_ft = "block"
              /\ Recorded(events') # Recorded(events)
              => \E a \in audit' \ audit : a.action = "policy.override"]_ledgerVars
  <2> SUFFICES ASSUME fixture # None, fixture' # None, AtFullTime(fixture),
                      fixture.ruleset_snapshot # None,
                      fixture.ruleset_snapshot.events_after_ft = "block",
                      Recorded(events') # Recorded(events)
               PROVE  \E a \in audit' \ audit : a.action = "policy.override"
    BY DEF AtFullTime
  <2>1. LedgerStep
    BY <1>1, StepsAreLedgerSteps DEF LedgerInv
  <2>2. ASSUME NEW r \in Requests, NEW q \in Payloads, NEW v \in Plan, NEW t \in Nat,
               Created(r, q, v, t)
        PROVE  \E a \in audit' \ audit : a.action = "policy.override"
    <3>1. v.rules.events_after_ft = "block"
      BY <2>2, FrozenSnapshot DEF Created, JudgesLike
    <3>2. v.overridden
      BY <2>2, <3>1 DEF Created
    <3> QED BY <2>2, <3>2, NewEntries DEF Created
  <2>3. ASSUME NEW r \in Requests, NEW q \in Payloads, NEW v \in Plan, Deleted(r, q, v)
        PROVE  \E a \in audit' \ audit : a.action = "policy.override"
    <3>1. v.rules.events_after_ft = "block"
      BY <2>3, FrozenSnapshot DEF Deleted, JudgesLike
    <3>2. v.overridden
      BY <2>3, <3>1 DEF Deleted
    <3> QED BY <2>3, <3>2, NewEntries DEF Deleted
  <2>4. ASSUME NEW r \in Requests, NEW q \in Payloads, NEW v \in Plan, NEW t \in Nat,
               Clocked(r, q, v, t)
        PROVE  FALSE
    BY <2>4 DEF Clocked
  <2>5. ASSUME NEW r \in Requests, NEW q \in Payloads, Updated(r, q)
        PROVE  FALSE
    BY <2>5 DEF Updated
  <2>6. ASSUME NEW p \in Players, ForgetPlayer(p)
        PROVE  FALSE
    <3>1. /\ events \in EventTable /\ events' \in EventTable
          /\ \A i \in EventIds : events'[i] = None <=> events[i] = None
      BY <1>1, <2>6, ForgottenEvents DEF SameTally, LedgerInv, LedgerTypeOK, EventTable
    <3> QED BY <3>1 DEF Recorded, EventTable
  <2>7. CASE DeleteFixture \/ Idle
    BY <2>7 DEF DeleteFixture, Idle
  <2> QED BY <2>1, <2>2, <2>3, <2>4, <2>5, <2>6, <2>7 DEF LedgerStep
<1> QED BY <1>1, LedgerInvAlways, PTL DEF LedgerSpec, FullTimeIsFinal

\* Under "auto_red" the second yellow of a player comes with a red card
\* (auto_red_card in create_event).
THEOREM SecondYellowIsRed == LedgerSpec => SecondYellowSendsOff
<1>1. ASSUME LedgerInv, [LedgerNext]_ledgerVars
      PROVE  [\A r \in Requests :
                LET id == <<r, "main">>  e == events'[id]
                IN  /\ events[id] = None /\ e # None
                    /\ e.event_type = "yellow_card" /\ e.player # None
                    /\ \E i \in Recorded(events) :
                         /\ events[i].event_type = "yellow_card"
                         /\ events[i].player = e.player
                    /\ fixture'.ruleset_snapshot.second_yellow_policy = "auto_red"
                    => LET red == events'[<<r, "auto">>]
                       IN  /\ red # None /\ red.event_type = "red_card"
                           /\ red.player = e.player /\ red.source = id]_ledgerVars
  <2> SUFFICES ASSUME NEW r \in Requests, events[<<r, "main">>] = None,
                      events'[<<r, "main">>] # None,
                      events'[<<r, "main">>].event_type = "yellow_card",
                      events'[<<r, "main">>].player # None,
                      \E i \in Recorded(events) :
                         /\ events[i].event_type = "yellow_card"
                         /\ events[i].player = events'[<<r, "main">>].player,
                      fixture'.ruleset_snapshot.second_yellow_policy = "auto_red"
               PROVE  /\ events'[<<r, "auto">>] # None
                      /\ events'[<<r, "auto">>].event_type = "red_card"
                      /\ events'[<<r, "auto">>].player = events'[<<r, "main">>].player
                      /\ events'[<<r, "auto">>].source = <<r, "main">>
    OBVIOUS
  <2>1. LedgerStep
    BY <1>1, StepsAreLedgerSteps DEF LedgerInv
  <2>2. ASSUME NEW s \in Requests, NEW q \in Payloads, NEW v \in Plan, NEW t \in Nat,
               Created(s, q, v, t)
        PROVE  /\ s = r /\ v.auto_red
               /\ events'[<<r, "auto">>] # None
               /\ events'[<<r, "auto">>].event_type = "red_card"
               /\ events'[<<r, "auto">>].player = events'[<<r, "main">>].player
               /\ events'[<<r, "auto">>].source = <<r, "main">>
    <3>0. LedgerTypeOK
      BY <1>1 DEF LedgerInv
    <3>1. s = r
      BY <2>2, <3>0, CreatedTable, IdsByRequest
    <3>2. /\ q.event_type = "yellow_card"
          /\ q.player = events'[<<r, "main">>].player
      BY <2>2, <3>0, <3>1, CreatedTable
    <3>3. SecondYellow(q, events)
      BY <3>2 DEF SecondYellow
    <3>4. v.rules.second_yellow_policy = "auto_red"
      BY <2>2, CreatedRow DEF Created, JudgesLike
    <3>5. v.auto_red
      BY <2>2, <3>3, <3>4 DEF Created
    <3> QED BY <2>2, <3>0, <3>1, <3>2, <3>5, CreatedTable
  <2>3. ASSUME NEW s \in Requests, NEW q \in Payloads, NEW v \in Plan, NEW t \in Nat,
               Clocked(s, q, v, t) \/ Deleted(s, q, v)
        PROVE  FALSE
    <3>1. events'[<<r, "main">>] = None
      BY <1>1, <2>3, DeletedTable, IdsByRequest DEF Clocked, LedgerInv
    <3> QED BY <3>1
  <2>4. ASSUME NEW s \in Requests, NEW q \in Payloads, Updated(s, q)
        PROVE  FALSE
    BY <2>4 DEF Updated
  <2>5. ASSUME NEW p \in Players, ForgetPlayer(p)
        PROVE  FALSE
    BY <1>1, <2>5, ForgottenEvents, IdsByRequest DEF SameTally, LedgerInv
  <2>6. CASE DeleteFixture \/ Idle
    BY <2>6, IdsByRequest DEF DeleteFixture, NoEvents, Idle
  <2> QED BY <2>1, <2>2, <2>3, <2>4, <2>5, <2>6 DEF LedgerStep
<1> QED BY <1>1, LedgerInvAlways, PTL DEF LedgerSpec, SecondYellowSendsOff

\* The minute a board shows of a ticking half, stoppage included.
ShownMinute(fx, t) ==
  fx.period_base_minute + IF t >= fx.period_started_at
                          THEN (t - fx.period_started_at) \div MinuteMs ELSE 0

LEMMA TickingLabel ==
  ASSUME NEW fx \in FixtureRow, NEW t \in Nat, fx.period \in TICKING_PERIODS,
         fx.period_started_at # None
  PROVE  LET shown == ShownMinute(fx, t)
             end   == RegulationEnd(fx)
         IN  /\ shown \in Nat /\ end \in Nat
             /\ clock_label(fx, t) # None
             /\ clock_label(fx, t).minute = IF shown <= end THEN shown ELSE end
             /\ clock_label(fx, t).extra = IF shown <= end THEN 0 ELSE shown - end
<1> DEFINE start == fx.period_started_at
           base  == fx.period_base_minute
           ms    == (t - start) \div MinuteMs
           end   == RegulationEnd(fx)
           shown == ShownMinute(fx, t)
<1>1. start \in Nat /\ base \in Nat
  BY DEF FixtureRow
<1>2. ms \in Int /\ (t >= start => ms >= 0) /\ (t < start => ms <= 0)
  BY <1>1 DEF MinuteMs
<1>3. shown \in Nat /\ end \in Nat
  BY <1>1, <1>2 DEF ShownMinute, RegulationEnd
<1>4. compute_elapsed_minute(fx, t) = shown
  BY <1>1, <1>2 DEF compute_elapsed_minute, ShownMinute
<1>5. shown # None
  BY <1>3, NullIsNoValue
<1>6. fx.period # "half_time" /\ fx.period # "full_time"
  BY DEF TICKING_PERIODS
<1> HIDE DEF shown, end
<1>7. clock_label(fx, t) = IF shown <= end THEN Label("minute", shown, 0)
                           ELSE Label("minute", end, shown - end)
  BY <1>4, <1>5, <1>6 DEF clock_label, end
<1>8. ASSUME NEW minute \in Int, NEW extra \in Int
      PROVE  /\ Label("minute", minute, extra) # None
             /\ Label("minute", minute, extra).minute = minute
             /\ Label("minute", minute, extra).extra = extra
  <2>1. Label("minute", minute, extra)
          \in [text : {"minute", "HT", "FT"}, minute : Int, extra : Int]
    BY DEF Label
  <2> QED BY <2>1, NullIsNoValue DEF Label
<1>9. shown - end \in Int
  BY <1>3
<1> QED BY <1>3, <1>7, <1>8, <1>9 DEF shown, end

LEMMA ShownAdvances ==
  ASSUME NEW start \in Nat, NEW t \in Nat, NEW later \in Nat, t <= later
  PROVE  (IF t >= start THEN (t - start) \div MinuteMs ELSE 0)
           <= (IF later >= start THEN (later - start) \div MinuteMs ELSE 0)
BY DEF MinuteMs

\* Only a clock action sets the minute of a ticking half back (compute_elapsed_minute,
\* clock_label; no other query writes the columns of the clock).
THEOREM MinuteAdvances == LedgerSpec => DisplayedMinuteAdvances
<1>1. ASSUME LedgerInv, LedgerInv', [LedgerNext]_ledgerVars
      PROVE  [fixture # None /\ fixture' # None
              /\ fixture.period \in TICKING_PERIODS
              /\ {a \in audit' \ audit : a.action = "clock"} = {}
              => LET before == clock_label(fixture, now)
                     after  == clock_label(fixture', now')
                 IN  /\ before # None /\ after # None
                     /\ before.minute <= after.minute
                     /\ before.minute + before.extra
                          <= after.minute + after.extra]_ledgerVars
  <2> SUFFICES ASSUME fixture # None, fixture' # None,
                      fixture.period \in TICKING_PERIODS,
                      \A a \in audit' \ audit : a.action # "clock"
               PROVE  LET before == clock_label(fixture, now)
                          after  == clock_label(fixture', now')
                      IN  /\ before # None /\ after # None
                          /\ before.minute <= after.minute
                          /\ before.minute + before.extra <= after.minute + after.extra
    OBVIOUS
  <2>1. LedgerStep
    BY <1>1, StepsAreLedgerSteps DEF LedgerInv
  <2>2. /\ fixture \in FixtureRow /\ fixture' \in FixtureRow
        /\ now \in Nat /\ now' \in Nat
    BY <1>1, InstantsTyped DEF LedgerInv, LedgerTypeOK
  <2>3. fixture.period_started_at \in Nat /\ fixture.period_started_at # None
    BY <1>1, <2>2 DEF LedgerInv, ColumnsAgree, ClockColumnsAgree, FixtureRow
  <2>4. /\ fixture'.period = fixture.period
        /\ fixture'.period_started_at = fixture.period_started_at
        /\ fixture'.period_base_minute = fixture.period_base_minute
        /\ now <= now'
    <3>1. ASSUME NEW r \in Requests, NEW q \in Payloads, NEW v \in Plan, NEW t \in Nat,
                 Created(r, q, v, t) \/ Deleted(r, q, v)
          PROVE  /\ fixture'.period = fixture.period
                 /\ fixture'.period_started_at = fixture.period_started_at
                 /\ fixture'.period_base_minute = fixture.period_base_minute
                 /\ now' = now
      BY <3>1, CreatedRow, RecalculatedRow DEF Created, Deleted
    <3>2. ASSUME NEW r \in Requests, NEW q \in Payloads, NEW v \in Plan, NEW t \in Nat,
                 Clocked(r, q, v, t)
          PROVE  FALSE
      BY <3>2, NewEntries DEF Clocked
    <3>3. ASSUME NEW r \in Requests, NEW q \in Payloads, Updated(r, q)
          PROVE  /\ fixture'.period = fixture.period
                 /\ fixture'.period_started_at = fixture.period_started_at
                 /\ fixture'.period_base_minute = fixture.period_base_minute
                 /\ now' = now
      BY <3>3, UpdatedRow DEF Updated
    <3>4. CASE DeleteFixture
      BY <3>4 DEF DeleteFixture
    <3>5. CASE (\E p \in Players : ForgetPlayer(p)) \/ Idle
      <4>1. fixture' = fixture /\ (now' = now \/ now' > now)
        BY <3>5 DEF ForgetPlayer, Idle
      <4> QED BY <2>2, <4>1
    <3>6. CASE \E r \in Requests, q \in Payloads, v \in Plan : Deleted(r, q, v)
      BY <2>2, <3>1, <3>6
    <3> QED BY <2>1, <2>2, <3>1, <3>2, <3>3, <3>4, <3>5, <3>6 DEF LedgerStep
  <2> DEFINE shown == ShownMinute(fixture, now)
             later == ShownMinute(fixture', now')
             end   == RegulationEnd(fixture)
  <2>5. RegulationEnd(fixture') = end
    BY <2>4 DEF RegulationEnd
  <2>6. /\ shown \in Nat /\ end \in Nat
        /\ clock_label(fixture, now) # None
        /\ clock_label(fixture, now).minute = IF shown <= end THEN shown ELSE end
        /\ clock_label(fixture, now).extra = IF shown <= end THEN 0 ELSE shown - end
    BY <2>2, <2>3, TickingLabel
  <2>7. /\ later \in Nat
        /\ clock_label(fixture', now') # None
        /\ clock_label(fixture', now').minute = IF later <= end THEN later ELSE end
        /\ clock_label(fixture', now').extra = IF later <= end THEN 0 ELSE later - end
    <3> HIDE DEF later, end
    <3> QED BY <2>2, <2>3, <2>4, <2>5, TickingLabel DEF later
  <2>8. shown <= later
    <3> DEFINE Passed(t) == IF t >= fixture.period_started_at
                            THEN (t - fixture.period_started_at) \div MinuteMs ELSE 0
    <3>1. Passed(now) <= Passed(now')
      BY <2>2, <2>3, <2>4, ShownAdvances
    <3>2. /\ shown = fixture.period_base_minute + Passed(now)
          /\ later = fixture.period_base_minute + Passed(now')
      BY <2>4 DEF ShownMinute
    <3>3. Passed(now) \in Int /\ Passed(now') \in Int
      BY <2>2, <2>3 DEF MinuteMs
    <3>4. fixture.period_base_minute \in Int
      BY <2>2 DEF FixtureRow
    <3> HIDE DEF Passed, shown, later
    <3> QED BY <3>1, <3>2, <3>3, <3>4
  <2> HIDE DEF shown, later, end
  <2> QED BY <2>6, <2>7, <2>8
<1> QED BY <1>1, LedgerInvAlways, PTL DEF LedgerSpec, DisplayedMinuteAdvances
===============================================================================
