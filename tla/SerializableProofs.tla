-------------------------- MODULE SerializableProofs --------------------------
(* Proofs that the interleaved handlers implement the ledger, for any set of *)
(* requests, clubs, players, payloads and rulesets: whatever the handlers    *)
(* read statements earlier, the verdict and the row a request commits are    *)
(* those of the rows as they stand at its commit.  And from the same         *)
(* invariant: the duplicate warning and the idempotency key survive every    *)
(* interleaving.                                                             *)
EXTENDS FixtureRequestsProofs

-------------------------------------------------------------------------------
(* The ledger's operators are those of FixtureOps *)

LEMMA SameCardinality == \A S : Ledger!Cardinality(S) = Cardinality(S)
BY DEF Ledger!Cardinality, Cardinality

LEMMA SameIds == Ledger!EventIds = EventIds /\ Ledger!Clubs = Clubs
BY DEF Ledger!EventIds, EventIds, Ledger!Clubs, Clubs

LEMMA SameScore ==
  ASSUME NEW fx, NEW evs
  PROVE  Ledger!recalculate_score(fx, evs) = recalculate_score(fx, evs)
<1>1. ASSUME NEW club
      PROVE  /\ Ledger!Goals(evs, club) = Goals(evs, club)
             /\ Ledger!OwnGoals(evs, club) = OwnGoals(evs, club)
  BY SameCardinality, SameIds DEF Ledger!Goals, Goals, Ledger!OwnGoals, OwnGoals
<1>2. Ledger!HomeScore(evs) = HomeScore(evs) /\ Ledger!AwayScore(evs) = AwayScore(evs)
  BY <1>1 DEF Ledger!HomeScore, HomeScore, Ledger!AwayScore, AwayScore
<1> QED BY <1>2 DEF Ledger!recalculate_score, recalculate_score

LEMMA SameRows ==
  ASSUME NEW fx, NEW rules, NEW evs, NEW q, NEW t
  PROVE  /\ Ledger!RowAfterCreate(fx, rules, evs) = RowAfterCreate(fx, rules, evs)
         /\ Ledger!RowAfterClock(fx, rules, q, t) = RowAfterClock(fx, rules, q, t)
         /\ Ledger!RowAfterUpdate(fx, q) = RowAfterUpdate(fx, q)
<1>1. Ledger!RowAfterCreate(fx, rules, evs) = RowAfterCreate(fx, rules, evs)
  BY SameScore DEF Ledger!RowAfterCreate, RowAfterCreate, Ledger!snapshot_ruleset,
                   snapshot_ruleset
<1>2. Ledger!RowAfterClock(fx, rules, q, t) = RowAfterClock(fx, rules, q, t)
  BY DEF Ledger!RowAfterClock, RowAfterClock, Ledger!snapshot_ruleset, snapshot_ruleset,
         Ledger!apply_clock_action, apply_clock_action, Ledger!StartHalf, StartHalf,
         Ledger!StopClock, StopClock
<1>3. Ledger!RowAfterUpdate(fx, q) = RowAfterUpdate(fx, q)
  BY DEF Ledger!RowAfterUpdate, RowAfterUpdate
<1> QED BY <1>1, <1>2, <1>3

LEMMA SameTables ==
  ASSUME NEW evs, NEW r, NEW q, NEW auto, NEW t, NEW id
  PROVE  /\ Ledger!EventsAfterCreate(evs, r, q, auto, t)
              = EventsAfterCreate(evs, r, q, auto, t)
         /\ Ledger!EventsAfterDelete(evs, id) = EventsAfterDelete(evs, id)
BY SameIds DEF Ledger!EventsAfterCreate, EventsAfterCreate, Ledger!NewEvent, NewEvent,
               Ledger!AutoRed, AutoRed, Ledger!EventsAfterDelete, EventsAfterDelete

LEMMA SameRules ==
  ASSUME NEW fx, NEW cfg
  PROVE  Ledger!EffectiveRuleset(fx, cfg) = EffectiveRuleset(fx, cfg)
BY DEF Ledger!EffectiveRuleset, EffectiveRuleset, Ledger!resolve_ruleset,
       resolve_ruleset, Ledger!OrElse, OrElse, Ledger!CupFormal, CupFormal,
       Ledger!Grassroots, Grassroots

LEMMA SameDecision == \A level, code : Ledger!Decision(level, code) = Decision(level, code)
BY DEF Ledger!Decision, Decision

LEMMA SameFullTime ==
  ASSUME NEW fx, NEW rules, NEW code
  PROVE  /\ Ledger!AtFullTime(fx) <=> AtFullTime(fx)
         /\ Ledger!FullTimeDecision(rules, code) = FullTimeDecision(rules, code)
BY SameDecision
DEF Ledger!AtFullTime, AtFullTime, Ledger!FullTimeDecision, FullTimeDecision

LEMMA SameEvaluation ==
  ASSUME NEW q, NEW fx, NEW evs, NEW rules, NEW t
  PROVE  Ledger!evaluate_event(q, fx, evs, rules, t) = evaluate_event(q, fx, evs, rules, t)
<1>1. Ledger!SecondYellow(q, evs) <=> SecondYellow(q, evs)
  BY DEF Ledger!SecondYellow, SecondYellow, Ledger!Recorded, Recorded
<1>2. Ledger!SubstitutionLimitReached(q, evs, rules)
        <=> SubstitutionLimitReached(q, evs, rules)
  BY SameCardinality
  DEF Ledger!SubstitutionLimitReached, SubstitutionLimitReached, Ledger!Substitutions,
      Substitutions, Ledger!Recorded, Recorded
<1>3. Ledger!RecentDuplicate(q, evs, rules.duplicate_event_window_ms, t)
        <=> RecentDuplicate(q, evs, rules.duplicate_event_window_ms, t)
  BY DEF Ledger!RecentDuplicate, RecentDuplicate, Ledger!Recorded, Recorded,
         Ledger!SameIncident, SameIncident
<1> QED BY <1>1, <1>2, <1>3, SameFullTime, SameDecision
        DEF Ledger!evaluate_event, evaluate_event, Ledger!When, When

LEMMA SameEnforcement ==
  ASSUME NEW ds, NEW q, NEW rules, NEW auto
  PROVE  Ledger!Enforced(ds, q, rules, auto) = Enforced(ds, q, rules, auto)
BY DEF Ledger!Enforced, Enforced, Ledger!Verdict, Verdict, Ledger!enforce_policy,
       enforce_policy, Ledger!Blocks, Blocks, Ledger!Unacknowledged, Unacknowledged,
       Ledger!PLATFORM_OPS_ROLES, PLATFORM_OPS_ROLES

LEMMA SameVerdicts ==
  ASSUME NEW fx, NEW evs, NEW belongs, NEW cfg, NEW q, NEW t
  PROVE  /\ Ledger!CreateVerdict(fx, evs, belongs, cfg, q, t)
              = CreateVerdict(fx, evs, belongs, cfg, q, t)
         /\ Ledger!DeleteVerdict(fx, evs, cfg, q) = DeleteVerdict(fx, evs, cfg, q)
         /\ Ledger!ClockVerdict(fx, cfg, q) = ClockVerdict(fx, cfg, q)
         /\ Ledger!UpdateVerdict(q) = UpdateVerdict(q)
<1>1. /\ \A a : Ledger!Refuse(a) = Refuse(a)
      /\ \A club : Ledger!HasClubAccess(q, club) <=> HasClubAccess(q, club)
      /\ Ledger!WithKey(evs, q.key) = WithKey(evs, q.key)
      /\ \A i : Ledger!SameEvent(evs[i], q) <=> SameEvent(evs[i], q)
  BY DEF Ledger!Refuse, Refuse, Ledger!Verdict, Verdict, Ledger!HasClubAccess,
         HasClubAccess, Ledger!PLATFORM_OPS_ROLES, PLATFORM_OPS_ROLES, Ledger!WithKey,
         WithKey, Ledger!Recorded, Recorded, Ledger!SameEvent, SameEvent
<1>2. Ledger!CreateVerdict(fx, evs, belongs, cfg, q, t)
        = CreateVerdict(fx, evs, belongs, cfg, q, t)
  BY <1>1, SameIds, SameRules, SameEvaluation, SameEnforcement
  DEF Ledger!CreateVerdict, CreateVerdict
<1>3. Ledger!DeleteVerdict(fx, evs, cfg, q) = DeleteVerdict(fx, evs, cfg, q)
  BY <1>1, SameRules, SameFullTime, SameEnforcement
  DEF Ledger!DeleteVerdict, DeleteVerdict, Ledger!evaluate_event_deletion,
      evaluate_event_deletion, Ledger!When, When
<1>4. Ledger!ClockVerdict(fx, cfg, q) = ClockVerdict(fx, cfg, q)
  <2>1. ASSUME NEW rules
        PROVE  Ledger!evaluate_clock(q.action, fx, rules) = evaluate_clock(q.action, fx, rules)
    BY SameDecision DEF Ledger!evaluate_clock, evaluate_clock, Ledger!When, When,
       Ledger!ValidTransition, ValidTransition, Ledger!ExpectedPeriod, ExpectedPeriod,
       Ledger!ClockTransitions, ClockTransitions
  <2>2. Ledger!ClockActionInvalid(fx, q) <=> ClockActionInvalid(fx, q)
    BY DEF Ledger!ClockActionInvalid, ClockActionInvalid, Ledger!TICKING_PERIODS,
           TICKING_PERIODS
  <2> DEFINE rules == EffectiveRuleset(fx, cfg)
             v == Enforced(evaluate_clock(q.action, fx, rules), q, rules, FALSE)
  <2>3. /\ Ledger!EffectiveRuleset(fx, cfg) = rules
        /\ Ledger!Enforced(Ledger!evaluate_clock(q.action, fx, rules), q, rules, FALSE) = v
        /\ Ledger!Refuse("bad_request") = Refuse("bad_request")
    BY <1>1, <2>1, SameRules, SameEnforcement
  <2>4. Ledger!ClockVerdict(fx, cfg, q)
          = IF v.answer = "ok" /\ ClockActionInvalid(fx, q)
            THEN Refuse("bad_request") ELSE v
    <3> HIDE DEF v, rules
    <3> QED BY <2>2, <2>3 DEF Ledger!ClockVerdict
  <2> QED BY <2>4 DEF ClockVerdict
<1>5. Ledger!UpdateVerdict(q) = UpdateVerdict(q)
  BY DEF Ledger!UpdateVerdict, UpdateVerdict, Ledger!Refuse, Refuse, Ledger!Verdict, Verdict
<1> QED BY <1>2, <1>3, <1>4, <1>5

\* The guards and the audit of the ledger.
LEMMA SameLedger ==
  ASSUME NEW q, NEW r, NEW action, NEW entity, NEW over
  PROVE  /\ Ledger!AuditOf(action, entity, r, over) = AuditOf(action, entity, r, over)
         /\ Ledger!NoEvents = NoEvents /\ Ledger!NewFixture = NewFixture
         /\ Ledger!Unserved(r) <=> \A a \in audit : a.by # r
         /\ Ledger!Past = {t \in Instants : t <= now}
BY SameIds DEF Ledger!AuditOf, AuditOf, Ledger!NoEvents, NoEvents, Ledger!NewFixture,
               NewFixture, Ledger!Unserved, Ledger!Past

-------------------------------------------------------------------------------
(* What a verdict to write rests on *)

\* The conditions before the rule engine is asked.
Admitted(fx, evs, belongs, q) ==
  /\ HasClubAccess(q, q.club) /\ q.club \in Clubs
  /\ q.player = None \/ belongs
  /\ WithKey(evs, q.key) = {}
  /\ fx.status \in {"live", "scheduled", "completed"}

\* The verdict of the rule engine.
Ruled(fx, evs, cfg, q, t) ==
  LET rules == EffectiveRuleset(fx, cfg)
      eval  == evaluate_event(q, fx, evs, rules, t)
  IN  Enforced(eval.decisions, q, rules, eval.auto_red)

LEMMA VerdictIfAdmitted ==
  ASSUME NEW fx, NEW evs, NEW belongs, NEW cfg, NEW q, NEW t
  PROVE  /\ CreateVerdict(fx, evs, belongs, cfg, q, t).answer = "ok"
              => Admitted(fx, evs, belongs, q)
         /\ Admitted(fx, evs, belongs, q)
              => CreateVerdict(fx, evs, belongs, cfg, q, t) = Ruled(fx, evs, cfg, q, t)
<1>1. CASE Admitted(fx, evs, belongs, q)
  BY <1>1 DEF Admitted, CreateVerdict, Ruled
<1>2. CASE ~Admitted(fx, evs, belongs, q)
  <2>1. \/ CreateVerdict(fx, evs, belongs, cfg, q, t) = Refuse("forbidden")
        \/ CreateVerdict(fx, evs, belongs, cfg, q, t) = Refuse("bad_request")
        \/ CreateVerdict(fx, evs, belongs, cfg, q, t) = Refuse("replayed")
        \/ CreateVerdict(fx, evs, belongs, cfg, q, t) = Refuse("conflict")
    BY <1>2 DEF Admitted, CreateVerdict
  <2> QED BY <1>2, <2>1 DEF Refuse, Verdict
<1> QED BY <1>1, <1>2

\* The ledger's verdict: it does not look at the roster.
LedgerVerdict(fx, evs, cfg, q, t) == CreateVerdict(fx, evs, TRUE, cfg, q, t)

LEMMA LedgerAdmits ==
  ASSUME NEW fx, NEW evs, NEW cfg, NEW q, NEW t
  PROVE  /\ LedgerVerdict(fx, evs, cfg, q, t).answer = "ok"
              => Admitted(fx, evs, TRUE, q)
         /\ Admitted(fx, evs, TRUE, q)
              => LedgerVerdict(fx, evs, cfg, q, t) = Ruled(fx, evs, cfg, q, t)
BY VerdictIfAdmitted DEF LedgerVerdict

\* A player who was found in the club may move or be deleted: the ledger does
\* not ask again.
LEMMA VerdictWithoutRoster ==
  ASSUME NEW fx, NEW evs, NEW belongs, NEW cfg, NEW q, NEW t,
         CreateVerdict(fx, evs, belongs, cfg, q, t).answer = "ok"
  PROVE  CreateVerdict(fx, evs, belongs, cfg, q, t)
           = LedgerVerdict(fx, evs, cfg, q, t)
<1>1. Admitted(fx, evs, belongs, q) /\ Admitted(fx, evs, TRUE, q)
  BY VerdictIfAdmitted DEF Admitted
<1>2. CreateVerdict(fx, evs, belongs, cfg, q, t) = Ruled(fx, evs, cfg, q, t)
  BY <1>1, VerdictIfAdmitted
<1>3. LedgerVerdict(fx, evs, cfg, q, t) = Ruled(fx, evs, cfg, q, t)
  BY <1>1, LedgerAdmits
<1> QED BY <1>2, <1>3

\* The events once player p is deleted.
Forgotten(evs, p) ==
  [i \in EventIds |-> IF evs[i] # None /\ evs[i].player = p
                      THEN [evs[i] EXCEPT !.player = None] ELSE evs[i]]

LEMMA ForgottenFields ==
  ASSUME NEW evs \in EventTable, NEW p, NEW i \in EventIds
  PROVE  /\ Forgotten(evs, p)[i] = None <=> evs[i] = None
         /\ evs[i] # None =>
              /\ Forgotten(evs, p)[i].club = evs[i].club
              /\ Forgotten(evs, p)[i].event_type = evs[i].event_type
              /\ Forgotten(evs, p)[i].minute = evs[i].minute
              /\ Forgotten(evs, p)[i].key = evs[i].key
              /\ Forgotten(evs, p)[i].source = evs[i].source
              /\ Forgotten(evs, p)[i].created_at = evs[i].created_at
              /\ Forgotten(evs, p)[i].player
                   = IF evs[i].player = p THEN None ELSE evs[i].player
<1>1. ASSUME NEW e \in EventRow
      PROVE  LET f == [e EXCEPT !.player = None]
             IN  /\ f \in EventRow /\ f.club = e.club /\ f.event_type = e.event_type
                 /\ f.minute = e.minute /\ f.key = e.key /\ f.source = e.source
                 /\ f.created_at = e.created_at /\ f.player = None
  BY DEF EventRow
<1>2. Forgotten(evs, p)[i] = IF evs[i] # None /\ evs[i].player = p
                             THEN [evs[i] EXCEPT !.player = None] ELSE evs[i]
  BY DEF Forgotten
<1>3. evs[i] # None => evs[i] \in EventRow
  BY DEF EventTable
<1> QED BY <1>1, <1>2, <1>3, NullIsNoRow

LEMMA ForgottenKeeps ==
  ASSUME NEW evs \in EventTable, NEW p, NEW q, NEW rules
  PROVE  /\ SameTally(Forgotten(evs, p), evs)
         /\ WithKey(Forgotten(evs, p), q.key) = WithKey(evs, q.key)
         /\ SubstitutionLimitReached(q, Forgotten(evs, p), rules)
              <=> SubstitutionLimitReached(q, evs, rules)
<1> DEFINE other == Forgotten(evs, p)
<1>1. DOMAIN other = EventIds /\ DOMAIN evs = EventIds
  BY DEF Forgotten, EventTable
<1>2. \A i \in EventIds :
        /\ other[i] = None <=> evs[i] = None
        /\ evs[i] # None => /\ other[i].club = evs[i].club
                            /\ other[i].event_type = evs[i].event_type
                            /\ other[i].key = evs[i].key
                            /\ other[i].source = evs[i].source
  BY ForgottenFields
<1> HIDE DEF other
<1>3. Recorded(other) = Recorded(evs)
  BY <1>1, <1>2 DEF Recorded
<1>4. Substitutions(other, q.club) = Substitutions(evs, q.club)
  BY <1>1, <1>2, <1>3 DEF Substitutions, Recorded
<1>5. WithKey(other, q.key) = WithKey(evs, q.key)
  BY <1>1, <1>2, <1>3 DEF WithKey, Recorded
<1>6. SameTally(other, evs)
  BY <1>2 DEF SameTally
<1>7. SubstitutionLimitReached(q, other, rules) <=> SubstitutionLimitReached(q, evs, rules)
  BY <1>4 DEF SubstitutionLimitReached
<1> QED BY <1>5, <1>6, <1>7 DEF other

\* The deletion of a player the request does not name leaves its verdict.
LEMMA VerdictDespiteDeletion ==
  ASSUME NEW fx, NEW evs \in EventTable, NEW cfg, NEW q, NEW t, NEW p,
         q.player # None, q.player # p,
         LedgerVerdict(fx, evs, cfg, q, t).answer = "ok"
  PROVE  LedgerVerdict(fx, Forgotten(evs, p), cfg, q, t)
           = LedgerVerdict(fx, evs, cfg, q, t)
<1> DEFINE other == Forgotten(evs, p)
           rules == EffectiveRuleset(fx, cfg)
<1>1. DOMAIN other = EventIds /\ DOMAIN evs = EventIds
  BY DEF Forgotten, EventTable
<1>2. \A i \in EventIds :
        /\ other[i] = None <=> evs[i] = None
        /\ evs[i] # None =>
             /\ other[i].club = evs[i].club
             /\ other[i].event_type = evs[i].event_type
             /\ other[i].minute = evs[i].minute
             /\ other[i].created_at = evs[i].created_at
             /\ other[i].player = q.player <=> evs[i].player = q.player
  BY ForgottenFields
<1>3. Admitted(fx, evs, TRUE, q) /\ Admitted(fx, other, TRUE, q)
  <2>1. Admitted(fx, evs, TRUE, q)
    BY LedgerAdmits
  <2>2. WithKey(other, q.key) = WithKey(evs, q.key)
    BY ForgottenKeeps
  <2> HIDE DEF other
  <2> QED BY <2>1, <2>2 DEF Admitted
<1>4. SubstitutionLimitReached(q, other, rules) <=> SubstitutionLimitReached(q, evs, rules)
  BY ForgottenKeeps
<1>5. evaluate_event(q, fx, other, rules, t) = evaluate_event(q, fx, evs, rules, t)
  <2> HIDE DEF other, rules
  <2>1. SecondYellow(q, other) <=> SecondYellow(q, evs)
    BY <1>1, <1>2 DEF SecondYellow, Recorded
  <2>2. RecentDuplicate(q, other, rules.duplicate_event_window_ms, t)
          <=> RecentDuplicate(q, evs, rules.duplicate_event_window_ms, t)
    BY <1>1, <1>2 DEF RecentDuplicate, Recorded, SameIncident
  <2>3. SubstitutionLimitReached(q, other, rules)
          <=> SubstitutionLimitReached(q, evs, rules)
    BY <1>4 DEF other, rules
  <2> QED BY <2>1, <2>2, <2>3 DEF evaluate_event, When
<1>6. Ruled(fx, other, cfg, q, t) = Ruled(fx, evs, cfg, q, t)
  BY <1>5 DEF Ruled
<1>7. LedgerVerdict(fx, other, cfg, q, t) = Ruled(fx, other, cfg, q, t)
  BY <1>3, LedgerAdmits
<1>8. LedgerVerdict(fx, evs, cfg, q, t) = Ruled(fx, evs, cfg, q, t)
  BY <1>3, LedgerAdmits
<1> QED BY <1>6, <1>7, <1>8

\* q with the duplicate warning acknowledged.
Relaxed(q) == [q EXCEPT !.ack = @ \cup {"possible_duplicate"}]

LEMMA RelaxedFields ==
  ASSUME NEW q \in CreatePayload
  PROVE  LET j == Relaxed(q)
         IN  /\ j \in CreatePayload
             /\ j.role = q.role /\ j.manages = q.manages /\ j.club = q.club
             /\ j.player = q.player /\ j.event_type = q.event_type
             /\ j.minute = q.minute /\ j.key = q.key
             /\ j.override = q.override /\ j.reason = q.reason
             /\ j.ack = q.ack \cup {"possible_duplicate"}
BY DEF Relaxed, CreatePayload, WarningCodes

LEMMA RelaxedTwice ==
  ASSUME NEW q \in CreatePayload
  PROVE  Relaxed(Relaxed(q)) = Relaxed(q)
BY DEF Relaxed, CreatePayload, WarningCodes

\* Any deletion leaves the verdict of a request that names no player, but for
\* a duplicate it may now be: an event that has just lost its player.
LEMMA VerdictWithoutPlayer ==
  ASSUME NEW fx, NEW evs \in EventTable, NEW cfg, NEW q \in CreatePayload, NEW t,
         NEW p, q.player = None,
         LedgerVerdict(fx, evs, cfg, q, t).answer = "ok"
  PROVE  LedgerVerdict(fx, Forgotten(evs, p), cfg, Relaxed(q), t)
           = LedgerVerdict(fx, evs, cfg, q, t)
<1> DEFINE other == Forgotten(evs, p)
           rules == EffectiveRuleset(fx, cfg)
           j == Relaxed(q)
           old == evaluate_event(q, fx, evs, rules, t)
           new == evaluate_event(j, fx, other, rules, t)
<1>1. /\ j.role = q.role /\ j.manages = q.manages /\ j.club = q.club
      /\ j.player = q.player /\ j.event_type = q.event_type /\ j.key = q.key
      /\ j.override = q.override /\ j.reason = q.reason
      /\ j.ack = q.ack \cup {"possible_duplicate"}
  BY RelaxedFields
<1>2. Admitted(fx, evs, TRUE, q)
  BY LedgerAdmits
<1>3. Admitted(fx, other, TRUE, j)
  <2>1. WithKey(other, q.key) = WithKey(evs, q.key)
    BY ForgottenKeeps
  <2> HIDE DEF other, j
  <2> QED BY <1>1, <1>2, <2>1 DEF Admitted, HasClubAccess
<1>4. ~SecondYellow(q, evs) /\ ~SecondYellow(j, other)
  BY <1>1 DEF SecondYellow
<1>5. SubstitutionLimitReached(j, other, rules) <=> SubstitutionLimitReached(q, evs, rules)
  <2>1. SubstitutionLimitReached(q, other, rules)
          <=> SubstitutionLimitReached(q, evs, rules)
    BY ForgottenKeeps
  <2> HIDE DEF other, rules, j
  <2> QED BY <1>1, <2>1 DEF SubstitutionLimitReached
<1>6. /\ old.auto_red = FALSE /\ new.auto_red = FALSE
      /\ \A d : d # Decision("warn", "possible_duplicate") =>
           (d \in new.decisions <=> d \in old.decisions)
  <2> HIDE DEF other, rules, j
  <2> QED BY <1>1, <1>4, <1>5 DEF evaluate_event, When
<1> HIDE DEF other, rules, j, old, new
<1>7. Blocks(new.decisions) = Blocks(old.decisions)
  BY <1>6 DEF Blocks, Decision
<1>8. Unacknowledged(new.decisions, j) \subseteq Unacknowledged(old.decisions, q)
  BY <1>1, <1>6 DEF Unacknowledged, Decision
<1>9. enforce_policy(old.decisions, q) = "ok"
  <2>1. LedgerVerdict(fx, evs, cfg, q, t) = Ruled(fx, evs, cfg, q, t)
    BY <1>2, LedgerAdmits
  <2>2. Ruled(fx, evs, cfg, q, t) = Enforced(old.decisions, q, rules, old.auto_red)
    BY DEF Ruled, old, rules
  <2>3. Enforced(old.decisions, q, rules, old.auto_red).answer = "ok"
    BY <2>1, <2>2
  <2>4. Enforced(old.decisions, q, rules, old.auto_red).answer
          = enforce_policy(old.decisions, q)
    BY DEF Enforced, Verdict
  <2> QED BY <2>3, <2>4
<1>10. enforce_policy(new.decisions, j) = "ok"
  BY <1>1, <1>7, <1>8, <1>9 DEF enforce_policy
<1>11. Enforced(new.decisions, j, rules, new.auto_red)
         = Enforced(old.decisions, q, rules, old.auto_red)
  BY <1>6, <1>7, <1>9, <1>10 DEF Enforced
<1>12. Ruled(fx, other, cfg, j, t) = Ruled(fx, evs, cfg, q, t)
  BY <1>11 DEF Ruled, new, old, rules
<1>13. LedgerVerdict(fx, other, cfg, j, t) = Ruled(fx, other, cfg, j, t)
  BY <1>3, LedgerAdmits
<1>14. LedgerVerdict(fx, evs, cfg, q, t) = Ruled(fx, evs, cfg, q, t)
  BY <1>2, LedgerAdmits
<1> QED BY <1>12, <1>13, <1>14 DEF other, j

-------------------------------------------------------------------------------
(* The inductive invariant: what was judged under the lock is what the rows  *)
(* as they stand would be judged, by some ruleset and at some instant.       *)

Past == {t \in Instants : t <= now}

\* Who left an audit entry has committed; every transaction began in the past.
AuditOfServed == \A a \in audit : pc[a.by] \in {"committed", "done"}
BeganPast == \A r \in Requests : began[r] <= now

PlayerGone(r) ==
  /\ req[r].player # None /\ req[r].player \in Players
  /\ roster[req[r].player] = None

Judges(evs, q, v) ==
  \E cfg \in Configs, t \in Past, judged \in Ledger!Judged(q) :
    v = LedgerVerdict(fixture, evs, cfg, judged, t)

\* A player who is deleted between the checks and the insertion makes the
\* foreign key refuse the event.
PlanStillJudged(r) ==
  pc[r] \in {"checked", "applied"} =>
    /\ req[r].op = "create_event" =>
         Judges(events, req[r], plan[r]) \/ (pc[r] = "checked" /\ PlayerGone(r))
    /\ req[r].op = "delete_event" =>
         \E cfg \in Configs : plan[r] = DeleteVerdict(fixture, events, cfg, req[r])
    /\ req[r].op = "clock" =>
         \E cfg \in Configs : plan[r] = ClockVerdict(fixture, cfg, req[r])
    /\ req[r].op = "update_fixture" => plan[r] = UpdateVerdict(req[r])

RowStillJudged(r) ==
  pc[r] = "applied" =>
    /\ req[r].op = "create_event" =>
         row[r] = RowAfterCreate(fixture, plan[r].rules, EventsWith(r, events))
    /\ req[r].op = "delete_event" =>
         row[r] = recalculate_score(fixture, EventsWith(r, events))
    /\ req[r].op = "clock" =>
         \E t \in Past : row[r] = RowAfterClock(fixture, plan[r].rules, req[r], t)
    /\ req[r].op = "update_fixture" => row[r] = RowAfterUpdate(fixture, req[r])

StillSerial ==
  /\ AuditOfServed /\ BeganPast
  /\ \A r \in Requests : PlanStillJudged(r) /\ RowStillJudged(r)

SerialInv == Inv /\ StillSerial

LEMMA JudgedSet ==
  ASSUME NEW q
  PROVE  Ledger!Judged(q) = {q} \cup IF q.player = None THEN {Relaxed(q)} ELSE {}
BY DEF Ledger!Judged, Relaxed

LEMMA JudgedDespiteDeletion ==
  ASSUME Inv, NEW q \in CreatePayload, NEW v, v.answer = "ok", NEW p,
         q.player = None \/ q.player # p, Judges(events, q, v)
  PROVE  Judges(Forgotten(events, p), q, v)
<1>1. PICK cfg \in Configs, t \in Past, judged \in Ledger!Judged(q) :
        v = LedgerVerdict(fixture, events, cfg, judged, t)
  BY DEF Judges
<1>2. events \in EventTable
  BY DEF Inv, TypeOK, EventTable
<1>3. judged \in CreatePayload /\ judged.player = q.player
  BY JudgedSet, RelaxedFields
<1>4. LedgerVerdict(fixture, events, cfg, judged, t).answer = "ok"
  BY <1>1
<1>5. CASE q.player = None
  <2>1. Relaxed(judged) \in Ledger!Judged(q)
    BY <1>5, JudgedSet, RelaxedTwice
  <2>2. LedgerVerdict(fixture, Forgotten(events, p), cfg, Relaxed(judged), t)
          = LedgerVerdict(fixture, events, cfg, judged, t)
    BY <1>2, <1>3, <1>4, <1>5, VerdictWithoutPlayer
  <2> QED BY <1>1, <2>1, <2>2 DEF Judges
<1>6. CASE q.player # None
  <2>1. LedgerVerdict(fixture, Forgotten(events, p), cfg, judged, t)
          = LedgerVerdict(fixture, events, cfg, judged, t)
    BY <1>2, <1>3, <1>4, <1>6, VerdictDespiteDeletion
  <2> QED BY <1>1, <2>1 DEF Judges
<1> QED BY <1>5, <1>6

\* While the rows stand still, a request that is not touched is still judged as
\* it was.
LEMMA StillJudged ==
  ASSUME SerialInv, NEW s \in Requests, Untouched(s),
         fixture' = fixture, events' = events, now' \in Instants, now <= now',
         PlayerGone(s) => PlayerGone(s)'
  PROVE  PlanStillJudged(s)' /\ RowStillJudged(s)'
<1>1. \A t \in Past : t \in Past'
  BY InstantsTyped DEF Past, SerialInv, Inv, TypeOK
<1>2. EventsWith(s, events)' = EventsWith(s, events)
  BY DEF EventsWith, Untouched
<1>3. PlanStillJudged(s) /\ RowStillJudged(s)
  BY DEF SerialInv, StillSerial
<1>4. Judges(events, req[s], plan[s]) => Judges(events, req[s], plan[s])'
  BY <1>1, JudgedSet DEF Judges, Untouched
<1>5. PlanStillJudged(s)'
  BY <1>3, <1>4 DEF PlanStillJudged, Untouched
<1>6. RowStillJudged(s)'
  BY <1>1, <1>2, <1>3 DEF RowStillJudged, Untouched
<1> QED BY <1>5, <1>6

\* Steps that leave the rows alone leave the audit and the clock alone too.
LEMMA QuietKeeps ==
  ASSUME SerialInv, NEW r \in Requests, UNCHANGED <<database, environment>>,
         \A s \in Requests \ {r} : Untouched(s),
         began'[r] <= now, pc[r] \in {"committed", "done"} => pc'[r] = "done",
         PlanStillJudged(r)', RowStillJudged(r)'
  PROVE  StillSerial'
<1>1. /\ fixture' = fixture /\ events' = events /\ audit' = audit
      /\ now' = now /\ roster' = roster /\ now \in Instants /\ now \in Nat
  BY InstantsTyped DEF database, environment, SerialInv, Inv, TypeOK
<1>2. AuditOfServed'
  <2> SUFFICES ASSUME NEW a \in audit PROVE pc'[a.by] \in {"committed", "done"}
    BY <1>1 DEF AuditOfServed
  <2>1. a.by \in Requests
    BY DEF SerialInv, Inv, TypeOK, AuditEntry
  <2>2. pc[a.by] \in {"committed", "done"}
    BY DEF SerialInv, StillSerial, AuditOfServed
  <2> QED BY <2>1, <2>2 DEF Untouched
<1>3. BeganPast'
  <2> SUFFICES ASSUME NEW s \in Requests PROVE began'[s] <= now
    BY <1>1 DEF BeganPast
  <2> QED BY DEF SerialInv, StillSerial, BeganPast, Untouched
<1>4. ASSUME NEW s \in Requests \ {r} PROVE PlanStillJudged(s)' /\ RowStillJudged(s)'
  <2>1. PlayerGone(s) => PlayerGone(s)'
    BY <1>1 DEF PlayerGone, Untouched
  <2> QED BY <1>1, <2>1, StillJudged
<1> QED BY <1>2, <1>3, <1>4 DEF StillSerial

LEMMA FinishKeepsSerial ==
  ASSUME SerialInv, NEW r \in Requests, NEW outcome, Finish(r, outcome),
         UNCHANGED <<database, environment>>, began'[r] <= now,
         \A s \in Requests \ {r} : req'[s] = req[s] /\ began'[s] = began[s]
  PROVE  StillSerial'
<1>1. pc'[r] = "done" /\ \A s \in Requests \ {r} : Untouched(s)
  BY DEF Finish, AdvanceTo, Untouched, SerialInv, Inv, TypeOK
<1>2. PlanStillJudged(r)' /\ RowStillJudged(r)'
  BY <1>1 DEF PlanStillJudged, RowStillJudged
<1> QED BY <1>1, <1>2, QuietKeeps

LEMMA BeganInTime ==
  ASSUME SerialInv, NEW r \in Requests
  PROVE  began[r] <= now /\ began[r] \in Past
BY DEF SerialInv, StillSerial, BeganPast, Past, Inv, TypeOK

-------------------------------------------------------------------------------
(* Each action keeps the invariant *)

LEMMA BeginKeepsSerial ==
  ASSUME SerialInv, NEW r \in Requests, Begin(r)
  PROVE  StillSerial'
<1>1. /\ \A s \in Requests \ {r} : req'[s] = req[s] /\ began'[s] = began[s]
      /\ UNCHANGED <<database, environment>> /\ pc[r] = "idle"
      /\ began'[r] <= now
  BY InstantsTyped DEF Begin, SerialInv, Inv, TypeOK
<1>2. ASSUME NEW outcome, Finish(r, outcome) PROVE StillSerial'
  BY <1>1, <1>2, FinishKeepsSerial
<1>3. CASE AdvanceTo(r, "waiting") /\ UNCHANGED <<lock, plan, row, answer>>
  <2>1. pc'[r] = "waiting" /\ \A s \in Requests \ {r} : Untouched(s)
    BY <1>1, <1>3 DEF AdvanceTo, Untouched, SerialInv, Inv, TypeOK
  <2>2. PlanStillJudged(r)' /\ RowStillJudged(r)'
    BY <2>1 DEF PlanStillJudged, RowStillJudged
  <2> QED BY <1>1, <2>1, <2>2, QuietKeeps
<1> QED BY <1>2, <1>3 DEF Begin

LEMMA LockKeepsSerial ==
  ASSUME SerialInv, NEW r \in Requests, LockFixture(r)
  PROVE  StillSerial'
<1>1. CASE Finish(r, "not_found")
  BY <1>1, BeganInTime, FinishKeepsSerial DEF LockFixture
<1>2. CASE AdvanceTo(r, "locked") /\ UNCHANGED <<plan, row, answer>>
  <2>1. /\ pc[r] = "waiting" /\ pc'[r] = "locked" /\ began'[r] = began[r]
        /\ \A s \in Requests \ {r} : Untouched(s)
    BY <1>2 DEF LockFixture, AdvanceTo, Untouched, SerialInv, Inv, TypeOK
  <2>2. PlanStillJudged(r)' /\ RowStillJudged(r)'
    BY <2>1 DEF PlanStillJudged, RowStillJudged
  <2> QED BY <2>1, <2>2, BeganInTime, QuietKeeps DEF LockFixture
<1> QED BY <1>1, <1>2 DEF LockFixture

\* The verdict of a check is one of the ledger's on the rows it has read.
LEMMA ChecksKeepSerial ==
  ASSUME SerialInv, NEW r \in Requests, NEW op, NEW v, Check(r, op, v),
         v.answer = "ok" =>
           /\ op = "create_event" => Judges(events, req[r], v)
           /\ op = "delete_event" =>
                \E cfg \in Configs : v = DeleteVerdict(fixture, events, cfg, req[r])
           /\ op = "clock" =>
                \E cfg \in Configs : v = ClockVerdict(fixture, cfg, req[r])
           /\ op = "update_fixture" => v = UpdateVerdict(req[r])
  PROVE  StillSerial'
<1>1. CASE Finish(r, v.answer)
  BY <1>1, BeganInTime, FinishKeepsSerial DEF Check
<1>2. CASE /\ v.answer = "ok" /\ plan' = [plan EXCEPT ![r] = v]
           /\ AdvanceTo(r, "checked") /\ UNCHANGED <<lock, row, answer>>
  <2>1. /\ pc[r] = "locked" /\ pc'[r] = "checked" /\ plan'[r] = v
        /\ req[r].op = op /\ req' = req /\ began' = began
        /\ fixture' = fixture /\ events' = events /\ now' = now
        /\ \A s \in Requests \ {r} : Untouched(s)
    BY <1>2 DEF Check, AdvanceTo, Untouched, SerialInv, Inv, TypeOK, database,
                environment
  <2>2. Judges(events, req[r], v) => Judges(events, req[r], plan[r])'
    BY <2>1, JudgedSet DEF Judges, Past
  <2>3. PlanStillJudged(r)' /\ RowStillJudged(r)'
    BY <1>2, <2>1, <2>2 DEF PlanStillJudged, RowStillJudged
  <2> QED BY <2>1, <2>3, BeganInTime, QuietKeeps DEF Check
<1> QED BY <1>1, <1>2 DEF Check, Decide

LEMMA CheckKeepsSerial ==
  ASSUME SerialInv, NEW r \in Requests,
         CheckCreate(r) \/ CheckDelete(r) \/ CheckClock(r) \/ CheckUpdate(r)
  PROVE  StillSerial'
<1>1. tournament \in Configs /\ now \in Past
  BY InstantsTyped DEF SerialInv, Inv, TypeOK, Past
<1>2. CASE CheckCreate(r)
  <2> DEFINE v == CreateVerdict(fixture, events, Belongs(req[r]), tournament,
                                req[r], now)
  <2>1. v.answer = "ok" => v = LedgerVerdict(fixture, events, tournament, req[r], now)
    BY VerdictWithoutRoster
  <2>2. Check(r, "create_event", v)
    BY <1>2 DEF CheckCreate
  <2> HIDE DEF v
  <2>3. v.answer = "ok" => Judges(events, req[r], v)
    BY <1>1, <2>1, JudgedSet DEF Judges
  <2> QED BY <2>2, <2>3, ChecksKeepSerial
<1>3. CASE CheckDelete(r)
  BY <1>1, <1>3, ChecksKeepSerial DEF CheckDelete
<1>4. CASE CheckClock(r)
  BY <1>1, <1>4, ChecksKeepSerial DEF CheckClock
<1>5. CASE CheckUpdate(r)
  BY <1>5, ChecksKeepSerial DEF CheckUpdate
<1> QED BY <1>2, <1>3, <1>4, <1>5

\* The row is computed from the row and the events as they stand.
LEMMA WriteKeepsSerial ==
  ASSUME SerialInv, NEW r \in Requests, NEW op, NEW newRow, Write(r, op, newRow),
         op = "create_event" =>
           /\ ~PlayerGone(r)
           /\ newRow = RowAfterCreate(fixture, plan[r].rules, EventsWith(r, events)),
         op = "delete_event" =>
           newRow = recalculate_score(fixture, EventsWith(r, events)),
         op = "clock" => newRow = RowAfterClock(fixture, plan[r].rules, req[r], now),
         op = "update_fixture" => newRow = RowAfterUpdate(fixture, req[r])
  PROVE  StillSerial'
<1>1. /\ pc[r] = "checked" /\ pc'[r] = "applied" /\ row'[r] = newRow
      /\ req[r].op = op /\ req' = req /\ plan' = plan /\ began' = began
      /\ fixture' = fixture /\ events' = events /\ now' = now
      /\ \A s \in Requests \ {r} : Untouched(s)
  BY DEF Write, AdvanceTo, Untouched, SerialInv, Inv, TypeOK, database, environment
<1>2. EventsWith(r, events)' = EventsWith(r, events)
  BY <1>1 DEF EventsWith
<1>3. now \in Past'
  BY <1>1, InstantsTyped DEF SerialInv, Inv, TypeOK, Past
<1>4. PlanStillJudged(r)
  BY DEF SerialInv, StillSerial
<1>5. Judges(events, req[r], plan[r]) => Judges(events, req[r], plan[r])'
  BY <1>1, JudgedSet DEF Judges, Past
<1>6. PlanStillJudged(r)'
  BY <1>1, <1>4, <1>5 DEF PlanStillJudged
<1>7. RowStillJudged(r)'
  BY <1>1, <1>2, <1>3 DEF RowStillJudged
<1> QED BY <1>1, <1>6, <1>7, BeganInTime, QuietKeeps DEF Write

LEMMA ApplyKeepsSerial ==
  ASSUME SerialInv, NEW r \in Requests,
         ApplyCreate(r) \/ ApplyDelete(r) \/ ApplyClock(r) \/ ApplyUpdate(r)
  PROVE  StillSerial'
<1>1. pc[r] = "checked"
  BY DEF ApplyCreate, ApplyDelete, ApplyClock, ApplyUpdate, Write
<1>2. CASE /\ Finish(r, InsertRefused(r))
           /\ UNCHANGED <<database, environment, req, began>>
  BY <1>2, BeganInTime, FinishKeepsSerial
<1>3. CASE /\ InsertRefused(r) = "ok"
           /\ Write(r, "create_event",
                    RowAfterCreate(fixture, plan[r].rules, EventsWith(r, events)))
  <2>1. ~PlayerGone(r)
    BY <1>3 DEF InsertRefused, PlayerGone
  <2> QED BY <1>3, <2>1, WriteKeepsSerial
<1>4. CASE ApplyDelete(r)
  BY <1>4, WriteKeepsSerial DEF ApplyDelete
<1>5. CASE ApplyClock(r)
  BY <1>5, WriteKeepsSerial DEF ApplyClock
<1>6. CASE ApplyUpdate(r)
  BY <1>6, WriteKeepsSerial DEF ApplyUpdate
<1> QED BY <1>2, <1>3, <1>4, <1>5, <1>6 DEF ApplyCreate

LEMMA CommitKeepsSerial ==
  ASSUME SerialInv, NEW r \in Requests, Commit(r)
  PROVE  StillSerial'
<1>1. /\ pc[r] = "applied" /\ lock = r /\ now' = now /\ began' = began
      /\ pc' = [pc EXCEPT ![r] = "committed"]
      /\ audit' = audit \cup AuditFor(r)
  BY HolderFixture DEF Commit, AdvanceTo, Holding, environment, SerialInv
<1>2. \A s \in Requests : pc'[s] \notin {"checked", "applied"}
  BY <1>1 DEF SerialInv, Inv, TypeOK, ScoreInvariant, LockHeld, Holding
<1>3. AuditOfServed'
  <2> SUFFICES ASSUME NEW a \in audit' PROVE pc'[a.by] \in {"committed", "done"}
    BY DEF AuditOfServed
  <2>1. CASE a \in audit
    <3>1. a.by \in Requests /\ pc[a.by] \in {"committed", "done"}
      BY <2>1 DEF SerialInv, StillSerial, AuditOfServed, Inv, TypeOK, AuditEntry
    <3> QED BY <1>1, <3>1 DEF SerialInv, Inv, TypeOK
  <2>2. CASE a \in AuditFor(r)
    <3>1. req[r] \in Payloads /\ req[r].op # "delete_fixture"
      BY <1>1, HolderFixture
      DEF Holding, SerialInv, Inv, ScoreInvariant, PlanFitsRequest
    <3>2. a.by = r
      BY <2>2, <3>1, PayloadByOp DEF AuditFor, AuditOf
    <3> QED BY <1>1, <3>2 DEF SerialInv, Inv, TypeOK
  <2> QED BY <1>1, <2>1, <2>2
<1>4. BeganPast'
  BY <1>1 DEF SerialInv, StillSerial, BeganPast
<1> QED BY <1>2, <1>3, <1>4 DEF StillSerial, PlanStillJudged, RowStillJudged

LEMMA DeleteFixtureKeepsSerial ==
  ASSUME SerialInv, NEW r \in Requests, DeleteFixture(r)
  PROVE  StillSerial'
<1>1. CASE Finish(r, "not_found") /\ UNCHANGED database
  BY <1>1, BeganInTime, FinishKeepsSerial DEF DeleteFixture
<1>2. CASE AdvanceTo(r, "committed") /\ UNCHANGED <<audit, lock, plan, row, answer>>
  <2>1. /\ pc' = [pc EXCEPT ![r] = "committed"] /\ audit' = audit
        /\ now' = now /\ began' = began /\ lock = None
    BY <1>2 DEF DeleteFixture, AdvanceTo, environment
  <2>2. \A s \in Requests : pc'[s] \notin {"checked", "applied"}
    BY <2>1, RequestsFinite
    DEF SerialInv, Inv, TypeOK, ScoreInvariant, LockHeld, Holding
  <2>3. AuditOfServed' /\ BeganPast'
    BY <2>1 DEF SerialInv, StillSerial, AuditOfServed, BeganPast, Inv, TypeOK, AuditEntry
  <2> QED BY <2>2, <2>3 DEF StillSerial, PlanStillJudged, RowStillJudged
<1> QED BY <1>1, <1>2 DEF DeleteFixture

\* The deletion of a player is the one change of the rows that does not wait for
\* the lock: its holder's verdict and row survive it.
LEMMA DeletePlayerKeepsSerial ==
  ASSUME SerialInv, NEW p \in Players, DeletePlayer(p)
  PROVE  StillSerial'
<1>1. /\ events' = Forgotten(events, p) /\ roster' = [roster EXCEPT ![p] = None]
      /\ fixture' = fixture /\ audit' = audit /\ now' = now /\ pc' = pc
      /\ req' = req /\ began' = began /\ plan' = plan /\ row' = row
      /\ events \in EventTable
  BY DEF DeletePlayer, Forgotten, SerialInv, Inv, TypeOK, EventTable
<1>2. AuditOfServed' /\ BeganPast'
  BY <1>1 DEF SerialInv, StillSerial, AuditOfServed, BeganPast
<1>3. ASSUME NEW s \in Requests, pc[s] \in {"checked", "applied"}
      PROVE  PlanStillJudged(s)' /\ RowStillJudged(s)'
  <2>1. /\ PlanStillJudged(s) /\ RowStillJudged(s)
        /\ req[s] \in Payloads /\ plan[s].answer = "ok"
    BY <1>3, HolderPayload
    DEF SerialInv, StillSerial, Inv, ScoreInvariant, PlanFitsRequest, InTransaction,
        Plan
  <2>2. SameTally(events', events)
    BY <1>1, ForgottenKeeps
  <2>3. CASE req[s].op = "create_event"
    <3>1. req[s] \in CreatePayload
      BY <2>1, <2>3, PayloadByOp
    <3>2. ASSUME Judges(events, req[s], plan[s]), req[s].player = None \/ req[s].player # p
          PROVE  Judges(events, req[s], plan[s])'
      <4>1. Judges(Forgotten(events, p), req[s], plan[s])
        BY <2>1, <3>1, <3>2, JudgedDespiteDeletion DEF SerialInv
      <4> QED BY <1>1, <4>1, JudgedSet DEF Judges, Past
    <3>3. PlayerGone(s) => PlayerGone(s)'
      BY <1>1 DEF PlayerGone, SerialInv, Inv, TypeOK
    <3>4. req[s].player = p /\ p # None => pc[s] = "checked" /\ PlayerGone(s)'
      BY <1>1, <1>3, <2>3 DEF DeletePlayer, PlayerPinned, PlayerGone, SerialInv, Inv, TypeOK
    <3>5. PlanStillJudged(s)'
      BY <1>1, <1>3, <2>1, <2>3, <3>2, <3>3, <3>4 DEF PlanStillJudged
    <3>6. RowStillJudged(s)'
      <4>1. EventsWith(s, events)' = EventsWith(s, events')
        BY <1>1 DEF EventsWith
      <4>2. RowAfterCreate(fixture, plan[s].rules, EventsWith(s, events'))
              = RowAfterCreate(fixture, plan[s].rules, EventsWith(s, events))
        <5>1. events' \in EventTable
          BY NextKeepsInv DEF Next, SerialInv, Inv, TypeOK, EventTable
        <5>2. SameTally(EventsWith(s, events'), EventsWith(s, events))
          BY <1>1, <2>2, <5>1, EventsWithTally
        <5> QED BY <5>2, TallyDecidesScore DEF RowAfterCreate, recalculate_score
      <4> QED BY <1>1, <2>1, <2>3, <4>1, <4>2 DEF RowStillJudged
    <3> QED BY <3>5, <3>6
  <2>4. CASE req[s].op = "delete_event"
    <3>1. req[s].target \in EventIds
      BY <2>1, <2>4, PayloadByOp DEF DeletePayload
    <3>2. ASSUME NEW cfg
          PROVE  DeleteVerdict(fixture, events', cfg, req[s])
                   = DeleteVerdict(fixture, events, cfg, req[s])
      <4>1. /\ events'[req[s].target] = None <=> events[req[s].target] = None
            /\ events[req[s].target] # None =>
                 events'[req[s].target].club = events[req[s].target].club
        BY <2>2, <3>1 DEF SameTally
      <4> QED BY <4>1 DEF DeleteVerdict
    <3>3. PlanStillJudged(s)'
      BY <1>1, <2>1, <2>4, <3>2 DEF PlanStillJudged
    <3>4. RowStillJudged(s)'
      <4>1. EventsWith(s, events)' = EventsWith(s, events')
        BY <1>1 DEF EventsWith
      <4>2. recalculate_score(fixture, EventsWith(s, events'))
              = recalculate_score(fixture, EventsWith(s, events))
        <5>1. events' \in EventTable
          BY NextKeepsInv DEF Next, SerialInv, Inv, TypeOK, EventTable
        <5>2. SameTally(EventsWith(s, events'), EventsWith(s, events))
          BY <1>1, <2>2, <5>1, EventsWithTally
        <5> QED BY <5>2, TallyDecidesScore DEF recalculate_score
      <4> QED BY <1>1, <2>1, <2>4, <4>1, <4>2 DEF RowStillJudged
    <3> QED BY <3>3, <3>4
  <2>5. CASE req[s].op \notin {"create_event", "delete_event"}
    BY <1>1, <2>1, <2>5 DEF PlanStillJudged, RowStillJudged, Past
  <2> QED BY <2>3, <2>4, <2>5
<1> QED BY <1>1, <1>2, <1>3 DEF StillSerial, PlanStillJudged, RowStillJudged

LEMMA BesideKeepsSerial ==
  ASSUME SerialInv,
         \/ UpdateTournament
         \/ \E p \in Players : TransferPlayer(p)
         \/ Tick
         \/ UNCHANGED vars
  PROVE  StillSerial'
<1>1. /\ UNCHANGED <<fixture, events, audit, pc, req, began, plan, row>>
      /\ now' \in Instants /\ now <= now' /\ now' \in Nat /\ now \in Nat
  BY InstantsTyped
  DEF UpdateTournament, TransferPlayer, Tick, vars, database, SerialInv, Inv, TypeOK
<1>2. AuditOfServed'
  BY <1>1 DEF SerialInv, StillSerial, AuditOfServed
<1>3. BeganPast'
  <2> SUFFICES ASSUME NEW s \in Requests PROVE began'[s] <= now'
    BY DEF BeganPast
  <2>1. began[s] <= now /\ began[s] \in Nat
    BY BeganInTime, InstantsTyped DEF SerialInv, Inv, TypeOK
  <2> QED BY <1>1, <2>1
<1>4. ASSUME NEW s \in Requests PROVE PlanStillJudged(s)' /\ RowStillJudged(s)'
  <2>1. Untouched(s)
    BY <1>1 DEF Untouched
  <2>2. PlayerGone(s) => PlayerGone(s)'
    BY <1>1 DEF PlayerGone, UpdateTournament, TransferPlayer, Tick, vars, SerialInv,
                Inv, TypeOK
  <2> QED BY <1>1, <2>1, <2>2, StillJudged
<1> QED BY <1>2, <1>3, <1>4 DEF StillSerial

LEMMA NextKeepsSerial == SerialInv /\ [Next]_vars => SerialInv'
<1> SUFFICES ASSUME SerialInv, [Next]_vars PROVE StillSerial'
  BY NextKeepsInv DEF SerialInv
<1>1. ASSUME NEW r \in Requests, Begin(r) \/ Step(r) \/ Lose(r)
      PROVE  StillSerial'
  <2>1. CASE Respond(r)
    BY <2>1, BeganInTime, FinishKeepsSerial DEF Respond
  <2>2. CASE Lose(r)
    BY <2>2, BeganInTime, FinishKeepsSerial DEF Lose
  <2> QED
    BY <1>1, <2>1, <2>2, BeginKeepsSerial, LockKeepsSerial, CheckKeepsSerial,
       ApplyKeepsSerial, CommitKeepsSerial, DeleteFixtureKeepsSerial
    DEF Step
<1>2. CASE \E p \in Players : DeletePlayer(p)
  BY <1>2, DeletePlayerKeepsSerial
<1>3. CASE \/ UpdateTournament
           \/ \E p \in Players : TransferPlayer(p)
           \/ Tick
           \/ UNCHANGED vars
  BY <1>3, BesideKeepsSerial
<1> QED BY <1>1, <1>2, <1>3 DEF Next

LEMMA InitSerial == Init => SerialInv
<1> SUFFICES ASSUME Init PROVE StillSerial
  BY InitInv DEF SerialInv
<1> QED
  BY DEF Init, StillSerial, AuditOfServed, BeganPast, PlanStillJudged, RowStillJudged

-------------------------------------------------------------------------------
(* The refinement: a commit, the deletion of the fixture or of a player, and *)
(* a tick are steps of the ledger; everything else leaves it alone.          *)

LEMMA CommitIsLedgerStep ==
  ASSUME SerialInv, NEW r \in Requests, Commit(r)
  PROVE  \E q \in Payloads :
           \/ Ledger!CreateEvent(r, q) \/ Ledger!DeleteEvent(r, q)
           \/ Ledger!UpdateClock(r, q) \/ Ledger!UpdateFixture(r, q)
<1> DEFINE q == req[r]
           over == plan[r].overridden
<1>1. /\ pc[r] = "applied" /\ Holding(r) /\ now' = now
      /\ fixture' = row[r] /\ events' = EventsWith(r, events)
      /\ audit' = audit \cup AuditFor(r)
  BY DEF Commit, Holding, environment
<1>2. /\ q \in Payloads /\ fixture # None /\ plan[r].answer = "ok"
      /\ q.op \in {"create_event", "delete_event", "clock", "update_fixture"}
      /\ PlanStillJudged(r) /\ RowStillJudged(r)
  <2>1. q \in Payloads /\ fixture # None /\ q.op # "delete_fixture"
    BY <1>1, HolderFixture, NullIsNoRow
    DEF SerialInv, Inv, ScoreInvariant, PlanFitsRequest
  <2>2. plan[r].answer = "ok"
    BY <1>1 DEF SerialInv, Inv, ScoreInvariant, PlanFitsRequest, Plan
  <2>3. PlanStillJudged(r) /\ RowStillJudged(r)
    BY DEF SerialInv, StillSerial
  <2> QED BY <2>1, <2>2, <2>3, PayloadByOp
<1>3. Ledger!Unserved(r)
  BY <1>1, SameLedger DEF SerialInv, StillSerial, AuditOfServed
<1>4. began[r] \in Ledger!Past
  BY BeganInTime, SameLedger DEF Past
<1>5. CASE q.op = "create_event"
  <2>1. PICK cfg \in Configs, t \in Past, judged \in Ledger!Judged(q) :
          plan[r] = LedgerVerdict(fixture, events, cfg, judged, t)
    BY <1>1, <1>2, <1>5 DEF PlanStillJudged, Judges
  <2> DEFINE v == Ledger!CreateVerdict(fixture, events, TRUE, cfg, judged, t)
  <2>2. v = plan[r]
    BY <2>1, SameVerdicts DEF LedgerVerdict
  <2> HIDE DEF v
  <2>3. events' = Ledger!EventsAfterCreate(events, r, q, v.auto_red, began[r])
    BY <1>1, <1>5, <2>2, SameTables DEF EventsWith
  <2>4. fixture' = Ledger!RowAfterCreate(fixture, v.rules, events')
    BY <1>1, <1>2, <1>5, <2>2, SameRows DEF RowStillJudged
  <2>5. audit' = audit \cup Ledger!AuditOf("event.create", <<r, "main">>, r, v.overridden)
    BY <1>1, <1>5, <2>2, SameLedger DEF AuditFor
  <2>6. t \in Ledger!Past
    BY SameLedger DEF Past
  <2>7. Ledger!CreateEvent(r, q)
    BY <1>1, <1>2, <1>3, <1>4, <1>5, <2>2, <2>3, <2>4, <2>5, <2>6
    DEF Ledger!CreateEvent, v
  <2> QED BY <1>2, <2>7
<1>6. CASE q.op = "delete_event"
  <2>1. PICK cfg \in Configs : plan[r] = DeleteVerdict(fixture, events, cfg, q)
    BY <1>1, <1>2, <1>6 DEF PlanStillJudged
  <2> DEFINE v == Ledger!DeleteVerdict(fixture, events, cfg, q)
  <2>2. v = plan[r]
    BY <2>1, SameVerdicts
  <2> HIDE DEF v
  <2>3. events' = Ledger!EventsAfterDelete(events, q.target)
    BY <1>1, <1>6, SameTables DEF EventsWith
  <2>4. fixture' = Ledger!recalculate_score(fixture, events')
    BY <1>1, <1>2, <1>6, SameScore DEF RowStillJudged
  <2>5. audit' = audit \cup Ledger!AuditOf("event.delete", q.target, r, v.overridden)
    BY <1>1, <1>6, <2>2, SameLedger DEF AuditFor
  <2>6. Ledger!DeleteEvent(r, q)
    BY <1>1, <1>2, <1>3, <1>6, <2>2, <2>3, <2>4, <2>5 DEF Ledger!DeleteEvent, v
  <2> QED BY <1>2, <2>6
<1>7. CASE q.op = "clock"
  <2>1. PICK cfg \in Configs : plan[r] = ClockVerdict(fixture, cfg, q)
    BY <1>1, <1>2, <1>7 DEF PlanStillJudged
  <2>2. PICK t \in Past : row[r] = RowAfterClock(fixture, plan[r].rules, q, t)
    BY <1>1, <1>2, <1>7 DEF RowStillJudged
  <2> DEFINE v == Ledger!ClockVerdict(fixture, cfg, q)
  <2>3. v = plan[r]
    BY <2>1, SameVerdicts
  <2> HIDE DEF v
  <2>4. events' = events
    BY <1>1, <1>7 DEF EventsWith
  <2>5. fixture' = Ledger!RowAfterClock(fixture, v.rules, q, t)
    BY <1>1, <2>2, <2>3, SameRows
  <2>6. audit' = audit \cup Ledger!AuditOf("clock", None, r, v.overridden)
    BY <1>1, <1>7, <2>3, SameLedger DEF AuditFor
  <2>7. t \in Ledger!Past
    BY SameLedger DEF Past
  <2>8. Ledger!UpdateClock(r, q)
    BY <1>1, <1>2, <1>3, <1>7, <2>3, <2>4, <2>5, <2>6, <2>7 DEF Ledger!UpdateClock, v
  <2> QED BY <1>2, <2>8
<1>8. CASE q.op = "update_fixture"
  <2>1. plan[r] = UpdateVerdict(q) /\ row[r] = RowAfterUpdate(fixture, q)
    BY <1>1, <1>2, <1>8 DEF PlanStillJudged, RowStillJudged
  <2>2. plan[r].overridden = FALSE
    BY <2>1, <1>2 DEF UpdateVerdict, Refuse, Verdict
  <2>3. Ledger!UpdateVerdict(q).answer = "ok"
    BY <1>2, <2>1, SameVerdicts
  <2>4. events' = events /\ fixture' = Ledger!RowAfterUpdate(fixture, q)
    BY <1>1, <1>8, <2>1, SameRows DEF EventsWith
  <2>5. audit' = audit \cup Ledger!AuditOf("fixture.update", None, r, FALSE)
    <3>1. AuditFor(r) = AuditOf("fixture.update", None, r, plan[r].overridden)
      BY <1>8 DEF AuditFor
    <3>2. AuditOf("fixture.update", None, r, plan[r].overridden)
            = AuditOf("fixture.update", None, r, FALSE)
      BY <2>2 DEF AuditOf
    <3>3. Ledger!AuditOf("fixture.update", None, r, FALSE)
            = AuditOf("fixture.update", None, r, FALSE)
      BY DEF Ledger!AuditOf, AuditOf
    <3> QED BY <1>1, <3>1, <3>2, <3>3
  <2>6. Ledger!UpdateFixture(r, q)
    BY <1>1, <1>2, <1>3, <1>8, <2>3, <2>4, <2>5 DEF Ledger!UpdateFixture
  <2> QED BY <1>2, <2>6
<1> QED BY <1>2, <1>5, <1>6, <1>7, <1>8

LEMMA StepIsLedgerStep ==
  SerialInv /\ [Next]_vars => [Ledger!LedgerNext]_(Ledger!ledgerVars)
<1> SUFFICES ASSUME SerialInv, [Next]_vars
             PROVE  Ledger!LedgerNext \/ UNCHANGED <<fixture, events, audit, now>>
  BY DEF Ledger!ledgerVars
<1>1. ASSUME NEW r \in Requests, Commit(r) PROVE Ledger!LedgerNext
  BY <1>1, CommitIsLedgerStep DEF Ledger!LedgerNext
<1>2. ASSUME NEW r \in Requests, DeleteFixture(r)
      PROVE  Ledger!LedgerNext \/ UNCHANGED <<fixture, events, audit, now>>
  BY <1>2, SameLedger
  DEF DeleteFixture, database, environment, Ledger!DeleteFixture, Ledger!LedgerNext
<1>3. ASSUME NEW p \in Players, DeletePlayer(p) PROVE Ledger!LedgerNext
  BY <1>3, SameIds DEF DeletePlayer, Ledger!ForgetPlayer, Ledger!LedgerNext
<1>4. CASE Tick
  BY <1>4 DEF Tick, database, Ledger!Tick, Ledger!LedgerNext
<1>5. ASSUME NEW r \in Requests,
             \/ Begin(r) \/ LockFixture(r) \/ CheckCreate(r) \/ CheckDelete(r)
             \/ CheckClock(r) \/ CheckUpdate(r) \/ ApplyCreate(r) \/ ApplyDelete(r)
             \/ ApplyClock(r) \/ ApplyUpdate(r) \/ Respond(r) \/ Lose(r)
      PROVE  UNCHANGED <<fixture, events, audit, now>>
  BY <1>5
  DEF Begin, LockFixture, CheckCreate, CheckDelete, CheckClock, CheckUpdate, Check,
      ApplyCreate, ApplyDelete, ApplyClock, ApplyUpdate, Write, Respond, Lose, database,
      environment
<1>6. CASE UpdateTournament \/ (\E p \in Players : TransferPlayer(p)) \/ UNCHANGED vars
  BY <1>6 DEF UpdateTournament, TransferPlayer, database, vars
<1> QED BY <1>1, <1>2, <1>3, <1>4, <1>5, <1>6 DEF Next, Step

\* Every interleaving of the handlers is a run of the ledger: a request that
\* commits is judged and applied as one atomic step on the rows as they stand
\* at its commit, and one that fails changes nothing.
THEOREM HandlersSerializable == Spec => Serializable
<1>1. Init => Ledger!LedgerInit
  BY SameLedger DEF Init, Ledger!LedgerInit
<1>2. Spec => []SerialInv
  BY InitSerial, NextKeepsSerial, PTL DEF Spec
<1> QED
  BY <1>1, <1>2, StepIsLedgerStep, PTL DEF Spec, Serializable, Ledger!LedgerSpec

-------------------------------------------------------------------------------
(* Idempotency keys and the duplicate warning: the invariant *)

Main(r) == <<r, "main">>

\* A creation that was allowed and has not committed.
Creating(s) == pc[s] \in {"checked", "applied"} /\ req[s].op = "create_event"

\* Nobody takes the key of a creation under way.
KeyFree(s) ==
  pc[s] = "checked" /\ Creating(s) => WithKey(events, req[s].key) = {}

\* What is stored is what its request asked for, but for a player deleted since;
\* the fixture it is stored for has its rules frozen.
EventKnown(r) ==
  events[Main(r)] # None =>
    /\ fixture # None /\ fixture.ruleset_snapshot # None
    /\ pc[r] \in {"committed", "done"} /\ req[r] \in CreatePayload
    /\ events[Main(r)].created_at = began[r]
    /\ events[Main(r)].club = req[r].club
    /\ events[Main(r)].event_type = req[r].event_type
    /\ events[Main(r)].minute = req[r].minute
    /\ events[Main(r)].player = req[r].player \/ PlayerGone(r)

\* Request s was warned of the stored event of r, or need not be.
WarnedOf(s, r) ==
  LET window == fixture.ruleset_snapshot.duplicate_event_window_ms
  IN  \/ ~SameIncident(req[r], req[s])
      \/ Confirmed(s)
      \/ window = 0
      \/ now - events[Main(r)].created_at > window

CreationsWarned ==
  \A r, s \in Requests :
    r # s /\ Creating(s) /\ events[Main(r)] # None => WarnedOf(s, r)

StoredWarned ==
  \A r, s \in Requests :
    r # s /\ events[Main(r)] # None /\ events[Main(s)] # None =>
      WarnedOf(s, r) \/ WarnedOf(r, s)

TapInv ==
  /\ \A r \in Requests : KeyFree(r) /\ EventKnown(r)
  /\ CreationsWarned /\ StoredWarned

\* What most steps do to a request, if anything.
Calm(s) ==
  /\ pc[s] # "idle" => req'[s] = req[s] /\ began'[s] = began[s]
  /\ pc[s] \in {"committed", "done"} => pc'[s] \in {"committed", "done"}
  /\ Creating(s)' => Creating(s)
  /\ pc'[s] = "checked" /\ Creating(s)' => pc[s] = "checked"
  /\ pc[s] # "idle" /\ PlayerGone(s) => PlayerGone(s)'

LEMMA StepKinds ==
  ASSUME SerialInv, [Next]_vars
  PROVE  /\ now <= now' /\ now \in Nat /\ now' \in Nat
         /\ \/ UNCHANGED <<fixture, events>> /\ \A s \in Requests : Calm(s)
            \/ \E r \in Requests : CheckCreate(r) /\ pc'[r] = "checked"
            \/ \E r \in Requests : Commit(r)
            \/ \E r \in Requests : DeleteFixture(r) /\ events' = NoEvents
            \/ \E p \in Players : DeletePlayer(p)
<1> USE DEF SerialInv, Inv, TypeOK
<1>1. now <= now' /\ now \in Nat /\ now' \in Nat
  <2>1. now' = now \/ (now' \in Instants /\ now' > now)
    BY DEF Next, Step, Begin, LockFixture, CheckCreate, CheckDelete, CheckClock,
           CheckUpdate, Check, ApplyCreate, ApplyDelete, ApplyClock, ApplyUpdate, Write,
           Commit, DeleteFixture, Respond, Lose, UpdateTournament, TransferPlayer,
           DeletePlayer, Tick, environment, vars
  <2>2. now \in Nat
    BY InstantsTyped
  <2>3. CASE now' = now
    BY <2>2, <2>3
  <2>4. CASE now' \in Instants /\ now' > now
    <3>1. now' \in Nat
      BY <2>4, InstantsTyped
    <3> QED BY <2>2, <2>4, <3>1
  <2> QED BY <2>1, <2>3, <2>4
<1>2. ASSUME NEW r \in Requests, \A s \in Requests \ {r} : Untouched(s),
             roster' = roster, Calm(r)
      PROVE  \A s \in Requests : Calm(s)
  BY <1>2 DEF Calm, Untouched, Creating, PlayerGone
<1>3. ASSUME NEW r \in Requests, NEW outcome, Finish(r, outcome), roster' = roster,
             pc[r] # "idle" => req'[r] = req[r] /\ began'[r] = began[r],
             \A s \in Requests \ {r} : req'[s] = req[s] /\ began'[s] = began[s]
      PROVE  \A s \in Requests : Calm(s)
  <2>1. pc'[r] = "done" /\ \A s \in Requests \ {r} : Untouched(s)
    BY <1>3 DEF Finish, AdvanceTo, Untouched
  <2>2. Calm(r)
    BY <1>3, <2>1 DEF Calm, Creating, PlayerGone
  <2> QED BY <1>2, <1>3, <2>1, <2>2
<1>4. ASSUME NEW r \in Requests, Begin(r)
      PROVE  UNCHANGED <<fixture, events>> /\ \A s \in Requests : Calm(s)
  <2>1. /\ pc[r] = "idle" /\ UNCHANGED <<fixture, events, roster>>
        /\ \A s \in Requests \ {r} : req'[s] = req[s] /\ began'[s] = began[s]
    BY <1>4 DEF Begin, database, environment
  <2>2. CASE AdvanceTo(r, "waiting") /\ UNCHANGED <<lock, plan, row, answer>>
    <3>1. pc'[r] = "waiting" /\ \A s \in Requests \ {r} : Untouched(s)
      BY <2>1, <2>2 DEF AdvanceTo, Untouched
    <3>2. Calm(r)
      BY <2>1, <3>1 DEF Calm, Creating
    <3> QED BY <1>2, <2>1, <3>1, <3>2
  <2>3. CASE \E outcome \in Answers : Finish(r, outcome)
    BY <1>3, <2>1, <2>3
  <2> QED BY <1>4, <2>2, <2>3 DEF Begin, Answers
<1>5. ASSUME NEW r \in Requests, LockFixture(r)
      PROVE  UNCHANGED <<fixture, events>> /\ \A s \in Requests : Calm(s)
  <2>1. UNCHANGED <<fixture, events, roster, req, began>>
    BY <1>5 DEF LockFixture, database, environment
  <2>2. CASE AdvanceTo(r, "locked") /\ UNCHANGED <<plan, row, answer>>
    <3>1. /\ pc[r] = "waiting" /\ pc'[r] = "locked"
          /\ \A s \in Requests \ {r} : Untouched(s)
      BY <1>5, <2>1, <2>2 DEF LockFixture, AdvanceTo, Untouched
    <3>2. Calm(r)
      BY <2>1, <3>1 DEF Calm, Creating, PlayerGone
    <3> QED BY <1>2, <2>1, <3>1, <3>2
  <2> QED BY <1>3, <1>5, <2>1, <2>2 DEF LockFixture
<1>6. ASSUME NEW r \in Requests, NEW op, NEW v, Check(r, op, v)
      PROVE  /\ UNCHANGED <<fixture, events>>
             /\ \/ op = "create_event" /\ pc'[r] = "checked"
                \/ \A s \in Requests : Calm(s)
  <2>1. UNCHANGED <<fixture, events, roster, req, began>> /\ pc[r] = "locked"
        /\ req[r].op = op
    BY <1>6 DEF Check, database, environment
  <2>2. CASE AdvanceTo(r, "checked") /\ UNCHANGED <<lock, row, answer>>
             /\ plan' = [plan EXCEPT ![r] = v]
    <3>1. pc'[r] = "checked" /\ \A s \in Requests \ {r} : Untouched(s)
      BY <2>1, <2>2 DEF AdvanceTo, Untouched
    <3>2. op # "create_event" => Calm(r)
      BY <2>1, <3>1 DEF Calm, Creating, PlayerGone
    <3> QED BY <1>2, <2>1, <3>1, <3>2
  <2> QED BY <1>3, <1>6, <2>1, <2>2 DEF Check, Decide
<1>7. ASSUME NEW r \in Requests, NEW op, NEW newRow, Write(r, op, newRow)
      PROVE  UNCHANGED <<fixture, events>> /\ \A s \in Requests : Calm(s)
  <2>1. /\ UNCHANGED <<fixture, events, roster, req, began>> /\ pc[r] = "checked"
        /\ pc'[r] = "applied" /\ \A s \in Requests \ {r} : Untouched(s)
    BY <1>7 DEF Write, AdvanceTo, Untouched, database, environment
  <2>2. Calm(r)
    BY <2>1 DEF Calm, Creating, PlayerGone
  <2> QED BY <1>2, <2>1, <2>2
<1>8. ASSUME NEW r \in Requests,
             ApplyCreate(r) \/ ApplyDelete(r) \/ ApplyClock(r) \/ ApplyUpdate(r)
      PROVE  UNCHANGED <<fixture, events>> /\ \A s \in Requests : Calm(s)
  <2>1. CASE Finish(r, InsertRefused(r)) /\ UNCHANGED <<database, environment, req, began>>
    BY <1>3, <2>1 DEF database, environment
  <2> QED BY <1>7, <1>8, <2>1 DEF ApplyCreate, ApplyDelete, ApplyClock, ApplyUpdate
<1>9. ASSUME NEW r \in Requests, Respond(r) \/ Lose(r)
      PROVE  UNCHANGED <<fixture, events>> /\ \A s \in Requests : Calm(s)
  BY <1>3, <1>9 DEF Respond, Lose, database, environment
<1>10. ASSUME NEW r \in Requests, DeleteFixture(r)
       PROVE  \/ events' = NoEvents
              \/ UNCHANGED <<fixture, events>> /\ \A s \in Requests : Calm(s)
  BY <1>3, <1>10 DEF DeleteFixture, database, environment
<1>11. CASE \/ UpdateTournament \/ Tick \/ UNCHANGED vars
            \/ \E p \in Players : TransferPlayer(p)
  <2>1. UNCHANGED <<fixture, events, pc, req, began>>
    BY <1>11 DEF UpdateTournament, Tick, TransferPlayer, database, vars
  <2>2. \A s \in Requests : PlayerGone(s) => PlayerGone(s)'
    BY <1>11, <2>1 DEF PlayerGone, UpdateTournament, TransferPlayer, Tick, vars
  <2>3. \A s \in Requests : Calm(s)
    BY <2>1, <2>2 DEF Calm, Creating
  <2> QED BY <1>1, <2>1, <2>3
<1>12. ASSUME NEW r \in Requests,
              CheckCreate(r) \/ CheckDelete(r) \/ CheckClock(r) \/ CheckUpdate(r)
       PROVE  \/ UNCHANGED <<fixture, events>> /\ \A s \in Requests : Calm(s)
              \/ CheckCreate(r) /\ pc'[r] = "checked"
  BY <1>6, <1>12 DEF CheckCreate, CheckDelete, CheckClock, CheckUpdate
<1> HIDE DEF SerialInv, Inv, TypeOK
<1> QED
  BY <1>1, <1>4, <1>5, <1>8, <1>9, <1>10, <1>11, <1>12 DEF Next, Step

\* The stored event of r is as it was, but for its player if that was deleted,
\* or it is gone; the rules of the fixture are as they were.
Fades(r) ==
  events'[Main(r)] # None =>
    /\ events[Main(r)] # None
    /\ events'[Main(r)].created_at = events[Main(r)].created_at
    /\ events'[Main(r)].club = events[Main(r)].club
    /\ events'[Main(r)].event_type = events[Main(r)].event_type
    /\ events'[Main(r)].minute = events[Main(r)].minute
    /\ events'[Main(r)].player = events[Main(r)].player \/ PlayerGone(r)'
    /\ fixture' # None /\ fixture'.ruleset_snapshot = fixture.ruleset_snapshot

LEMMA MainId == \A r \in Requests : Main(r) \in EventIds
BY DEF Main, EventIds

LEMMA StoredWindow ==
  ASSUME SerialInv, TapInv, NEW r \in Requests, events[Main(r)] # None
  PROVE  /\ fixture.ruleset_snapshot.duplicate_event_window_ms \in Nat
         /\ events[Main(r)].created_at \in Nat
<1>1. fixture \in FixtureRow /\ fixture.ruleset_snapshot # None
  BY DEF TapInv, EventKnown, SerialInv, Inv, TypeOK
<1>2. fixture.ruleset_snapshot \in MatchRuleset
  BY <1>1 DEF FixtureRow
<1>3. began[r] \in Nat /\ events[Main(r)].created_at = began[r]
  BY InstantsTyped DEF TapInv, EventKnown, SerialInv, Inv, TypeOK
<1> QED BY <1>2, <1>3 DEF MatchRuleset, Windows

\* A warning that was passed stays passed.
LEMMA WarnedStays ==
  ASSUME SerialInv, TapInv, NEW r \in Requests, NEW s \in Requests,
         now <= now', now \in Nat, now' \in Nat,
         Fades(r), events'[Main(r)] # None, req'[r] = req[r], req'[s] = req[s],
         WarnedOf(s, r)
  PROVE  WarnedOf(s, r)'
<1> DEFINE window == fixture.ruleset_snapshot.duplicate_event_window_ms
           at == events[Main(r)].created_at
<1>1. events[Main(r)] # None /\ window \in Nat /\ at \in Nat
  BY StoredWindow DEF Fades
<1>2. /\ window' = window /\ at' = at
  BY DEF Fades
<1>3. SameIncident(req[r], req[s])' <=> SameIncident(req[r], req[s])
  BY DEF SameIncident
<1>4. Confirmed(s)' <=> Confirmed(s)
  BY DEF Confirmed
<1>5. now - at > window => now' - at > window
  <2> HIDE DEF window, at
  <2> QED BY <1>1
<1> HIDE DEF at, window
<1>6. WarnedOf(s, r) <=> \/ ~SameIncident(req[r], req[s]) \/ Confirmed(s)
                         \/ window = 0 \/ now - at > window
  BY DEF WarnedOf, at, window
<1>7. WarnedOf(s, r)' <=> \/ ~SameIncident(req[r], req[s])' \/ Confirmed(s)'
                          \/ window' = 0 \/ now' - at' > window'
  BY DEF WarnedOf, at, window
<1> QED BY <1>2, <1>3, <1>4, <1>5, <1>6, <1>7

\* Steps that store nothing and let no creation begin.
LEMMA TapKept ==
  ASSUME SerialInv, TapInv, now <= now', now \in Nat, now' \in Nat,
         \A r \in Requests : Calm(r) /\ Fades(r) /\ KeyFree(r)'
  PROVE  TapInv'
<1>1. ASSUME NEW r \in Requests, events'[Main(r)] # None
      PROVE  /\ events[Main(r)] # None /\ pc[r] \in {"committed", "done"}
             /\ req'[r] = req[r] /\ began'[r] = began[r]
  BY <1>1 DEF Fades, TapInv, EventKnown, Calm
<1>2. ASSUME NEW r \in Requests PROVE EventKnown(r)'
  <2> SUFFICES ASSUME events'[Main(r)] # None PROVE EventKnown(r)'
    BY DEF EventKnown
  <2>1. EventKnown(r) /\ Fades(r) /\ Calm(r)
    BY DEF TapInv
  <2>2. PlayerGone(r) => PlayerGone(r)'
    BY <1>1, <2>1 DEF Calm
  <2> QED BY <1>1, <2>1, <2>2 DEF EventKnown, Fades, Calm
<1>3. CreationsWarned'
  <2> SUFFICES ASSUME NEW r \in Requests, NEW s \in Requests, r # s, Creating(s)',
                      events'[Main(r)] # None
               PROVE  WarnedOf(s, r)'
    BY DEF CreationsWarned
  <2>1. Creating(s) /\ req'[s] = req[s]
    BY DEF Calm, Creating
  <2>2. WarnedOf(s, r)
    BY <1>1, <2>1 DEF TapInv, CreationsWarned
  <2> QED BY <1>1, <2>1, <2>2, WarnedStays
<1>4. StoredWarned'
  <2> SUFFICES ASSUME NEW r \in Requests, NEW s \in Requests, r # s,
                      events'[Main(r)] # None, events'[Main(s)] # None
               PROVE  WarnedOf(s, r)' \/ WarnedOf(r, s)'
    BY DEF StoredWarned
  <2>1. WarnedOf(s, r) \/ WarnedOf(r, s)
    BY <1>1 DEF TapInv, StoredWarned
  <2> QED BY <1>1, <2>1, WarnedStays
<1> QED BY <1>2, <1>3, <1>4 DEF TapInv

LEMMA TapKeptByQuiet ==
  ASSUME SerialInv, TapInv, now <= now', now \in Nat, now' \in Nat,
         UNCHANGED <<fixture, events>>, \A s \in Requests : Calm(s)
  PROVE  TapInv'
<1>1. \A r \in Requests : Fades(r)
  BY DEF Fades, TapInv, EventKnown
<1>2. ASSUME NEW r \in Requests PROVE KeyFree(r)'
  <2>1. KeyFree(r) /\ Calm(r)
    BY DEF TapInv
  <2> QED BY <2>1 DEF KeyFree, Calm, Creating
<1> QED BY <1>1, <1>2, TapKept

LEMMA TapKeptByDeletion ==
  ASSUME SerialInv, TapInv, now <= now', now \in Nat, now' \in Nat,
         NEW r \in Requests, DeleteFixture(r), events' = NoEvents
  PROVE  TapInv'
<1>1. \A s \in Requests : events'[Main(s)] = None
  BY MainId DEF NoEvents
<1>2. \A s \in Requests : KeyFree(s)'
  BY DEF KeyFree, WithKey, Recorded, NoEvents
<1> QED BY <1>1, <1>2 DEF TapInv, EventKnown, CreationsWarned, StoredWarned

LEMMA TapKeptByForgetting ==
  ASSUME SerialInv, TapInv, now <= now', now \in Nat, now' \in Nat,
         NEW p \in Players, DeletePlayer(p)
  PROVE  TapInv'
<1>1. /\ events' = Forgotten(events, p) /\ roster' = [roster EXCEPT ![p] = None]
      /\ UNCHANGED <<fixture, pc, req, began>> /\ events \in EventTable
      /\ roster \in [Players -> AllClubs \cup {None}]
  BY DEF DeletePlayer, Forgotten, SerialInv, Inv, TypeOK, EventTable
<1>2. \A s \in Requests : Calm(s)
  BY <1>1 DEF Calm, Creating, PlayerGone
<1>3. ASSUME NEW s \in Requests PROVE Fades(s)
  <2> SUFFICES ASSUME events'[Main(s)] # None PROVE Fades(s)
    BY DEF Fades
  <2> DEFINE e == events[Main(s)]
             f == Forgotten(events, p)[Main(s)]
  <2>1. /\ f = None <=> e = None
        /\ e # None => /\ f.club = e.club /\ f.event_type = e.event_type
                       /\ f.minute = e.minute /\ f.created_at = e.created_at
                       /\ f.player = IF e.player = p THEN None ELSE e.player
    BY <1>1, MainId, ForgottenFields
  <2>2. events'[Main(s)] = f /\ e # None
    BY <1>1, <2>1
  <2>3. EventKnown(s)
    BY DEF TapInv
  <2>4. f.player = e.player \/ PlayerGone(s)'
    <3>1. CASE e.player # p
      BY <2>1, <2>2, <3>1
    <3>2. CASE e.player = p /\ p = None
      BY <2>1, <2>2, <3>2
    <3>3. CASE e.player = p /\ p # None
      <4>1. req[s].player = p \/ PlayerGone(s)
        BY <2>2, <2>3, <3>3 DEF EventKnown
      <4> QED BY <1>1, <3>3, <4>1 DEF PlayerGone
    <3> QED BY <3>1, <3>2, <3>3
  <2> HIDE DEF e, f
  <2> QED BY <1>1, <2>1, <2>2, <2>3, <2>4 DEF Fades, EventKnown, e, f
<1>4. ASSUME NEW s \in Requests PROVE KeyFree(s)'
  <2>1. WithKey(events', req[s].key) = WithKey(events, req[s].key)
    BY <1>1, ForgottenKeeps
  <2> QED BY <1>1, <2>1 DEF TapInv, KeyFree, Creating
<1> QED BY <1>2, <1>3, <1>4, TapKept

\* A creation is allowed beside a stored event only if that is another incident,
\* it is confirmed or overridden, or the window has passed.
LEMMA CheckWarns ==
  ASSUME SerialInv, TapInv, NEW r \in Requests, NEW x \in Requests, pc[r] = "locked",
         req[r].op = "create_event", events[Main(x)] # None,
         CreateVerdict(fixture, events, Belongs(req[r]), tournament, req[r], now).answer
           = "ok"
  PROVE  WarnedOf(r, x)
<1> DEFINE belongs == Belongs(req[r])
           v == CreateVerdict(fixture, events, belongs, tournament, req[r], now)
           rules == EffectiveRuleset(fixture, tournament)
           at == events[Main(x)].created_at
           window == fixture.ruleset_snapshot.duplicate_event_window_ms
<1>1. fixture \in FixtureRow /\ tournament \in Configs /\ req[r] \in CreatePayload
  BY HolderFixture, PayloadByOp DEF SerialInv, Inv, TypeOK, Holding
<1>2. /\ req[r].club \in Clubs
      /\ req[r].player # None => belongs
      /\ v.overridden => req[r].override
      /\ ~v.overridden =>
           (RecentDuplicate(req[r], events, rules.duplicate_event_window_ms, now)
              => "possible_duplicate" \in req[r].ack)
  <2> HIDE DEF belongs
  <2>1. v.answer = "ok"
    BY DEF belongs
  <2>2. Admitted(fixture, events, belongs, req[r])
    BY <2>1, VerdictIfAdmitted
  <2>3. req[r].club \in Clubs /\ (req[r].player # None => belongs)
    BY <2>2 DEF Admitted
  <2>4. v.overridden => req[r].override
    BY <1>1, <2>1, CreateAllowed
  <2>5. ~v.overridden =>
          (RecentDuplicate(req[r], events, rules.duplicate_event_window_ms, now)
             => "possible_duplicate" \in req[r].ack)
    BY <1>1, <2>1, CreateAllowed
  <2> QED BY <2>2, <2>3, <2>4, <2>5
<1>3. window \in Nat /\ at \in Nat /\ now \in Nat /\ at <= now
  <2>1. at = began[x] /\ now \in Nat
    BY InstantsTyped DEF TapInv, EventKnown, SerialInv, Inv, TypeOK
  <2> QED BY <2>1, StoredWindow, BeganInTime
<1>4. rules.duplicate_event_window_ms = window
  <2>1. fixture.ruleset_snapshot # None
    BY DEF TapInv, EventKnown
  <2>2. snapshot_ruleset(fixture, rules).ruleset_snapshot = fixture.ruleset_snapshot
    BY <2>1 DEF snapshot_ruleset
  <2>3. JudgesLike(rules, snapshot_ruleset(fixture, rules).ruleset_snapshot)
    BY <1>1, JudgedByFrozen
  <2> QED BY <2>2, <2>3 DEF JudgesLike
<1> SUFFICES ASSUME SameIncident(req[x], req[r]), ~Confirmed(r), window # 0,
                    ~(now - at > window)
             PROVE  FALSE
  BY DEF WarnedOf
<1>5. SameIncident(events[Main(x)], req[r])
  <2>1. ASSUME PlayerGone(x) PROVE FALSE
    <3>1. req[r].player # None /\ roster[req[r].player] = None
      BY <2>1 DEF PlayerGone, SameIncident
    <3>2. roster[req[r].player] = req[r].club
      BY <1>2, <3>1 DEF Belongs
    <3> QED BY <1>2, <3>1, <3>2, ClubsDiffer, NullIsNoValue DEF Clubs
  <2> QED BY <2>1 DEF TapInv, EventKnown, SameIncident
<1>6. Main(x) \in Recorded(events)
  BY MainId DEF Recorded, SerialInv, Inv, TypeOK
<1> HIDE DEF v, rules, at, window
<1>7. now - at \in 0..window /\ window > 0
  BY <1>3
<1>8. RecentDuplicate(req[r], events, rules.duplicate_event_window_ms, now)
  BY <1>4, <1>5, <1>6, <1>7 DEF RecentDuplicate, at
<1> QED BY <1>2, <1>8 DEF Confirmed

LEMMA TapKeptByCheck ==
  ASSUME SerialInv, TapInv, NEW r \in Requests, CheckCreate(r), pc'[r] = "checked"
  PROVE  TapInv'
<1> DEFINE belongs == Belongs(req[r])
           v == CreateVerdict(fixture, events, belongs, tournament, req[r], now)
<1>1. Check(r, "create_event", v)
  BY DEF CheckCreate
<1> HIDE DEF v, belongs
<1>2. /\ pc[r] = "locked" /\ req[r].op = "create_event"
      /\ UNCHANGED <<fixture, events, now, roster, req, began>>
  BY <1>1 DEF Check, database, environment
<1>3. v.answer = "ok" /\ \A s \in Requests \ {r} : pc'[s] = pc[s]
  BY <1>1 DEF Check, Decide, Finish, AdvanceTo, SerialInv, Inv, TypeOK
<1>4. \A s, x \in Requests : WarnedOf(s, x)' <=> WarnedOf(s, x)
  BY <1>2 DEF WarnedOf, SameIncident, Confirmed
<1>5. \A x \in Requests : events[Main(x)] # None => WarnedOf(r, x)
  BY <1>2, <1>3, CheckWarns DEF v, belongs
<1>6. WithKey(events, req[r].key) = {}
  <2>1. Admitted(fixture, events, belongs, req[r])
    BY <1>3, VerdictIfAdmitted DEF v
  <2> QED BY <2>1 DEF Admitted
<1>7. ASSUME NEW s \in Requests PROVE KeyFree(s)' /\ EventKnown(s)'
  <2>1. KeyFree(s) /\ EventKnown(s)
    BY DEF TapInv
  <2>2. KeyFree(s)'
    BY <1>2, <1>3, <1>6, <2>1 DEF KeyFree, Creating
  <2>3. EventKnown(s)'
    BY <1>2, <1>3, <2>1 DEF EventKnown, PlayerGone
  <2> QED BY <2>2, <2>3
<1>8. CreationsWarned'
  <2> SUFFICES ASSUME NEW x \in Requests, NEW s \in Requests, x # s, Creating(s)',
                      events'[Main(x)] # None
               PROVE  WarnedOf(s, x)'
    BY DEF CreationsWarned
  <2>1. CASE s = r
    BY <1>2, <1>4, <1>5, <2>1
  <2>2. CASE s # r
    <3>1. Creating(s) /\ events[Main(x)] # None
      BY <1>2, <1>3, <2>2 DEF Creating
    <3> QED BY <1>4, <3>1 DEF TapInv, CreationsWarned
  <2> QED BY <2>1, <2>2
<1>9. StoredWarned'
  BY <1>2, <1>4 DEF TapInv, StoredWarned
<1> QED BY <1>7, <1>8, <1>9 DEF TapInv

\* Rules once frozen are in every row a transaction writes.
LEMMA SnapshotStays ==
  ASSUME NEW fx \in FixtureRow, fx.ruleset_snapshot # None, NEW rules, NEW evs
  PROVE  /\ recalculate_score(fx, evs).ruleset_snapshot = fx.ruleset_snapshot
         /\ RowAfterCreate(fx, rules, evs).ruleset_snapshot = fx.ruleset_snapshot
         /\ \A q \in ClockPayload : \A t :
              RowAfterClock(fx, rules, q, t).ruleset_snapshot = fx.ruleset_snapshot
         /\ \A q : RowAfterUpdate(fx, q).ruleset_snapshot = fx.ruleset_snapshot
<1>1. snapshot_ruleset(fx, rules) = fx
  BY DEF snapshot_ruleset
<1>2. recalculate_score(fx, evs).ruleset_snapshot = fx.ruleset_snapshot
  BY DEF recalculate_score, FixtureRow
<1>3. RowAfterCreate(fx, rules, evs).ruleset_snapshot = fx.ruleset_snapshot
  BY <1>1 DEF RowAfterCreate, recalculate_score, FixtureRow
<1>4. ASSUME NEW q \in ClockPayload, NEW t
      PROVE  RowAfterClock(fx, rules, q, t).ruleset_snapshot = fx.ruleset_snapshot
  <2>1. RowAfterClock(fx, rules, q, t) = apply_clock_action(fx, q, t)
    BY <1>1 DEF RowAfterClock
  <2>2. q.action \in ClockTransitions \cup {"nudge", "set_stoppage"}
    BY DEF ClockPayload, ClockActions
  <2> QED BY <2>1, <2>2 DEF apply_clock_action, ClockTransitions, StartHalf, StopClock,
                            FixtureRow
<1>5. \A q : RowAfterUpdate(fx, q).ruleset_snapshot = fx.ruleset_snapshot
  BY DEF RowAfterUpdate, FixtureRow
<1> QED BY <1>2, <1>3, <1>4, <1>5

\* The first row a creation writes freezes the rules.
LEMMA CreateFreezes ==
  ASSUME NEW fx \in FixtureRow, NEW rules \in MatchRuleset, NEW evs
  PROVE  RowAfterCreate(fx, rules, evs).ruleset_snapshot # None
<1>1. snapshot_ruleset(fx, rules) \in FixtureRow
  BY SnapshotType
<1>2. snapshot_ruleset(fx, rules).ruleset_snapshot # None
  BY NullIsNoValue DEF snapshot_ruleset, FixtureRow
<1> QED BY <1>1, <1>2 DEF RowAfterCreate, recalculate_score, FixtureRow

LEMMA TapKeptByCommit ==
  ASSUME SerialInv, TapInv, now <= now', now \in Nat, now' \in Nat,
         NEW r \in Requests, Commit(r)
  PROVE  TapInv'
<1>1. /\ pc[r] = "applied" /\ Holding(r) /\ lock = r
      /\ UNCHANGED <<now, roster, req, began>>
      /\ pc' = [pc EXCEPT ![r] = "committed"]
      /\ fixture' = row[r] /\ events' = EventsWith(r, events)
      /\ fixture \in FixtureRow /\ req[r] \in Payloads
  BY HolderFixture DEF Commit, AdvanceTo, Holding, environment, SerialInv
<1>2. \A s \in Requests : pc'[s] \notin {"checked", "applied"}
  BY <1>1 DEF SerialInv, Inv, TypeOK, ScoreInvariant, LockHeld, Holding
<1>3. /\ \A s \in Requests : Calm(s) /\ KeyFree(s)'
      /\ CreationsWarned'
  BY <1>1, <1>2
  DEF Calm, KeyFree, CreationsWarned, Creating, PlayerGone, SerialInv, Inv, TypeOK
<1>4. /\ RowStillJudged(r) /\ row[r] \in FixtureRow /\ row[r] # None
      /\ req[r].op # "update_fixture" => plan[r].rules \in MatchRuleset
      /\ req[r].op # "delete_fixture"
      /\ req[r].op = "create_event" => req[r].club \in Clubs
  BY <1>1, NullIsNoRow
  DEF SerialInv, StillSerial, Inv, ScoreInvariant, RowReadyToCommit, PlanFitsRequest
<1>5. fixture.ruleset_snapshot # None =>
        row[r].ruleset_snapshot = fixture.ruleset_snapshot
  <2> SUFFICES ASSUME fixture.ruleset_snapshot # None
               PROVE  row[r].ruleset_snapshot = fixture.ruleset_snapshot
    OBVIOUS
  <2>1. CASE req[r].op = "create_event"
    BY <1>1, <1>4, <2>1, SnapshotStays DEF RowStillJudged
  <2>2. CASE req[r].op = "delete_event"
    BY <1>1, <1>4, <2>2, SnapshotStays DEF RowStillJudged
  <2>3. CASE req[r].op = "clock"
    <3>1. req[r] \in ClockPayload
      BY <1>1, <2>3, PayloadByOp
    <3> QED BY <1>1, <1>4, <2>3, <3>1, SnapshotStays DEF RowStillJudged
  <2>4. CASE req[r].op = "update_fixture"
    BY <1>1, <1>4, <2>4, SnapshotStays DEF RowStillJudged
  <2> QED BY <1>1, <1>4, <2>1, <2>2, <2>3, <2>4, PayloadByOp
<1>6. ASSUME NEW x \in Requests, events'[Main(x)] = events[Main(x)]
      PROVE  Fades(x)
  BY <1>1, <1>4, <1>5, <1>6 DEF Fades, TapInv, EventKnown
<1>7. CASE req[r].op # "create_event"
  <2>1. ASSUME NEW x \in Requests PROVE Fades(x)
    <3>1. events'[Main(x)] = None \/ events'[Main(x)] = events[Main(x)]
      BY <1>1, <1>7, MainId DEF EventsWith, EventsAfterDelete
    <3> QED BY <1>6, <3>1 DEF Fades
  <2> QED BY <1>3, <2>1, TapKept
<1>8. CASE req[r].op = "create_event"
  <2> DEFINE e == NewEvent(req[r], began[r])
  <2>1. /\ req[r] \in CreatePayload /\ events[Main(r)] = None
        /\ events' = EventsAfterCreate(events, r, req[r], plan[r].auto_red, began[r])
    BY <1>1, <1>8, PayloadByOp DEF TapInv, EventKnown, EventsWith
  <2>2. events'[Main(r)] = e
    BY <2>1, MainId DEF EventsAfterCreate, Main
  <2>3. ASSUME NEW x \in Requests \ {r}
        PROVE  events'[Main(x)] = events[Main(x)] /\ Fades(x)
    <3>1. Main(x) \in EventIds /\ Main(x) # <<r, "main">> /\ Main(x) # <<r, "auto">>
      BY MainId DEF Main
    <3>2. events'[Main(x)] = events[Main(x)]
      BY <2>1, <3>1 DEF EventsAfterCreate
    <3> QED BY <1>6, <3>2
  <2>4. fixture' # None /\ fixture'.ruleset_snapshot # None
    BY <1>1, <1>4, <1>8, CreateFreezes DEF RowStillJudged
  <2>5. ASSUME NEW x \in Requests PROVE EventKnown(x)'
    <3>1. CASE x = r
      <4>1. pc'[r] = "committed"
        BY <1>1 DEF SerialInv, Inv, TypeOK
      <4>2. /\ e.created_at = began[r] /\ e.club = req[r].club
            /\ e.event_type = req[r].event_type /\ e.minute = req[r].minute
            /\ e.player = req[r].player
        BY DEF NewEvent
      <4> HIDE DEF e
      <4> QED BY <1>1, <2>1, <2>2, <2>4, <3>1, <4>1, <4>2 DEF EventKnown
    <3>2. CASE x # r
      <4>1. EventKnown(x) /\ Calm(x)
        BY <1>3 DEF TapInv
      <4> QED BY <1>1, <2>3, <2>4, <3>2, <4>1 DEF EventKnown, PlayerGone, Calm
    <3> QED BY <3>1, <3>2
  <2>6. StoredWarned'
    <3> SUFFICES ASSUME NEW x \in Requests, NEW s \in Requests, x # s,
                        events'[Main(x)] # None, events'[Main(s)] # None
                 PROVE  WarnedOf(s, x)' \/ WarnedOf(x, s)'
      BY DEF StoredWarned
    <3>1. req'[x] = req[x] /\ req'[s] = req[s]
      BY <1>1
    <3>2. ASSUME NEW y \in Requests \ {r}, events'[Main(y)] # None PROVE WarnedOf(r, y)'
      <4>1. WarnedOf(r, y)
        BY <1>1, <1>8, <2>3, <3>2 DEF TapInv, CreationsWarned, Creating
      <4> QED BY <1>1, <2>3, <3>2, <4>1, WarnedStays
    <3>3. CASE x = r
      BY <3>2, <3>3
    <3>4. CASE s = r
      BY <3>2, <3>4
    <3>5. CASE x # r /\ s # r
      <4>1. WarnedOf(s, x) \/ WarnedOf(x, s)
        BY <2>3, <3>5 DEF TapInv, StoredWarned
      <4> QED BY <2>3, <3>1, <3>5, <4>1, WarnedStays
    <3> QED BY <3>3, <3>4, <3>5
  <2> QED BY <1>3, <2>5, <2>6 DEF TapInv
<1> QED BY <1>7, <1>8

LEMMA NextKeepsTap == SerialInv /\ TapInv /\ [Next]_vars => TapInv'
<1> SUFFICES ASSUME SerialInv, TapInv, [Next]_vars PROVE TapInv'
  OBVIOUS
<1>1. now <= now' /\ now \in Nat /\ now' \in Nat
  BY StepKinds
<1>2. CASE UNCHANGED <<fixture, events>> /\ \A s \in Requests : Calm(s)
  BY <1>1, <1>2, TapKeptByQuiet
<1>3. CASE \E r \in Requests : CheckCreate(r) /\ pc'[r] = "checked"
  BY <1>3, TapKeptByCheck
<1>4. CASE \E r \in Requests : Commit(r)
  BY <1>1, <1>4, TapKeptByCommit
<1>5. CASE \E r \in Requests : DeleteFixture(r) /\ events' = NoEvents
  BY <1>1, <1>5, TapKeptByDeletion
<1>6. CASE \E p \in Players : DeletePlayer(p)
  BY <1>1, <1>6, TapKeptByForgetting
<1> QED BY <1>2, <1>3, <1>4, <1>5, <1>6, StepKinds

LEMMA InitTap == Init => TapInv
<1> SUFFICES ASSUME Init PROVE TapInv
  OBVIOUS
<1>1. \A r \in Requests : events[Main(r)] = None /\ pc[r] = "idle"
  BY MainId DEF Init, NoEvents
<1> QED BY <1>1 DEF TapInv, KeyFree, EventKnown, CreationsWarned, StoredWarned

LEMMA TapInvHolds == Spec => [](SerialInv /\ TapInv)
<1>1. SerialInv /\ TapInv /\ [Next]_vars => (SerialInv /\ TapInv)'
  BY NextKeepsSerial, NextKeepsTap
<1> QED BY <1>1, InitSerial, InitTap, PTL DEF Spec

\* Of two requests for one incident that are both on record, the later one to be
\* judged found the earlier one's event and was warned of it, whatever ran in
\* between: one of them confirmed or overrode the warning, or the window of the
\* frozen rules is zero or over.
THEOREM DoubleTapsWarned == Spec => []DoubleTapWarned
<1>1. SerialInv /\ TapInv => DoubleTapWarned
  <2> SUFFICES ASSUME SerialInv, TapInv, NEW r \in Requests, NEW s \in Requests,
                      r # s, events[Main(r)] # None, events[Main(s)] # None
               PROVE  LET window == fixture.ruleset_snapshot.duplicate_event_window_ms
                      IN  \/ ~SameIncident(req[r], req[s])
                          \/ Confirmed(r) \/ Confirmed(s)
                          \/ window = 0
                          \/ now - events[Main(r)].created_at > window
                          \/ now - events[Main(s)].created_at > window
    BY DEF DoubleTapWarned, Main
  <2>1. WarnedOf(s, r) \/ WarnedOf(r, s)
    BY DEF TapInv, StoredWarned
  <2>2. SameIncident(req[r], req[s]) <=> SameIncident(req[s], req[r])
    BY DEF SameIncident
  <2> QED BY <2>1, <2>2 DEF WarnedOf
<1> QED BY <1>1, TapInvHolds, PTL

-------------------------------------------------------------------------------
(* Conflicts *)

\* The insertion is not refused for its key: nobody took it since the check.
LEMMA InsertKeepsKey ==
  ASSUME SerialInv, TapInv, NEW r \in Requests, pc[r] = "checked",
         req[r].op = "create_event"
  PROVE  InsertRefused(r) # "conflict"
BY DEF TapInv, KeyFree, Creating, InsertRefused

LEMMA ConflictStep ==
  ASSUME SerialInv, TapInv, [Next]_vars, NEW r \in Requests,
         answer[r] # "conflict", answer'[r] = "conflict"
  PROVE  \E i \in WithKey(events, req[r].key) : ~SameEvent(events[i], req[r])
<1>1. ASSUME NEW s \in Requests, NEW outcome, Finish(s, outcome)
      PROVE  s = r /\ outcome = "conflict"
  BY <1>1 DEF Finish, SerialInv, Inv, TypeOK
<1>2. answer' # answer
  OBVIOUS
<1>3. ASSUME NEW s \in Requests, NEW op, NEW v, Check(s, op, v)
      PROVE  s = r /\ v.answer = "conflict"
  BY <1>1, <1>2, <1>3 DEF Check, Decide
<1>4. ASSUME NEW ds, NEW q, NEW rules, NEW auto
      PROVE  Enforced(ds, q, rules, auto).answer # "conflict"
  BY DEF Enforced, Verdict, enforce_policy
<1>5. ASSUME NEW s \in Requests, CheckCreate(s)
      PROVE  \E i \in WithKey(events, req[r].key) : ~SameEvent(events[i], req[r])
  <2> DEFINE v == CreateVerdict(fixture, events, Belongs(req[s]), tournament, req[s], now)
  <2>1. s = r /\ v.answer = "conflict"
    BY <1>3, <1>5 DEF CheckCreate
  <2>2. ~(\A i \in WithKey(events, req[s].key) : SameEvent(events[i], req[s]))
    BY <1>4, <2>1 DEF CreateVerdict, Refuse, Verdict
  <2> QED BY <2>1, <2>2
<1>6. ASSUME NEW s \in Requests, CheckDelete(s) \/ CheckClock(s) \/ CheckUpdate(s)
      PROVE  FALSE
  <2>1. CASE CheckDelete(s)
    <3>1. DeleteVerdict(fixture, events, tournament, req[s]).answer # "conflict"
      BY <1>4 DEF DeleteVerdict, Refuse, Verdict
    <3> QED BY <1>3, <2>1, <3>1 DEF CheckDelete
  <2>2. CASE CheckClock(s)
    <3>1. ClockVerdict(fixture, tournament, req[s]).answer # "conflict"
      BY <1>4 DEF ClockVerdict, Refuse, Verdict
    <3> QED BY <1>3, <2>2, <3>1 DEF CheckClock
  <2>3. CASE CheckUpdate(s)
    BY <1>3, <2>3 DEF CheckUpdate, UpdateVerdict, Refuse, Verdict
  <2> QED BY <1>6, <2>1, <2>2, <2>3
<1>7. ASSUME NEW s \in Requests,
             ApplyCreate(s) \/ ApplyDelete(s) \/ ApplyClock(s) \/ ApplyUpdate(s)
      PROVE  FALSE
  <2>1. ~(\E op, newRow : Write(s, op, newRow))
    BY <1>2 DEF Write
  <2>2. /\ pc[s] = "checked" /\ req[s].op = "create_event"
        /\ Finish(s, InsertRefused(s))
    BY <1>7, <2>1 DEF ApplyCreate, ApplyDelete, ApplyClock, ApplyUpdate
  <2> QED BY <1>1, <2>2, InsertKeepsKey
<1>8. ASSUME NEW s \in Requests,
             \/ Begin(s) \/ LockFixture(s) \/ Commit(s) \/ DeleteFixture(s)
             \/ Respond(s) \/ Lose(s)
      PROVE  FALSE
  BY <1>1, <1>2, <1>8 DEF Begin, LockFixture, Commit, DeleteFixture, Respond, Lose
<1>9. CASE UpdateTournament \/ (\E p \in Players : TransferPlayer(p) \/ DeletePlayer(p))
           \/ Tick \/ UNCHANGED vars
  BY <1>2, <1>9 DEF UpdateTournament, TransferPlayer, DeletePlayer, Tick, vars
<1> QED BY <1>5, <1>6, <1>7, <1>8, <1>9 DEF Next, Step

\* A client is told that its key conflicts only while another event, not the one
\* it asks for, is stored under that key: the check finds it, and the unique
\* index never refuses what the check let through.
THEOREM ConflictsAreReal == Spec => ConflictMeansDifferentEvent
<1>1. SerialInv /\ TapInv /\ [Next]_vars =>
        [\A r \in Requests :
           answer[r] # "conflict" /\ answer'[r] = "conflict" =>
             \E i \in WithKey(events, req[r].key) : ~SameEvent(events[i], req[r])]_vars
  BY ConflictStep
<1> QED BY <1>1, TapInvHolds, PTL DEF Spec, ConflictMeansDifferentEvent

===============================================================================
