------------------------------ MODULE MatchLedger -----------------------------
(* What the server promises of one fixture: "Serialize all state-changing    *)
(* operations for one fixture" (lock_fixture).  Every request that succeeds  *)
(* is one atomic step that judges and changes the rows as they stand; every  *)
(* request that fails changes nothing.                                       *)
(* The ruleset an unfrozen fixture is judged by is one the tournament may    *)
(* have, the roster is not looked at, and a request may have begun and read  *)
(* the clock at any earlier instant.                                         *)
EXTENDS FixtureOps

VARIABLES
  fixture,      \* the fixtures row, None once deleted
  events,       \* match_events, by event id
  audit,        \* audit_log
  now           \* the clock

ledgerVars == <<fixture, events, audit, now>>

LedgerTypeOK ==
  /\ fixture \in FixtureRow \cup {None}
  /\ events \in [EventIds -> EventRow \cup {None}]
  /\ audit \subseteq AuditEntry
  /\ now \in Instants

Past == {t \in Instants : t <= now}
Unserved(r) == \A a \in audit : a.by # r

LedgerInit ==
  /\ fixture = NewFixture
  /\ events = NoEvents
  /\ audit = {}
  /\ now = 0

\* ForgetPlayer does not wait for the fixture's lock: an entry that names no
\* player may have been judged beside an event that still named one, and so
\* not warned of a duplicate.
Judged(q) ==
  {q} \cup IF q.player = None
           THEN {[q EXCEPT !.ack = @ \cup {"possible_duplicate"}]} ELSE {}

CreateEvent(r, q) ==
  /\ Unserved(r) /\ fixture # None /\ q.op = "create_event"
  /\ \E cfg \in Configs, began \in Past, t \in Past, judged \in Judged(q) :
       LET v == CreateVerdict(fixture, events, TRUE, cfg, judged, t)
       IN  /\ v.answer = "ok"
           /\ events' = EventsAfterCreate(events, r, q, v.auto_red, began)
           /\ fixture' = RowAfterCreate(fixture, v.rules, events')
           /\ audit' = audit \cup AuditOf("event.create", <<r, "main">>, r,
                                          v.overridden)
  /\ UNCHANGED now

DeleteEvent(r, q) ==
  /\ Unserved(r) /\ fixture # None /\ q.op = "delete_event"
  /\ \E cfg \in Configs :
       LET v == DeleteVerdict(fixture, events, cfg, q)
       IN  /\ v.answer = "ok"
           /\ events' = EventsAfterDelete(events, q.target)
           /\ fixture' = recalculate_score(fixture, events')
           /\ audit' = audit \cup AuditOf("event.delete", q.target, r,
                                          v.overridden)
  /\ UNCHANGED now

UpdateClock(r, q) ==
  /\ Unserved(r) /\ fixture # None /\ q.op = "clock"
  /\ \E cfg \in Configs, t \in Past :
       LET v == ClockVerdict(fixture, cfg, q)
       IN  /\ v.answer = "ok"
           /\ fixture' = RowAfterClock(fixture, v.rules, q, t)
           /\ audit' = audit \cup AuditOf("clock", None, r, v.overridden)
  /\ UNCHANGED <<events, now>>

UpdateFixture(r, q) ==
  /\ Unserved(r) /\ fixture # None /\ q.op = "update_fixture"
  /\ UpdateVerdict(q).answer = "ok"
  /\ fixture' = RowAfterUpdate(fixture, q)
  /\ audit' = audit \cup AuditOf("fixture.update", None, r, FALSE)
  /\ UNCHANGED <<events, now>>

\* DELETE FROM fixtures cascades to its events; the audit log stays.
DeleteFixture ==
  /\ fixture # None
  /\ fixture' = None
  /\ events' = NoEvents
  /\ UNCHANGED <<audit, now>>

\* DELETE FROM players sets match_events.player_id to NULL.
ForgetPlayer(p) ==
  /\ events' = [i \in EventIds |->
                  IF events[i] # None /\ events[i].player = p
                  THEN [events[i] EXCEPT !.player = None] ELSE events[i]]
  /\ UNCHANGED <<fixture, audit, now>>

Tick ==
  /\ \E t \in Instants : t > now /\ now' = t
  /\ UNCHANGED <<fixture, events, audit>>

LedgerNext ==
  \/ \E r \in Requests, q \in Payloads :
       \/ CreateEvent(r, q)
       \/ DeleteEvent(r, q)
       \/ UpdateClock(r, q)
       \/ UpdateFixture(r, q)
  \/ DeleteFixture
  \/ \E p \in Players : ForgetPlayer(p)
  \/ Tick

LedgerSpec == LedgerInit /\ [][LedgerNext]_ledgerVars

-------------------------------------------------------------------------------
(* Safety *)

\* The score on the fixture row is the tally of the events that are stored:
\* goals and converted penalties, and own goals for the other side.
ScoreMatchesEvents ==
  fixture # None => ScoreMatches(fixture, events)

\* A match that has started, has a period or has an event has its ruleset
\* frozen: no later change of the tournament reaches it (sql/010).
KickoffFreezesRules ==
  fixture # None /\ fixture.ruleset_snapshot = None =>
    /\ fixture.status \notin {"live", "completed"}
    /\ fixture.period = None
    /\ Recorded(events) = {}

\* The clock columns agree: the clock has a start time exactly in a ticking
\* half (sql/006: "null when paused"), stoppage is only announced in one, and
\* a completed match is at full time.
ClockColumnsAgree ==
  fixture # None =>
    /\ (fixture.period_started_at # None) <=> (fixture.period \in TICKING_PERIODS)
    /\ fixture.stoppage_minutes # None => fixture.period \in TICKING_PERIODS
    /\ fixture.status = "completed" => fixture.period = "full_time"

Overridden(id) ==
  \E a \in audit : a.action = "policy.override" /\ a.entity = id

\* Substitutions beyond the frozen limit were each put through by an audited
\* override, whatever was deleted or replayed in between.
SubstitutionLimitHeld ==
  fixture # None /\ fixture.ruleset_snapshot # None =>
    LET limit == fixture.ruleset_snapshot.max_substitutions
    IN  limit # None =>
          \A c \in Clubs :
            Cardinality({i \in Substitutions(events, c) : ~Overridden(i)}) <= limit

\* The stored events are the audited creations less the audited deletions: an
\* event typed by staff never appears or vanishes unaudited, and a deletion is
\* audited once.
AuditExplainsEvents ==
  LET Audited(action) == {a \in audit : a.action = action}
      deletions == Audited("event.delete")
  IN  /\ fixture # None =>
           \A r \in Requests :
             events[<<r, "main">>] # None <=>
               /\ \E a \in Audited("event.create") : a.entity = <<r, "main">>
               /\ \A a \in deletions : a.entity # <<r, "main">>
      /\ \A a, b \in deletions : a.entity = b.entity => a = b

\* An automatic red card is never left without the yellow it was given for.
AutoRedHasSource ==
  \A i \in Recorded(events) :
    events[i].source # None =>
      /\ events[events[i].source] # None
      /\ events[events[i].source].event_type = "yellow_card"

-------------------------------------------------------------------------------
(* What a step may never do *)

\* Once frozen the rules of a fixture never change.
RulesStayFrozen ==
  [][fixture # None /\ fixture.ruleset_snapshot # None /\ fixture' # None
     => fixture'.ruleset_snapshot = fixture.ruleset_snapshot]_ledgerVars

\* Under strict clock rules the period only goes forward through the halves,
\* one at a time, unless a platform administrator's override is audited with
\* the step.
StrictPeriodOrder ==
  [][fixture # None /\ fixture' # None /\ fixture'.period # fixture.period
     /\ fixture'.ruleset_snapshot.clock_transitions = "strict"
     => \/ <<fixture.period, fixture'.period>> \in
             {<<None, "first_half">>, <<"first_half", "half_time">>,
              <<"half_time", "second_half">>, <<"second_half", "full_time">>}
        \/ \E a \in audit' \ audit : a.action = "policy.override"]_ledgerVars

\* A half ticks in a live match, unless an update set the match aside in the
\* very half: a step that leaves a half ticking in a match that is not live has
\* not started it, and either found the match so or is the audited update that
\* made it so (update_fixture writes the status and leaves the clock alone).
OnlyUpdatesSetAside ==
  [][fixture' # None /\ fixture'.period \in TICKING_PERIODS
     /\ fixture'.status # "live"
     => /\ fixture # None /\ fixture.period = fixture'.period
        /\ \/ fixture.status = fixture'.status
           \/ \E a \in audit' \ audit : a.action = "fixture.update"]_ledgerVars

\* Under "block", a match at full time keeps its events as they are unless an
\* override is audited with the change.
FullTimeIsFinal ==
  [][fixture # None /\ fixture' # None
     /\ (fixture.status = "completed" \/ fixture.period = "full_time")
     /\ fixture.ruleset_snapshot # None
     /\ fixture.ruleset_snapshot.events_after_ft = "block"
     /\ Recorded(events') # Recorded(events)
     => \E a \in audit' \ audit : a.action = "policy.override"]_ledgerVars

\* Under "auto_red", the yellow that is a player's second is stored together
\* with a red card for the same player.
SecondYellowSendsOff ==
  [][\A r \in Requests :
       LET id == <<r, "main">>  e == events'[id]
       IN  /\ events[id] = None /\ e # None
           /\ e.event_type = "yellow_card" /\ e.player # None
           /\ \E i \in Recorded(events) : /\ events[i].event_type = "yellow_card"
                                          /\ events[i].player = e.player
           /\ fixture'.ruleset_snapshot.second_yellow_policy = "auto_red"
           => LET red == events'[<<r, "auto">>]
              IN  /\ red # None /\ red.event_type = "red_card"
                  /\ red.player = e.player /\ red.source = id]_ledgerVars

\* While a half ticks, the minute shown to viewers never goes back, unless a
\* clock action is audited with the step.
DisplayedMinuteAdvances ==
  [][fixture # None /\ fixture' # None
     /\ fixture.period \in TICKING_PERIODS
     /\ {a \in audit' \ audit : a.action = "clock"} = {}
     => LET before == clock_label(fixture, now)
            after  == clock_label(fixture', now')
        IN  /\ before # None /\ after # None
            /\ before.minute <= after.minute
            /\ before.minute + before.extra <= after.minute + after.extra]_ledgerVars
===============================================================================
