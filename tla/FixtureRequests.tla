---------------------------- MODULE FixtureRequests ---------------------------
(* The requests that change one fixture, as they interleave: each handler    *)
(* opens a transaction, waits for the fixture's row lock, reads and judges,  *)
(* writes, commits (routers/events.py, routers/fixtures.py).  Writes are     *)
(* private to the transaction until it commits.  Beside them the tournament's *)
(* ruleset and the roster change without that lock.                          *)
EXTENDS FixtureOps

CONSTANT PoolSize              \* connections in the asyncpg pool

ASSUME PoolSizeAssumption == PoolSize \in Nat \ {0}

VARIABLES
  fixture, events, audit, now, \* committed rows and the clock, as in MatchLedger
  tournament,   \* the tournament's stored ruleset
  roster,       \* the club of each player, None once the player is deleted
  lock,         \* the transaction holding the fixture's row lock
  pc,           \* how far each request has got
  req,          \* what it asked for
  began,        \* when its transaction started
  plan,         \* the verdict it reached on what it read
  row,          \* the fixture row it has written but not committed
  answer        \* the outcome the client was told

vars == <<fixture, events, audit, now, tournament, roster,
          lock, pc, req, began, plan, row, answer>>
database == <<fixture, events, audit>>
environment == <<now, tournament, roster>>

Stages == {"idle", "waiting", "locked", "checked", "applied", "committed", "done"}

TypeOK ==
  /\ fixture \in FixtureRow \cup {None}
  /\ events \in [EventIds -> EventRow \cup {None}]
  /\ audit \subseteq AuditEntry
  /\ now \in Instants
  /\ tournament \in Configs
  /\ roster \in [Players -> AllClubs \cup {None}]
  /\ lock \in Requests \cup {None}
  /\ pc \in [Requests -> Stages]
  /\ req \in [Requests -> Payloads \cup {None}]
  /\ began \in [Requests -> Instants]
  /\ plan \in [Requests -> Plan \cup {None}]
  /\ row \in [Requests -> FixtureRow \cup {None}]
  /\ answer \in [Requests -> Answers \cup {None}]

Init ==
  /\ fixture = NewFixture
  /\ events = NoEvents
  /\ audit = {}
  /\ now = 0
  /\ tournament \in Configs
  /\ roster \in [Players -> Clubs]
  /\ lock = None
  /\ pc = [r \in Requests |-> "idle"]
  /\ req = [r \in Requests |-> None]
  /\ began = [r \in Requests |-> 0]
  /\ plan = [r \in Requests |-> None]
  /\ row = [r \in Requests |-> None]
  /\ answer = [r \in Requests |-> None]

-------------------------------------------------------------------------------
(* The transaction *)

InTransaction(r) == pc[r] \in {"waiting", "locked", "checked", "applied"}
HoldsConnection(r) == InTransaction(r) \/ pc[r] = "committed"

AdvanceTo(r, stage) == pc' = [pc EXCEPT ![r] = stage]

\* Leaving the transaction, by COMMIT or ROLLBACK, gives the row lock up.
\* Mutant of Released: a request that ends keeps its lock.
ReleasedNever(r) == lock
Released(r) == IF lock = r THEN None ELSE lock

\* The handler is over and its transaction, if still open, is rolled back.
Finish(r, outcome) ==
  /\ AdvanceTo(r, "done")
  /\ answer' = [answer EXCEPT ![r] = outcome]
  /\ lock' = Released(r)
  /\ plan' = [plan EXCEPT ![r] = None]
  /\ row' = [row EXCEPT ![r] = None]

\* The role dependency of the handler.
RoleAllowed(q) ==
  q.op \in {"update_fixture", "delete_fixture"} => q.role \in PLATFORM_OPS_ROLES

\* A pooled connection, the dependencies, BEGIN; a deletion looks its event up
\* before it knows which fixture to lock.
Begin(r) ==
  /\ pc[r] = "idle"
  /\ Cardinality({s \in Requests : HoldsConnection(s)}) < PoolSize
  /\ \E q \in Payloads :
       /\ req' = [req EXCEPT ![r] = q]
       /\ \/ /\ RoleAllowed(q)
             /\ q.op = "delete_event" => events[q.target] # None
             /\ AdvanceTo(r, "waiting")
             /\ UNCHANGED <<lock, plan, row, answer>>
          \/ ~RoleAllowed(q) /\ Finish(r, "forbidden")
          \/ /\ q.op = "delete_event" /\ events[q.target] = None
             /\ Finish(r, "not_found")
  /\ began' = [began EXCEPT ![r] = now]
  /\ UNCHANGED <<database, environment>>

\* SELECT ... FOR UPDATE waits for the holder, then finds the row or not.
\* Mutant of LockFree: the row is read without waiting for its lock.
NoLock == TRUE
LockFree == lock = None
LockFixture(r) ==
  /\ pc[r] = "waiting" /\ req[r].op # "delete_fixture"
  /\ LockFree
  /\ \/ /\ fixture # None
        /\ lock' = r
        /\ AdvanceTo(r, "locked")
        /\ UNCHANGED <<plan, row, answer>>
     \/ fixture = None /\ Finish(r, "not_found")
  /\ UNCHANGED <<database, environment, req, began>>

\* What the handler does with the verdict of its checks.
Decide(r, v) ==
  \/ /\ v.answer = "ok"
     /\ plan' = [plan EXCEPT ![r] = v]
     /\ AdvanceTo(r, "checked")
     /\ UNCHANGED <<lock, row, answer>>
  \/ v.answer # "ok" /\ Finish(r, v.answer)

Belongs(q) == q.player # None /\ roster[q.player] = q.club

Check(r, op, v) ==
  /\ pc[r] = "locked" /\ req[r].op = op
  /\ Decide(r, v)
  /\ UNCHANGED <<database, environment, req, began>>

CheckCreate(r) ==
  Check(r, "create_event",
        CreateVerdict(fixture, events, Belongs(req[r]), tournament, req[r], now))
\* Mutant of CheckDelete: the event is not looked up again under the lock.
CheckDeleteOnce(r) ==
  LET rules == EffectiveRuleset(fixture, tournament)
  IN  Check(r, "delete_event",
            Enforced(evaluate_event_deletion(fixture, rules), req[r], rules, FALSE))
CheckDelete(r) ==
  Check(r, "delete_event", DeleteVerdict(fixture, events, tournament, req[r]))
CheckClock(r) ==
  Check(r, "clock", ClockVerdict(fixture, tournament, req[r]))
CheckUpdate(r) ==
  Check(r, "update_fixture", UpdateVerdict(req[r]))

\* The events table as the transaction leaves it, given the others' commits.
EventsWith(r, evs) ==
  CASE req[r].op = "create_event" ->
         EventsAfterCreate(evs, r, req[r], plan[r].auto_red, began[r])
    [] req[r].op = "delete_event" -> EventsAfterDelete(evs, req[r].target)
    [] OTHER -> evs

Write(r, op, newRow) ==
  /\ pc[r] = "checked" /\ req[r].op = op
  /\ row' = [row EXCEPT ![r] = newRow]
  /\ AdvanceTo(r, "applied")
  /\ UNCHANGED <<database, environment, lock, req, began, plan, answer>>

\* ON CONFLICT DO NOTHING returns no row, and the foreign key wants the player.
InsertRefused(r) ==
  IF WithKey(events, req[r].key) # {} THEN "conflict"
  ELSE IF req[r].player # None /\ roster[req[r].player] = None THEN "lost"
  ELSE "ok"

ApplyCreate(r) ==
  \/ Write(r, "create_event",
           RowAfterCreate(fixture, plan[r].rules, EventsWith(r, events)))
     /\ InsertRefused(r) = "ok"
  \/ /\ pc[r] = "checked" /\ req[r].op = "create_event"
     /\ InsertRefused(r) # "ok"
     /\ Finish(r, InsertRefused(r))
     /\ UNCHANGED <<database, environment, req, began>>
\* Mutant of ApplyDelete: the score is not recounted.
ApplyDeleteOnly(r) == Write(r, "delete_event", fixture)
ApplyDelete(r) ==
  Write(r, "delete_event", recalculate_score(fixture, EventsWith(r, events)))
ApplyClock(r) ==
  Write(r, "clock", RowAfterClock(fixture, plan[r].rules, req[r], now))
ApplyUpdate(r) ==
  Write(r, "update_fixture", RowAfterUpdate(fixture, req[r]))

AuditFor(r) ==
  LET q == req[r]
      Entry(action, entity) == AuditOf(action, entity, r, plan[r].overridden)
  IN  CASE q.op = "create_event" -> Entry("event.create", <<r, "main">>)
        [] q.op = "delete_event" -> Entry("event.delete", q.target)
        [] q.op = "clock" -> Entry("clock", None)
        [] q.op = "update_fixture" -> Entry("fixture.update", None)

Commit(r) ==
  /\ pc[r] = "applied"
  /\ fixture' = row[r]
  /\ events' = EventsWith(r, events)
  /\ audit' = audit \cup AuditFor(r)
  /\ lock' = Released(r)
  /\ AdvanceTo(r, "committed")
  /\ UNCHANGED <<environment, req, began, plan, row, answer>>

\* DELETE FROM fixtures is one statement of its own transaction: it waits for
\* the row like any writer, asks for no lock and leaves no audit entry.
DeleteFixture(r) ==
  /\ pc[r] = "waiting" /\ req[r].op = "delete_fixture"
  /\ lock = None
  /\ \/ /\ fixture # None
        /\ fixture' = None
        /\ events' = NoEvents
        /\ AdvanceTo(r, "committed")
        /\ UNCHANGED <<audit, lock, plan, row, answer>>
     \/ /\ fixture = None
        /\ Finish(r, "not_found")
        /\ UNCHANGED database
  /\ UNCHANGED <<environment, req, began>>

\* The broadcasts (see LiveRoom) and the response, after the commit.
Respond(r) ==
  /\ pc[r] = "committed"
  /\ Finish(r, "ok")
  /\ UNCHANGED <<database, environment, req, began>>

\* A broken connection, a command timeout or a restart of the process: what is
\* not committed is rolled back, and the client hears nothing.
Lose(r) ==
  /\ HoldsConnection(r)
  /\ Finish(r, "lost")
  /\ UNCHANGED <<database, environment, req, began>>

-------------------------------------------------------------------------------
(* What changes beside the requests *)

UpdateTournament ==
  /\ tournament' \in Configs
  /\ UNCHANGED <<database, now, roster, lock, pc, req, began, plan, row, answer>>

TransferPlayer(p) ==
  /\ roster[p] # None
  /\ \E c \in AllClubs : roster' = [roster EXCEPT ![p] = c]
  /\ UNCHANGED <<database, now, tournament,
                 lock, pc, req, began, plan, row, answer>>

\* The inserted event holds a key lock on its player until its transaction ends.
PlayerPinned(p) ==
  \E r \in Requests : /\ pc[r] = "applied" /\ req[r].op = "create_event"
                      /\ req[r].player = p

DeletePlayer(p) ==
  /\ roster[p] # None /\ ~PlayerPinned(p)
  /\ roster' = [roster EXCEPT ![p] = None]
  /\ events' = [i \in EventIds |->
                  IF events[i] # None /\ events[i].player = p
                  THEN [events[i] EXCEPT !.player = None] ELSE events[i]]
  /\ UNCHANGED <<fixture, audit, now, tournament,
                 lock, pc, req, began, plan, row, answer>>

Tick ==
  /\ \E t \in Instants : t > now /\ now' = t
  /\ UNCHANGED <<database, tournament, roster,
                 lock, pc, req, began, plan, row, answer>>

-------------------------------------------------------------------------------
Step(r) ==
  \/ LockFixture(r)
  \/ CheckCreate(r) \/ CheckDelete(r) \/ CheckClock(r) \/ CheckUpdate(r)
  \/ ApplyCreate(r) \/ ApplyDelete(r) \/ ApplyClock(r) \/ ApplyUpdate(r)
  \/ Commit(r)
  \/ DeleteFixture(r)
  \/ Respond(r)

Next ==
  \/ \E r \in Requests : Begin(r) \/ Step(r) \/ Lose(r)
  \/ UpdateTournament
  \/ \E p \in Players : TransferPlayer(p) \/ DeletePlayer(p)
  \/ Tick

Spec == Init /\ [][Next]_vars

\* The event loop resumes every handler whose statement has returned, and the
\* database grants a free row lock to a waiting transaction.
FairSpec == Spec /\ \A r \in Requests : WF_vars(Step(r))

-------------------------------------------------------------------------------
(* What the handlers guarantee *)

Ledger == INSTANCE MatchLedger

\* Every interleaving of the handlers is a run of the ledger: each committed
\* request judged and changed the rows as they stood when it committed, though
\* it read them several statements earlier.
Serializable == Ledger!LedgerSpec

\* The committed score is the tally of the committed events: no interleaving
\* of two recounts loses an update.
ScoreMatchesEvents == fixture # None => ScoreMatches(fixture, events)

\* A client is told its key conflicts only if the event under that key is
\* another one: a retry that races or follows its original is not refused on
\* account of its key.
ConflictMeansDifferentEvent ==
  [][\A r \in Requests :
       answer[r] # "conflict" /\ answer'[r] = "conflict" =>
         \E i \in WithKey(events, req[r].key) : ~SameEvent(events[i], req[r])]_vars

\* Two requests for the same incident, neither of which confirmed or overrode
\* the duplicate warning, are both on record only if the window has passed
\* since the transaction of one of them began.
Confirmed(r) ==
  "possible_duplicate" \in req[r].ack \/ req[r].override

DoubleTapWarned ==
  \A r, s \in Requests :
    LET e == events[<<r, "main">>]  f == events[<<s, "main">>]
        window == fixture.ruleset_snapshot.duplicate_event_window_ms
    IN  r # s /\ e # None /\ f # None =>
          \/ ~SameIncident(req[r], req[s])
          \/ Confirmed(r) \/ Confirmed(s)
          \/ window = 0
          \/ now - e.created_at > window \/ now - f.created_at > window

\* A request that entered its transaction is over at some point: no one keeps
\* the row lock or waits for it for ever.
RequestsEnd == \A r \in Requests : pc[r] = "waiting" ~> pc[r] = "done"

\* A retry never records its event a second time (sql/009).
KeyRecordedOnce ==
  \A r, s \in Requests :
    /\ r # s
    /\ \A x \in {r, s} : \E a \in audit : a.by = x /\ a.action = "event.create"
    => req[r].key = None \/ req[r].key # req[s].key
===============================================================================
