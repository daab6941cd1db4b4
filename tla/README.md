# Crimax Sport server: verification project

TLA+ models of the server in `src/`, TLC runs that check them on small
instances, and TLAPS proofs about them. The server is a FastAPI application
over PostgreSQL (asyncpg): staff enter match events and drive the match clock
from the touchline while viewers follow over WebSockets. One process, one event
loop; every `await` lets the other handlers run, and every statement outside a
transaction is a transaction of its own.

## 1. Inventory

| Component | State | Operations | How it meets the others |
|---|---|---|---|
| Match rules (`core/match_rules.py`, `core/rulesets.py`, `core/policy.py`) | none | evaluate an event, a clock action, a deletion; resolve a ruleset; enforce the decisions | called by the event and clock handlers on the rows they read |
| Match clock (`core/match_clock.py`, `queries/fixtures.py: apply_clock_action`) | four columns of the fixture | start, half-time, second half, full time, nudge, stoppage; minute and label | written under the fixture's row lock, read by every board |
| Fixtures, events, score (`routers/events.py`, `routers/fixtures.py`, `queries/events.py`, `queries/fixtures.py`) | `fixtures`, `match_events` | create and delete an event, clock, update, delete a fixture | serialised by `lock_fixture`; read the tournament's ruleset and the roster, which change without that lock; broadcast after the commit |
| Audit (`queries/audit.py`) | `audit_log` | append | in the transaction of the change it records |
| Live feed (`core/websocket.py`, `routers/live.py`) | the rooms, in memory | connect, broadcast, disconnect | called by every handler that changed a fixture |
| Line-ups (`routers/lineups.py`, `queries/lineups.py`) | `fixture_lineups`, `fixture_lineup_players` | save, delete | read the fixture's status and the roster, take no lock on either |
| Sessions (`routers/auth.py`, `queries/refresh_tokens.py`, `queries/auth_tokens.py`) | `refresh_tokens`, `auth_tokens` | log in, refresh, log out, forgot, reset | read `users` |
| Users and invites (`routers/users.py`, `queries/users.py`) | `users`, `invites`, `club_managers` | invite, resend, revoke, accept, update | decide the roles and clubs every guard reads |
| Tournaments (`routers/tournaments.py`, `queries/tournaments.py`) | `tournaments`, `tournament_clubs` | create, mark as current, update, delete, clubs | the ruleset unfrozen fixtures are judged by; new fixtures go to the current one |
| Players, clubs | `players`, `clubs` | CRUD | deleting a player empties `match_events.player_id` and its line-up places |
| Standings (`queries/standings.py`) | none | a table computed from completed fixtures | reads the scores, the fixtures and the enrolled clubs |
| News (`queries/news.py`) | `news` | create, update, delete | alone |
| External ids (`routers/external_ids.py`, `queries/external_ids.py`) | `external_ids` | set, remove | audited; alone otherwise |
| Rate limiter (`core/rate_limit.py`) | a bucket per key, in memory | hit | in front of log-in, password, clock and event handlers |
| Migrator (`database/migrator.py`, `main.py: lifespan`) | `schema_migrations`, an advisory lock | run at boot | before every handler, beside other instances |
| E-mail (`core/email.py`, `services/zoho_mail_service.py`) | a token and an account id, in memory | send | awaited by the invite handlers, in the background of a forgotten password |
| Media | an object store | uploads | alone |

What is hard: two or more people enter the same match at once, from phones that
retry; what a handler judges by may be stale when it writes; connections break
between statements; rules change under running matches; a broadcast is
overtaken by a later one; line-ups are saved without the lock the rest uses;
instances boot together and die half-way through a migration; sends share a
token that lapses.
`PROJECT.json` lists each hazard at its line.

What makes each part correct:

* rules: the substitution limit, the second yellow and full time hold over any
  sequence of entries, deletions, replays and overrides;
* clock: its columns agree, strict periods go forward, the minute shown never
  goes back;
* fixtures and events: concurrent requests behave as if one at a time, the
  score is the tally of the events, the audit log explains what is stored,
  retries record once, the rules freeze at kick-off, every request ends;
* live feed: whoever is connected gets each change, whoever left costs nobody
  theirs;
* line-ups: what is stored is one request's eleven, edited before kick-off only;
* sessions: each client's session is its own, a refresh never costs it, a reset
  link sets one password;
* invites: the account is the work of one acceptance, an accepted invite is spent
  (neither withdrawn nor offered again), administrators are appointed by super
  administrators only;
* tournaments: at most one is current, but for one created at the wrong moment;
* standings: the table adds up, and a line depends on the club's own results only;
* news: what is published has a date, a slug clashes in a race only;
* external ids: the audit log explains the map, as far as its times order it;
* rate limiter: it counts the window that ends now;
* migrator: each file once, in order, with its record; no boot meets another's
  work or waits for ever;
* e-mail: a lapsed token is presented only after more than the skew on the wire; a
  failed send costs the mail only.

## 2. Modules

```
MatchRules <- MatchClock <- FixtureOps <- MatchLedger       <- MCLedger
                                 ^             ^ INSTANCE
                                 +------ FixtureRequests    <- MCRequests
LiveRoom <- MCLiveRoom
Sessions <- Invitations <- MCAccounts;  MCAccounts, LiveRoom <- MCClients

LineupRequests <- MCLineups <--+
Tournaments, Standings, News, ExternalIds <- MCLeague

SchemaHistory <- Migrator;  SlidingWindow <-INSTANCE- RateLimiter
Migrator, RateLimiter, Mailer, LiveRoom <- MCPlatform
```

and the modules of proofs, with what each is about:

```
FixtureOps <- FixtureOpsProofs <- MatchLedgerProofs        (MatchLedger)
                    ^
            FixtureRequestsProofs <- SerializableProofs    (FixtureRequests)
Invitations <- AccountProofs
LineupRequests, Tournaments, Standings, News, ExternalIds <- LeagueProofs
LiveRoom, RateLimiter, Mailer, Migrator                   <- PlatformProofs
Induction <- LeagueProofs, PlatformProofs
```

**MatchRules** translates the rule engine as pure operators under the names of
the code: `resolve_ruleset`, `evaluate_event`, `evaluate_clock`,
`evaluate_event_deletion`, `enforce_policy`. A decision is a record
`[level, code]`; the answer of `enforce_policy` is the error it raises or "ok".
Where the code keeps lists of decisions the model keeps sets: only the first
message would tell the difference.

**MatchClock** has the columns each clock action writes and the minute and label
a board computes from them, in milliseconds.

**FixtureOps** says what each request does to one fixture: a *verdict* on the
rows it reads (the checks of the handler in their order) and the rows it leaves
(the fixture, the events, the audit entries). Both modules below use these
operators, so that a handler in small steps and the promise in one step cannot
drift apart.

**MatchLedger** is the abstract specification: "Serialize all state-changing
operations for one fixture" (`lock_fixture`). Each request that succeeds is one
atomic step on `fixture`, `events` and `audit`; a request that fails changes
nothing. An unfrozen fixture is judged by any ruleset its tournament may have,
and a request may have begun, and read the clock, at any earlier instant. An entry
that names no player may have been judged beside an event that still named one
(`Judged`): deleting a player does not wait for the fixture's lock.

**FixtureRequests** has the handlers as they interleave. A request goes
`idle -> waiting -> locked -> checked -> applied -> committed -> done`:
`Begin` (a pooled connection, the role guard, BEGIN; a deletion looks its event
up before it knows the fixture), `LockFixture` (SELECT ... FOR UPDATE),
`Check...` (the reads and the policy), `Apply...` (the writes, private to the
transaction in `row` and `EventsWith`), `Commit`, `Respond` (broadcasts and the
answer). The reads of one handler are one step: they see committed rows that
only the holder of the lock can change, and each row that others can change,
the ruleset and the player's, is read once. `Lose` is a broken connection, a
60 s command timeout or a restart at any point. `UpdateTournament`,
`TransferPlayer` and `DeletePlayer` run beside the lock, as in the code; a
deleted player waits for an uncommitted event that names them, because of the
foreign key. `DeleteFixture` takes no lock of its own and audits nothing.
`Serializable` says that every behaviour is one of `MatchLedger`, with the
variables of the same name as the refinement mapping.

**LiveRoom** is one room: a handler that committed has one or two broadcasts
due (an automatic red card is the second); `StartBroadcast` copies the room and
stamps the message, `SendNext` is one `await ws.send_text`, `EndBroadcast` drops
the dead. A viewer reads the fixture, then is accepted, joins and is sent what it
had read. A message says of the match how many changes had committed when its
row was read.

**LineupRequests** is the line-up of one club for one fixture, statement by
statement: the status, the squad, then in one transaction the header row
(INSERT ... ON CONFLICT, on which a second editor waits), the deletion of the
stored players and the insertion of the new ones, and after it the read back.
The deletion removes what its snapshot saw (`wiped`).

**Sessions** is the log-in, refresh, log-out, forgotten and reset password of one
account. A refresh token is a JWT of the user and its second of expiry, so two
made in one second are equal: the second of issue stands for the token, and the
UNIQUE column decides who keeps it. `refresh` rotates in a transaction
(`LockSession`, `InsertRotated`, `CommitRotation`) and stores the token beside the
old one if it cannot. An UPDATE of several rows is two steps: the rows its
snapshot sees (`sees`), then, once none is locked, what is still as the WHERE
clause asks; so two forgotten-password tasks may each miss the other's link.
`consume_token`, `SetPassword` and `revoke_all_for_user` are three transactions.

**Invitations** adds to it the invites, the account and its clubs. Creating an
invite drops the pending ones and inserts its own in two statements; a new link
and a revocation read first and write later under `accepted_at IS NULL`;
`accept_invite` reads the invite and the account, and then writes the account, the
clubs and the invite in one transaction (`WriteAccount`, `CommitAccept`) that a
taken address or a deleted club undoes. The invite's row is written without asking
whether it has been accepted meanwhile, so `accepted` names whose acceptance is in
`accepted_at` now. `update_user` clears and assigns clubs in
statements that commit one by one. The first read of a handler is the step it
begins with: before it nothing has happened.

**Tournaments** is the race for `is_current`. `UPDATE tournaments SET is_current =
FALSE` is a snapshot (`StartUnset`) and then a row at a time (`UnsetRow`), each
once nobody else's transaction holds it; `WriteTarget` and `CommitEdit` end the
transaction, in which every row it locked is unset but its own. Tournaments are
created and deleted by single statements meanwhile, and fixtures without a
tournament are filed under any current one (`get_current_tournament`), which may
be gone when they are inserted. `late` remembers what was created while a marking
was under way.

**Standings** keeps the rows the query reads (clubs, enrolments, fixtures) under
every statement that changes them, and translates the query: two lines per
completed match (`match_stats`), joined to the enrolled clubs and summed column by
column (`aggregated`), each line at the place its rank in the ORDER BY gives it. A club is numbered by the place of
its name.

**News** has the creation of an article (one step per probe of the slug, then the
INSERT, which the unique key may refuse) and the update (a read, then a write that
decides about `published_at` on what was read). A slug is a sequence of words.

**ExternalIds** is the map of one provider and kind of entity: transactions that
lock the entity's row (`LockRow`), write under the other unique key (`upsert`,
which waits for undecided rows and fails on taken ids), or delete, and commit their
audit entry with it. The log is a set: its ids are random, and the only order it
is read in is `created_at`, the start of the transaction, so of two imports that
overlap the one that wrote last may be listed first. An entry of the model also
remembers when it came to be seen (`ended`), which no column does.

**SchemaHistory** is what the migrator promises, in one action: the baseline and
then the numbered files, each once, in order, with its record. **Migrator** is
several instances, of releases that know different files, that go `off ->
waiting -> listing -> probing -> migrating <-> ran -> done -> serving`. `Start`
opens a session, `pg_advisory_lock` grants the lock, `ReadApplied` and
`_has_existing_tables` read, `Execute` opens a file's transaction and `Record`
commits it with its record. `Abort` is an exception in it, `LockTimesOut`
asyncpg's command timeout, `Crash` the end of the session at any stage, which
gives back the lock and the transaction. A database is empty, made by hand (any
set of the files' effects, but with tables), or was booted against before.
`MigratesInOrder` says that the boots implement `SchemaHistory`.

**SlidingWindow** and **RateLimiter** are the promise and the code of the limiter:
a request passes when fewer than its limit passed in the window that ends with it,
against a deque per key that is emptied only when the key comes again. The mapping
is the deque as it would be emptied now (`Evict`).

**Mailer** is every send of one process, between its awaits: `TakeToken`, a refresh
in two steps (`Issue` at Zoho, `StoreToken` here), `TakeAccount` and
`StoreAccount`, then `Accepted`, `Refused` or `ConnectionFails`. A call may last any
time. A token is known by the instant it lapses and by how late the answer with it
was stored; a send remembers when it took its token. Awaited mails are those of handlers that answer
afterwards; the others run in the background.

The MC modules give constants their values and build payloads. `MCClients`,
`MCLeague` and `MCPlatform` hold several components that share no row or variable: a behaviour
moves one of them, its `focus`, and the others rest where nothing is due of them,
so that one run explores each component by itself.

## 3. Runs

| Run | Question | Bounds |
|---|---|---|
| `ledger` | do limit, audit log, cards, frozen rules, clock columns, displayed minute and full time hold over any sequence, and who leaves a half ticking in a match that is not live? | 4 event requests, or 5 of the clock and the fixture (`Families`); 2 rulesets, managers and overriding administrators, deletions, reopened matches; 3 instants (two of them 1 and 3 minutes later, across 45 by nudging) |
| `requests_racing` | does every interleaving implement the ledger? | 2 requests out of events (one names no player), deletions, clock, updates, fixture deletion; 2 rulesets, of which one warns of duplicates; a transferable and deletable player |
| `requests_retry` | what holds of retries and double taps? | 3 requests, one key or none, three instants: the start, the end of the window, one millisecond later; pool of 2 |
| `requests_end` | do all requests end, and do three serialise? | 3 requests on a pool of 2, fairness, no symmetry |
| `requests_late_retry` | is a key ever recorded twice? (violated) | as above, 3 requests |
| `live_stamps` | is a later stamp a later state? (violated) | 2 handlers, 2 viewers |
| `lineups_late_edit` | are line-ups only edited before kick-off? (violated) | 2 editors |
| `clients` | account: are sessions, links, invites and the account whole, whoever else is at it? | any 2 requests, 3 of one family (`ThreeOfAFamily`); 2 seconds, lifetimes of one; 2 clubs |
| | live feed: who gets a broadcast, who is in the room? | 2 handlers with 1 or 2 broadcasts each; 2 viewers and three broadcasts, or 1 and four (`FiveStamps`) |
| `invite_accepted_twice` | does an invite serve one acceptance? (violated) | 2 requests |
| `league` | line-ups: is the stored eleven one request's? | 2 editors, 3 players, teams of 2, two formations, malformed payloads |
| | tournaments: when are two current? | 3 ids, any of them there at first, 2 requests |
| | standings: does the table add up, and on what does a line depend? | 3 clubs, 2 fixtures, goals 0 and 1 |
| | news: are the published dated, when does a slug clash? | 3 requests, the titles `cup` and `cup 1`, of which one is the other's second slug |
| | external ids: does the log explain the map? | 3 requests, 3 entities, 2 ids |
| `platform` | migrator: do boots agree, in order, and end? | 2 instances of 2 releases, 3 files, each started twice, every kind of database |
| | rate limiter: is it the sliding window? | 2 keys with limits 1 and 2, a window of 2, instants 0 to 5 |
| | mails: when is a lapsed token presented? | 2 mails, life 4, skew 2, instants 0 to 7, calls of any length |
| | live feed: does every change arrive? | 1 handler, 2 viewers, fairness |
| `mail_failure` | does an awaited mail's failure spare the answer? (violated) | as above, 1 awaited mail |

Why these bounds are enough. A lost update, a stale check and a replay race need
two requests, the deletion of what a third retries needs three; the limit of one
substitution is passed by the second; a second yellow, its deletion and a third
card need four. One fixture is modelled because the lock is per fixture and no
request touches two. Team size and the number of slots are a constant of
`LineupRequests`: only equality with it matters. On one account two requests suffice to race, and three for what they race about:
two resets of one link, two acceptances of which one is of a newer invite; three
requests that share no table add nothing, hence the constraint. One address is
modelled because no statement touches the rows of two.
A mark that misses a tournament needs two requests and a third row that is created
between. A migration is overtaken by a boot of the other release, and finished by
the third start. Two sends suffice for a token that one holds while the other
refreshes, and the instants let a token live and lapse. Three imports let one
entity take an id, give it up and lose the race for it.
The clock is bounded by the set
`Instants`, chosen at the boundaries of the duplicate window and of the minute.
The runs stop when every request has been served, so deadlock is not checked
there; that no request is stuck is `RequestsEnd`.

Fairness. `requests_end`: weak fairness of each handler's next step: the event
loop resumes a coroutine whose statement has returned, and PostgreSQL grants a
free row lock to a waiting transaction (with three requests a fair grant, not an
order, is all that is needed). `Begin` is not fair: clients may stay away.
`platform`: weak fairness of each instance's next statement, and strong fairness of
the grant of the advisory lock: PostgreSQL queues those who wait, and an instance
may be overtaken only as often as others start. Neither the timeout nor a crash is
relied upon. And weak fairness of each handler's broadcast (`RoomFairness`); a send to a peer that
stopped reading ends in an exception when uvicorn's keep-alive ping times out.

Findings, each shown by a run:

* `requests_late_retry`: deleting an event forgets its key, so a retry that
  arrives afterwards records the event again, although "Client-generated event
  IDs make live-entry retries safe" (`sql/009_event_idempotency.sql`).
* `live_stamps`: `server_time` is taken when a message is sent, not when its rows
  were read, so a later stamp may carry an older score, although viewers are to
  use it "for staleness checks" (`core/websocket.py`). In the run's trace two
  requests commit; a viewer reads the fixture as the second left it, joins and is
  sent it; then the handler of the first, the slower of the two, starts its
  broadcast: older rows under a later stamp.
* `lineups_late_edit`: the status check is not under the fixture's lock; an
  edit is stored after kick-off, although "Lineups can only be edited while the
  fixture is scheduled" (`routers/lineups.py`).
* `invite_accepted_twice`: `accept_invite` refuses an accepted invite before its
  transaction only, and the UPDATE in it names the invite by `id`. Where the
  address's users row has no password yet ("null until invite accepted",
  `sql/schema.sql`), a second acceptance that waited for the first overwrites its
  password and `accepted_at`, although "This invite has already been used."
  (`queries/users.py`). Without such a row the second INSERT of the address fails.
* `mail_failure`: `_send` catches `ZohoMailError`, but a timeout or a broken
  connection is an exception of httpx: it fails the request that created the
  invite, or renewed its link, although "Invite is still valid when send fails -
  UI can copy the link" (`routers/users.py`) and `send` "Raises ZohoMailError on
  failure".

Two tournaments may be current: a tournament created, and marked by a second
request, after the first request's UPDATE took its snapshot is not among the rows
it unsets ("If setting is_current = True, unset all others first",
`queries/tournaments.py`). `TwoCurrentOnlyByCreation` says that this is the only
way. New fixtures are then filed under either.

A mail may be sent under a lapsed token. The refresh, the look-up of the account
(made once, unless `ZOHO_ACCOUNT_ID` is set) and the post have timeouts of 20, 20
and 30 s against a skew of 60 s, and httpx bounds each phase of a call rather than
the call. `SkewCoversDelays` says how far the skew goes: only if more than it went
by, in what the answer with the token was late for the cache and what the send has
held it for, is the token of a call lapsed.

Behaviour worth knowing that no line of the repository contradicts: overriding a
block also skips the unacknowledged warnings; acknowledged warnings, cascaded
deletions of automatic red cards and deletions of fixtures are not audited;
deleting a player's first yellow leaves the automatic red; a match whose first
entry is an event has no period, so strict rules refuse `start_1h`; an
update may postpone or cancel a match whose half ticks, and it ticks on
(`OnlyUpdatesSetAside`: no step but the update itself makes a ticking match one that
is not live, and none that starts a half leaves it so); of two imports that overlap
the one that wrote last may be listed as the earlier one in the audit log; what a
viewer is shown first may be older than what it is sent next, or a broadcast of a
slower handler older than both; an entry that names no player,
judged beside an equal one whose player is then deleted, becomes an unwarned
duplicate of it; a line-up deleted by somebody else before the read back makes a successful save fail on its assertion; two invites for one
address, or two reset links, created at once both stay good; two people who sign
in to one account within a second, or two tabs that refresh within one, get one
session and one error 500; a revoked invite whose acceptance had already read it
still makes the account; an invite whose club was deleted can never be accepted;
two updates of a manager's clubs may leave a mixture.

## 4. Proofs

Every theorem holds for all values of the constants that satisfy the named
assumptions of its module; TLC evaluates the assumptions in the runs. Each safety
invariant of the runs and each action property is stated by a theorem, and so are
the refinements of `MatchLedger`, `SchemaHistory` and `SlidingWindow`.

### The ledger (`MatchLedgerProofs`)

`LedgerInv` is one inductive invariant for all that a fixture's rows satisfy. The
properties alone are not inductive:

* which events a deletion takes with it depends on where they came from:
  `EventsTraced` (a stored event is of a request that was served; an automatic red
  card names the stored yellow card of its request);
* a new entry of the audit log contradicts no older one because a creation on record
  is its own request's, and an event whose deletion is on record is gone and was of a
  request that is served already: `AuditTraced`, and `TypedEventsAudited` and
  `DeletedOnce`, which are `AuditExplainsEvents` by event and by entry.

From it: `SubstitutionsLimited`, `EventsAreAudited`, `AutoRedKeepsYellow`,
`RulesFrozenAtKickoff`, `ClockColumns` and `ScoreIsTally`, and of each step
`SetAsideByUpdate`, `RulesStayAsFrozen`, `PeriodsInOrder`, `EventsFinalAtFullTime`,
`SecondYellowIsRed` and `MinuteAdvances`. The last is arithmetic: the minute shown
is a division of milliseconds, and capped in stoppage time. `Created`, `Deleted`,
`Clocked` and `Updated` say what each kind of step leaves, so that a conjunct of the
invariant is proved from four facts and not from the handlers' code;
`FixtureOpsProofs` has the lemmas about the operators themselves.

### The handlers (`FixtureRequestsProofs`, `SerializableProofs`)

`ScoreMatchesEvents` is not inductive here: `Commit` publishes a row written two
steps earlier. `ScoreInvariant` adds what connects the two: the stages between
the lock and the commit belong to the lock's holder, whose fixture is there
(`LockHeld`); the plan fits the request (`PlanFitsRequest`); and the row about to
be committed has the score of the events the commit will leave
(`RowReadyToCommit`). The last one survives the other requests because events
change only by the holder's commit, by `DeleteFixture`, which needs the lock
free, and by `DeletePlayer`, which keeps clubs and types
(`TallyDecidesScore`: only these decide the score).

`HandlersSerializable` is `Spec => Serializable`: the commit of a handler is one
step of the ledger, judged by the rows as they stand, and every other step is a
stutter. `SerialInv` says of a request on its way that the verdict it reached is
still a verdict of the ledger (`PlanStillJudged`; or the player it names is gone, and
the foreign key will refuse it), that the row it wrote is the row the ledger would
write (`RowStillJudged`), and that whoever is in the audit log has committed
(`AuditOfServed`). The roster and the ruleset of a match change without
its lock: the verdict stays one because the ledger allows any ruleset of the
tournament before the freeze, and because forgetting a player changes no other
check than the duplicate warning. That one exception was found by this proof: an
entry *without* a player is compared with events whose player may be deleted
between its check and its commit, and is then equal to one of them, unwarned. The
ledger promises it to nobody (`Judged`).

`DoubleTapsWarned` and `ConflictsAreReal` follow from the same module's `TapInv`: the
key of a creation past its checks is on no stored event (`KeyFree`); a stored event
is what its request asked for, but for a player deleted since (`EventKnown`); and of
two, whoever was judged second was warned of the first or need not be, before its
commit (`CreationsWarned`) and after (`StoredWarned`).

What is proved of every ledger behaviour holds of the handlers' committed rows, by
`HandlersSerializable`. tlapm does not let a theorem of an INSTANCEd module be cited,
so that step is the reader's modus ponens.

### The account (`AccountProofs`)

* `AccountsTyped`. The tables alone are not inductive: a request writes what it
  read at an earlier stage, so `TypeInv` adds what each stage relies on (`Stage`):
  the rows a transaction locked are still there, the clubs of an uncommitted
  acceptance still exist, an update found an account. `OthersRely` shows once that a
  step leaves the others what they rely on; each action then owes the types of its
  own tables and stage.
* `SessionsAreOwn` and `RotationsAreWhole` from `SessionInv`: each stage belongs to
  the kind of request that reaches it (`Fits`); a client that was answered has a row
  of its own (`Working`); a row was inserted by a request that is over, and revoked by
  one that is over and was a reset or named it, a refresh having inserted its own
  (`Stored`); two rotations under way insert different tokens (`RotationsApart`).
* `LinksResetOnce` from `LinkInv`: the request which sets a password is the one its
  link was used by, carried across `create_token`, whose commit overwrites links it
  found earlier (`LinksLocked`), and past accepted invites, which set passwords
  too but are no resets.
* `AccountsAreOneInvites` and `AdminsAreAppointed` from `AccountInv`: what a request
  carries from stage to stage is a role a super administrator invited to, or a
  manager's (`Asking`); so is every role in the tables (`RolesAppointed`); and
  acceptances write one at a time and replace all the clubs there are
  (`AcceptanceAlone`).
* `AcceptedInvitesSpent` from `InviteInv`, which adds to `AccountInv` what is known of
  an invite that has been accepted: it is inserted once, by the request it is named
  for; rewriting and removing find it pending when they write; and an acceptance that
  found no users row cannot insert one once another acceptance has, so that only one
  which found a row without a password writes `accepted_at` again.

### The league (`LeagueProofs`)

* Line-ups, `ElevenIsOneRequests`. What is stored says nothing of the request about
  to commit; `LineupInv` adds that whoever writes holds the header's row, that a
  request past the checks is well formed, and that the players its DELETE saw are
  all there are (`RequestSound`). The unique keys make the picks as many as their
  players (`PicksCounted`).
* Tournaments, `CurrentOnlyByCreation`, from who holds which rows, and that a marking
  past its snapshot has locked, or has still to visit, every row that is not late
  (`MarkingSeesOthers`).
* Standings, `LinesAreOwn` (the join of a club finds its own sides) and `TableAddsUp`:
  a column of the table is summed over positions, hence over enrolled clubs
  (`TableListsLines`: the rank in a strict order numbers the lines, `RanksNumber`),
  hence over the sides joined to them, hence over matches (`TableIsMatches`, by
  `SumByParts` twice), and two sides of one match balance. `StandingsInv` adds to the
  types that the tables are finite.
* News, `PublishedAreDated` and `DuplicatesAreRaces` from `NewsInv`: what a request has
  read is still so of the articles that are left, and the article a request has yet
  to insert is nowhere (`Informed`).
* External ids, `MappingsExplained` from `MappingInv`: an id names one entity
  (`NamesOne`), and who has written is alone on its row and with its id (`Granted`).
  So what the map holds of an entity is said by the entry that was committed last,
  after which no transaction in the log began, and what a removal took is said by the
  entry before it.

### The platform (`PlatformProofs`)

* Live feed, `RoomsAreWhole` and `BroadcastsReach` from `RoomInv`: a room holds each
  socket once, from joining to leaving (`RoomWhole`); a broadcast gives up only those
  that are gone for good, and the others it has been to have its message
  (`Reaching`). The drop of the dead at its end is a fold over a sequence, whose
  function `AllNaturals` shows to exist.
* Rate limiter, `LimiterSlides`, the refinement `LimiterSpec => LimitsByWindow`: the
  deques are in order (`LimiterInv`), so what is evicted is a prefix (`Cut`), the same
  that the window cuts off (`EvictCuts`, `WindowCuts`), and evicting at two instants
  is evicting at the later one (`EvictedTwice`).
* Mailer, `SkewCovers`. `CacheExpiresEarly` says by how much the cached token outlives
  its expiry, less what its answer was late, and `TokenLasts` the same of the token a
  send has taken, since it took it.
* Migrator, `BootsAgreeAlways` and the refinement `HistoryImplemented`. `LoopKnows`:
  what an instance read under the lock is still so but for its own records, and the
  records have no gap (`HistoryWhole`). Then `Record` is `Apply` of the version that
  commits, and every other step a stutter.

### Induction (`Induction`)

The library's induction theorems take the induction hypothesis as an operator, which
the provers cannot instantiate. What can be cited is that the finite sets of a set
are well founded by inclusion; from it follow, for sets in place of predicates, the
least-number principle (`LeastNatural`), induction over the natural numbers
(`AllNaturals`) and over a finite set (`AllFinite`), and from these that the sums of
the community modules exist and obey the usual laws (`SumInserts`, `SumOfSums`,
`SumOfOnes`, `SumByParts`).

### Assumptions

The set of requests is finite (the tally is a cardinality); `None` is none of the
records, ids, seconds or answers it stands beside (`NullIsNoRow`, `NullIsNoValue`,
`NoneIsNoRow`, `NoneIsNoAsk` and so on); the two clubs of a match differ; payloads,
rulesets, offers and updates are of the declared types, as the request schemas
make them; formations have `TeamSize` slots; releases know files up to `Latest`;
limits and the window are positive; and the skew is shorter than a token's life
(`MailTimes`).

### Only model-checked

Liveness, which the prover cannot reach: `RequestsEnd`, `BootsEnd` and
`ChangesReachViewers`. The five runs that expect a violation have nothing to prove.

The type definitions of the ledger, the room, the table, the news and the external
ids are not among the runs' properties: each would repeat what the properties
already evaluate. They are part of the inductive invariants.

## 5. What is left out

Of the modelled handlers: the call of the rate limiter and the comparison of the header with
the body's key (before the transaction), the limit of 1000 events a check reads,
dates, venues and messages; `minute` stands for the pair with the extra minute.
Roles and managed clubs are read once, at the start of a request, as the code
does. Fixtures are created outside the model (`NewFixture` is their first row).
Heartbeats carry nothing of the match. Of an account: names, mails, the check that
one does not deactivate oneself, and passwords beyond who set them. Room and rate limiter live in one
process, as the code's own note demands.

Of the league: the columns nothing here depends on; that a club may be renamed,
which only changes the order of equal lines; articles' texts. Of the migrator: the
statements of the files, of which the model says that the baseline holds all its
release's files add and that a file may be run on what it adds (as its docstring
says); checksums, which only warn. Of the mails: the texts. Of the limiter: how a
key is made of the request's headers.

Not modelled: media (uploads to an object store), the application shell (wiring,
settings, error bodies, logging, paging) and the scripts, which have no state of
their own; of players and clubs, the single statements that nothing else reads.

## 6. Plan

1. Done: rules, clock, ledger, handlers; live feed; line-ups; sessions and invites;
   tournaments, standings, news, external ids; migrator, limiter, mails; a theorem
   for every safety and action property of the runs.
2. Open: a viewer's first picture as the three statements it is read by; what a
   match postponed while its half ticks should show.
3. Proofs worth having next: what `requests_late_retry` leaves true, that a key is
   recorded twice only if its first event was deleted in between; and idempotency
   keys in the ledger, so that it promises what `TapInv` shows of retries.
