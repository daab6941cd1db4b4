------------------------- MODULE FixtureRequestsProofs ------------------------
(* Proofs about FixtureRequests, for any set of requests, clubs, players,    *)
(* payloads and rulesets: the types, and that the committed score is always  *)
(* the tally of the committed events.                                        *)
EXTENDS FixtureRequests, FixtureOpsProofs

-------------------------------------------------------------------------------
(* The inductive invariant *)

\* Why the score holds, in every reachable state: the stages from "locked" to
\* "applied" are those of the lock's holder, whose fixture is not deleted under
\* it; what it planned fits what was asked; and the row it is about to commit
\* has the score of the events its commit will leave.
Holding(r) == pc[r] \in {"locked", "checked", "applied"}

LockHeld == /\ \A r \in Requests : Holding(r) <=> lock = r
            /\ lock # None => fixture # None

PlanFitsRequest ==
  \A r \in Requests :
    /\ InTransaction(r) => req[r] # None
    /\ Holding(r) => req[r].op # "delete_fixture"
    /\ pc[r] \in {"checked", "applied"} =>
         /\ plan[r] \in Plan
         /\ req[r].op # "update_fixture" => plan[r].rules \in MatchRuleset
         /\ req[r].op = "create_event" => req[r].club \in Clubs
         /\ req[r].op = "clock" =>
              /\ req[r].action = "nudge" => req[r].minute # None
              /\ req[r].action = "set_stoppage" => req[r].stoppage # None

RowReadyToCommit ==
  \A r \in Requests :
    pc[r] = "applied" =>
      row[r] \in FixtureRow /\ ScoreMatches(row[r], EventsWith(r, events))

ScoreInvariant ==
  LockHeld /\ PlanFitsRequest /\ RowReadyToCommit /\ ScoreMatchesEvents

Inv == TypeOK /\ ScoreInvariant

\* A request whose stage, payload, plan and row stand still still fits, and its
\* row is still ready, if the events table keeps its tally.
Untouched(s) ==
  /\ pc'[s] = pc[s] /\ req'[s] = req[s] /\ began'[s] = began[s]
  /\ plan'[s] = plan[s] /\ row'[s] = row[s]

LEMMA HolderPayload ==
  ASSUME Inv, NEW r \in Requests, InTransaction(r)
  PROVE  req[r] \in Payloads
BY DEF Inv, TypeOK, ScoreInvariant, PlanFitsRequest

LEMMA EventsWithType ==
  ASSUME Inv, NEW r \in Requests, pc[r] \in {"checked", "applied"}
  PROVE  EventsWith(r, events) \in EventTable
<1>1. req[r] \in Payloads /\ events \in EventTable /\ began[r] \in Nat
  BY HolderPayload, InstantsTyped DEF InTransaction, Inv, TypeOK, EventTable
<1>2. CASE req[r].op = "create_event"
  <2>1. req[r] \in CreatePayload /\ req[r].club \in Clubs
    BY <1>1, <1>2, PayloadByOp DEF Inv, ScoreInvariant, PlanFitsRequest
  <2>2. EventsWith(r, events)
          = EventsAfterCreate(events, r, req[r], plan[r].auto_red, began[r])
    BY <1>2 DEF EventsWith
  <2> QED BY <1>1, <2>1, <2>2, EventsAfterCreateType
<1>3. CASE req[r].op = "delete_event"
  <2>1. EventsWith(r, events) = EventsAfterDelete(events, req[r].target)
    BY <1>3 DEF EventsWith
  <2> QED BY <1>1, <2>1, EventsAfterDeleteType
<1>4. CASE req[r].op \notin {"create_event", "delete_event"}
  BY <1>1, <1>4 DEF EventsWith
<1> QED BY <1>2, <1>3, <1>4

LEMMA EventsWithTally ==
  ASSUME NEW evs \in EventTable, NEW other \in EventTable, SameTally(evs, other),
         NEW r
  PROVE  SameTally(EventsWith(r, evs), EventsWith(r, other))
<1>1. CASE req[r].op = "create_event"
  BY <1>1, TallyAfterCreate DEF EventsWith
<1>2. CASE req[r].op = "delete_event"
  BY <1>2, TallyAfterDelete DEF EventsWith
<1>3. CASE req[r].op \notin {"create_event", "delete_event"}
  BY <1>3 DEF EventsWith
<1> QED BY <1>1, <1>2, <1>3

\* While the events stand still, a request that is not touched keeps its part
\* of the invariant.
LEMMA OthersKeep ==
  ASSUME Inv, NEW s \in Requests, Untouched(s), events' = events
  PROVE  /\ InTransaction(s)' => req'[s] # None
         /\ Holding(s)' => req'[s].op # "delete_fixture"
         /\ pc'[s] \in {"checked", "applied"} =>
              /\ plan'[s] \in Plan
              /\ req'[s].op # "update_fixture" => plan'[s].rules \in MatchRuleset
              /\ req'[s].op = "create_event" => req'[s].club \in Clubs
              /\ req'[s].op = "clock" =>
                   /\ req'[s].action = "nudge" => req'[s].minute # None
                   /\ req'[s].action = "set_stoppage" => req'[s].stoppage # None
         /\ pc'[s] = "applied" =>
              /\ row'[s] \in FixtureRow
              /\ ScoreMatches(row'[s], EventsWith(s, events)')
<1>1. EventsWith(s, events)' = EventsWith(s, events)
  BY DEF EventsWith, Untouched
<1> QED
  BY <1>1 DEF Inv, ScoreInvariant, PlanFitsRequest, RowReadyToCommit,
              InTransaction, Holding, Untouched

LEMMA FinishKeepsInv ==
  ASSUME Inv, NEW r \in Requests, NEW outcome \in Answers, Finish(r, outcome),
         UNCHANGED <<database, environment>>,
         req' \in [Requests -> Payloads \cup {None}],
         began' \in [Requests -> Instants],
         \A s \in Requests \ {r} : req'[s] = req[s] /\ began'[s] = began[s]
  PROVE  Inv'
<1>1. TypeOK'
  BY DEF Inv, TypeOK, Finish, AdvanceTo, Released, Stages, database, environment
<1>2. \A s \in Requests \ {r} : Untouched(s)
  BY DEF Inv, TypeOK, Finish, AdvanceTo, Untouched
<1>3. pc'[r] = "done"
  BY DEF Inv, TypeOK, Finish, AdvanceTo
<1>4. LockHeld'
  <2>1. lock' = IF lock = r THEN None ELSE lock
    BY DEF Finish, Released
  <2>2. \A s \in Requests : Holding(s)' <=> (s # r /\ Holding(s))
    BY <1>2, <1>3 DEF Holding, Untouched
  <2> QED
    BY <2>1, <2>2, RequestsFinite
    DEF LockHeld, Inv, ScoreInvariant, database
<1>5. events' = events /\ fixture' = fixture
  BY DEF database
<1>6. PlanFitsRequest' /\ RowReadyToCommit'
  BY <1>2, <1>3, <1>5, OthersKeep
  DEF PlanFitsRequest, RowReadyToCommit, InTransaction, Holding
<1>7. ScoreMatchesEvents'
  BY <1>5 DEF Inv, ScoreInvariant, ScoreMatchesEvents
<1> QED BY <1>1, <1>4, <1>6, <1>7 DEF Inv, ScoreInvariant

-------------------------------------------------------------------------------
(* Each action keeps the invariant *)

LEMMA BeginKeepsInv ==
  ASSUME Inv, NEW r \in Requests, Begin(r)
  PROVE  Inv'
<1>1. PICK q \in Payloads : req' = [req EXCEPT ![r] = q]
  BY DEF Begin
<1>2. /\ req' \in [Requests -> Payloads \cup {None}]
      /\ began' \in [Requests -> Instants]
      /\ \A s \in Requests \ {r} : req'[s] = req[s] /\ began'[s] = began[s]
      /\ UNCHANGED <<database, environment>>
      /\ pc[r] = "idle" /\ req'[r] = q
  BY <1>1 DEF Begin, Inv, TypeOK
<1>3. ASSUME NEW outcome \in Answers, Finish(r, outcome) PROVE Inv'
  BY <1>2, <1>3, FinishKeepsInv
<1>4. CASE AdvanceTo(r, "waiting") /\ UNCHANGED <<lock, plan, row, answer>>
  <2>1. TypeOK'
    BY <1>2, <1>4 DEF Inv, TypeOK, AdvanceTo, Stages, database, environment
  <2>2. pc'[r] = "waiting" /\ \A s \in Requests \ {r} : Untouched(s)
    BY <1>2, <1>4 DEF Inv, TypeOK, AdvanceTo, Untouched
  <2>3. events' = events /\ fixture' = fixture
    BY <1>2 DEF database
  <2>4. LockHeld'
    BY <1>2, <1>4, <2>2, <2>3
    DEF Inv, ScoreInvariant, LockHeld, Holding, Untouched
  <2>5. PlanFitsRequest' /\ RowReadyToCommit'
    <3>1. req'[r] # None
      BY <1>2, PayloadByOp
    <3> QED
      BY <2>2, <2>3, <3>1, OthersKeep
      DEF PlanFitsRequest, RowReadyToCommit, InTransaction, Holding
  <2>6. ScoreMatchesEvents'
    BY <2>3 DEF Inv, ScoreInvariant, ScoreMatchesEvents
  <2> QED BY <2>1, <2>4, <2>5, <2>6 DEF Inv, ScoreInvariant
<1>5. {"forbidden", "not_found"} \subseteq Answers
  BY DEF Answers
<1> QED BY <1>1, <1>3, <1>4, <1>5 DEF Begin

LEMMA LockKeepsInv ==
  ASSUME Inv, NEW r \in Requests, LockFixture(r)
  PROVE  Inv'
<1>1. CASE fixture = None /\ Finish(r, "not_found")
  BY <1>1, FinishKeepsInv DEF LockFixture, Answers, Inv, TypeOK
<1>2. CASE /\ fixture # None /\ lock' = r /\ AdvanceTo(r, "locked")
           /\ UNCHANGED <<plan, row, answer>>
  <2>1. TypeOK'
    BY <1>2 DEF LockFixture, Inv, TypeOK, AdvanceTo, Stages, database, environment
  <2>2. pc'[r] = "locked" /\ \A s \in Requests \ {r} : Untouched(s)
    BY <1>2 DEF LockFixture, Inv, TypeOK, AdvanceTo, Untouched
  <2>3. events' = events /\ fixture' = fixture /\ req' = req
    BY DEF LockFixture, database
  <2>4. LockHeld'
    <3>1. \A s \in Requests : ~Holding(s)
      BY RequestsFinite DEF LockFixture, LockFree, Inv, ScoreInvariant, LockHeld
    <3> QED BY <1>2, <2>2, <2>3, <3>1, RequestsFinite
            DEF LockHeld, Holding, Untouched
  <2>5. PlanFitsRequest' /\ RowReadyToCommit'
    <3>1. req'[r] # None /\ req'[r].op # "delete_fixture"
      BY <2>3 DEF LockFixture, Inv, ScoreInvariant, PlanFitsRequest, InTransaction
    <3> QED
      BY <2>2, <2>3, <3>1, OthersKeep
      DEF PlanFitsRequest, RowReadyToCommit, InTransaction, Holding
  <2>6. ScoreMatchesEvents'
    BY <2>3 DEF Inv, ScoreInvariant, ScoreMatchesEvents
  <2> QED BY <2>1, <2>4, <2>5, <2>6 DEF Inv, ScoreInvariant
<1> QED BY <1>1, <1>2 DEF LockFixture

LEMMA HolderFixture ==
  ASSUME Inv, NEW r \in Requests, Holding(r)
  PROVE  /\ fixture \in FixtureRow /\ ScoreMatches(fixture, events)
         /\ lock = r /\ req[r] \in Payloads
BY RequestsFinite, HolderPayload
DEF Inv, TypeOK, ScoreInvariant, LockHeld, ScoreMatchesEvents, Holding, InTransaction

\* A verdict leads to a plan that fits the request, or to a rollback.
LEMMA CheckKeepsInv ==
  ASSUME Inv, NEW r \in Requests, NEW op, NEW v, Check(r, op, v),
         v.answer \in Answers,
         v.answer = "ok" =>
           /\ v \in Plan
           /\ op # "update_fixture" => v.rules \in MatchRuleset
           /\ op = "create_event" => req[r].club \in Clubs
           /\ op = "clock" =>
                /\ req[r].action = "nudge" => req[r].minute # None
                /\ req[r].action = "set_stoppage" => req[r].stoppage # None
  PROVE  Inv'
<1>1. CASE v.answer # "ok" /\ Finish(r, v.answer)
  BY <1>1, FinishKeepsInv DEF Check, Inv, TypeOK
<1>2. CASE /\ v.answer = "ok" /\ plan' = [plan EXCEPT ![r] = v]
           /\ AdvanceTo(r, "checked") /\ UNCHANGED <<lock, row, answer>>
  <2>1. TypeOK'
    BY <1>2 DEF Check, Inv, TypeOK, AdvanceTo, Stages, database, environment
  <2>2. /\ pc'[r] = "checked" /\ plan'[r] = v /\ req'[r] = req[r]
        /\ pc[r] = "locked" /\ req[r].op = op
        /\ \A s \in Requests \ {r} : Untouched(s)
    BY <1>2 DEF Check, Inv, TypeOK, AdvanceTo, Untouched
  <2>3. events' = events /\ fixture' = fixture
    BY DEF Check, database
  <2>4. LockHeld'
    BY <1>2, <2>2, <2>3 DEF Inv, ScoreInvariant, LockHeld, Holding, Untouched
  <2>5. req'[r] # None /\ req'[r].op # "delete_fixture"
    BY <2>2 DEF Inv, ScoreInvariant, PlanFitsRequest, InTransaction, Holding
  <2>6. PlanFitsRequest' /\ RowReadyToCommit'
    BY <1>2, <2>2, <2>3, <2>5, OthersKeep
    DEF PlanFitsRequest, RowReadyToCommit, InTransaction, Holding
  <2>7. ScoreMatchesEvents'
    BY <2>3 DEF Inv, ScoreInvariant, ScoreMatchesEvents
  <2> QED BY <2>1, <2>4, <2>6, <2>7 DEF Inv, ScoreInvariant
<1> QED BY <1>1, <1>2 DEF Check, Decide

LEMMA ChecksKeepInv ==
  ASSUME Inv, NEW r \in Requests,
         CheckCreate(r) \/ CheckDelete(r) \/ CheckClock(r) \/ CheckUpdate(r)
  PROVE  Inv'
<1>1. pc[r] = "locked" /\ Holding(r)
  BY DEF CheckCreate, CheckDelete, CheckClock, CheckUpdate, Check, Holding
<1>2. fixture \in FixtureRow /\ tournament \in Configs
  BY <1>1, HolderFixture DEF Inv, TypeOK
<1>3. CASE CheckCreate(r)
  BY <1>2, <1>3, CreateVerdictType, CheckKeepsInv DEF CheckCreate
<1>4. CASE CheckDelete(r)
  BY <1>2, <1>4, DeleteVerdictType, CheckKeepsInv DEF CheckDelete
<1>5. CASE CheckClock(r)
  <2> DEFINE v == ClockVerdict(fixture, tournament, req[r])
  <2>1. /\ v.answer \in Answers
        /\ v.answer = "ok" => /\ v \in Plan /\ v.rules \in MatchRuleset
                              /\ ~ClockActionInvalid(fixture, req[r])
    BY <1>2, ClockVerdictType
  <2>2. Check(r, "clock", v)
    BY <1>5 DEF CheckClock
  <2> HIDE DEF v
  <2> QED BY <2>1, <2>2, CheckKeepsInv DEF ClockActionInvalid
<1>6. CASE CheckUpdate(r)
  BY <1>6, UpdateVerdictType, CheckKeepsInv DEF CheckUpdate
<1> QED BY <1>3, <1>4, <1>5, <1>6

\* The row written has the score of the events as the commit will leave them.
LEMMA WriteKeepsInv ==
  ASSUME Inv, NEW r \in Requests, NEW op, NEW newRow \in FixtureRow,
         Write(r, op, newRow), ScoreMatches(newRow, EventsWith(r, events))
  PROVE  Inv'
<1>1. TypeOK'
  BY DEF Write, Inv, TypeOK, AdvanceTo, Stages, database, environment
<1>2. /\ pc[r] = "checked" /\ pc'[r] = "applied" /\ row'[r] = newRow
      /\ req' = req /\ plan' = plan /\ lock' = lock /\ began' = began
      /\ events' = events /\ fixture' = fixture
      /\ \A s \in Requests \ {r} : Untouched(s)
  BY DEF Write, Inv, TypeOK, AdvanceTo, Untouched, database
<1>3. LockHeld'
  BY <1>2 DEF Inv, ScoreInvariant, LockHeld, Holding, Untouched
<1>4. PlanFitsRequest'
  BY <1>2 DEF Inv, ScoreInvariant, PlanFitsRequest, InTransaction, Holding, Untouched
<1>5. RowReadyToCommit'
  <2>1. EventsWith(r, events)' = EventsWith(r, events)
    BY <1>2 DEF EventsWith
  <2> QED BY <1>2, <2>1, OthersKeep DEF RowReadyToCommit
<1>6. ScoreMatchesEvents'
  BY <1>2 DEF Inv, ScoreInvariant, ScoreMatchesEvents
<1> QED BY <1>1, <1>3, <1>4, <1>5, <1>6 DEF Inv, ScoreInvariant

LEMMA ApplyKeepsInv ==
  ASSUME Inv, NEW r \in Requests,
         ApplyCreate(r) \/ ApplyDelete(r) \/ ApplyClock(r) \/ ApplyUpdate(r)
  PROVE  Inv'
<1>1. pc[r] = "checked" /\ Holding(r) /\ InTransaction(r)
  BY DEF ApplyCreate, ApplyDelete, ApplyClock, ApplyUpdate, Write, Holding,
         InTransaction
<1>2. /\ fixture \in FixtureRow /\ ScoreMatches(fixture, events)
      /\ req[r] \in Payloads
  BY <1>1, HolderFixture
<1>3. /\ req[r].op # "update_fixture" => plan[r].rules \in MatchRuleset
      /\ req[r].op = "clock" => (req[r].action = "nudge" => req[r].minute # None)
  BY <1>1 DEF Inv, ScoreInvariant, PlanFitsRequest
<1>4. CASE ApplyCreate(r)
  <2>1. CASE Finish(r, InsertRefused(r)) /\ InsertRefused(r) # "ok"
             /\ UNCHANGED <<database, environment, req, began>>
    BY <2>1, FinishKeepsInv DEF InsertRefused, Answers, Inv, TypeOK
  <2>2. CASE Write(r, "create_event",
                   RowAfterCreate(fixture, plan[r].rules, EventsWith(r, events)))
    BY <1>2, <1>3, <2>2, RowAfterCreateType, WriteKeepsInv DEF Write
  <2> QED BY <1>4, <2>1, <2>2 DEF ApplyCreate
<1>5. CASE ApplyDelete(r)
  BY <1>2, <1>5, RecalculateType, WriteKeepsInv DEF ApplyDelete
<1>6. CASE ApplyClock(r)
  <2>1. req[r] \in ClockPayload /\ now \in Nat /\ req[r].op = "clock"
    BY <1>2, <1>6, PayloadByOp, InstantsTyped
    DEF ApplyClock, Write, Inv, TypeOK
  <2>2. EventsWith(r, events) = events
    BY <2>1 DEF EventsWith
  <2> QED
    BY <1>2, <1>3, <1>6, <2>1, <2>2, RowAfterClockType, WriteKeepsInv DEF ApplyClock
<1>7. CASE ApplyUpdate(r)
  <2>1. req[r] \in UpdatePayload /\ req[r].op = "update_fixture"
    BY <1>2, <1>7, PayloadByOp DEF ApplyUpdate, Write
  <2>2. EventsWith(r, events) = events
    BY <2>1 DEF EventsWith
  <2> QED
    BY <1>2, <1>7, <2>1, <2>2, RowAfterUpdateType, WriteKeepsInv DEF ApplyUpdate
<1> QED BY <1>4, <1>5, <1>6, <1>7

\* With the lock held by none, no other row is waiting to be committed.
LEMMA CommitKeepsInv ==
  ASSUME Inv, NEW r \in Requests, Commit(r)
  PROVE  Inv'
<1>1. /\ pc[r] = "applied" /\ Holding(r) /\ InTransaction(r)
      /\ lock = r /\ lock' = None
  BY HolderFixture DEF Commit, Holding, InTransaction, Released
<1>2. /\ pc'[r] = "committed" /\ req' = req /\ plan' = plan /\ row' = row
      /\ began' = began
      /\ fixture' = row[r] /\ events' = EventsWith(r, events)
      /\ \A s \in Requests \ {r} : pc'[s] = pc[s]
  BY DEF Commit, Inv, TypeOK, AdvanceTo
<1>3. \A s \in Requests : ~Holding(s)'
  BY <1>1, <1>2 DEF Holding, Inv, ScoreInvariant, LockHeld
<1>4. TypeOK'
  <2>1. fixture' \in FixtureRow
    BY <1>1, <1>2 DEF Inv, ScoreInvariant, RowReadyToCommit
  <2>2. events' \in EventTable
    BY <1>1, <1>2, EventsWithType
  <2>3. audit' \subseteq AuditEntry
    <3>1. req[r] \in Payloads /\ req[r].op # "delete_fixture"
      BY <1>1, HolderPayload DEF Inv, ScoreInvariant, PlanFitsRequest
    <3>2. <<r, "main">> \in EventIds
      BY DEF EventIds
    <3>3. req[r].op = "delete_event" => req[r].target \in EventIds
      BY <3>1, PayloadByOp DEF DeletePayload
    <3>4. AuditFor(r) \subseteq AuditEntry
      BY <3>1, <3>2, <3>3, PayloadByOp DEF AuditFor, AuditOf, AuditEntry
    <3> QED BY <3>4 DEF Commit, Inv, TypeOK
  <2> QED
    BY <1>1, <2>1, <2>2, <2>3
    DEF Commit, Inv, TypeOK, AdvanceTo, Stages, environment, EventTable
<1>5. LockHeld'
  BY <1>1, <1>3, RequestsFinite DEF LockHeld
<1>6. PlanFitsRequest' /\ RowReadyToCommit'
  <2>1. \A s \in Requests : InTransaction(s)' => InTransaction(s)
    BY <1>2 DEF InTransaction
  <2> QED
    BY <1>2, <1>3, <2>1
    DEF PlanFitsRequest, RowReadyToCommit, Holding, Inv, ScoreInvariant
<1>7. ScoreMatchesEvents'
  BY <1>1, <1>2 DEF Inv, ScoreInvariant, RowReadyToCommit, ScoreMatchesEvents
<1> QED BY <1>4, <1>5, <1>6, <1>7 DEF Inv, ScoreInvariant

LEMMA DeleteFixtureKeepsInv ==
  ASSUME Inv, NEW r \in Requests, DeleteFixture(r)
  PROVE  Inv'
<1>1. CASE fixture = None /\ Finish(r, "not_found") /\ UNCHANGED database
  BY <1>1, FinishKeepsInv DEF DeleteFixture, Answers, Inv, TypeOK
<1>2. CASE /\ fixture' = None /\ events' = NoEvents /\ AdvanceTo(r, "committed")
           /\ UNCHANGED <<audit, lock, plan, row, answer>>
  <2>1. /\ pc'[r] = "committed" /\ req' = req
        /\ \A s \in Requests \ {r} : pc'[s] = pc[s]
    BY <1>2 DEF DeleteFixture, Inv, TypeOK, AdvanceTo
  <2>2. \A s \in Requests : ~Holding(s)
    BY RequestsFinite DEF DeleteFixture, LockFree, Inv, ScoreInvariant, LockHeld
  <2>3. lock' = None /\ \A s \in Requests : ~Holding(s)'
    BY <1>2, <2>1, <2>2 DEF DeleteFixture, LockFree, Holding
  <2>4. TypeOK'
    BY <1>2 DEF DeleteFixture, Inv, TypeOK, AdvanceTo, Stages, environment, NoEvents
  <2>5. LockHeld'
    BY <2>3, RequestsFinite DEF LockHeld
  <2>6. PlanFitsRequest' /\ RowReadyToCommit'
    <3>1. \A s \in Requests : InTransaction(s)' => InTransaction(s)
      BY <2>1 DEF InTransaction
    <3> QED
      BY <2>1, <2>3, <3>1
      DEF PlanFitsRequest, RowReadyToCommit, Holding, Inv, ScoreInvariant
  <2>7. ScoreMatchesEvents'
    BY <1>2 DEF ScoreMatchesEvents
  <2> QED BY <2>4, <2>5, <2>6, <2>7 DEF Inv, ScoreInvariant
<1> QED BY <1>1, <1>2 DEF DeleteFixture

\* A deleted player's events lose their player and nothing the score counts.
LEMMA DeletePlayerKeepsInv ==
  ASSUME Inv, NEW p \in Players, DeletePlayer(p)
  PROVE  Inv'
<1>1. \A i \in EventIds :
        /\ events[i] \in EventRow \cup {None}
        /\ events'[i] = IF events[i] # None /\ events[i].player = p
                        THEN [events[i] EXCEPT !.player = None] ELSE events[i]
  BY DEF DeletePlayer, Inv, TypeOK
<1>2. ASSUME NEW e \in EventRow
      PROVE  /\ [e EXCEPT !.player = None] \in EventRow
             /\ [e EXCEPT !.player = None].club = e.club
             /\ [e EXCEPT !.player = None].event_type = e.event_type
             /\ [e EXCEPT !.player = None].source = e.source
  BY DEF EventRow
<1>3. events' \in EventTable /\ SameTally(events', events)
  <2>1. events' = [i \in EventIds |-> events'[i]]
    BY DEF DeletePlayer
  <2>2. \A i \in EventIds : events'[i] \in EventRow \cup {None}
    BY <1>1, <1>2
  <2>3. events' \in EventTable
    BY <2>1, <2>2 DEF EventTable
  <2>4. SameTally(events', events)
    <3> SUFFICES ASSUME NEW i \in EventIds
                 PROVE  /\ events'[i] = None <=> events[i] = None
                        /\ events'[i] # None =>
                             /\ events'[i].club = events[i].club
                             /\ events'[i].event_type = events[i].event_type
                             /\ events'[i].source = events[i].source
      BY DEF SameTally
    <3>1. CASE events[i] # None /\ events[i].player = p
      <4>1. events[i] \in EventRow
        BY <1>1, <3>1
      <4> QED BY <1>1, <1>2, <3>1, <4>1, NullIsNoRow
    <3>2. CASE ~(events[i] # None /\ events[i].player = p)
      BY <1>1, <3>2
    <3> QED BY <3>1, <3>2
  <2> QED BY <2>3, <2>4
<1>4. /\ pc' = pc /\ req' = req /\ plan' = plan /\ row' = row /\ began' = began
      /\ lock' = lock /\ fixture' = fixture
  BY DEF DeletePlayer
<1>5. TypeOK'
  BY <1>3, <1>4 DEF DeletePlayer, Inv, TypeOK, EventTable
<1>6. LockHeld' /\ PlanFitsRequest'
  BY <1>4 DEF Inv, ScoreInvariant, LockHeld, PlanFitsRequest, Holding, InTransaction
<1>7. events \in EventTable
  BY DEF Inv, TypeOK, EventTable
<1>8. RowReadyToCommit'
  <2> SUFFICES ASSUME NEW s \in Requests, pc[s] = "applied"
               PROVE  /\ row[s] \in FixtureRow
                      /\ ScoreMatches(row[s], EventsWith(s, events)')
    BY <1>4 DEF RowReadyToCommit
  <2>1. row[s] \in FixtureRow /\ ScoreMatches(row[s], EventsWith(s, events))
    BY DEF Inv, ScoreInvariant, RowReadyToCommit
  <2>2. EventsWith(s, events)' = EventsWith(s, events')
    BY <1>4 DEF EventsWith
  <2>3. SameTally(EventsWith(s, events'), EventsWith(s, events))
    BY <1>3, <1>7, EventsWithTally
  <2> QED BY <2>1, <2>2, <2>3, TallyDecidesScore DEF ScoreMatches
<1>9. ScoreMatchesEvents'
  BY <1>3, <1>4, TallyDecidesScore
  DEF Inv, ScoreInvariant, ScoreMatchesEvents, ScoreMatches
<1> QED BY <1>5, <1>6, <1>8, <1>9 DEF Inv, ScoreInvariant

LEMMA BesideKeepsInv ==
  ASSUME Inv,
         \/ UpdateTournament
         \/ \E p \in Players : TransferPlayer(p)
         \/ Tick
         \/ UNCHANGED vars
  PROVE  Inv'
<1>1. UNCHANGED <<database, lock, pc, req, began, plan, row, answer>>
  BY DEF UpdateTournament, TransferPlayer, Tick, vars, database
<1>2. TypeOK'
  BY <1>1 DEF UpdateTournament, TransferPlayer, Tick, vars, Inv, TypeOK, database
<1>3. ScoreInvariant'
  BY <1>1 DEF Inv, ScoreInvariant, LockHeld, PlanFitsRequest, RowReadyToCommit,
              ScoreMatchesEvents, Holding, InTransaction, EventsWith, database
<1> QED BY <1>2, <1>3 DEF Inv

-------------------------------------------------------------------------------
(* The theorems *)

LEMMA InitInv == Init => Inv
<1> SUFFICES ASSUME Init PROVE Inv
  OBVIOUS
<1>1. NewFixture \in FixtureRow
  BY DEF NewFixture, FixtureRow, Statuses
<1>2. TypeOK
  BY <1>1, InstantsTyped, ClubsDiffer
  DEF Init, TypeOK, NoEvents, Stages, Clubs
<1>3. ScoreMatchesEvents
  <2>1. {i \in EventIds : NoEvents[i] # None} = {}
    BY DEF NoEvents
  <2>2. \A club : Goals(NoEvents, club) = 0 /\ OwnGoals(NoEvents, club) = 0
    <3> SUFFICES ASSUME NEW club
                 PROVE  Goals(NoEvents, club) = 0 /\ OwnGoals(NoEvents, club) = 0
      OBVIOUS
    <3>1. {i \in EventIds : NoEvents[i] # None /\ NoEvents[i].club = club
             /\ NoEvents[i].event_type \in {"goal", "penalty_scored"}} = {}
      BY <2>1
    <3>2. {i \in EventIds : NoEvents[i] # None /\ NoEvents[i].club = club
             /\ NoEvents[i].event_type = "own_goal"} = {}
      BY <2>1
    <3> QED BY <3>1, <3>2, FS_EmptySet DEF Goals, OwnGoals
  <2> QED
    BY <2>2 DEF Init, ScoreMatchesEvents, ScoreMatches, HomeScore, AwayScore,
                NewFixture
<1>4. LockHeld /\ PlanFitsRequest /\ RowReadyToCommit
  BY RequestsFinite
  DEF Init, LockHeld, PlanFitsRequest, RowReadyToCommit, Holding, InTransaction
<1> QED BY <1>2, <1>3, <1>4 DEF Inv, ScoreInvariant

LEMMA StepKeepsInv ==
  ASSUME Inv, NEW r \in Requests, Begin(r) \/ Step(r) \/ Lose(r)
  PROVE  Inv'
<1>1. CASE Respond(r)
  BY <1>1, FinishKeepsInv DEF Respond, Answers, Inv, TypeOK
<1>2. CASE Lose(r)
  BY <1>2, FinishKeepsInv DEF Lose, Answers, Inv, TypeOK
<1> QED
  BY <1>1, <1>2, BeginKeepsInv, LockKeepsInv, ChecksKeepInv, ApplyKeepsInv,
     CommitKeepsInv, DeleteFixtureKeepsInv
  DEF Step

LEMMA NextKeepsInv == Inv /\ [Next]_vars => Inv'
<1> SUFFICES ASSUME Inv, [Next]_vars PROVE Inv'
  OBVIOUS
<1>1. CASE \E r \in Requests : Begin(r) \/ Step(r) \/ Lose(r)
  BY <1>1, StepKeepsInv
<1>2. CASE \E p \in Players : DeletePlayer(p)
  BY <1>2, DeletePlayerKeepsInv
<1>3. CASE \/ UpdateTournament
           \/ \E p \in Players : TransferPlayer(p)
           \/ Tick
           \/ UNCHANGED vars
  BY <1>3, BesideKeepsInv
<1> QED BY <1>1, <1>2, <1>3 DEF Next

\* The invariant of the row-lock protocol holds in every reachable state.
THEOREM ScoreInvariantHolds == Spec => [](TypeOK /\ ScoreInvariant)
<1>1. Spec => []Inv
  BY InitInv, NextKeepsInv, PTL DEF Spec
<1> QED BY <1>1, PTL DEF Inv

\* Every committed row, uncommitted row and plan has its type.
THEOREM TypeCorrect == Spec => []TypeOK
BY ScoreInvariantHolds, PTL

\* For any number of concurrent requests, whatever is lost, deleted or
\* transferred in between: the committed score is the tally of the committed
\* events.
THEOREM ScoreIsTally == Spec => []ScoreMatchesEvents
<1>1. ScoreInvariant => ScoreMatchesEvents
  BY DEF ScoreInvariant
<1> QED BY <1>1, ScoreInvariantHolds, PTL
===============================================================================
