---------------------------- MODULE LineupRequests ----------------------------
(* The line-up of one club for one fixture, edited and deleted by concurrent *)
(* requests while the match kicks off and players come and go                *)
(* (routers/lineups.py, queries/lineups.py).  Unlike the handlers of         *)
(* FixtureRequests these take no lock on the fixture: what they check is     *)
(* read statement by statement before the writing transaction opens.         *)
EXTENDS Integers, Sequences, FiniteSets, Functions

CONSTANTS
  Requests, Players, Formations, Slots, None,
  SlotsOf,      \* the slots of each formation
  TeamSize,     \* 11 in the code
  Payloads      \* what requests may ask for

Pick == [player : Players, slot : Slots]
UpsertPayload == [op : {"upsert"}, access : BOOLEAN, formation : Formations \cup {"unknown"},
                  picks : Seq(Pick)]
DropPayload == [op : {"delete"}, access : BOOLEAN]

ASSUME FormationsTyped ==
  /\ SlotsOf \in [Formations -> SUBSET Slots]
  /\ \A f \in Formations : Cardinality(SlotsOf[f]) = TeamSize
ASSUME LineupPayloadsTyped == Payloads \subseteq UpsertPayload \cup DropPayload
ASSUME NoneIsApart == None \notin Requests \cup Payloads

VARIABLES
  status,       \* fixtures.status
  roster,       \* each player: active in the club, elsewhere or inactive, deleted
  lineup,       \* the committed line-up, None if there is none
  lock,         \* the transaction that wrote the fixture_lineups row
  pc, req, answer,
  wiped         \* the stored players its DELETE statement saw

lineupVars == <<status, roster, lineup, lock, pc, req, answer, wiped>>

EDITABLE_STATUSES == {"scheduled"}
Stages == {"idle", "reading", "checking", "saving", "header", "written",
           "saved", "done"}

LineupTypeOK ==
  /\ status \in {"scheduled", "live"}
  /\ roster \in [Players -> {"active", "away", "deleted"}]
  /\ lineup # None => lineup \in [formation : Formations, players : SUBSET Pick]
  /\ lock \in Requests \cup {None}
  /\ pc \in [Requests -> Stages]
  /\ req \in [Requests -> Payloads \cup {None}]
  /\ answer \in [Requests -> {None, "ok", "forbidden", "bad_request",
                              "not_found", "refused", "assertion", "lost"}]
  /\ wiped \in [Requests -> SUBSET Pick]

LineupInit ==
  /\ status = "scheduled"
  /\ roster \in [Players -> {"active", "away"}]
  /\ lineup = None
  /\ lock = None
  /\ pc = [r \in Requests |-> "idle"]
  /\ req = [r \in Requests |-> None]
  /\ answer = [r \in Requests |-> None]
  /\ wiped = [r \in Requests |-> {}]

-------------------------------------------------------------------------------
AdvanceTo(r, stage) == pc' = [pc EXCEPT ![r] = stage]

Finish(r, outcome) ==
  /\ AdvanceTo(r, "done")
  /\ answer' = [answer EXCEPT ![r] = outcome]
  /\ lock' = IF lock = r THEN None ELSE lock

Begin(r) ==
  /\ pc[r] = "idle"
  /\ \E q \in Payloads : req' = [req EXCEPT ![r] = q]
  /\ AdvanceTo(r, "reading")
  /\ UNCHANGED <<status, roster, lineup, lock, answer, wiped>>

Column(q, field) == {q.picks[i][field] : i \in DOMAIN q.picks}

\* The checks of the payload against itself, in the order of the handler.
WellFormed(q) ==
  /\ q.formation \in Formations
  /\ Column(q, "slot") = SlotsOf[q.formation]
  /\ Cardinality(Column(q, "player")) = TeamSize

\* get_fixture_by_id, assert_club_access, the status and the payload.
ReadFixture(r) ==
  LET q == req[r]
  IN  /\ pc[r] = "reading"
      /\ \/ (~q.access \/ status \notin EDITABLE_STATUSES) /\ Finish(r, "forbidden")
         \/ /\ q.access /\ status \in EDITABLE_STATUSES
            /\ \/ /\ q.op = "delete"
                  /\ AdvanceTo(r, "saving")
                  /\ UNCHANGED <<lock, answer>>
               \/ /\ q.op = "upsert" /\ WellFormed(q)
                  /\ AdvanceTo(r, "checking")
                  /\ UNCHANGED <<lock, answer>>
               \/ /\ q.op = "upsert" /\ ~WellFormed(q)
                  /\ Finish(r, "bad_request")
      /\ UNCHANGED <<status, roster, lineup, req, wiped>>

CheckSquad(r) ==
  LET squad == Column(req[r], "player")
  IN  /\ pc[r] = "checking"
      /\ \/ /\ \A p \in squad : roster[p] = "active"
            /\ AdvanceTo(r, "saving")
            /\ UNCHANGED <<lock, answer>>
         \/ /\ \E p \in squad : roster[p] # "active"
            /\ Finish(r, "bad_request")
      /\ UNCHANGED <<status, roster, lineup, req, wiped>>

-------------------------------------------------------------------------------
(* upsert_lineup *)

\* Mutant of HeaderFree: the upsert does not touch the row of the other's.
HeaderIgnored == TRUE

\* INSERT ... ON CONFLICT DO UPDATE waits for whoever wrote the row last.
HeaderFree == lock = None
WriteHeader(r) ==
  /\ pc[r] = "saving" /\ req[r].op = "upsert"
  /\ HeaderFree
  /\ lock' = r
  /\ AdvanceTo(r, "header")
  /\ UNCHANGED <<status, roster, lineup, req, answer, wiped>>

\* The unique constraints on (lineup, slot) and (lineup, player), and the key
\* of a player deleted since the check.
InsertsAccepted(q) ==
  /\ \A i, j \in DOMAIN q.picks :
       i # j => /\ q.picks[i].slot # q.picks[j].slot
                /\ q.picks[i].player # q.picks[j].player
  /\ \A i \in DOMAIN q.picks : roster[q.picks[i].player] # "deleted"

\* DELETE the players that are stored, INSERT the new ones.
Stored == IF lineup = None THEN {} ELSE lineup.players
WritePlayers(r) ==
  /\ pc[r] = "header"
  /\ \/ /\ InsertsAccepted(req[r])
        /\ AdvanceTo(r, "written")
        /\ wiped' = [wiped EXCEPT ![r] = Stored]
        /\ UNCHANGED <<lock, answer>>
     \/ /\ ~InsertsAccepted(req[r])
        /\ Finish(r, "refused")
        /\ UNCHANGED wiped
  /\ UNCHANGED <<status, roster, lineup, req>>

CommitUpsert(r) ==
  /\ pc[r] = "written"
  /\ lineup' = [formation |-> req[r].formation,
                players |-> (Stored \ wiped[r]) \cup Range(req[r].picks)]
  /\ lock' = IF lock = r THEN None ELSE lock
  /\ AdvanceTo(r, "saved")
  /\ UNCHANGED <<status, roster, req, answer, wiped>>

\* get_lineup, after the transaction, and "assert result is not None".
ReadBack(r) ==
  /\ pc[r] = "saved"
  /\ Finish(r, IF lineup = None THEN "assertion" ELSE "ok")
  /\ UNCHANGED <<status, roster, lineup, req, wiped>>

\* delete_lineup: one statement.  It does not see a row another transaction has
\* inserted but not committed, and waits for one it does see.
DeleteLineup(r) ==
  /\ pc[r] = "saving" /\ req[r].op = "delete"
  /\ \/ /\ lineup = None
        /\ Finish(r, "not_found")
        /\ UNCHANGED lineup
     \/ /\ lineup # None /\ HeaderFree
        /\ lineup' = None
        /\ Finish(r, "ok")
  /\ UNCHANGED <<status, roster, req, wiped>>

\* A broken connection, a command timeout, a deadlock resolved by PostgreSQL.
Lose(r) ==
  /\ pc[r] \notin {"idle", "done"}
  /\ Finish(r, "lost")
  /\ UNCHANGED <<status, roster, lineup, req, wiped>>

-------------------------------------------------------------------------------
(* Beside the line-up *)

\* The handlers of FixtureRequests: kick-off, and back to "scheduled".
ChangeStatus ==
  /\ status' \in {"scheduled", "live"}
  /\ UNCHANGED <<roster, lineup, lock, pc, req, answer, wiped>>

ChangeRoster(p) ==
  /\ roster[p] # "deleted"
  /\ \E m \in {"active", "away"} : roster' = [roster EXCEPT ![p] = m]
  /\ UNCHANGED <<status, lineup, lock, pc, req, answer, wiped>>

\* DELETE FROM players cascades to the line-ups; it waits for an insert that
\* names the player.
DeletePlayer(p) ==
  /\ roster[p] # "deleted"
  /\ \A r \in Requests : pc[r] = "written" => p \notin Column(req[r], "player")
  /\ roster' = [roster EXCEPT ![p] = "deleted"]
  /\ lineup' = IF lineup = None THEN None
               ELSE [lineup EXCEPT !.players = {x \in @ : x.player # p}]
  /\ UNCHANGED <<status, lock, pc, req, answer, wiped>>

LineupNext ==
  \/ \E r \in Requests :
       \/ Begin(r) \/ ReadFixture(r) \/ CheckSquad(r)
       \/ WriteHeader(r) \/ WritePlayers(r) \/ CommitUpsert(r) \/ ReadBack(r)
       \/ DeleteLineup(r) \/ Lose(r)
  \/ ChangeStatus
  \/ \E p \in Players : ChangeRoster(p) \/ DeletePlayer(p)

LineupSpec == LineupInit /\ [][LineupNext]_lineupVars

-------------------------------------------------------------------------------
\* A stored line-up is always the eleven of one request, whole: every slot of
\* its formation once, every player once, less the players deleted since; two
\* concurrent edits never mix, and none is stored in part.
OneRequestsEleven ==
  lineup # None =>
    \E r \in Requests :
      LET picks == Range(req[r].picks)
      IN  /\ req[r] # None /\ req[r].op = "upsert"
          /\ lineup.formation = req[r].formation
          /\ lineup.players = {x \in picks : roster[x.player] # "deleted"}
          /\ Cardinality(picks) = TeamSize
          /\ {x.slot : x \in picks} = SlotsOf[lineup.formation]
          /\ Cardinality({x.player : x \in picks}) = TeamSize

\* "Lineups can only be edited while the fixture is scheduled."
\* (routers/lineups.py): a line-up changes only then, unless a player is deleted.
EditedOnlyWhileScheduled ==
  [][lineup' # lineup /\ roster' = roster
     => status \in EDITABLE_STATUSES]_lineupVars
===============================================================================
