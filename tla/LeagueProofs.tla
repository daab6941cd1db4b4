----------------------------- MODULE LeagueProofs -----------------------------
(* Proofs about the parts of a league that keep no match, at any number of   *)
(* requests: a stored line-up is one request's eleven; two tournaments are   *)
(* current only if one of them was created while a marking was under way; a  *)
(* line of the table changes with the club's own matches only, and the table *)
(* adds up; what is published has a date, and slugs clash in races only; the *)
(* audit log explains the external ids.                                      *)
EXTENDS LineupRequests, Tournaments, Standings, News, ExternalIds, Induction

-------------------------------------------------------------------------------
(* Line-ups *)


\* The requests that write while they have the row of the header.
Writing == {"header", "written"}

\* What a request past the handler's checks may rely on.
RequestSound(r) ==
  /\ pc[r] # "idle" => req[r] \in Payloads
  /\ pc[r] = "idle" => req[r] = None
  /\ pc[r] \in Writing => lock = r
  /\ pc[r] \in {"checking", "header", "written"} => req[r].op = "upsert"
  /\ pc[r] \in {"saving", "checking", "header", "written"} /\ req[r].op = "upsert"
       => WellFormed(req[r])
  /\ pc[r] = "written" => InsertsAccepted(req[r]) /\ Stored \subseteq wiped[r]

\* The line-up is the eleven of r, less the players deleted since.
StoredBy(r) ==
  LET picks == Range(req[r].picks)
  IN  /\ pc[r] # "idle" /\ req[r] # None /\ req[r].op = "upsert"
      /\ lineup.formation = req[r].formation
      /\ lineup.players = {x \in picks : roster[x.player] # "deleted"}
      /\ Cardinality(picks) = TeamSize
      /\ {x.slot : x \in picks} = SlotsOf[lineup.formation]
      /\ Cardinality({x.player : x \in picks}) = TeamSize

LineupInv ==
  /\ LineupTypeOK
  /\ \A r \in Requests : RequestSound(r)
  /\ lineup # None => \E r \in Requests : StoredBy(r)

-------------------------------------------------------------------------------
\* A payload whose op is "upsert" has a sequence of picks.
LEMMA UpsertShape ==
  ASSUME NEW q \in Payloads, q.op = "upsert" PROVE q.picks \in Seq(Pick)
  BY LineupPayloadsTyped DEF UpsertPayload, DropPayload

\* Picks that differ in their players are as many as their players.
LEMMA PicksCounted ==
  ASSUME NEW q, q.picks \in Seq(Pick), InsertsAccepted(q)
  PROVE  Cardinality(Range(q.picks)) = Cardinality(Column(q, "player"))
<1> DEFINE n == Len(q.picks)
           P == Range(q.picks)
           C == Column(q, "player")
           f == [i \in 1..n |-> q.picks[i]]
           g == [i \in 1..n |-> q.picks[i].player]
<1>1. n \in Nat /\ DOMAIN q.picks = 1..n
  OBVIOUS
<1>2. \A i, j \in 1..n : i # j => q.picks[i].player # q.picks[j].player
  BY <1>1 DEF InsertsAccepted
<1>3. IsFiniteSet(1..n)
  <2>1. n \in Int /\ 1 \in Int
    BY <1>1
  <2> HIDE DEF n
  <2> QED BY <2>1, FS_Interval
<1>4. f \in Bijection(1..n, P)
  <2>1. f \in [1..n -> P] /\ \A x \in P : \E i \in 1..n : f[i] = x
    BY <1>1 DEF Range
  <2>2. \A i, j \in 1..n : f[i] = f[j] => i = j
    BY <1>2
  <2> HIDE DEF f, n, P
  <2> QED BY <2>1, <2>2 DEF Bijection, Injection, Surjection, IsInjective
<1>5. g \in Bijection(1..n, C)
  <2>1. g \in [1..n -> C] /\ \A x \in C : \E i \in 1..n : g[i] = x
    BY <1>1 DEF Column
  <2>2. \A i, j \in 1..n : g[i] = g[j] => i = j
    BY <1>2
  <2> HIDE DEF g, n, C
  <2> QED BY <2>1, <2>2 DEF Bijection, Injection, Surjection, IsInjective
<1>6. Cardinality(P) = Cardinality(1..n)
  BY <1>3, <1>4, FS_Bijection DEF ExistsBijection
<1>7. Cardinality(C) = Cardinality(1..n)
  BY <1>3, <1>5, FS_Bijection DEF ExistsBijection
<1> QED BY <1>6, <1>7

\* The columns of the picks, by index or as a set.
LEMMA ColumnsOfPicks ==
  ASSUME NEW q, q.picks \in Seq(Pick)
  PROVE  /\ Column(q, "slot") = {x.slot : x \in Range(q.picks)}
         /\ Column(q, "player") = {x.player : x \in Range(q.picks)}
  BY DEF Column, Range

USE DEF LineupInv, LineupTypeOK, RequestSound, Stages, Writing, AdvanceTo, Finish, Stored

-------------------------------------------------------------------------------
LEMMA LineupInitInv == LineupInit => LineupInv
  BY NoneIsApart DEF LineupInit

\* A step that leaves the line-up and the roster alone keeps what is stored.
LEMMA StoredStays ==
  ASSUME LineupInv, UNCHANGED <<lineup, roster>>,
         \A r \in Requests : pc[r] # "idle" => pc'[r] # "idle" /\ req'[r] = req[r]
  PROVE  lineup' # None => \E r \in Requests : StoredBy(r)'
  BY ZenonT(30) DEF StoredBy

LEMMA LineupKeptByBegin ==
  ASSUME LineupInv, NEW r \in Requests, Begin(r) PROVE LineupInv'
<1>1. LineupTypeOK' /\ UNCHANGED <<roster, lineup, lock, wiped>>
  BY NoneIsApart DEF Begin
<1>2. ASSUME NEW s \in Requests PROVE RequestSound(s)'
  BY <1>1, <1>2, NoneIsApart DEF Begin, InsertsAccepted
<1>3. lineup' # None => \E s \in Requests : StoredBy(s)'
  BY StoredStays DEF Begin
<1> QED BY <1>1, <1>2, <1>3

LEMMA LineupKeptByRead ==
  ASSUME LineupInv, NEW r \in Requests, ReadFixture(r) PROVE LineupInv'
<1>1. LineupTypeOK' /\ UNCHANGED <<roster, lineup, req, wiped>>
  BY NoneIsApart DEF ReadFixture
<1>2. ASSUME NEW s \in Requests PROVE RequestSound(s)'
  <2>1. CASE s = r
    BY <1>1, <2>1, NoneIsApart DEF ReadFixture
  <2>2. CASE s # r
    BY <1>1, <2>2, NoneIsApart DEF ReadFixture, InsertsAccepted
  <2> QED BY <2>1, <2>2
<1>3. lineup' # None => \E s \in Requests : StoredBy(s)'
  BY StoredStays DEF ReadFixture
<1> QED BY <1>1, <1>2, <1>3

LEMMA LineupKeptByCheck ==
  ASSUME LineupInv, NEW r \in Requests, CheckSquad(r) PROVE LineupInv'
<1>1. LineupTypeOK' /\ UNCHANGED <<roster, lineup, req, wiped>>
  BY NoneIsApart DEF CheckSquad
<1>2. ASSUME NEW s \in Requests PROVE RequestSound(s)'
  BY <1>1, <1>2, NoneIsApart DEF CheckSquad, InsertsAccepted
<1>3. lineup' # None => \E s \in Requests : StoredBy(s)'
  BY StoredStays DEF CheckSquad
<1> QED BY <1>1, <1>2, <1>3

LEMMA LineupKeptByHeader ==
  ASSUME LineupInv, NEW r \in Requests, WriteHeader(r) PROVE LineupInv'
<1>1. LineupTypeOK' /\ UNCHANGED <<roster, lineup, req, wiped>>
  BY NoneIsApart DEF WriteHeader
<1>2. ASSUME NEW s \in Requests PROVE RequestSound(s)'
  BY <1>1, <1>2, NoneIsApart DEF WriteHeader, HeaderFree, InsertsAccepted
<1>3. lineup' # None => \E s \in Requests : StoredBy(s)'
  BY StoredStays DEF WriteHeader
<1> QED BY <1>1, <1>2, <1>3

LEMMA LineupKeptByPlayers ==
  ASSUME LineupInv, NEW r \in Requests, WritePlayers(r) PROVE LineupInv'
<1>1. UNCHANGED <<roster, lineup, req>>
  BY DEF WritePlayers
<1>2. LineupTypeOK'
  <2>1. Stored \subseteq Pick
    OBVIOUS
  <2> QED BY <2>1, NoneIsApart DEF WritePlayers
<1>3. ASSUME NEW s \in Requests PROVE RequestSound(s)'
  <2>1. InsertsAccepted(req[s])' <=> InsertsAccepted(req[s])
    BY <1>1 DEF InsertsAccepted
  <2>2. CASE s # r
    BY <1>1, <2>1, <2>2, NoneIsApart DEF WritePlayers
  <2>3. CASE s = r
    <3>1. RequestSound(r) /\ pc[r] = "header" /\ r # None
      BY NoneIsApart DEF WritePlayers
    <3>2. CASE pc'[r] = "written" /\ InsertsAccepted(req[r])
      <4>1. lock' = lock /\ wiped'[r] = Stored
        BY <3>1, <3>2 DEF WritePlayers
      <4> QED BY <1>1, <2>1, <2>3, <3>1, <3>2, <4>1
    <3>3. CASE pc'[r] = "done"
      BY <1>1, <2>3, <3>1, <3>3
    <3> QED BY <3>1, <3>2, <3>3 DEF WritePlayers
  <2> QED BY <2>2, <2>3
<1>4. lineup' # None => \E s \in Requests : StoredBy(s)'
  BY StoredStays DEF WritePlayers
<1> QED BY <1>2, <1>3, <1>4

\* The players the DELETE saw are all the players there are.
LEMMA LineupKeptByCommit ==
  ASSUME LineupInv, NEW r \in Requests, CommitUpsert(r) PROVE LineupInv'
<1> DEFINE q == req[r]
<1>1. /\ q \in Payloads /\ q.op = "upsert" /\ WellFormed(q) /\ InsertsAccepted(q)
      /\ Stored \subseteq wiped[r] /\ lock = r
  BY DEF CommitUpsert
<1>2. q.picks \in Seq(Pick)
  BY <1>1, UpsertShape
<1>3. Range(q.picks) \subseteq Pick
  BY <1>2 DEF Range
<1>4. lineup' = [formation |-> q.formation, players |-> Range(q.picks)]
  BY <1>1 DEF CommitUpsert
<1>5. \A x \in Range(q.picks) : roster[x.player] # "deleted"
  BY <1>1 DEF InsertsAccepted, Range
<1>6. LineupTypeOK'
  BY <1>1, <1>3, <1>4 DEF CommitUpsert, WellFormed
<1>7. ASSUME NEW s \in Requests PROVE RequestSound(s)'
  BY <1>1, <1>7, NoneIsApart DEF CommitUpsert
<1>8. StoredBy(r)'
  <2>1. /\ Cardinality(Range(q.picks)) = TeamSize
        /\ Cardinality({x.player : x \in Range(q.picks)}) = TeamSize
        /\ {x.slot : x \in Range(q.picks)} = SlotsOf[q.formation]
    BY <1>1, <1>2, PicksCounted, ColumnsOfPicks DEF WellFormed
  <2>2. pc'[r] # "idle" /\ req'[r] = q /\ q # None /\ roster' = roster
    BY <1>1, NoneIsApart DEF CommitUpsert
  <2> QED BY <1>1, <1>4, <1>5, <2>1, <2>2 DEF StoredBy
<1> QED BY <1>6, <1>7, <1>8

LEMMA LineupKeptByDelete ==
  ASSUME LineupInv, NEW r \in Requests, DeleteLineup(r) PROVE LineupInv'
<1>1. LineupTypeOK' /\ lineup' = None /\ UNCHANGED <<roster, req, wiped>>
  BY NoneIsApart DEF DeleteLineup
<1>2. ASSUME NEW s \in Requests PROVE RequestSound(s)'
  BY <1>1, <1>2, NoneIsApart DEF DeleteLineup, HeaderFree, InsertsAccepted
<1> QED BY <1>1, <1>2

LEMMA LineupKeptByEnds ==
  ASSUME LineupInv, NEW r \in Requests, ReadBack(r) \/ Lose(r) PROVE LineupInv'
<1>1. LineupTypeOK' /\ UNCHANGED <<roster, lineup, req, wiped>>
  BY NoneIsApart DEF ReadBack, Lose
<1>2. ASSUME NEW s \in Requests PROVE RequestSound(s)'
  BY <1>1, <1>2, NoneIsApart DEF ReadBack, Lose, InsertsAccepted
<1>3. lineup' # None => \E s \in Requests : StoredBy(s)'
  BY StoredStays DEF ReadBack, Lose
<1> QED BY <1>1, <1>2, <1>3

LEMMA LineupKeptByStatus ==
  ASSUME LineupInv, ChangeStatus \/ UNCHANGED lineupVars PROVE LineupInv'
<1>1. UNCHANGED <<roster, lineup, lock, pc, req, answer, wiped>>
      /\ status' \in {"scheduled", "live"}
  BY DEF ChangeStatus, lineupVars
<1>2. LineupTypeOK' /\ \A s \in Requests : RequestSound(s)'
  BY <1>1 DEF InsertsAccepted
<1>3. lineup' # None => \E s \in Requests : StoredBy(s)'
  BY <1>1, StoredStays
<1> QED BY <1>2, <1>3

\* An upsert's picks name players of the roster.
LEMMA PicksNamePlayers ==
  ASSUME LineupInv, NEW r \in Requests, req[r] \in Payloads, req[r].op = "upsert"
  PROVE  /\ \A x \in Range(req[r].picks) : x.player \in Players
         /\ \A i \in DOMAIN req[r].picks : req[r].picks[i].player \in Players
<1> DEFINE picks == req[r].picks
<1>1. picks \in Seq(Pick)
  BY UpsertShape
<1>2. \A i \in DOMAIN picks : picks[i] \in Pick
  <2> HIDE DEF picks
  <2> QED BY <1>1
<1>3. \A x \in Pick : x.player \in Players
  BY DEF Pick
<1> QED BY <1>2, <1>3 DEF Range

LEMMA LineupKeptByRoster ==
  ASSUME LineupInv, NEW p \in Players, ChangeRoster(p) PROVE LineupInv'
<1>1. LineupTypeOK' /\ UNCHANGED <<lineup, lock, pc, req, wiped>>
  BY DEF ChangeRoster
<1>2. \A x \in Players : roster'[x] = "deleted" <=> roster[x] = "deleted"
  BY DEF ChangeRoster
<1>3. ASSUME NEW s \in Requests PROVE RequestSound(s)'
  <2>1. pc[s] = "written" => InsertsAccepted(req[s])'
    BY <1>1, <1>2, PicksNamePlayers DEF InsertsAccepted
  <2> QED BY <1>1, <2>1
<1>4. ASSUME lineup # None PROVE \E s \in Requests : StoredBy(s)'
  <2>1. PICK s \in Requests : StoredBy(s)
    BY <1>4
  <2>2. \A x \in Range(req[s].picks) : x.player \in Players
    BY <2>1, PicksNamePlayers DEF StoredBy
  <2>3. {x \in Range(req[s].picks) : roster'[x.player] # "deleted"}
          = {x \in Range(req[s].picks) : roster[x.player] # "deleted"}
    BY <1>2, <2>2
  <2>4. StoredBy(s)'
    BY <1>1, <2>1, <2>3 DEF StoredBy
  <2> QED BY <2>4
<1> QED BY <1>1, <1>3, <1>4

\* The cascade takes the player's rows from the line-up and waits for those
\* that name the player and have not committed.
LEMMA LineupKeptByDeletePlayer ==
  ASSUME LineupInv, NEW p \in Players, DeletePlayer(p) PROVE LineupInv'
<1>1. /\ roster' = [roster EXCEPT ![p] = "deleted"]
      /\ UNCHANGED <<status, lock, pc, req, answer, wiped>>
      /\ \A r \in Requests : pc[r] = "written" => p \notin Column(req[r], "player")
  BY DEF DeletePlayer
<1>2. lineup = None => lineup' = None
  BY DEF DeletePlayer
<1>3. ASSUME lineup # None
      PROVE  /\ lineup' \in [formation : Formations, players : SUBSET Pick]
             /\ lineup'.formation = lineup.formation
             /\ lineup'.players = {x \in lineup.players : x.player # p}
  BY <1>3 DEF DeletePlayer
<1>4. LineupTypeOK'
  BY <1>1, <1>2, <1>3
<1>5. Stored' \subseteq Stored
  BY <1>2, <1>3
<1>6. ASSUME NEW s \in Requests PROVE RequestSound(s)'
  <2>1. pc[s] = "written" => InsertsAccepted(req[s])'
    BY <1>1, PicksNamePlayers DEF InsertsAccepted, Column
  <2> QED BY <1>1, <1>5, <2>1
<1>7. ASSUME lineup # None PROVE \E s \in Requests : StoredBy(s)'
  <2>1. PICK s \in Requests : StoredBy(s)
    BY <1>7
  <2>2. \A x \in Range(req[s].picks) : x.player \in Players
    BY <2>1, PicksNamePlayers DEF StoredBy
  <2>3. lineup'.players = {x \in Range(req[s].picks) : roster'[x.player] # "deleted"}
    BY <1>1, <1>3, <1>7, <2>1, <2>2 DEF StoredBy
  <2>4. StoredBy(s)'
    BY <1>1, <1>3, <1>7, <2>1, <2>3 DEF StoredBy
  <2> QED BY <2>4
<1> QED BY <1>2, <1>4, <1>6, <1>7

HIDE DEF LineupInv, LineupTypeOK, RequestSound, Stages, Writing, AdvanceTo, Finish, Stored

-------------------------------------------------------------------------------
\* The invariant of the header's row and of what is stored is inductive.
THEOREM LineupInvHolds == LineupSpec => []LineupInv
<1>1. LineupInv /\ [LineupNext]_lineupVars => LineupInv'
  BY LineupKeptByBegin, LineupKeptByRead, LineupKeptByCheck, LineupKeptByHeader,
     LineupKeptByPlayers, LineupKeptByCommit, LineupKeptByDelete, LineupKeptByEnds,
     LineupKeptByStatus, LineupKeptByRoster, LineupKeptByDeletePlayer
  DEF LineupNext
<1> QED BY LineupInitInv, <1>1, PTL DEF LineupSpec

\* The rows and the requests keep their types, although players and clubs come
\* and go while a request is under way.
THEOREM LineupsTyped == LineupSpec => []LineupTypeOK
<1>1. LineupInv => LineupTypeOK
  BY DEF LineupInv
<1> QED BY LineupInvHolds, <1>1, PTL

\* A stored line-up is the eleven of one request, whole, less the players
\* deleted since (queries/lineups.py upsert_lineup).
THEOREM ElevenIsOneRequests == LineupSpec => []OneRequestsEleven
<1>1. LineupInv => OneRequestsEleven
  BY DEF LineupInv, OneRequestsEleven, StoredBy
<1> QED BY LineupInvHolds, <1>1, PTL

-------------------------------------------------------------------------------
(* Tournaments *)

\* A marking has met, or has still to visit, every tournament that was not
\* created beside a marking; when it comes to write its target, it has met them.
MarkingSeesOthers ==
  \A r \in Edits : Marking(r) =>
    /\ tournaments \ late \subseteq left[r] \cup Locks(r)
    /\ edit[r] = "written" => left[r] = {}

TournamentInv ==
  /\ TournamentTypeOK
  /\ MarkingSeesOthers
  /\ TwoCurrentOnlyByCreation

-------------------------------------------------------------------------------
LEMMA TournamentInitInv == TournamentInit => TournamentInv
  BY DEF TournamentInit, TournamentInv, TournamentTypeOK, MarkingSeesOthers,
         TwoCurrentOnlyByCreation, Marking, Ops, EditStages

\* What is created beside a marking counts as late, so no marking owes it
\* anything; what is created beside none is in every later snapshot.
LEMMA KeptByCreate ==
  ASSUME TournamentInv, NEW t \in Tournaments, create_tournament(t)
  PROVE  TournamentInv'
  BY DEF TournamentInv, TournamentTypeOK, MarkingSeesOthers, Marking, Locks,
         TwoCurrentOnlyByCreation, create_tournament, request

LEMMA KeptByDelete ==
  ASSUME TournamentInv, NEW t \in Tournaments, delete_tournament(t)
  PROVE  TournamentInv'
  BY DEF TournamentInv, TournamentTypeOK, MarkingSeesOthers, Marking, Locks,
         TwoCurrentOnlyByCreation, delete_tournament, request

LEMMA KeptByReadBefore ==
  ASSUME TournamentInv, NEW r \in Edits, NEW t \in Tournaments,
         NEW o \in {"mark", "unmark", "edit"}, ReadBefore(r, o, t)
  PROVE  TournamentInv'
  BY DEF TournamentInv, TournamentTypeOK, MarkingSeesOthers, Marking, Locks,
         TwoCurrentOnlyByCreation, ReadBefore, EditGoes, Ops, EditStages

LEMMA KeptByStartUnset ==
  ASSUME TournamentInv, NEW r \in Edits, StartUnset(r)
  PROVE  TournamentInv'
  BY DEF TournamentInv, TournamentTypeOK, MarkingSeesOthers, Marking, Locks,
         TwoCurrentOnlyByCreation, StartUnset, UnsetRows, EditGoes, EditStages

\* A row leaves r's snapshot for r's locks, unless it is gone; nobody loses one.
LEMMA KeptByUnsetRow ==
  ASSUME TournamentInv, NEW r \in Edits, NEW t \in Tournaments, UnsetRow(r, t)
  PROVE  TournamentInv'
  BY NobodyAssumption
  DEF TournamentInv, TournamentTypeOK, MarkingSeesOthers, Marking, Locks,
      TwoCurrentOnlyByCreation, UnsetRow, Lockable

LEMMA KeptByWriteTarget ==
  ASSUME TournamentInv, NEW r \in Edits, WriteTarget(r)
  PROVE  TournamentInv'
  BY NobodyAssumption
  DEF TournamentInv, TournamentTypeOK, MarkingSeesOthers, Marking, Locks,
      TwoCurrentOnlyByCreation, WriteTarget, Lockable, EditGoes, EditStages

\* r holds every row that is not late, so none but its target stays current.
LEMMA KeptByCommit ==
  ASSUME TournamentInv, NEW r \in Edits, CommitEdit(r)
  PROVE  TournamentInv'
  BY NobodyAssumption
  DEF TournamentInv, TournamentTypeOK, MarkingSeesOthers, Marking, Locks,
      TwoCurrentOnlyByCreation, CommitEdit, Release, EditGoes, EditStages

LEMMA KeptByAbort ==
  ASSUME TournamentInv, NEW r \in Edits, AbortEdit(r)
  PROVE  TournamentInv'
  BY NobodyAssumption
  DEF TournamentInv, TournamentTypeOK, MarkingSeesOthers, Marking, Locks,
      TwoCurrentOnlyByCreation, AbortEdit, Release, EditGoes, EditStages

LEMMA KeptByFixtures ==
  ASSUME TournamentInv, NEW r \in Edits,
         get_current_tournament(r) \/ create_fixture(r)
  PROVE  TournamentInv'
  BY DEF TournamentInv, TournamentTypeOK, MarkingSeesOthers, Marking, Locks,
         TwoCurrentOnlyByCreation, get_current_tournament, create_fixture,
         EditGoes, Ops, EditStages

LEMMA KeptByStuttering ==
  ASSUME TournamentInv, UNCHANGED tournamentVars
  PROVE  TournamentInv'
  BY DEF TournamentInv, TournamentTypeOK, MarkingSeesOthers, Marking, Locks,
         TwoCurrentOnlyByCreation, tournamentVars, request

-------------------------------------------------------------------------------
\* The invariant is inductive: it holds in every state of update_tournament's
\* transactions, creations and deletions.
THEOREM TournamentInvHolds == TournamentSpec => []TournamentInv
<1>1. TournamentInv /\ [TournamentNext]_tournamentVars => TournamentInv'
  BY KeptByCreate, KeptByDelete, KeptByReadBefore, KeptByStartUnset,
     KeptByUnsetRow, KeptByWriteTarget, KeptByCommit, KeptByAbort,
     KeptByFixtures, KeptByStuttering
  DEF TournamentNext, update_tournament
<1> QED BY TournamentInitInv, <1>1, PTL DEF TournamentSpec

\* The table of tournaments, its locks and the requests keep their types.
THEOREM TournamentsTyped == TournamentSpec => []TournamentTypeOK
<1>1. TournamentInv => TournamentTypeOK
  BY DEF TournamentInv
<1> QED BY TournamentInvHolds, <1>1, PTL

\* Two tournaments are current only if one was created while a marking of
\* queries/tournaments.py was under way.
THEOREM CurrentOnlyByCreation == TournamentSpec => []TwoCurrentOnlyByCreation
<1>1. TournamentInv => TwoCurrentOnlyByCreation
  BY DEF TournamentInv
<1> QED BY TournamentInvHolds, <1>1, PTL

-------------------------------------------------------------------------------
(* Standings *)

\* The LEFT JOIN finds no line of a match that the club did not play.
LEMMA JoinedFromOwn ==
  ASSUME NEW c, {f \in Completed : Plays(f, c)} = {f \in Completed' : Plays(f, c)}
  PROVE  Joined(c)' = Joined(c)
<1> DEFINE Lines(matches) == {s \in {HomeSide(f) : f \in matches} \cup
                                       {AwaySide(f) : f \in matches} : s.club_id = c}
<1>1. Joined(c) = Lines({f \in Completed : Plays(f, c)})
  BY DEF Joined, match_stats, HomeSide, AwaySide, Side, Plays
<1>2. Joined(c)' = Lines({f \in Completed' : Plays(f, c)})
  BY DEF Joined, match_stats, HomeSide, AwaySide, Side, Plays
<1> QED BY <1>1, <1>2

\* What is summed depends on the lines that are joined alone.
LEMMA LineFromJoined ==
  ASSUME NEW c, Joined(c)' = Joined(c)
  PROVE  aggregated(c)' = aggregated(c)
BY DEF aggregated

\* Whatever else happens in the league, a line changes with the club's own
\* completed matches only (get_standings).
THEOREM LinesAreOwn == StandingsSpec => OwnResultsOnly
<1>1. ASSUME NEW c,
             {f \in Completed : Plays(f, c)} = {f \in Completed' : Plays(f, c)}
      PROVE  aggregated(c) = aggregated(c)'
  BY <1>1, JoinedFromOwn, LineFromJoined
<1>2. \A c \in enrolled \cap enrolled' :
        {f \in Completed : Plays(f, c)} = {f \in Completed' : Plays(f, c)}
          => aggregated(c) = aggregated(c)'
  BY <1>1
<1> QED BY <1>2, PTL DEF OwnResultsOnly

\* The tables are finite: rows come one at a time.
StandingsInv == StandingsTypeOK /\ IsFiniteSet(enrolled) /\ IsFiniteSet(fixtures)

LEMMA StandingsInitInv == StandingsInit => StandingsInv
  BY FS_EmptySet DEF StandingsInit, StandingsInv, StandingsTypeOK

LEMMA StandingsStep == StandingsInv /\ [StandingsNext]_standingsVars => StandingsInv'
<1> SUFFICES ASSUME StandingsInv, [StandingsNext]_standingsVars PROVE StandingsInv'
  OBVIOUS
<1> USE DEF StandingsInv, StandingsTypeOK, standingsVars
<1>1. CASE UNCHANGED standingsVars
  BY <1>1
<1>2. ASSUME NEW c \in LeagueClubs, create_club(c) PROVE StandingsInv'
  BY <1>2 DEF create_club
<1>3. ASSUME NEW c \in LeagueClubs, delete_club(c) PROVE StandingsInv'
  BY <1>3, FS_RemoveElement DEF delete_club, Plays
<1>4. ASSUME NEW c \in LeagueClubs, add_club_to_tournament(c) PROVE StandingsInv'
  BY <1>4, FS_AddElement DEF add_club_to_tournament
<1>5. ASSUME NEW c \in LeagueClubs, remove_club_from_tournament(c) PROVE StandingsInv'
  BY <1>5, FS_RemoveElement DEF remove_club_from_tournament
<1>6. ASSUME NEW id \in FixtureIds, NEW h \in LeagueClubs, NEW a \in LeagueClubs,
             add_fixture(id, h, a)
      PROVE  StandingsInv'
  <2> DEFINE g == [id |-> id, home |-> h, away |-> a, status |-> "scheduled",
                   home_score |-> 0, away_score |-> 0]
  <2>1. g \in LeagueFixture /\ g.id = id /\ g.home = h /\ g.away = a
    BY DEF LeagueFixture, FixtureStatuses
  <2>2. /\ fixtures' = fixtures \cup {g} /\ UNCHANGED <<clubs, enrolled>>
        /\ h # a /\ {h, a} \subseteq clubs /\ \A f \in fixtures : f.id # id
    BY <1>6 DEF add_fixture
  <2> HIDE DEF g
  <2>3. IsFiniteSet(fixtures')
    BY <2>2, FS_AddElement
  <2> QED BY <2>1, <2>2, <2>3
<1>7. ASSUME NEW f \in fixtures, NEW s \in FixtureStatuses,
             NEW hs \in LeagueScores, NEW as \in LeagueScores,
             change_fixture(f, s, hs, as)
      PROVE  StandingsInv'
  <2> DEFINE g == [f EXCEPT !.status = s, !.home_score = hs, !.away_score = as]
  <2>1. f \in LeagueFixture
    OBVIOUS
  <2>2. g \in LeagueFixture /\ g.id = f.id /\ g.home = f.home /\ g.away = f.away
    BY <2>1 DEF LeagueFixture
  <2>3. fixtures' = (fixtures \ {f}) \cup {g} /\ UNCHANGED <<clubs, enrolled>>
    BY <1>7 DEF change_fixture
  <2> HIDE DEF g
  <2>4. IsFiniteSet(fixtures')
    BY <2>3, FS_RemoveElement, FS_AddElement
  <2> QED BY <2>2, <2>3, <2>4
<1>8. ASSUME NEW f \in fixtures, remove_fixture(f) PROVE StandingsInv'
  BY <1>8, FS_RemoveElement DEF remove_fixture
<1> QED BY <1>1, <1>2, <1>3, <1>4, <1>5, <1>6, <1>7, <1>8 DEF StandingsNext

\* A side's columns are numbers, and each side knows its match and its club.
LEMMA SideTypes ==
  ASSUME StandingsInv, NEW f \in Completed
  PROVE  /\ f \in LeagueFixture /\ f.home # f.away
         /\ \A s \in {HomeSide(f), AwaySide(f)} :
              /\ s.fixture = f.id
              /\ \A column \in {"pts", "won", "drawn", "lost", "gf", "ga"} : s[column] \in Int
         /\ HomeSide(f).club_id = f.home /\ AwaySide(f).club_id = f.away
         /\ HomeSide(f) # AwaySide(f)
<1>1. f \in LeagueFixture /\ f.home # f.away
  BY DEF StandingsInv, StandingsTypeOK, Completed
<1>2. f.home_score \in Int /\ f.away_score \in Int
  <2>1. f.home_score \in LeagueScores \cup {0} /\ f.away_score \in LeagueScores \cup {0}
    BY <1>1 DEF LeagueFixture
  <2>2. LeagueScores \cup {0} \subseteq Int
    BY LeagueAssumption
  <2> QED BY <2>1, <2>2
<1> QED BY <1>1, <1>2 DEF HomeSide, AwaySide, Side

LEMMA MatchStatsFinite ==
  ASSUME StandingsInv PROVE IsFiniteSet(Completed) /\ IsFiniteSet(match_stats)
<1>1. IsFiniteSet(Completed)
  BY FS_Subset DEF Completed, StandingsInv
<1>2. IsFiniteSet({HomeSide(f) : f \in Completed}) /\ IsFiniteSet({AwaySide(f) : f \in Completed})
  <2> DEFINE Homes == {HomeSide(f) : f \in Completed}
             Aways == {AwaySide(f) : f \in Completed}
             home == [f \in Completed |-> HomeSide(f)]
             away == [f \in Completed |-> AwaySide(f)]
  <2>1. home \in Surjection(Completed, Homes) /\ away \in Surjection(Completed, Aways)
    BY DEF Surjection
  <2> HIDE DEF home, away, Homes, Aways
  <2>2. IsFiniteSet(Homes) /\ IsFiniteSet(Aways)
    BY <1>1, <2>1, FS_Surjection
  <2> QED BY <2>2 DEF Homes, Aways
<1> QED BY <1>1, <1>2, FS_Union DEF match_stats

\* While every club that has played is in the table, a total over the table is a
\* total over the matches, of what the two sides of each contribute.
LEMMA TableIsMatches ==
  ASSUME StandingsInv, \A f \in Completed : {f.home, f.away} \subseteq enrolled,
         NEW v, \A s \in match_stats : v[s] \in Int,
         NEW w, \A c \in enrolled : w[c] = SumFunctionOnSet(v, Joined(c)),
         NEW b, \A f \in Completed : b[f] = v[HomeSide(f)] + v[AwaySide(f)]
  PROVE  SumFunctionOnSet(w, enrolled) = SumFunctionOnSet(b, Completed)
<1>1. SumFunctionOnSet(w, enrolled) = SumFunctionOnSet(v, match_stats)
  <2> DEFINE p == [s \in match_stats |-> s.club_id]
  <2>1. \A s \in match_stats : p[s] \in enrolled
    BY SideTypes DEF match_stats
  <2>2. \A c \in enrolled : w[c] = SumFunctionOnSet(v, Part(p, match_stats, c))
    <3>1. \A c : Joined(c) = Part(p, match_stats, c)
      BY DEF Joined, Part
    <3> QED BY <3>1
  <2>3. IsFiniteSet(enrolled) /\ IsFiniteSet(match_stats)
    BY MatchStatsFinite DEF StandingsInv
  <2> HIDE DEF p
  <2> QED BY <2>1, <2>2, <2>3, SumByParts
<1>2. SumFunctionOnSet(b, Completed) = SumFunctionOnSet(v, match_stats)
  <2> DEFINE p == [s \in match_stats |-> CHOOSE f \in Completed : f.id = s.fixture]
  <2>1. ASSUME NEW f \in Completed, NEW s \in {HomeSide(f), AwaySide(f)}
        PROVE  s \in match_stats /\ p[s] = f
    <3>1. s \in match_stats /\ s.fixture = f.id
      BY SideTypes DEF match_stats
    <3>2. \A g \in Completed : g.id = f.id => g = f
      BY DEF StandingsInv, StandingsTypeOK, Completed
    <3> QED BY <3>1, <3>2
  <2>2. \A s \in match_stats : \E f \in Completed : s \in {HomeSide(f), AwaySide(f)}
    BY DEF match_stats
  <2>3. \A s \in match_stats : p[s] \in Completed
    BY <2>1, <2>2
  <2> HIDE DEF p
  <2>4. ASSUME NEW f \in Completed
        PROVE  b[f] = SumFunctionOnSet(v, Part(p, match_stats, f))
    <3>1. Part(p, match_stats, f) = {HomeSide(f), AwaySide(f)}
      BY <2>1, <2>2 DEF Part
    <3>2. HomeSide(f) # AwaySide(f) /\ v[HomeSide(f)] \in Int /\ v[AwaySide(f)] \in Int
      BY <2>1, SideTypes
    <3>3. SumFunctionOnSet(v, {HomeSide(f), AwaySide(f)}) = v[HomeSide(f)] + v[AwaySide(f)]
      BY <3>2, SumOfTwo
    <3> QED BY <3>1, <3>3
  <2>5. IsFiniteSet(Completed) /\ IsFiniteSet(match_stats)
    BY MatchStatsFinite
  <2> QED BY <2>3, <2>4, <2>5, SumByParts
<1> QED BY <1>1, <1>2

\* The total of one column over a club's matches.
LEMMA TotalsTyped ==
  ASSUME StandingsInv, NEW c, NEW column \in {"pts", "won", "drawn", "lost", "gf", "ga"}
  PROVE  /\ IsFiniteSet(Joined(c)) /\ Joined(c) \subseteq match_stats
         /\ \A s \in match_stats : s[column] \in Int
         /\ SumFunction([s \in Joined(c) |-> s[column]]) \in Int
         /\ SumFunction([s \in Joined(c) |-> s[column]])
              = SumFunctionOnSet([s \in match_stats |-> s[column]], Joined(c))
<1> DEFINE v == [s \in match_stats |-> s[column]]
           u == [s \in Joined(c) |-> s[column]]
<1>1. Joined(c) \subseteq match_stats
  BY DEF Joined
<1>2. IsFiniteSet(Joined(c))
  BY <1>1, MatchStatsFinite, FS_Subset
<1>3. \A s \in match_stats : s[column] \in Int
  BY SideTypes DEF match_stats
<1>4. \A s \in Joined(c) : u[s] \in Int /\ u[s] = v[s]
  BY <1>1, <1>3
<1>5. SumFunction(u) = SumFunctionOnSet(u, Joined(c))
  BY DEF SumFunction
<1> HIDE DEF u, v
<1>6. SumFunctionOnSet(u, Joined(c)) \in Int
  BY <1>2, <1>4, SumAdds
<1>7. SumFunctionOnSet(u, Joined(c)) = SumFunctionOnSet(v, Joined(c))
  BY <1>2, <1>4, SumSame
<1> QED BY <1>1, <1>2, <1>3, <1>5, <1>6, <1>7 DEF u, v

Fields == {"played", "won", "drawn", "lost", "goals_for", "goals_against",
           "goal_difference", "points"}

LEMMA LineTyped ==
  ASSUME StandingsInv, NEW c
  PROVE  /\ aggregated(c).club_id = c
         /\ \A field \in Fields : aggregated(c)[field] \in Int
<1> DEFINE SUM(column) == SumFunction([s \in Joined(c) |-> s[column]])
<1>1. \A column \in {"pts", "won", "drawn", "lost", "gf", "ga"} : SUM(column) \in Int
  BY TotalsTyped
<1>2. Cardinality(Joined(c)) \in Int
  <2>1. IsFiniteSet(Joined(c))
    BY MatchStatsFinite, FS_Subset DEF Joined
  <2> QED BY <2>1, FS_CardinalityType
<1>3. aggregated(c) =
        [club_id |-> c, played |-> Cardinality(Joined(c)),
         won |-> SUM("won"), drawn |-> SUM("drawn"), lost |-> SUM("lost"),
         goals_for |-> SUM("gf"), goals_against |-> SUM("ga"),
         goal_difference |-> SUM("gf") - SUM("ga"), points |-> SUM("pts")]
  BY DEF aggregated
<1> HIDE DEF SUM
<1>4. SUM("gf") - SUM("ga") \in Int
  BY <1>1
<1> QED BY <1>1, <1>2, <1>3, <1>4 DEF Fields

\* The ranking compares four keys in turn.
LEMMA RankedByKeys ==
  ASSUME NEW x, NEW y, \A l \in {x, y} : /\ l.points \in Int /\ l.goal_difference \in Int
                                         /\ l.goals_for \in Int /\ l.club_id \in Int
  PROVE  RankedAbove(x, y) <=>
           \/ y.points < x.points
           \/ /\ y.points = x.points
              /\ \/ y.goal_difference < x.goal_difference
                 \/ /\ y.goal_difference = x.goal_difference
                    /\ \/ y.goals_for < x.goals_for
                       \/ y.goals_for = x.goals_for /\ x.club_id < y.club_id
<1> DEFINE keys == << <<y.points, x.points>>, <<y.goal_difference, x.goal_difference>>,
                      <<y.goals_for, x.goals_for>>, <<x.club_id, y.club_id>> >>
           Decides(i) == /\ keys[i][1] < keys[i][2]
                         /\ \A j \in 1..(i - 1) : keys[j][1] = keys[j][2]
<1>1. RankedAbove(x, y) <=> Decides(1) \/ Decides(2) \/ Decides(3) \/ Decides(4)
  <2>1. DOMAIN keys = {1, 2, 3, 4}
    OBVIOUS
  <2> QED BY <2>1 DEF RankedAbove
<1>2. 1..(1 - 1) = {} /\ 1..(2 - 1) = {1} /\ 1..(3 - 1) = {1, 2} /\ 1..(4 - 1) = {1, 2, 3}
  OBVIOUS
<1>3. /\ keys[1][1] = y.points /\ keys[1][2] = x.points
      /\ keys[2][1] = y.goal_difference /\ keys[2][2] = x.goal_difference
      /\ keys[3][1] = y.goals_for /\ keys[3][2] = x.goals_for
      /\ keys[4][1] = x.club_id /\ keys[4][2] = y.club_id
  OBVIOUS
<1> HIDE DEF keys
<1> QED BY <1>1, <1>2, <1>3

\* The table lists the line of every enrolled club once.
LEMMA TableListsLines ==
  ASSUME StandingsInv
  PROVE  /\ IsFiniteSet(DOMAIN get_standings)
         /\ \E p \in [enrolled -> DOMAIN get_standings] : \A i \in DOMAIN get_standings :
             \E c \in enrolled : /\ get_standings[i] = aggregated(c)
                                 /\ {d \in enrolled : p[d] = i} = {c}
<1> DEFINE L == {aggregated(c) : c \in enrolled}
           R == {e \in L \X L : RankedAbove(e[1], e[2])}
           n == Cardinality(L)
           rank == [x \in L |-> Cardinality({y \in L : <<y, x>> \in R})]
<1>1. \A c \in enrolled : aggregated(c) \in L /\ c \in Int
  BY LeagueAssumption DEF StandingsInv, StandingsTypeOK
<1>2. ASSUME NEW x \in L
      PROVE  /\ x.points \in Int /\ x.goal_difference \in Int /\ x.goals_for \in Int
             /\ x.club_id \in enrolled /\ x.club_id \in Int /\ x = aggregated(x.club_id)
  <2>1. PICK c \in enrolled : x = aggregated(c)
    BY <1>2
  <2> QED BY <1>1, <2>1, LineTyped DEF Fields
<1>3. IsFiniteSet(L) /\ n \in Nat
  <2> DEFINE line == [c \in enrolled |-> aggregated(c)]
  <2>1. line \in Surjection(enrolled, L)
    BY DEF Surjection
  <2> HIDE DEF line, L
  <2> QED BY <2>1, FS_Surjection, FS_CardinalityType DEF StandingsInv
<1>4. \A x, y \in L : <<x, y>> \in R <=> RankedAbove(x, y)
  OBVIOUS
<1>5. ASSUME NEW x \in L, NEW y \in L
      PROVE  <<x, y>> \in R <=>
               \/ y.points < x.points
               \/ /\ y.points = x.points
                  /\ \/ y.goal_difference < x.goal_difference
                     \/ /\ y.goal_difference = x.goal_difference
                        /\ \/ y.goals_for < x.goals_for
                           \/ y.goals_for = x.goals_for /\ x.club_id < y.club_id
  <2> HIDE DEF L, R
  <2> QED BY <1>2, <1>4, RankedByKeys
<1>6. rank \in Bijection(L, 0..(n - 1))
  <2> HIDE DEF L, R
  <2>1. \A x \in L : <<x, x>> \notin R
    BY <1>2, <1>5
  <2>2. \A x, y, z \in L : <<x, y>> \in R /\ <<y, z>> \in R => <<x, z>> \in R
    BY <1>2, <1>5
  <2>3. \A x, y \in L : x # y => <<x, y>> \in R \/ <<y, x>> \in R
    BY <1>2, <1>5
  <2> QED BY <1>3, <2>1, <2>2, <2>3, RanksNumber
<1>7. ASSUME NEW x \in L PROVE rank[x] = Cardinality({y \in L : RankedAbove(y, x)})
  <2>1. {y \in L : <<y, x>> \in R} = {y \in L : RankedAbove(y, x)}
    BY <1>4
  <2> QED BY <2>1
<1>8. /\ DOMAIN get_standings = 1..n
      /\ \A i \in 1..n : get_standings[i] = CHOOSE x \in L : rank[x] = i - 1
  BY <1>7 DEF get_standings
<1> HIDE DEF L, R, n, rank
<1>9. ASSUME NEW i \in 1..n
      PROVE  get_standings[i] \in L /\ rank[get_standings[i]] = i - 1
  <2>1. i - 1 \in 0..(n - 1)
    BY <1>3
  <2>2. \E x \in L : rank[x] = i - 1
    BY <1>6, <2>1 DEF Bijection, Surjection
  <2> QED BY <1>8, <2>2
<1>10. \A x, y \in L : rank[x] = rank[y] => x = y
  BY <1>6 DEF Bijection, Injection, IsInjective
<1> DEFINE p == [c \in enrolled |-> rank[aggregated(c)] + 1]
<1>11. ASSUME NEW c \in enrolled PROVE p[c] \in 1..n
  <2>1. rank[aggregated(c)] \in 0..(n - 1)
    BY <1>1, <1>6 DEF Bijection, Surjection
  <2> QED BY <1>3, <2>1
<1>12. ASSUME NEW i \in 1..n
       PROVE  \E c \in enrolled : /\ get_standings[i] = aggregated(c)
                                  /\ {d \in enrolled : p[d] = i} = {c}
  <2> DEFINE c == get_standings[i].club_id
  <2>1. c \in enrolled /\ get_standings[i] = aggregated(c)
    BY <1>2, <1>9
  <2>2. ASSUME NEW d \in enrolled PROVE p[d] = i <=> d = c
    <3>1. rank[aggregated(d)] \in Int /\ i \in Int
      BY <1>1, <1>6 DEF Bijection, Surjection
    <3>2. p[d] = i <=> rank[aggregated(d)] = i - 1
      BY <3>1
    <3>3. aggregated(d).club_id = d
      BY LineTyped
    <3> HIDE DEF p
    <3> QED BY <1>1, <1>9, <1>10, <2>1, <3>2, <3>3
  <2> HIDE DEF p, c
  <2>3. {d \in enrolled : p[d] = i} = {c}
    BY <2>1, <2>2
  <2> QED BY <2>1, <2>3
<1>13. p \in [enrolled -> DOMAIN get_standings]
  BY <1>8, <1>11
<1>14. IsFiniteSet(DOMAIN get_standings)
  <2>1. n \in Int /\ 1 \in Int
    BY <1>3
  <2> QED BY <1>8, <2>1, FS_Interval
<1> HIDE DEF p
<1> QED BY <1>8, <1>12, <1>13, <1>14

\* A column of the table, as a total over the matches.
LEMMA ColumnIsMatches ==
  ASSUME StandingsInv, \A f \in Completed : {f.home, f.away} \subseteq enrolled,
         NEW field \in Fields,
         NEW v, \A s \in match_stats : v[s] \in Int,
         \A c \in enrolled : aggregated(c)[field] = SumFunctionOnSet(v, Joined(c)),
         NEW b, \A f \in Completed : b[f] = v[HomeSide(f)] + v[AwaySide(f)]
  PROVE  SumFunction([i \in DOMAIN get_standings |-> get_standings[i][field]])
           = SumFunctionOnSet(b, Completed)
<1> DEFINE D == DOMAIN get_standings
           w == [i \in D |-> get_standings[i][field]]
           u == [c \in enrolled |-> aggregated(c)[field]]
<1>1. PICK p \in [enrolled -> D] :
        \A i \in D : \E c \in enrolled : /\ get_standings[i] = aggregated(c)
                                         /\ {d \in enrolled : p[d] = i} = {c}
  BY TableListsLines
<1>2. \A c \in enrolled : u[c] \in Int
  BY LineTyped
<1>3. ASSUME NEW i \in D PROVE w[i] = SumFunctionOnSet(u, Part(p, enrolled, i))
  <2>1. PICK c \in enrolled : /\ get_standings[i] = aggregated(c)
                              /\ {d \in enrolled : p[d] = i} = {c}
    BY <1>1
  <2>2. w[i] = u[c]
    BY <2>1
  <2>3. Part(p, enrolled, i) = {c}
    BY <2>1 DEF Part
  <2> HIDE DEF u, w
  <2>4. SumFunctionOnSet(u, {c}) = u[c]
    <3>1. IsFiniteSet({c}) /\ c \in {c} /\ {c} \ {c} = {}
      BY FS_Singleton
    <3> QED BY <1>2, <3>1, SumOfOne
  <2> QED BY <2>2, <2>3, <2>4
<1>4. IsFiniteSet(D) /\ IsFiniteSet(enrolled)
  BY TableListsLines DEF StandingsInv
<1>5. SumFunction(w) = SumFunctionOnSet(w, D)
  BY DEF SumFunction
<1>6. \A c \in enrolled : u[c] = SumFunctionOnSet(v, Joined(c))
  OBVIOUS
<1>7. \A c \in enrolled : p[c] \in D
  BY <1>1
<1> HIDE DEF u, w, D
<1>8. SumFunctionOnSet(w, D) = SumFunctionOnSet(u, enrolled)
  BY <1>2, <1>3, <1>4, <1>7, SumByParts
<1>9. SumFunctionOnSet(u, enrolled) = SumFunctionOnSet(b, Completed)
  BY <1>6, TableIsMatches
<1> QED BY <1>5, <1>8, <1>9 DEF w, D

\* What a side of a match has in a column.
InColumn(column) == [s \in match_stats |-> s[column]]

LEMMA BooksAddUp == ASSUME StandingsInv PROVE BooksBalance
<1> DEFINE Total(field) ==
             SumFunction([i \in DOMAIN get_standings |-> get_standings[i][field]])
           drawn == {f \in Completed : f.home_score = f.away_score}
<1> SUFFICES ASSUME \A f \in Completed : {f.home, f.away} \subseteq enrolled
             PROVE  /\ Total("played") = 2 * Cardinality(Completed)
                    /\ Total("won") = Total("lost")
                    /\ Total("goals_for") = Total("goals_against")
                    /\ Total("goal_difference") = 0
                    /\ Total("points") =
                         3 * Cardinality(Completed \ drawn) + 2 * Cardinality(drawn)
  BY DEF BooksBalance
<1> DEFINE decided == Completed \ drawn
           Sum(b) == SumFunctionOnSet(b, Completed)
           Both(column) ==
             [f \in Completed |-> HomeSide(f)[column] + AwaySide(f)[column]]
           one == [f \in Completed |-> 1]
           two == [f \in Completed |-> 2]
           none == [f \in Completed |-> 0]
           extra == [f \in Completed |-> IF f \in decided THEN 1 ELSE 0]
<1>1. IsFiniteSet(Completed) /\ IsFiniteSet(match_stats)
  BY MatchStatsFinite
<1>2. ASSUME NEW f \in Completed
      PROVE  /\ HomeSide(f) \in match_stats /\ AwaySide(f) \in match_stats
             /\ f.home_score \in Int /\ f.away_score \in Int
  <2>1. HomeSide(f).gf \in Int /\ AwaySide(f).gf \in Int
    BY SideTypes
  <2> QED BY <2>1 DEF match_stats, HomeSide, AwaySide, Side
<1>3. ASSUME NEW column \in {"pts", "won", "drawn", "lost", "gf", "ga"}, NEW field \in Fields,
             \A c \in enrolled :
               aggregated(c)[field] = SumFunction([s \in Joined(c) |-> s[column]])
      PROVE  Total(field) = Sum(Both(column))
  <2>1. \A s \in match_stats : InColumn(column)[s] \in Int
    BY SideTypes DEF match_stats, InColumn
  <2>2. \A c \in enrolled : aggregated(c)[field] = SumFunctionOnSet(InColumn(column), Joined(c))
    BY <1>3, TotalsTyped DEF InColumn
  <2>3. \A f \in Completed :
          Both(column)[f] = InColumn(column)[HomeSide(f)] + InColumn(column)[AwaySide(f)]
    BY <1>2 DEF InColumn
  <2> HIDE DEF Both
  <2> QED BY <2>1, <2>2, <2>3, ColumnIsMatches
<1>4. ASSUME NEW c \in enrolled
      PROVE  /\ aggregated(c).played = Cardinality(Joined(c))
             /\ aggregated(c)["won"] = SumFunction([s \in Joined(c) |-> s["won"]])
             /\ aggregated(c)["lost"] = SumFunction([s \in Joined(c) |-> s["lost"]])
             /\ aggregated(c)["goals_for"] = SumFunction([s \in Joined(c) |-> s["gf"]])
             /\ aggregated(c)["goals_against"] = SumFunction([s \in Joined(c) |-> s["ga"]])
             /\ aggregated(c)["points"] = SumFunction([s \in Joined(c) |-> s["pts"]])
             /\ aggregated(c)["goal_difference"]
                  = SumFunction([s \in Joined(c) |-> s["gf"]])
                    - SumFunction([s \in Joined(c) |-> s["ga"]])
  BY DEF aggregated
<1>5. /\ Total("won") = Sum(Both("won")) /\ Total("lost") = Sum(Both("lost"))
      /\ Total("goals_for") = Sum(Both("gf")) /\ Total("goals_against") = Sum(Both("ga"))
      /\ Total("points") = Sum(Both("pts"))
  <2> HIDE DEF Total, Both, Sum
  <2> QED BY <1>3, <1>4 DEF Fields
<1>6. ASSUME NEW f \in Completed
      PROVE  /\ Both("won")[f] \in Int /\ Both("won")[f] = Both("lost")[f]
             /\ Both("gf")[f] \in Int /\ Both("gf")[f] = Both("ga")[f]
             /\ Both("pts")[f] = two[f] + extra[f]
             /\ one[f] \in Int /\ two[f] \in Int /\ extra[f] \in Int /\ two[f] = one[f] + one[f]
  <2> DEFINE h == f.home_score
             a == f.away_score
  <2>1. h \in Int /\ a \in Int
    BY <1>2
  <2>2. /\ Both("gf")[f] = h + a /\ Both("ga")[f] = a + h
        /\ Both("won")[f] = (IF h > a THEN 1 ELSE 0) + (IF a > h THEN 1 ELSE 0)
        /\ Both("lost")[f] = (IF h < a THEN 1 ELSE 0) + (IF a < h THEN 1 ELSE 0)
        /\ Both("pts")[f] = (IF h > a THEN 3 ELSE IF h = a THEN 1 ELSE 0)
                             + (IF a > h THEN 3 ELSE IF a = h THEN 1 ELSE 0)
    BY DEF HomeSide, AwaySide, Side
  <2>3. one[f] = 1 /\ two[f] = 2 /\ extra[f] = IF h = a THEN 0 ELSE 1
    OBVIOUS
  <2> HIDE DEF h, a, Both, one, two, extra
  <2>4. h > a \/ h = a \/ h < a
    BY <2>1
  <2>5. CASE h > a
    BY <2>1, <2>2, <2>3, <2>5
  <2>6. CASE h = a
    BY <2>1, <2>2, <2>3, <2>6
  <2>7. CASE h < a
    BY <2>1, <2>2, <2>3, <2>7
  <2> QED BY <2>4, <2>5, <2>6, <2>7
<1>7. Cardinality(Completed) = Cardinality(drawn) + Cardinality(decided)
      /\ Cardinality(drawn) \in Nat /\ Cardinality(decided) \in Nat
  <2>1. /\ drawn \subseteq Completed /\ decided = Completed \ drawn
        /\ drawn \cap decided = {} /\ drawn \cup decided = Completed
    OBVIOUS
  <2> HIDE DEF drawn, decided
  <2>2. IsFiniteSet(drawn) /\ IsFiniteSet(decided)
    BY <1>1, <2>1, FS_Subset
  <2>3. Cardinality(drawn \cap decided) = 0
    BY <2>1, FS_EmptySet
  <2>4. Cardinality(drawn) \in Nat /\ Cardinality(decided) \in Nat
    BY <2>2, FS_CardinalityType
  <2>5. Cardinality(drawn \cup decided)
          = Cardinality(drawn) + Cardinality(decided) - Cardinality(drawn \cap decided)
    BY <2>2, FS_Union
  <2>6. Cardinality(Completed) = Cardinality(drawn) + Cardinality(decided) - 0
    BY <2>1, <2>3, <2>5
  <2> QED BY <2>4, <2>6
<1>8. /\ Sum(one) = Cardinality(Completed)
      /\ Sum(none) = 0 /\ Sum(extra) = Cardinality(decided)
  <2>1. /\ \A f \in Completed : one[f] = IF f \in Completed THEN 1 ELSE 0
        /\ \A f \in Completed : none[f] = IF f \in {} THEN 1 ELSE 0
        /\ \A f \in Completed : extra[f] = IF f \in decided THEN 1 ELSE 0
        /\ Completed \in SUBSET Completed /\ {} \in SUBSET Completed
        /\ decided \in SUBSET Completed
    OBVIOUS
  <2> HIDE DEF one, none, extra, decided
  <2> QED BY <1>1, <2>1, SumOfOnes, FS_EmptySet
<1>9. Sum(two) = 2 * Cardinality(Completed)
  <2> HIDE DEF one, two
  <2>1. Sum(two) = Sum(one) + Sum(one)
    BY <1>1, <1>6, SumOfSums
  <2> HIDE DEF Sum
  <2>2. Cardinality(Completed) \in Nat
    BY <1>1, FS_CardinalityType
  <2> QED BY <1>8, <2>1, <2>2
<1>10. Total("played") = Sum(two)
  <2> DEFINE v == [s \in match_stats |-> 1]
  <2>1. ASSUME NEW c \in enrolled PROVE aggregated(c)["played"] = SumFunctionOnSet(v, Joined(c))
    <3>1. IsFiniteSet(Joined(c)) /\ Joined(c) \in SUBSET Joined(c)
      BY MatchStatsFinite, FS_Subset DEF Joined
    <3>2. \A s \in Joined(c) : v[s] = IF s \in Joined(c) THEN 1 ELSE 0
      BY ZenonT(30) DEF Joined
    <3> HIDE DEF v
    <3>3. SumFunctionOnSet(v, Joined(c)) = Cardinality(Joined(c))
      BY <3>1, <3>2, SumOfOnes
    <3> QED BY <1>4, <3>3
  <2>2. \A s \in match_stats : v[s] \in Int
    OBVIOUS
  <2>3. \A f \in Completed : two[f] = v[HomeSide(f)] + v[AwaySide(f)]
    BY <1>2
  <2> HIDE DEF v, two
  <2> QED BY <2>1, <2>2, <2>3, ColumnIsMatches DEF Fields
<1>11. Total("goal_difference") = Sum(none)
  <2> DEFINE v == [s \in match_stats |-> s["gf"] - s["ga"]]
             For == InColumn("gf")
             Against == InColumn("ga")
  <2>1. \A s \in match_stats :
          /\ v[s] \in Int /\ For[s] \in Int /\ Against[s] \in Int /\ For[s] = v[s] + Against[s]
    <3>1. \A s \in match_stats : s["gf"] \in Int /\ s["ga"] \in Int
      BY SideTypes DEF match_stats
    <3> QED BY <3>1 DEF InColumn
  <2>2. ASSUME NEW c \in enrolled
        PROVE  aggregated(c)["goal_difference"] = SumFunctionOnSet(v, Joined(c))
    <3>1. IsFiniteSet(Joined(c)) /\ Joined(c) \subseteq match_stats
      BY MatchStatsFinite, FS_Subset DEF Joined
    <3>2. /\ SumFunction([s \in Joined(c) |-> s["gf"]]) = SumFunctionOnSet(For, Joined(c))
          /\ SumFunction([s \in Joined(c) |-> s["ga"]]) = SumFunctionOnSet(Against, Joined(c))
      BY TotalsTyped DEF InColumn
    <3> HIDE DEF v, For, Against
    <3>3. SumFunctionOnSet(For, Joined(c))
            = SumFunctionOnSet(v, Joined(c)) + SumFunctionOnSet(Against, Joined(c))
      BY <2>1, <3>1, SumOfSums
    <3>4. SumFunctionOnSet(v, Joined(c)) \in Int /\ SumFunctionOnSet(Against, Joined(c)) \in Int
      BY <2>1, <3>1, SumAdds
    <3>5. aggregated(c)["goal_difference"]
            = SumFunctionOnSet(For, Joined(c)) - SumFunctionOnSet(Against, Joined(c))
      BY <1>4, <3>2
    <3> QED BY <3>3, <3>4, <3>5
  <2>3. ASSUME NEW f \in Completed PROVE none[f] = v[HomeSide(f)] + v[AwaySide(f)]
    <3>1. /\ v[HomeSide(f)] = f.home_score - f.away_score
          /\ v[AwaySide(f)] = f.away_score - f.home_score
      BY <1>2 DEF HomeSide, AwaySide, Side
    <3>2. none[f] = 0
      OBVIOUS
    <3> HIDE DEF v, none
    <3> QED BY <1>2, <3>1, <3>2
  <2> HIDE DEF v, none
  <2> QED BY <2>1, <2>2, <2>3, ColumnIsMatches DEF Fields
<1>12. Sum(Both("won")) = Sum(Both("lost")) /\ Sum(Both("gf")) = Sum(Both("ga"))
  <2> HIDE DEF Both
  <2> QED BY <1>1, <1>6, SumSame
<1>13. Sum(Both("pts")) = Sum(two) + Sum(extra)
  <2> HIDE DEF Both, two, extra
  <2> QED BY <1>1, <1>6, SumOfSums
<1>14. Total("points") = 3 * Cardinality(decided) + 2 * Cardinality(drawn)
  <2> HIDE DEF Total, Sum, Both, two, extra, drawn, decided
  <2> QED BY <1>5, <1>7, <1>8, <1>9, <1>13
<1>15. /\ Total("played") = 2 * Cardinality(Completed) /\ Total("won") = Total("lost")
       /\ Total("goals_for") = Total("goals_against") /\ Total("goal_difference") = 0
  <2> HIDE DEF Total, Sum, Both, two, extra, none, drawn, decided
  <2> QED BY <1>5, <1>8, <1>9, <1>10, <1>11, <1>12
<1> QED BY <1>14, <1>15

\* get_standings adds up while everybody who has played is enrolled.
THEOREM TableAddsUp == StandingsSpec => []BooksBalance
<1>1. StandingsInv => BooksBalance
  BY BooksAddUp
<1> QED BY <1>1, StandingsInitInv, StandingsStep, PTL DEF StandingsSpec

-------------------------------------------------------------------------------
(* News *)

\* A creation whose row is not stored yet.
Unborn(r) == post[r] \in {"new", "probing", "inserting"}

\* What a request has read is still so of the articles that are left, and none
\* comes back: whoever knows an article knows one whose creation is over.
Informed(r) ==
  /\ Unborn(r) => r \notin articles
  /\ post[r] \in {"probing", "inserting"} =>
       \A n \in there_before[r] : n \in Posts /\ ~Unborn(n)
  /\ post[r] = "inserting" =>
       \A n \in there_before[r] \cap articles : slug[n] # candidate[r]
  /\ post[r] = "updating" =>
       /\ ~Unborn(subject[r])
       /\ (was_published[r] /\ subject[r] \in articles) => subject[r] \in dated

NewsTables ==
  NewsTypeOK /\ PublishedIsDated /\ candidate = [r \in Posts |-> candidate[r]]
NewsInv == NewsTables /\ \A r \in Posts : Informed(r)

\* Initially there is no article.
LEMMA NewsInitInv == NewsInit => NewsInv
BY DEF NewsInit, NewsInv, NewsTables, NewsTypeOK, PublishedIsDated, Informed, Unborn, PostStages, Asks

\* A creation that begins, probes or is refused.
LEMMA KeptByProbing ==
  ASSUME NewsInv, NEW r \in Posts,
         \/ \E base \in TitleSlugs, a \in Asks : BeginCreate(r, base, a)
         \/ Probe(r) \/ RefuseSlug(r)
  PROVE  NewsInv'
<1> USE DEF newsTable, creation, updating, PostGoes, Asking, SlugTaken, ProbeAgain, PostStages
<1>1. ASSUME NEW base \in TitleSlugs, NEW a \in Asks, BeginCreate(r, base, a)
      PROVE  NewsInv'
  <2>1. NewsTables'
    BY <1>1 DEF BeginCreate, NewsInv, NewsTables, NewsTypeOK, PublishedIsDated
  <2>2. ASSUME NEW q \in Posts PROVE Informed(q)'
    BY <1>1 DEF BeginCreate, NewsInv, NewsTables, NewsTypeOK, Informed, Unborn
  <2> QED BY <2>1, <2>2 DEF NewsInv
<1>2. CASE Probe(r)
  <2>a. /\ UNCHANGED <<newsTable, base_slug, there_before, updating, ask>>
        /\ \/ UNCHANGED <<candidate, counter>>
           \/ /\ \E c : candidate' = [candidate EXCEPT ![r] = c]
              /\ counter' = [counter EXCEPT ![r] = @ + 1]
        /\ PostGoes(r, "probing") \/ PostGoes(r, "inserting")
    BY <1>2 DEF Probe
  <2>1. NewsTables'
    BY <2>a DEF NewsInv, NewsTables, NewsTypeOK, PublishedIsDated
  <2>2. /\ \A q \in Posts \ {r} : /\ candidate'[q] = candidate[q] /\ post'[q] = post[q]
        /\ \/ post'[r] = "probing"
           \/ post'[r] = "inserting" /\ candidate' = candidate
                /\ \A n \in articles : slug[n] # candidate[r]
    <3>1. \A q \in Posts \ {r} : candidate'[q] = candidate[q] /\ post'[q] = post[q]
      BY <2>a DEF NewsInv, NewsTables, NewsTypeOK
    <3> QED BY <1>2, <3>1 DEF Probe, NewsInv, NewsTables, NewsTypeOK
  <2>3. ASSUME NEW q \in Posts PROVE Informed(q)'
    BY <1>2, <2>2 DEF Probe, NewsInv, NewsTables, NewsTypeOK, Informed, Unborn
  <2> QED BY <2>1, <2>3 DEF NewsInv
<1>3. CASE RefuseSlug(r)
  BY <1>3 DEF RefuseSlug, NewsInv, NewsTables, NewsTypeOK, PublishedIsDated, Informed, Unborn
<1> QED BY <1>1, <1>2, <1>3

\* The row that is stored is of an article nobody has read.
LEMMA KeptByInsert ==
  ASSUME NewsInv, NEW r \in Posts, InsertArticle(r)
  PROVE  NewsInv'
<1> USE DEF creation, updating, PostGoes, PostStages
<1>1. NewsTables'
  BY DEF InsertArticle, NewsInv, NewsTables, NewsTypeOK, PublishedIsDated
<1>2. ASSUME NEW q \in Posts PROVE Informed(q)'
  BY DEF InsertArticle, NewsInv, NewsTables, NewsTypeOK, Informed, Unborn
<1> QED BY <1>1, <1>2 DEF NewsInv

\* An update reads the row, and writes what follows from what it read.
LEMMA KeptByUpdate ==
  ASSUME NewsInv, NEW r \in Posts,
         \/ \E n \in Posts, a \in Asks : ReadCurrent(r, n, a)
         \/ UpdateArticle(r)
  PROVE  NewsInv'
<1> USE DEF newsTable, creation, updating, PostGoes, Asking, PostStages
<1>1. ASSUME NEW n \in Posts, NEW a \in Asks, ReadCurrent(r, n, a) PROVE NewsInv'
  <2>1. NewsTables'
    BY <1>1 DEF ReadCurrent, NewsInv, NewsTables, NewsTypeOK, PublishedIsDated
  <2>2. n \in articles => ~Unborn(n) /\ n # r
    BY <1>1 DEF ReadCurrent, NewsInv, Informed, Unborn
  <2>3. ASSUME NEW q \in Posts PROVE Informed(q)'
    BY <1>1, <2>2, ZenonT(60)
    DEF ReadCurrent, NewsInv, NewsTables, NewsTypeOK, PublishedIsDated, Informed, Unborn
  <2> QED BY <2>1, <2>3 DEF NewsInv
<1>2. CASE UpdateArticle(r)
  <2>1. NewsTypeOK' /\ candidate' = [q \in Posts |-> candidate'[q]]
    BY <1>2 DEF UpdateArticle, NewsInv, NewsTables, NewsTypeOK
  <2>2. PublishedIsDated'
    BY <1>2 DEF UpdateArticle, PublishedAfter, DatedAfter, NewsInv, NewsTables, NewsTypeOK,
                PublishedIsDated, Informed, Asks
  <2>3. dated \subseteq dated' \cup (Posts \ articles)
    BY <1>2 DEF UpdateArticle, DatedAfter, NewsInv, NewsTables, NewsTypeOK
  <2>4. ASSUME NEW q \in Posts PROVE Informed(q)'
    BY <1>2, <2>3 DEF UpdateArticle, NewsInv, NewsTables, NewsTypeOK, Informed, Unborn
  <2> QED BY <2>1, <2>2, <2>4 DEF NewsInv, NewsTables
<1> QED BY <1>1, <1>2

\* A deletion takes the article out of what others have read.
LEMMA KeptByDeleteNews ==
  ASSUME NewsInv, NEW n \in Posts, delete_news(n)
  PROVE  NewsInv'
<1> USE DEF creation, updating
<1>1. NewsTables'
  BY DEF delete_news, NewsInv, NewsTables, NewsTypeOK, PublishedIsDated
<1>2. ASSUME NEW q \in Posts PROVE Informed(q)'
  BY DEF delete_news, NewsInv, NewsTables, NewsTypeOK, Informed, Unborn
<1> QED BY <1>1, <1>2 DEF NewsInv

LEMMA NewsInductive == NewsInv /\ [NewsNext]_newsVars => NewsInv'
<1>1. NewsInv /\ UNCHANGED newsVars => NewsInv'
  BY DEF NewsInv, NewsTables, NewsTypeOK, PublishedIsDated, Informed, Unborn, newsVars, newsTable,
         creation, updating
<1> QED BY <1>1, KeptByProbing, KeptByInsert, KeptByUpdate, KeptByDeleteNews DEF NewsNext

LEMMA NewsInvHolds == NewsSpec => []NewsInv
BY NewsInitInv, NewsInductive, PTL DEF NewsSpec

\* A published article has the date of a publication, at any number of requests,
\* though each decides about the date on what it read before the others wrote.
THEOREM PublishedAreDated == NewsSpec => []PublishedIsDated
<1>1. NewsInv => PublishedIsDated
  BY DEF NewsInv, NewsTables
<1> QED BY <1>1, NewsInvHolds, PTL

\* A slug that _unique_slug found free fails only on an article stored since.
THEOREM DuplicatesAreRaces == NewsSpec => DuplicateOnlyByRace
<1>1. ASSUME NewsInv, [NewsNext]_newsVars, NEW r \in Posts,
             post[r] # "refused", post'[r] = "refused"
      PROVE  \E n \in articles \ there_before[r] : slug[n] = candidate[r]
  <2> USE DEF PostGoes, PostStages, NewsInv, NewsTables, NewsTypeOK
  <2>1. ASSUME NEW q \in Posts, NEW stage, PostGoes(q, stage), stage # "refused" PROVE FALSE
    BY <1>1, <2>1
  <2>2. PICK q \in Posts : RefuseSlug(q)
    BY <1>1, <2>1 DEF NewsNext, newsVars, BeginCreate, Probe, ProbeAgain, InsertArticle,
                      ReadCurrent, UpdateArticle, delete_news
  <2>3. q = r
    BY <1>1, <2>2 DEF RefuseSlug
  <2>4. Informed(r) /\ post[r] = "inserting" /\ SlugTaken(candidate[r])
    BY <1>1, <2>2, <2>3 DEF RefuseSlug
  <2>5. PICK n \in articles : slug[n] = candidate[r]
    BY <2>4 DEF SlugTaken
  <2> QED BY <2>4, <2>5 DEF Informed
<1>2. NewsInv /\ [NewsNext]_newsVars => [\A r \in Posts :
        post[r] # "refused" /\ post'[r] = "refused" =>
          \E n \in articles \ there_before[r] : slug[n] = candidate[r]]_newsVars
  BY <1>1
<1> QED BY <1>2, NewsInvHolds, PTL DEF NewsSpec, DuplicateOnlyByRace

-------------------------------------------------------------------------------
(* External ids *)

\* An external id names one entity only.
NamesOne(map) == \A e, f \in Entities : e # f /\ map[e] = map[f] => map[e] = NoId

\* A transaction that has written is alone on its row; it removes an id that is
\* there, or sets one that no other entity has or is about to have.
Granted(r) ==
  /\ import[r] \in {"locked", "written"} =>
       \A q \in Imports \ {r} : import[q] \in {"locked", "written"} => entity[q] # entity[r]
  /\ import[r] = "locked" => wanted[r] # NoId
  /\ import[r] = "written" /\ wanted[r] = NoId => external_id[entity[r]] # NoId
  /\ import[r] = "written" /\ wanted[r] # NoId =>
       /\ \A e \in Entities \ {entity[r]} : external_id[e] # wanted[r]
       /\ \A q \in Imports \ {r} : import[q] = "written" => wanted[q] # wanted[r]

\* The entry that was seen last, whatever its created_at.
LastSeen(a) == \A b \in About(a.entity) : b.ended <= a.ended
MapIsLastSeen(e) ==
  \/ About(e) = {} /\ external_id[e] = NoId
  \/ \E a \in About(e) : LastSeen(a) /\ external_id[e] = a.id

\* A removal took what was set since the removal before it.
Removed(d, a) ==
  /\ a.entity = d.entity /\ a.id # NoId /\ a.ended < d.ended
  /\ \A b \in About(d.entity) : b.id = NoId => b.ended < a.ended \/ d.ended <= b.ended
RemovalsTook == \A d \in audit : d.id = NoId => \E a \in audit : Removed(d, a)

Stamped ==
  /\ \A r \in Imports : began[r] <= instant
  /\ \A a \in audit : a.created_at <= a.ended /\ a.ended <= instant
  /\ \A a, b \in audit : a.ended = b.ended => a = b

MappingInv ==
  /\ ExternalIdsTypeOK
  /\ NamesOne(external_id)
  /\ \A r \in Imports : Granted(r)
  /\ Stamped
  /\ \A e \in Entities : MapIsLastSeen(e)
  /\ RemovalsTook

\* Initially the map and the log are empty.
LEMMA MappingInitInv == ExternalIdsInit => MappingInv
<1> SUFFICES ASSUME ExternalIdsInit PROVE MappingInv
  OBVIOUS
<1>1. ExternalIdsTypeOK
  BY DEF ExternalIdsInit, ExternalIdsTypeOK, ImportStages
<1>2. NamesOne(external_id) /\ Stamped /\ RemovalsTook /\ \A r \in Imports : Granted(r)
  BY DEF ExternalIdsInit, NamesOne, Granted, Stamped, RemovalsTook
<1>3. ASSUME NEW e \in Entities PROVE MapIsLastSeen(e)
  BY DEF ExternalIdsInit, MapIsLastSeen, About
<1> QED BY <1>1, <1>2, <1>3 DEF MappingInv

\* What is said of the log and the map stands while neither changes.
LEMMA LogKept ==
  ASSUME UNCHANGED <<external_id, audit>>
  PROVE  /\ NamesOne(external_id) => NamesOne(external_id')
         /\ RemovalsTook => RemovalsTook'
         /\ \A e \in Entities : MapIsLastSeen(e) => MapIsLastSeen(e)'
<1>1. \A e : About(e)' = About(e)
  BY DEF About
<1>2. RemovalsTook => RemovalsTook'
  BY <1>1 DEF RemovalsTook, Removed
<1>3. \A e \in Entities : MapIsLastSeen(e) => MapIsLastSeen(e)'
  BY <1>1 DEF MapIsLastSeen, LastSeen
<1> QED BY <1>2, <1>3

\* Steps that commit nothing: a row is waited for, and so is the id.
LEMMA KeptByImport ==
  ASSUME MappingInv, NEW r \in Imports,
         \/ \E e \in Entities, x \in ForeignIds \cup {NoId} : BeginImport(r, e, x)
         \/ LockRow(r) \/ upsert(r) \/ delete(r) \/ AbortImport(r)
  PROVE  MappingInv'
<1> USE DEF ImportGoes, ImportStages
<1>1. UNCHANGED <<external_id, audit>>
  BY DEF BeginImport, LockRow, upsert, delete, AbortImport
<1>2. ASSUME ExternalIdsTypeOK', Stamped', \A q \in Imports : Granted(q)' PROVE MappingInv'
  BY <1>1, <1>2, LogKept DEF MappingInv
<1>3. ASSUME NEW e \in Entities, NEW x \in ForeignIds \cup {NoId}, BeginImport(r, e, x)
      PROVE  MappingInv'
  <2>1. ExternalIdsTypeOK'
    BY <1>3 DEF BeginImport, MappingInv, ExternalIdsTypeOK
  <2>2. ASSUME NEW q \in Imports PROVE Granted(q)'
    BY <1>3 DEF BeginImport, MappingInv, ExternalIdsTypeOK, Granted
  <2>3. Stamped'
    BY <1>3 DEF BeginImport, MappingInv, ExternalIdsTypeOK, Stamped, Entry
  <2> QED BY <1>2, <2>1, <2>2, <2>3
<1>4. ASSUME UNCHANGED <<began, instant>> PROVE Stamped'
  BY <1>1, <1>4 DEF MappingInv, Stamped
<1>5. CASE LockRow(r)
  <2>1. ExternalIdsTypeOK' /\ Stamped'
    BY <1>4, <1>5 DEF LockRow, MappingInv, ExternalIdsTypeOK
  <2>2. ASSUME NEW q \in Imports PROVE Granted(q)'
    BY <1>5 DEF LockRow, RowFree, MappingInv, ExternalIdsTypeOK, Granted
  <2> QED BY <1>2, <2>1, <2>2
<1>6. CASE upsert(r)
  <2>1. ExternalIdsTypeOK' /\ Stamped'
    BY <1>4, <1>6 DEF upsert, MappingInv, ExternalIdsTypeOK
  <2>2. ASSUME NEW q \in Imports PROVE Granted(q)'
    BY <1>6 DEF upsert, RowFree, IdTaken, IdDecided, MappingInv, ExternalIdsTypeOK, Granted
  <2> QED BY <1>2, <2>1, <2>2
<1>7. CASE delete(r)
  <2>1. ExternalIdsTypeOK' /\ Stamped'
    BY <1>4, <1>7 DEF delete, MappingInv, ExternalIdsTypeOK
  <2>2. ASSUME NEW q \in Imports PROVE Granted(q)'
    BY <1>7 DEF delete, RowFree, MappingInv, ExternalIdsTypeOK, Granted
  <2> QED BY <1>2, <2>1, <2>2
<1>8. CASE AbortImport(r)
  <2>1. ExternalIdsTypeOK' /\ Stamped'
    BY <1>4, <1>8 DEF AbortImport, MappingInv, ExternalIdsTypeOK
  <2>2. ASSUME NEW q \in Imports PROVE Granted(q)'
    BY <1>8 DEF AbortImport, MappingInv, ExternalIdsTypeOK, Granted
  <2> QED BY <1>2, <2>1, <2>2
<1> QED BY <1>3, <1>5, <1>6, <1>7, <1>8

\* The commit changes the map where its entry says, and is seen after all others.
LEMMA KeptByCommitImport ==
  ASSUME MappingInv, NEW r \in Imports, CommitImport(r)
  PROVE  MappingInv'
<1> DEFINE d == entity[r]
           x == wanted[r]
           entry == [entity |-> d, id |-> x, created_at |-> began[r],
                     ended |-> instant + 1]
<1>1. /\ d \in Entities /\ x \in ForeignIds \cup {NoId}
      /\ external_id' = [external_id EXCEPT ![d] = x]
      /\ audit' = audit \cup {entry}
      /\ import[r] = "written" /\ import' = [import EXCEPT ![r] = "ended"]
      /\ UNCHANGED <<entity, wanted, began>> /\ instant' = instant + 1
      /\ ExternalIdsTypeOK /\ Granted(r) /\ Stamped
  BY DEF CommitImport, ImportGoes, MappingInv, ExternalIdsTypeOK
<1>2. /\ entry.entity = d /\ entry.id = x /\ entry.ended = instant + 1
      /\ entry.created_at = began[r]
  OBVIOUS
<1>3. entry \in Entry
  BY <1>1 DEF ExternalIdsTypeOK, Entry
<1> HIDE DEF d, x, entry
<1>4. instant \in Nat /\ began[r] <= instant /\ began[r] \in Nat
      /\ \A a \in audit : a \in Entry /\ a.ended \in Nat /\ a.ended <= instant
  BY <1>1 DEF ExternalIdsTypeOK, Entry, Stamped
<1>5. \A e : About(e)' = About(e) \cup IF e = d THEN {entry} ELSE {}
  BY <1>1, <1>2 DEF About
<1>6. ExternalIdsTypeOK'
  BY <1>1, <1>3 DEF ExternalIdsTypeOK, ImportStages
<1>7. NamesOne(external_id')
  <2>1. NamesOne(external_id)
    BY DEF MappingInv
  <2>2. x # NoId => \A e \in Entities \ {d} : external_id[e] # x
    BY <1>1 DEF Granted, d, x
  <2> QED BY <1>1, <2>1, <2>2 DEF NamesOne, ExternalIdsTypeOK
<1>8. ASSUME NEW q \in Imports PROVE Granted(q)'
  <2>1. Granted(q)
    BY DEF MappingInv
  <2>2. q # r /\ import[q] \in {"locked", "written"} => entity[q] # d
    BY <1>1 DEF Granted, d
  <2>3. q # r /\ import[q] = "written" /\ wanted[q] # NoId => wanted[q] # x
    BY <1>1, <2>1 DEF Granted, x
  <2> QED BY <1>1, <2>1, <2>2, <2>3 DEF Granted, ExternalIdsTypeOK
<1>9. Stamped'
  BY <1>1, <1>2, <1>4 DEF Stamped, ExternalIdsTypeOK
<1>10. ASSUME NEW e \in Entities PROVE MapIsLastSeen(e)'
  <2>1. CASE e = d
    <3>1. entry \in About(e)' /\ external_id'[e] = entry.id
      BY <1>1, <1>2, <1>5, <2>1 DEF ExternalIdsTypeOK
    <3>2. \A b \in About(e)' : b.ended <= entry.ended
      BY <1>2, <1>4, <1>5 DEF About
    <3> QED BY <1>2, <2>1, <3>1, <3>2 DEF MapIsLastSeen, LastSeen
  <2>2. CASE e # d
    <3>1. About(e)' = About(e) /\ external_id'[e] = external_id[e]
      BY <1>1, <1>5, <2>2 DEF ExternalIdsTypeOK
    <3>2. MapIsLastSeen(e)
      BY DEF MappingInv
    <3>3. \A a \in About(e) : a.entity = e
      BY DEF About
    <3> QED BY <3>1, <3>2, <3>3 DEF MapIsLastSeen, LastSeen
  <2> QED BY <2>1, <2>2
<1>11. RemovalsTook'
  <2> SUFFICES ASSUME NEW c \in audit', c.id = NoId
               PROVE  \E a \in audit' : Removed(c, a)'
    BY DEF RemovalsTook
  <2>1. CASE c \in audit
    <3>1. PICK a \in audit : Removed(c, a)
      BY <2>1 DEF MappingInv, RemovalsTook
    <3>2. \A b \in About(c.entity)' : b \in About(c.entity) \/ b.ended = instant + 1
      BY <1>2, <1>5
    <3>3. c.ended <= instant + 1
      BY <1>4, <2>1
    <3>4. \A b \in About(c.entity)' :
            b.id = NoId => b.ended < a.ended \/ c.ended <= b.ended
      BY <3>1, <3>2, <3>3 DEF Removed
    <3> QED BY <1>1, <3>1, <3>4 DEF Removed
  <2>2. CASE c = entry
    <3>1. external_id[d] # NoId /\ MapIsLastSeen(d)
      BY <1>1, <1>2, <2>2 DEF Granted, MappingInv, d, x
    <3>2. PICK a \in About(d) : LastSeen(a) /\ external_id[d] = a.id
      BY <3>1 DEF MapIsLastSeen
    <3>3. a \in audit /\ a.entity = d /\ a.id # NoId /\ a.ended < c.ended
      BY <1>2, <1>4, <2>2, <3>1, <3>2 DEF About
    <3>4. \A b \in About(d) : b.id = NoId => b.ended < a.ended
      <4> SUFFICES ASSUME NEW b \in About(d), b.id = NoId, ~(b.ended < a.ended)
                   PROVE  FALSE
        OBVIOUS
      <4>1. b.ended = a.ended /\ b \in audit
        BY <1>4, <3>2, <3>3 DEF LastSeen, About
      <4>2. b = a
        BY <1>1, <3>3, <4>1 DEF Stamped
      <4> QED BY <3>2, <3>3, <4>2
    <3>5. \A b \in About(c.entity)' :
            b.id = NoId => b.ended < a.ended \/ c.ended <= b.ended
      BY <1>2, <1>4, <1>5, <2>2, <3>4
    <3> QED BY <1>1, <1>2, <2>2, <3>3, <3>5 DEF Removed
  <2> QED BY <1>1, <2>1, <2>2
<1> QED BY <1>6, <1>7, <1>8, <1>9, <1>10, <1>11 DEF MappingInv

LEMMA MappingInductive == MappingInv /\ [ExternalIdsNext]_externalVars => MappingInv'
<1>1. ASSUME MappingInv, UNCHANGED externalVars PROVE MappingInv'
  <2>1. ExternalIdsTypeOK' /\ Stamped' /\ \A r \in Imports : Granted(r)'
    BY <1>1 DEF MappingInv, ExternalIdsTypeOK, Granted, Stamped, externalVars
  <2> QED BY <1>1, <2>1, LogKept DEF MappingInv, externalVars
<1> QED BY <1>1, KeptByImport, KeptByCommitImport DEF ExternalIdsNext

LEMMA MappingInvHolds == ExternalIdsSpec => []MappingInv
BY MappingInitInv, MappingInductive, PTL DEF ExternalIdsSpec

\* The audit log explains the map of external ids, at any number of imports that
\* set, move and remove ids at once: the map says what an entry says that no entry
\* of a later transaction follows, and no removal is logged that removed nothing.
THEOREM MappingsExplained == ExternalIdsSpec => []MappingsAreAudited
<1>1. MappingInv => MappingsAreAudited
  <2> SUFFICES ASSUME MappingInv PROVE MappingsAreAudited
    OBVIOUS
  <2>1. ASSUME NEW e \in Entities
        PROVE  \/ About(e) = {} /\ external_id[e] = NoId
               \/ \E a \in About(e) : /\ external_id[e] = a.id
                                       /\ \A b \in About(e) : b.created_at <= a.ended
    <3> SUFFICES ASSUME About(e) # {}
                 PROVE  \E a \in About(e) :
                          /\ external_id[e] = a.id
                          /\ \A b \in About(e) : b.created_at <= a.ended
      BY DEF MappingInv, MapIsLastSeen
    <3>1. PICK a \in About(e) : LastSeen(a) /\ external_id[e] = a.id
      BY DEF MappingInv, MapIsLastSeen
    <3>2. ASSUME NEW b \in About(e) PROVE b.created_at <= a.ended
      <4>1. /\ a \in Entry /\ b \in Entry /\ b.created_at <= b.ended
            /\ b.ended <= a.ended
        BY <3>1 DEF MappingInv, ExternalIdsTypeOK, Stamped, About, LastSeen
      <4> QED BY <4>1 DEF Entry
    <3> QED BY <3>1, <3>2
  <2>2. ASSUME NEW d \in audit, d.id = NoId
        PROVE  \E a \in About(d.entity) :
                 /\ a.id # NoId /\ a.ended < d.ended
                 /\ \A b \in About(d.entity) :
                      b.id = NoId => b.ended < a.ended \/ d.ended <= b.ended
    <3>1. PICK a \in audit : Removed(d, a)
      BY <2>2 DEF MappingInv, RemovalsTook
    <3> QED BY <3>1 DEF Removed, About
  <2>3. \A e, f \in Entities :
          e # f /\ external_id[e] = external_id[f] => external_id[e] = NoId
    BY DEF MappingInv, NamesOne
  <2> QED BY <2>1, <2>2, <2>3 DEF MappingsAreAudited
<1> QED BY <1>1, MappingInvHolds, PTL
===============================================================================
