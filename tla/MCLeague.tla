------------------------------- MODULE MCLeague -------------------------------
(* Instances of what administrators keep about the league: line-ups, the     *)
(* current tournament, the table, the news and the map of external ids.      *)
(* These share no row that any of them writes; in a behaviour one component, *)
(* the focus, moves and the others rest in an initial state.                 *)
EXTENDS MCLineups, Tournaments, Standings, News, ExternalIds

CONSTANT Focuses      \* the components to explore

VARIABLE focus

TwoTitles == {<<"cup">>, <<"cup", 1>>}

Rests(component, still) == focus # component => still

LeagueInit ==
  /\ focus \in Focuses
  /\ LineupInit
  /\ Rests("lineups", \A p \in Players : roster[p] = "active")
  /\ TournamentInit
  /\ Rests("tournaments", /\ tournaments = {}
                          /\ target = [r \in Edits |-> CHOOSE t \in Tournaments : TRUE])
  /\ StandingsInit
  /\ NewsInit
  /\ ExternalIdsInit
  /\ Rests("external ids", entity = [r \in Imports |-> CHOOSE e \in Entities : TRUE])

LeagueNext ==
  /\ \/ /\ focus = "lineups" /\ LineupNext
        /\ UNCHANGED <<tournamentVars, standingsVars, newsVars, externalVars>>
     \/ /\ focus = "tournaments" /\ TournamentNext
        /\ UNCHANGED <<lineupVars, standingsVars, newsVars, externalVars>>
     \/ /\ focus = "standings" /\ StandingsNext
        /\ UNCHANGED <<lineupVars, tournamentVars, newsVars, externalVars>>
     \/ /\ focus = "news" /\ NewsNext
        /\ UNCHANGED <<lineupVars, tournamentVars, standingsVars, externalVars>>
     \/ /\ focus = "external ids" /\ ExternalIdsNext
        /\ UNCHANGED <<lineupVars, tournamentVars, standingsVars, newsVars>>
  /\ UNCHANGED focus

leagueVars == <<lineupVars, tournamentVars, standingsVars, newsVars, externalVars, focus>>
LeagueSpec == LeagueInit /\ [][LeagueNext]_leagueVars

\* The same names stand for the requests of several components: lineups and
\* tournaments, news and external ids.
LeagueSymmetric == Permutations(Requests) \cup Permutations(Posts)
===============================================================================
