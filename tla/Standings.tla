------------------------------- MODULE Standings -------------------------------
(* The league table of one tournament (queries/standings.py), computed from  *)
(* the fixtures whenever it is asked for, while clubs enter and leave the    *)
(* tournament, matches are completed, reopened, corrected and deleted.       *)
(* Clubs are numbered in the order of their names.                           *)
EXTENDS Integers, FiniteSets, Functions

CONSTANTS
  LeagueClubs,
  FixtureIds,
  LeagueScores

ASSUME LeagueAssumption == LeagueClubs \subseteq Nat /\ LeagueScores \subseteq Nat

VARIABLES
  clubs,           \* the rows of clubs
  enrolled,        \* tournament_clubs
  fixtures         \* the tournament's fixtures

standingsVars == <<clubs, enrolled, fixtures>>

\* Live, postponed and cancelled matches count like scheduled ones here.
FixtureStatuses == {"scheduled", "completed"}
LeagueFixture == [id : FixtureIds, home : LeagueClubs, away : LeagueClubs,
                  status : FixtureStatuses,
                  home_score : LeagueScores \cup {0}, away_score : LeagueScores \cup {0}]

Plays(f, c) == c \in {f.home, f.away}

StandingsTypeOK ==
  /\ clubs \subseteq LeagueClubs /\ enrolled \subseteq clubs
  /\ fixtures \subseteq LeagueFixture
  /\ \A f \in fixtures : f.home # f.away /\ {f.home, f.away} \subseteq clubs
  /\ \A f, g \in fixtures : f.id = g.id => f = g

StandingsInit ==
  /\ clubs = LeagueClubs /\ enrolled = {} /\ fixtures = {}

create_club(c) ==
  /\ c \in LeagueClubs \ clubs
  /\ clubs' = clubs \cup {c}
  /\ UNCHANGED <<enrolled, fixtures>>

\* Fixtures refer to their clubs and keep them; enrolments go with the club.
delete_club(c) ==
  /\ c \in clubs /\ ~\E f \in fixtures : Plays(f, c)
  /\ clubs' = clubs \ {c}
  /\ enrolled' = enrolled \ {c}
  /\ UNCHANGED fixtures

add_club_to_tournament(c) ==
  /\ c \in clubs
  /\ enrolled' = enrolled \cup {c}
  /\ UNCHANGED <<clubs, fixtures>>

\* The club's fixtures stay.
remove_club_from_tournament(c) ==
  /\ enrolled' = enrolled \ {c}
  /\ UNCHANGED <<clubs, fixtures>>

\* Of any two clubs: nobody asks whether they are enrolled.
add_fixture(id, h, a) ==
  /\ \A f \in fixtures : f.id # id
  /\ h # a /\ {h, a} \subseteq clubs
  /\ fixtures' = fixtures \cup
       {[id |-> id, home |-> h, away |-> a, status |-> "scheduled",
         home_score |-> 0, away_score |-> 0]}
  /\ UNCHANGED <<clubs, enrolled>>

\* What the handlers of FixtureRequests leave in the row: any status and score.
change_fixture(f, s, hs, as) ==
  /\ fixtures' = (fixtures \ {f}) \cup
       {[f EXCEPT !.status = s, !.home_score = hs, !.away_score = as]}
  /\ UNCHANGED <<clubs, enrolled>>

remove_fixture(f) ==
  /\ fixtures' = fixtures \ {f}
  /\ UNCHANGED <<clubs, enrolled>>

StandingsNext ==
  \/ \E c \in LeagueClubs :
       \/ create_club(c) \/ delete_club(c)
       \/ add_club_to_tournament(c) \/ remove_club_from_tournament(c)
  \/ \E id \in FixtureIds, h, a \in LeagueClubs : add_fixture(id, h, a)
  \/ \E f \in fixtures :
       \/ \E s \in FixtureStatuses, hs, as \in LeagueScores : change_fixture(f, s, hs, as)
       \/ remove_fixture(f)

StandingsSpec == StandingsInit /\ [][StandingsNext]_standingsVars

-------------------------------------------------------------------------------
(* get_standings *)

Completed == {f \in fixtures : f.status = "completed"}

\* One side's line of a match.  UNION ALL keeps equal lines apart, as the
\* fixture does here.
Side(f, c, gf, ga) ==
  [fixture |-> f.id, club_id |-> c, gf |-> gf, ga |-> ga,
   pts |-> IF gf > ga THEN 3 ELSE IF gf = ga THEN 1 ELSE 0,
   won |-> IF gf > ga THEN 1 ELSE 0,
   drawn |-> IF gf = ga THEN 1 ELSE 0,
   lost |-> IF gf < ga THEN 1 ELSE 0]
HomeSide(f) == Side(f, f.home, f.home_score, f.away_score)
AwaySide(f) == Side(f, f.away, f.away_score, f.home_score)

match_stats == {HomeSide(f) : f \in Completed} \cup {AwaySide(f) : f \in Completed}

\* Mutant of Joined: UNION in place of UNION ALL.
JoinedDistinct(c) ==
  {[s EXCEPT !.fixture = 0] : s \in {x \in match_stats : x.club_id = c}}

\* Mutant of Joined: the list of clubs is joined to the opponents as well.
JoinedAmongEnrolled(c) ==
  {s \in match_stats : /\ s.club_id = c
                       /\ \A o \in match_stats :
                            o.fixture = s.fixture => o.club_id \in enrolled}

\* LEFT JOIN match_stats ON ms.club_id = cl.id
Joined(c) == {s \in match_stats : s.club_id = c}

aggregated(c) ==
  LET ms == Joined(c)
      SUM(column) == SumFunction([s \in ms |-> s[column]])
  IN  [club_id |-> c, played |-> Cardinality(ms),
       won |-> SUM("won"), drawn |-> SUM("drawn"), lost |-> SUM("lost"),
       goals_for |-> SUM("gf"), goals_against |-> SUM("ga"),
       goal_difference |-> SUM("gf") - SUM("ga"), points |-> SUM("pts")]

\* ORDER BY points DESC, goal_difference DESC, goals_for DESC, club_name
RankedAbove(x, y) ==
  LET keys == << <<y.points, x.points>>, <<y.goal_difference, x.goal_difference>>,
                 <<y.goals_for, x.goals_for>>, <<x.club_id, y.club_id>> >>
  IN  \E i \in DOMAIN keys :
        /\ keys[i][1] < keys[i][2]
        /\ \A j \in 1..(i - 1) : keys[j][1] = keys[j][2]

get_standings ==
  LET lines == {aggregated(c) : c \in enrolled}
  IN  [i \in 1..Cardinality(lines) |->
         CHOOSE x \in lines : Cardinality({y \in lines : RankedAbove(y, x)}) = i - 1]

-------------------------------------------------------------------------------
\* While nobody who has played is missing from the table, it adds up: every
\* match counts for two, what one side won or scored the other lost or
\* conceded, a decided match is worth three points and a drawn one two.
BooksBalance ==
  LET table == get_standings
      Column(field) == SumFunction([i \in DOMAIN table |-> table[i][field]])
      drawn == {f \in Completed : f.home_score = f.away_score}
  IN  (\A f \in Completed : {f.home, f.away} \subseteq enrolled) =>
        /\ Column("played") = 2 * Cardinality(Completed)
        /\ Column("won") = Column("lost")
        /\ Column("goals_for") = Column("goals_against")
        /\ Column("goal_difference") = 0
        /\ Column("points") =
             3 * Cardinality(Completed \ drawn) + 2 * Cardinality(drawn)

\* A club's line changes only with a completed match of its own: whoever else
\* enters, leaves, plays or has results corrected, and though an opponent that
\* left the tournament has no line any more.
OwnResultsOnly ==
  [][\A c \in enrolled \cap enrolled' :
       {f \in Completed : Plays(f, c)} = {f \in Completed' : Plays(f, c)}
         => aggregated(c) = aggregated(c)']_standingsVars
===============================================================================
