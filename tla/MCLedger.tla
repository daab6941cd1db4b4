------------------------------- MODULE MCLedger -------------------------------
(* Instances of MatchLedger: long sequences of requests on one fixture.      *)
EXTENDS MatchLedger, TLC

CONSTANTS r1, r2, r3, r4, r5, home, away, p1, p2

Config(preset, limit, clock) ==
  [preset |-> preset, second_yellow_policy |-> None, events_after_ft |-> None,
   max_substitutions |-> limit, require_player_on_events |-> None,
   clock_transitions |-> clock, duplicate_event_window_ms |-> 0]

FormalAndRelaxed == {Config("cup_formal", 1, None), Config("grassroots", None, "strict")}

Event(role, override, club, player, type) ==
  [op |-> "create_event", role |-> role, manages |-> {home, away}, club |-> club,
   player |-> player, event_type |-> type, minute |-> 10, description |-> "note",
   key |-> None, ack |-> WarningCodes, override |-> override, reason |-> override]

Delete(role, override, id) ==
  [op |-> "delete_event", role |-> role, manages |-> {home, away}, target |-> id,
   ack |-> {"delete_after_ft"}, override |-> override, reason |-> override]

Clock(role, override, action, minute, stoppage) ==
  [op |-> "clock", role |-> role, action |-> action, minute |-> minute,
   stoppage |-> stoppage, ack |-> WarningCodes, override |-> override,
   reason |-> override]

Update(status) ==
  [op |-> "update_fixture", role |-> "platform_admin", status |-> status]

Manager == "club_manager"
Admin == "platform_admin"

\* Goals, cards and substitutions, their deletion, and a match brought to full
\* time early or reopened.
EventPayloads ==
  {Event(Manager, FALSE, c, p1, t) :
     c \in {home}, t \in {"goal", "yellow_card", "substitution_in"}}
  \cup {Event(Manager, FALSE, away, p2, "own_goal"),
        Event(Admin, TRUE, home, p2, "substitution_in"),
        Event(Admin, TRUE, home, p1, "yellow_card"),
        Event(Admin, TRUE, away, None, "penalty_scored")}
  \cup {Delete(Manager, FALSE, id) : id \in EventIds}
  \cup {Delete(Admin, TRUE, <<r, "main">>) : r \in Requests}
  \cup {Clock(Admin, TRUE, "ft", None, None), Update("scheduled")}

\* Every clock action by a manager, the transitions by an administrator too.
ClockPayloads ==
  {Clock(Manager, FALSE, a, None, None) : a \in ClockTransitions}
  \cup {Clock(Admin, TRUE, a, None, None) : a \in {"ht", "start_2h", "ft"}}
  \cup {Clock(Manager, FALSE, "nudge", m, None) : m \in {44, 89}}
  \cup {Clock(Manager, FALSE, "set_stoppage", None, 3)}
  \cup {Event(Manager, FALSE, home, None, "goal"), Update("postponed"),
        Update("scheduled"), Update(None)}

\* Four requests about events while the clock stands, or five about the clock
\* with goals of nobody in particular.
Families ==
  \/ /\ now = 0 /\ Cardinality({r \in Requests : ~Unserved(r)}) <= 3
     /\ fixture # None => /\ fixture.period \in {None, "full_time"}
                          /\ fixture.status # "postponed"
     /\ \A i \in Recorded(events) : events[i].event_type = "goal" => events[i].player # None
  \/ \A i \in Recorded(events) : events[i].event_type = "goal" /\ events[i].player = None

AllPayloads == EventPayloads \cup ClockPayloads
Symmetric == Permutations(Requests)
===============================================================================
