------------------------------ MODULE MCRequests ------------------------------
(* Instances of FixtureRequests: a few requests in every interleaving.       *)
EXTENDS FixtureRequests, TLC

CONSTANTS r1, r2, r3, home, away, p1, k1

Config(preset, limit, window) ==
  [preset |-> preset, second_yellow_policy |-> None, events_after_ft |-> None,
   max_substitutions |-> limit, require_player_on_events |-> None,
   clock_transitions |-> None, duplicate_event_window_ms |-> window]

Formal == Config("cup_formal", 1, 0)
Relaxed == Config("grassroots", None, 3000)

Event(club, player, type, key, ack) ==
  [op |-> "create_event", role |-> "club_manager", manages |-> {home},
   club |-> club, player |-> player, event_type |-> type, minute |-> 10,
   description |-> "note", key |-> key, ack |-> ack,
   override |-> FALSE, reason |-> FALSE]

Delete(id, override) ==
  [op |-> "delete_event", role |-> "platform_admin", manages |-> {},
   target |-> id, ack |-> {}, override |-> override, reason |-> override]

Clock(action, override) ==
  [op |-> "clock", role |-> "super_admin", action |-> action, minute |-> None,
   stoppage |-> None, ack |-> {}, override |-> override, reason |-> override]

Update(role, status) == [op |-> "update_fixture", role |-> role, status |-> status]
Drop == [op |-> "delete_fixture", role |-> "super_admin"]

\* Requests whose outcome depends on each other's order.
RacingPayloads ==
  {Event(home, p1, t, None, WarningCodes) :
     t \in {"goal", "yellow_card", "own_goal"}}
  \cup {Event(away, p1, "own_goal", None, {}), Event(home, None, "goal", None, {})}
  \cup {Delete(<<r, "main">>, FALSE) : r \in Requests}
  \cup {Clock("ft", TRUE), Update("platform_admin", "postponed"),
        Update("club_manager", "scheduled"), Drop}

\* Three at a time: cards, their deletion and the end of the match.
CardPayloads ==
  {Event(home, p1, t, None, {}) : t \in {"yellow_card", "substitution_in"}}
  \cup {Delete(<<r, "main">>, TRUE) : r \in Requests}
  \cup {Clock("ft", TRUE), Drop}

\* One incident sent twice under one key, another event under the same key, the
\* incident without a key, unconfirmed and confirmed, and the deletion of what
\* was recorded.
RetryPayloads ==
  {Event(home, p1, t, k1, {"possible_duplicate"}) : t \in {"goal", "red_card"}}
  \cup {Delete(<<r, "main">>, FALSE) : r \in Requests}
DoubleTapPayloads ==
  RetryPayloads
  \cup {Event(home, p1, "goal", None, ack) : ack \in {{}, {"possible_duplicate"}}}

FormalOrRelaxed == {Formal, Relaxed}
OnlyFormal == {Formal}
OnlyRelaxed == {Relaxed}
Windowed == {Config("custom", None, 3000)}
Symmetric == Permutations(Requests)
===============================================================================
