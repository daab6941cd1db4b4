------------------------------- MODULE MCClients ------------------------------
(* What clients hold of the server: the sessions, links and invites of one   *)
(* account, or a viewer's place in a fixture's room.  The two share no state; *)
(* in a behaviour one of them, the focus, moves and the other rests in an    *)
(* initial state.                                                            *)
EXTENDS MCAccounts, LiveRoom

VARIABLE focus

ClientsInit ==
  /\ focus \in {"account", "room"}
  /\ Init /\ RoomInit
  /\ focus = "room" => account = None

ClientsNext ==
  /\ \/ focus = "account" /\ Next /\ UNCHANGED roomVars
     \/ focus = "room" /\ RoomNext /\ UNCHANGED vars
  /\ UNCHANGED focus

clientsVars == <<vars, roomVars, focus>>
ClientsSpec == ClientsInit /\ [][ClientsNext]_clientsVars

\* Two viewers and three broadcasts, or one viewer and four.
FiveStamps == clock <= 5

ClientsSymmetric ==
  Symmetric \cup Permutations(Sockets) \cup Permutations(Handlers)
===============================================================================
