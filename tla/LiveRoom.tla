------------------------------- MODULE LiveRoom -------------------------------
(* The live feed of one fixture: handlers broadcast what they committed to   *)
(* the sockets of the fixture's room, while viewers join and drop            *)
(* (core/websocket.py, routers/live.py).  One process, one event loop: every *)
(* await is a point where the others run.  What a message says of the match  *)
(* is the number of changes that had committed when its row was read.        *)
EXTENDS Integers, Sequences, SequencesExt

CONSTANTS
  Sockets,      \* one per viewer's connection
  Handlers      \* one per request that changes the fixture

VARIABLES
  version,      \* changes of the fixture committed so far
  clock,        \* datetime.now(): strictly later at every stamp
  room,         \* manager._rooms of the fixture
  socket,       \* the stage of each live_fixture coroutine
  seen,         \* the match as that coroutine read it
  inbox,        \* what was sent to each socket
  handler       \* the broadcasting side of each request

roomVars == <<version, clock, room, socket, seen, inbox, handler>>

Versions == Nat
Message == [row : Versions, server_time : Nat]
Handler == [stage : {"idle", "committed", "sending"},
            version : Versions,
            left : 0..2,            \* broadcasts still to start
            to : Seq(Sockets),      \* broadcast's copy of the room
            next : Nat,             \* the loop's position in it
            dead : Seq(Sockets),
            server_time : Nat]

RoomTypeOK ==
  /\ version \in Versions /\ clock \in Nat
  /\ room \in Seq(Sockets)
  /\ socket \in [Sockets -> {"new", "read", "open", "closed", "over"}]
  /\ seen \in [Sockets -> Versions]
  /\ inbox \in [Sockets -> Seq(Message)]
  /\ handler \in [Handlers -> Handler]

NotSending(stage, v, n) ==
  [stage |-> stage, version |-> v, left |-> n, to |-> << >>, next |-> 1,
   dead |-> << >>, server_time |-> 0]

RoomInit ==
  /\ version = 0 /\ clock = 0
  /\ room = << >>
  /\ socket = [s \in Sockets |-> "new"]
  /\ seen = [s \in Sockets |-> 0]
  /\ inbox = [s \in Sockets |-> << >>]
  /\ handler = [h \in Handlers |-> NotSending("idle", 0, 0)]

\* Mutant of disconnect: the oldest subscriber goes.
disconnect_first(subscribers, s) ==
  IF subscribers = << >> THEN << >> ELSE Tail(subscribers)

\* list.remove drops the first; the socket may have left already.
disconnect(subscribers, s) == RemoveFirst(subscribers, s)

stamp_payload(row, time) == [row |-> row, server_time |-> time]

Send(s, message) == inbox' = [inbox EXCEPT ![s] = Append(@, message)]

-------------------------------------------------------------------------------
(* A request that changed the fixture *)

\* A second yellow broadcasts its automatic red card too, with the same rows.
CommitChange(h) ==
  /\ handler[h].stage = "idle"
  /\ version' = version + 1
  /\ \E n \in {1, 2} :
       handler' = [handler EXCEPT ![h] = NotSending("committed", version', n)]
  /\ UNCHANGED <<clock, room, socket, seen, inbox>>

Due(h) == handler[h].stage = "committed" /\ handler[h].left > 0

\* Nothing is stamped or sent for an empty room.
StartBroadcast(h) ==
  /\ Due(h)
  /\ IF room = << >>
     THEN handler' = [handler EXCEPT ![h].left = @ - 1] /\ UNCHANGED clock
     ELSE /\ clock' = clock + 1
          /\ handler' = [handler EXCEPT ![h].stage = "sending", ![h].left = @ - 1,
                           ![h].to = room, ![h].next = 1, ![h].dead = << >>,
                           ![h].server_time = clock']
  /\ UNCHANGED <<version, room, socket, seen, inbox>>

\* Mutant of AfterFailure: the exception ends the loop.
GiveUp(b) == Len(b.to) + 1
AfterFailure(b) == b.next + 1

\* send_text raises when the peer is gone, and the loop goes on.
SendNext(h) ==
  LET b == handler[h]
      s == b.to[b.next]
  IN  /\ b.stage = "sending" /\ b.next <= Len(b.to)
      /\ \/ /\ socket[s] = "open"
            /\ Send(s, stamp_payload(b.version, b.server_time))
            /\ handler' = [handler EXCEPT ![h].next = @ + 1]
         \/ /\ socket[s] # "open"
            /\ handler' = [handler EXCEPT ![h].next = AfterFailure(b),
                                          ![h].dead = Append(@, s)]
            /\ UNCHANGED inbox
      /\ UNCHANGED <<version, clock, room, socket, seen>>

EndBroadcast(h) ==
  /\ handler[h].stage = "sending" /\ handler[h].next > Len(handler[h].to)
  /\ room' = FoldLeft(disconnect, room, handler[h].dead)
  /\ handler' = [handler EXCEPT ![h] = NotSending("committed", @.version, @.left)]
  /\ UNCHANGED <<version, clock, socket, seen, inbox>>

-------------------------------------------------------------------------------
(* A viewer: live_fixture *)

\* Read on a connection given back before the socket is accepted; the events
\* and the scorers, read by statements of their own, are never older.
ReadMatch(s) ==
  /\ socket[s] = "new"
  /\ socket' = [socket EXCEPT ![s] = "read"]
  /\ seen' = [seen EXCEPT ![s] = version]
  /\ UNCHANGED <<version, clock, room, inbox, handler>>

\* After accept the socket joins the room and is sent what was read, with no
\* await between the two.
Connect(s) ==
  /\ socket[s] = "read"
  /\ socket' = [socket EXCEPT ![s] = "open"]
  /\ room' = Append(room, s)
  /\ clock' = clock + 1
  /\ Send(s, stamp_payload(seen[s], clock'))
  /\ UNCHANGED <<version, seen, handler>>

PeerGone(s) ==
  /\ socket[s] = "open"
  /\ socket' = [socket EXCEPT ![s] = "closed"]
  /\ UNCHANGED <<version, clock, room, seen, inbox, handler>>

\* receive_text raises WebSocketDisconnect.
LeaveRoom(s) ==
  /\ socket[s] = "closed"
  /\ socket' = [socket EXCEPT ![s] = "over"]
  /\ room' = disconnect(room, s)
  /\ UNCHANGED <<version, clock, seen, inbox, handler>>

Broadcast(h) == StartBroadcast(h) \/ SendNext(h) \/ EndBroadcast(h)

RoomNext ==
  \/ \E h \in Handlers : CommitChange(h) \/ Broadcast(h)
  \/ \E s \in Sockets : \/ ReadMatch(s) \/ Connect(s)
                        \/ PeerGone(s) \/ LeaveRoom(s)

RoomSpec == RoomInit /\ [][RoomNext]_roomVars

\* The event loop resumes a handler whose send has returned; a send to a peer
\* that stopped reading ends in an exception when the server's keep-alive ping
\* times out.
RoomFairness == \A h \in Handlers : WF_roomVars(Broadcast(h))
RoomFairSpec == RoomSpec /\ RoomFairness

-------------------------------------------------------------------------------
\* A viewer that is connected is in the room exactly once, whatever broadcasts
\* were under way when others came and went; one whose coroutine has ended is
\* not, whether that coroutine or a broadcast removed it first.
SubscribersInRoom ==
  \A s \in Sockets :
    LET places == {i \in DOMAIN room : room[i] = s}
    IN  /\ socket[s] = "open" => \E i \in places : places = {i}
        /\ socket[s] \in {"new", "read", "over"} => places = {}

\* A broadcast that ends has reached every socket that was in the room when it
\* started and is still connected: a dead socket never costs another its message.
BroadcastReachesRoom ==
  [][\A h \in Handlers :
       LET b == handler[h]
       IN  b.stage = "sending" /\ handler'[h].stage # "sending" =>
             \A i \in DOMAIN b.to :
               socket[b.to[i]] = "open" =>
                 \E j \in DOMAIN inbox[b.to[i]] :
                   inbox[b.to[i]][j] =
                     stamp_payload(b.version, b.server_time)]_roomVars

\* A connected viewer gets every committed change whose broadcast is still due.
ChangesReachViewers ==
  \A s \in Sockets, h \in Handlers :
    (socket[s] = "open" /\ Due(h))
      ~> (\/ socket[s] # "open"
          \/ \E i \in DOMAIN inbox[s] : inbox[s][i].row = handler[h].version)

\* Of two messages to one viewer, the one stamped later says no less of the
\* match: "used by viewers for staleness checks" (stamp_payload).
LaterStampIsNoStaler ==
  \A s \in Sockets :
    \A i, j \in DOMAIN inbox[s] :
      inbox[s][i].server_time < inbox[s][j].server_time =>
        inbox[s][i].row <= inbox[s][j].row
===============================================================================
