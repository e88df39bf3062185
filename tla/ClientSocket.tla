---------------------------- MODULE ClientSocket ----------------------------
(***************************************************************************)
(* The one socket a browser tab shares between its hooks (lib/socket.ts),  *)
(* the retried room joins of those hooks (lib/socket-room.ts, the board    *)
(* and the notification hook) and the gateway's answers to them.           *)
(*                                                                         *)
(* A hook here is one mount of a React effect: mounted once, unmounted     *)
(* once.  Several notification hooks may hold the same room.  What         *)
(* socket.io-client does by itself (dialling again after a drop, giving up *)
(* after MaxAttempts, forgetting a refused socket) is modelled as the code *)
(* under src uses it.                                                      *)
(***************************************************************************)
EXTENDS Naturals, Sequences, FiniteSets

CONSTANTS Hooks, Rooms, RoomOf,
          BoardHooks,      \* useBoardSocket; the others are useNotificationSocket
          MaxAttempts,     \* RECONNECT_ATTEMPTS
          MaxDelay         \* RECONNECT_DELAY_MAX_MS, the first delay being 1

ASSUME SocketAssumption ==
    /\ RoomOf \in [Hooks -> Rooms] /\ IsFiniteSet(Hooks)
    /\ BoardHooks \subseteq Hooks
    /\ MaxAttempts \in Nat \ {0} /\ MaxDelay \in Nat \ {0}

VARIABLES link,      \* "none", "idle", "dialling", "handshake", "failed", "open"
          connects,  \* CONNECT packets sent over the present connection
          tries,     \* failed attempts since the manager last had a connection
          coolDown,  \* coolDownTimer # null
          refusal,   \* refusalTimer # null
          delay,     \* the wait the next refusal will arm
          hook,      \* where each mount is in its room join
          c2s,       \* packets of this client, those it emits offline included
          checking,  \* joins whose membership read is under way at the gateway
          acks,      \* answers on their way back
          rooms,     \* rooms this connection is in, at the gateway
          path       \* the way to the API: "up", "down" or "refusing"

socketVars == <<link, connects, tries, coolDown, refusal, delay, hook, c2s, checking,
          acks, rooms, path>>

conn == <<link, connects, tries, coolDown, refusal, delay>>
traffic == <<c2s, checking, acks, rooms>>

HookState == {"out", "waiting", "asked", "parked", "joined", "gone"}

Mounted(h) == hook[h] \notin {"out", "gone"}

(* socket.active: from connect() until the socket is destroyed.            *)
active == link \in {"dialling", "handshake", "failed", "open"}

SocketInit ==
    /\ link = "none" /\ connects = 0 /\ tries = 0
    /\ coolDown = FALSE /\ refusal = FALSE /\ delay = 1
    /\ hook = [h \in Hooks |-> "out"]
    /\ c2s = << >> /\ checking = {} /\ acks = {} /\ rooms = {}
    /\ path \in {"up", "down", "refusing"}

-----------------------------------------------------------------------------
(* socket.connect(): dials, or, over a connection that is already up,      *)
(* sends the namespace CONNECT packet at once.                             *)
connect == IF link = "handshake"
           THEN connects' = connects + 1 /\ UNCHANGED <<link, tries>>
           ELSE link' = "dialling" /\ connects' = 0 /\ tries' = 0

connectSocket ==
    IF active THEN UNCHANGED conn
    ELSE connect /\ UNCHANGED <<coolDown, refusal, delay>>

(* The mount of a hook: join now over an open socket, else connect.        *)
Mount(h) ==
    /\ hook[h] = "out"
    /\ IF link = "open"
       THEN /\ hook' = [hook EXCEPT ![h] = "asked"]
            /\ c2s' = Append(c2s, [type |-> "join", hook |-> h])
            /\ UNCHANGED conn
       ELSE /\ hook' = [hook EXCEPT ![h] = "waiting"]
            /\ connectSocket
            /\ UNCHANGED c2s
    /\ UNCHANGED <<checking, acks, rooms, path>>

(* A faulty release that does not count the other holders.                 *)
releaseRoomUncounted(h) == TRUE

releaseRoom(h) ==
    \/ h \in BoardHooks
    \/ \A g \in Hooks \ {h} : Mounted(g) => RoomOf[g] # RoomOf[h]

Unmount(h) ==
    /\ Mounted(h)
    /\ hook' = [hook EXCEPT ![h] = "gone"]
    /\ c2s' = IF releaseRoom(h) THEN Append(c2s, [type |-> "leave", hook |-> h])
              ELSE c2s
    /\ UNCHANGED <<conn, checking, acks, rooms, path>>

(* Sign-out and the like: the instance is dropped, its timers cleared.     *)
disconnectSocket ==
    /\ link # "none"
    /\ link' = "none" /\ connects' = 0 /\ tries' = 0
    /\ coolDown' = FALSE /\ refusal' = FALSE /\ delay' = 1
    /\ hook' = [h \in Hooks |-> IF Mounted(h) THEN "gone" ELSE hook[h]]
    /\ c2s' = << >> /\ checking' = {} /\ acks' = {} /\ rooms' = {}
    /\ UNCHANGED path

-----------------------------------------------------------------------------
(* socket.io: the engine connects and the CONNECT packet goes out ...      *)
Dialled ==
    /\ link = "dialling" /\ path # "down"
    /\ link' = "handshake" /\ connects' = 1 /\ tries' = 0
    /\ UNCHANGED <<coolDown, refusal, delay, hook, traffic, path>>

(* A faulty handler that gives up for good.                                *)
onReconnectFailedForGood == UNCHANGED coolDown

onReconnectFailed == coolDown' = TRUE

(* ... or it cannot, and after MaxAttempts the manager stops trying.       *)
DialFails ==
    /\ link = "dialling" /\ path = "down"
    /\ IF tries + 1 < MaxAttempts
       THEN tries' = tries + 1 /\ UNCHANGED <<link, coolDown>>
       ELSE link' = "failed" /\ tries' = 0 /\ onReconnectFailed
    /\ UNCHANGED <<connects, refusal, delay, hook, traffic, path>>

CoolDownFires ==
    /\ coolDown
    /\ coolDown' = FALSE
    /\ IF link = "open" THEN UNCHANGED <<link, connects, tries>> ELSE connect
    /\ UNCHANGED <<refusal, delay, hook, traffic, path>>

(* onConnected, and every mounted hook starts its join.                    *)
Connected ==
    /\ link = "handshake" /\ path = "up"
    /\ link' = "open" /\ delay' = 1
    /\ hook' = [h \in Hooks |-> IF Mounted(h) THEN "asked" ELSE hook[h]]
    /\ \E order \in [1 .. Cardinality({h \in Hooks : Mounted(h)})
                         -> {h \in Hooks : Mounted(h)}] :
          /\ \A i, j \in DOMAIN order : i # j => order[i] # order[j]
          /\ c2s' = c2s \o [i \in DOMAIN order |->
                               [type |-> "join", hook |-> order[i]]]
    /\ UNCHANGED <<connects, tries, coolDown, refusal, checking, acks, rooms, path>>

nextDelay(d) == IF 2 * d < MaxDelay THEN 2 * d ELSE MaxDelay

onConnectionRefused ==
    IF refusal THEN UNCHANGED <<refusal, delay>>
    ELSE refusal' = TRUE /\ delay' = nextDelay(delay)

(* onDisconnect of every hook: the join is cancelled, its packets die with *)
(* the connection.                                                         *)
LoseConnection ==
    /\ hook' = [h \in Hooks |-> IF Mounted(h) THEN "waiting" ELSE hook[h]]
    /\ c2s' = << >> /\ checking' = {} /\ acks' = {} /\ rooms' = {}

(* The middleware refuses the handshake: socket.io forgets the socket.     *)
Refused ==
    /\ link = "handshake" /\ path = "refusing"
    /\ link' = "idle" /\ connects' = 0 /\ tries' = 0
    /\ onConnectionRefused
    /\ UNCHANGED <<coolDown, hook, traffic, path>>

Kicked ==
    /\ link = "open" /\ path = "refusing"
    /\ link' = "idle" /\ connects' = 0 /\ tries' = 0
    /\ onConnectionRefused
    /\ LoseConnection
    /\ UNCHANGED <<coolDown, path>>

(* The transport drops: socket.io dials again by itself.                   *)
Dropped ==
    /\ link \in {"handshake", "open"} /\ path = "down"
    /\ link' = "dialling" /\ connects' = 0
    /\ LoseConnection
    /\ UNCHANGED <<tries, coolDown, refusal, delay, path>>

RefusalFires ==
    /\ refusal
    /\ refusal' = FALSE
    /\ IF active THEN UNCHANGED <<link, connects, tries>> ELSE connect
    /\ UNCHANGED <<coolDown, delay, hook, traffic, path>>

-----------------------------------------------------------------------------
(* The gateway takes the packets in order; a join waits for its read.      *)
HandlePacket ==
    /\ link = "open" /\ c2s # << >>
    /\ c2s' = Tail(c2s)
    /\ IF Head(c2s).type = "join"
       THEN /\ checking' = checking \cup {Head(c2s).hook}
            /\ UNCHANGED rooms
       ELSE /\ rooms' = rooms \ {RoomOf[Head(c2s).hook]}
            /\ UNCHANGED checking
    /\ UNCHANGED <<conn, hook, acks, path>>

(* onBoardJoin, onNotificationsJoin: in the room, or denied.               *)
AnswerJoin(h) ==
    /\ link = "open" /\ h \in checking
    /\ checking' = checking \ {h}
    /\ \/ /\ rooms' = rooms \cup {RoomOf[h]}
          /\ acks' = acks \cup {[hook |-> h, ok |-> TRUE]}
       \/ /\ path # "up"
          /\ acks' = acks \cup {[hook |-> h, ok |-> FALSE]}
          /\ UNCHANGED rooms
    /\ UNCHANGED <<conn, hook, c2s, path>>

(* The ack of createRoomJoin; a cancelled join ignores it.                 *)
OnAck(ack) ==
    /\ link = "open" /\ ack \in acks
    /\ acks' = acks \ {ack}
    /\ hook' = [hook EXCEPT ![ack.hook] =
                   IF ~ Mounted(ack.hook) THEN @
                   ELSE IF ack.ok THEN "joined" ELSE "parked"]
    /\ UNCHANGED <<conn, c2s, checking, rooms, path>>

RetryJoin(h) ==
    /\ hook[h] = "parked"
    /\ hook' = [hook EXCEPT ![h] = "asked"]
    /\ c2s' = Append(c2s, [type |-> "join", hook |-> h])
    /\ UNCHANGED <<conn, checking, acks, rooms, path>>

PathChanges ==
    /\ path' \in {"up", "down", "refusing"} \ {path}
    /\ UNCHANGED <<conn, hook, traffic>>

-----------------------------------------------------------------------------
SocketStep == \/ Dialled \/ DialFails \/ Connected \/ Refused
              \/ Kicked \/ Dropped

JoinStep == \/ HandlePacket
            \/ \E h \in Hooks : AnswerJoin(h) \/ RetryJoin(h)
            \/ \E ack \in acks : OnAck(ack)

SocketNext == \/ \E h \in Hooks : Mount(h) \/ Unmount(h)
        \/ disconnectSocket
        \/ SocketStep \/ CoolDownFires \/ RefusalFires
        \/ JoinStep
        \/ PathChanges

SocketSpec == SocketInit /\ [][SocketNext]_socketVars

(* Timers fire, sockets answer and the event loop turns; nothing says that *)
(* a hook mounts, unmounts or that the path to the API changes.            *)
SocketFairness ==
    /\ WF_socketVars(SocketStep) /\ WF_socketVars(CoolDownFires)
    /\ WF_socketVars(RefusalFires) /\ WF_socketVars(HandlePacket)
    /\ \A h \in Hooks : WF_socketVars(AnswerJoin(h)) /\ WF_socketVars(RetryJoin(h))
    /\ WF_socketVars(\E ack \in acks : OnAck(ack))

-----------------------------------------------------------------------------
(* Properties.                                                             *)

(* The socket, its timers and its packets keep their types, and the wait   *)
(* before a new attempt stays within its ceiling (onConnectionRefused).    *)
SocketTypeOK ==
    /\ link \in {"none", "idle", "dialling", "handshake", "failed", "open"}
    /\ connects \in Nat
    /\ tries \in 0 .. MaxAttempts - 1
    /\ coolDown \in BOOLEAN /\ refusal \in BOOLEAN
    /\ delay \in 1 .. MaxDelay
    /\ hook \in [Hooks -> HookState]
    /\ c2s \in Seq([type : {"join", "leave"}, hook : Hooks])
    /\ checking \subseteq Hooks
    /\ acks \subseteq [hook : Hooks, ok : BOOLEAN]
    /\ rooms \subseteq Rooms
    /\ path \in {"up", "down", "refusing"}

(* Two hooks that mount milliseconds apart never make the socket send its  *)
(* CONNECT packet twice over one connection, which the server answers by   *)
(* closing it (connectSocket).                                             *)
OneHandshake == connects <= 1

(* A socket some hook waits for is never left for dead: while nothing is   *)
(* dialling, a timer will (onConnectionRefused, onReconnectFailed).        *)
NeverAbandoned ==
    (\E h \in Hooks : Mounted(h)) =>
        /\ link = "failed" => coolDown
        /\ link \in {"none", "idle"} => refusal

(* A hook that shows itself live is in its room at the gateway, whatever   *)
(* the other holders of the room do (releaseRoom, createRoomJoin).         *)
LiveHooksAreInTheirRoom ==
    \A h \in Hooks : hook[h] = "joined" => RoomOf[h] \in rooms

(* Once the API stays reachable every mounted hook gets into its room,     *)
(* whatever drops, refusals and denials came before.                       *)
HooksGetLive ==
    (<>[](path = "up")) =>
        \A h \in Hooks : Mounted(h) ~> hook[h] \in {"joined", "gone"}

(* One handshake at a time, a timer or socket.io always at work on a       *)
(* socket that is wanted, and live hooks in their rooms.                   *)
SocketSound == SocketTypeOK /\ OneHandshake /\ NeverAbandoned /\ LiveHooksAreInTheirRoom

-----------------------------------------------------------------------------
(* Why they hold: the inductive strengthening of the invariants above.     *)

(* A tab shows one board at a time: while a board hook is mounted, no other *)
(* hook that is holds its room.                                            *)
BoardsAlone == \A b \in BoardHooks : \A h \in Hooks \ {b} :
                  Mounted(b) /\ Mounted(h) => RoomOf[h] # RoomOf[b]

(* The socket fails only into its cool-down, and is gone only for nobody.  *)
LinkInv == /\ coolDown <=> link = "failed"
           /\ link = "idle" => refusal
           /\ link = "none" => \A h \in Hooks : ~ Mounted(h)

Asks(i, h) == c2s[i].type = "join" /\ c2s[i].hook = h
Leaves(i, h) == c2s[i].type = "leave" /\ RoomOf[c2s[i].hook] = RoomOf[h]
NoLeave(h) == \A i \in DOMAIN c2s : ~ Leaves(i, h)

(* A mount that has not happened has left no trace, and a connection that  *)
(* is not open carries no join.                                            *)
TraceInv ==
    /\ \A h \in Hooks : hook[h] = "out" =>
          /\ h \notin checking /\ \A ack \in acks : ack.hook # h
          /\ \A i \in DOMAIN c2s : ~ Asks(i, h)
    /\ link # "open" =>
          /\ checking = {} /\ acks = {}
          /\ \A h \in Hooks : /\ Mounted(h) => hook[h] = "waiting"
                              /\ \A i \in DOMAIN c2s : ~ Asks(i, h)

(* From its join on, no leave that is still to come takes a hook out of    *)
(* its room.                                                               *)
JoinHolds(h) ==
    /\ hook[h] = "joined" \/ [hook |-> h, ok |-> TRUE] \in acks =>
          RoomOf[h] \in rooms /\ NoLeave(h)
    /\ h \in checking => NoLeave(h)
    /\ \A i, j \in DOMAIN c2s : Asks(i, h) /\ i < j => ~ Leaves(j, h)

SocketInv == /\ SocketTypeOK /\ OneHandshake /\ LinkInv /\ TraceInv
             /\ \A h \in Hooks : Mounted(h) => JoinHolds(h)
=============================================================================
