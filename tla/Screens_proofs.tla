--------------------------- MODULE Screens_proofs ---------------------------
(***************************************************************************)
(* The screens of a tab, for every number of tasks, files, hooks and rooms:*)
(* the socket that a board and the notification hooks share, and the parts *)
(* of an open task's panel.                                                *)
(***************************************************************************)
EXTENDS TaskPanel, TaskFiles, TaskTalk, ClientSocket, SequenceTheorems, FiniteSetTheorems,
        WellFoundedInduction, TLAPS

-----------------------------------------------------------------------------
(***************************************************************************)
(* The shared socket of a browser tab for any number of hooks and rooms:   *)
(* one handshake at a time, a socket that is wanted is never left for      *)
(* dead, and a hook that shows itself live is in its room.                 *)
(***************************************************************************)

Packets == [type : {"join", "leave"}, hook : Hooks]

(* A packet goes out behind the ones there are.                            *)
LEMMA AppendIs ==
    ASSUME NEW s \in Seq(Packets), NEW p \in Packets
    PROVE  /\ Append(s, p) \in Seq(Packets) /\ Len(s) \in Nat /\ DOMAIN s = 1 .. Len(s)
           /\ DOMAIN Append(s, p) = 1 .. Len(s) + 1
           /\ \A i \in 1 .. Len(s) : Append(s, p)[i] = s[i]
           /\ Append(s, p)[Len(s) + 1] = p
<1>1. /\ Append(s, p) \in Seq(Packets) /\ Len(Append(s, p)) = Len(s) + 1
      /\ \A i \in 1 .. Len(s) : Append(s, p)[i] = s[i]
      /\ Append(s, p)[Len(s) + 1] = p
  BY AppendProperties
<1>2. DOMAIN Append(s, p) = 1 .. Len(Append(s, p)) /\ Len(s) \in Nat /\ DOMAIN s = 1 .. Len(s)
  BY <1>1, LenProperties
<1> QED BY <1>1, <1>2

(* The gateway takes the first packet.                                     *)
LEMMA TailIs ==
    ASSUME NEW s \in Seq(Packets), s # << >>
    PROVE  /\ Tail(s) \in Seq(Packets) /\ Len(s) \in Nat \ {0} /\ DOMAIN s = 1 .. Len(s)
           /\ DOMAIN Tail(s) = 1 .. Len(s) - 1
           /\ \A i \in 1 .. Len(s) - 1 : Tail(s)[i] = s[i + 1]
           /\ Head(s) = s[1] /\ Head(s) \in Packets
<1>1. /\ Head(s) \in Packets /\ Tail(s) \in Seq(Packets) /\ Len(Tail(s)) = Len(s) - 1
      /\ \A i \in 1 .. Len(s) - 1 : Tail(s)[i] = s[i + 1]
      /\ Head(s) = s[1]
  BY HeadTailProperties
<1>2. /\ Len(s) \in Nat /\ Len(s) # 0 /\ DOMAIN s = 1 .. Len(s)
      /\ DOMAIN Tail(s) = 1 .. Len(Tail(s))
  BY <1>1, LenProperties, EmptySeq
<1> QED BY <1>1, <1>2

(* No packet, nobody mounted, and no socket.                               *)
LEMMA InitSocket == SocketInit => SocketInv
<1> SUFFICES ASSUME SocketInit PROVE SocketInv
  OBVIOUS
<1>1. SocketTypeOK
  <2>1. c2s \in Seq([type : {"join", "leave"}, hook : Hooks])
    BY EmptySeq DEF SocketInit
  <2>2. hook \in [Hooks -> HookState]
    BY DEF SocketInit, HookState
  <2>3. /\ connects \in Nat /\ tries \in 0 .. MaxAttempts - 1 /\ delay \in 1 .. MaxDelay
    BY SocketAssumption DEF SocketInit
  <2> QED BY <2>1, <2>2, <2>3 DEF SocketInit, SocketTypeOK
<1>2. OneHandshake /\ LinkInv /\ \A h \in Hooks : ~ Mounted(h)
  BY DEF SocketInit, OneHandshake, LinkInv, Mounted
<1>3. TraceInv
  BY <1>2, EmptySeq DEF SocketInit, TraceInv, Asks
<1> QED BY <1>1, <1>2, <1>3 DEF SocketInv

(* What is not typed by the link, its timers and the path.                 *)
TrafficOK == /\ hook \in [Hooks -> HookState] /\ c2s \in Seq(Packets)
             /\ checking \subseteq Hooks /\ acks \subseteq [hook : Hooks, ok : BOOLEAN]
             /\ rooms \subseteq Rooms

LinkOK == /\ link \in {"none", "idle", "dialling", "handshake", "failed", "open"}
          /\ connects \in Nat /\ connects <= 1
          /\ tries \in 0 .. MaxAttempts - 1
          /\ coolDown \in BOOLEAN /\ refusal \in BOOLEAN
          /\ delay \in 1 .. MaxDelay
          /\ path \in {"up", "down", "refusing"}

(* The types, taken apart: the traffic and the link.                       *)
LEMMA TypesAre == SocketTypeOK /\ OneHandshake <=> TrafficOK /\ LinkOK
BY DEF SocketTypeOK, OneHandshake, TrafficOK, LinkOK, Packets

(* The same, after a step.                                                 *)
LEMMA TypesStay == ASSUME TrafficOK', LinkOK' PROVE (SocketTypeOK /\ OneHandshake)'
BY DEF SocketTypeOK, OneHandshake, TrafficOK, LinkOK, Packets

(* The ceiling of the wait.                                                *)
LEMMA NextDelayIs == ASSUME NEW d \in 1 .. MaxDelay PROVE nextDelay(d) \in 1 .. MaxDelay
BY SocketAssumption DEF nextDelay

(* A new dialling.                                                         *)
LEMMA DialsAnew ==
    ASSUME LinkOK, link' = "dialling", connects' = 0, tries' = 0,
           coolDown' \in BOOLEAN, refusal' \in BOOLEAN, delay' = delay, path' = path
    PROVE  LinkOK'
<1>1. 0 \in 0 .. MaxAttempts - 1
  BY SocketAssumption
<1>2. connects' \in Nat /\ connects' <= 1 /\ tries' \in 0 .. MaxAttempts - 1
  BY <1>1
<1>3. delay' \in 1 .. MaxDelay /\ path' \in {"up", "down", "refusing"}
  BY DEF LinkOK
<1> QED BY <1>2, <1>3 DEF LinkOK

(* A step of the link alone.                                               *)
LEMMA LinkMoves ==
    ASSUME SocketInv, UNCHANGED <<hook, traffic>>, LinkOK', LinkInv',
           link' = "open" <=> link = "open"
    PROVE  SocketInv'
<1>1. UNCHANGED <<hook, c2s, checking, acks, rooms>>
  BY DEF traffic
<1>2. TrafficOK'
  BY <1>1, TypesAre DEF SocketInv, TrafficOK
<1>3. TraceInv'
  BY <1>1 DEF SocketInv, TraceInv, Asks, Mounted
<1>4. \A h \in Hooks : Mounted(h)' => JoinHolds(h)'
  BY <1>1 DEF SocketInv, JoinHolds, Mounted, NoLeave, Asks, Leaves
<1>5. (SocketTypeOK /\ OneHandshake)'
  BY <1>2, TypesStay
<1> QED BY <1>3, <1>4, <1>5 DEF SocketInv

(* Dialling, its failure, and the two timers.                              *)
LEMMA LinkSteps ==
    ASSUME SocketInv,
           Dialled \/ DialFails \/ CoolDownFires \/ Refused \/ RefusalFires \/ PathChanges
    PROVE  SocketInv'
<1>0. LinkOK /\ LinkInv /\ MaxAttempts \in Nat \ {0}
  BY TypesAre, SocketAssumption DEF SocketInv
<1>1. UNCHANGED <<hook, traffic>> /\ \A h \in Hooks : Mounted(h)' = Mounted(h)
  BY DEF Dialled, DialFails, CoolDownFires, Refused, RefusalFires, PathChanges, Mounted, traffic
<1>2. /\ LinkOK'
      /\ link' = "open" <=> link = "open"
      /\ link' = "none" => link = "none"
      /\ coolDown' <=> link' = "failed"
      /\ link' = "idle" => refusal'
  <2>1. CASE Dialled
    BY <1>0, <2>1 DEF Dialled, LinkOK, LinkInv
  <2>2. CASE DialFails
    <3>1. CASE tries + 1 < MaxAttempts
      BY <1>0, <2>2, <3>1 DEF DialFails, LinkOK, LinkInv
    <3>2. CASE ~ tries + 1 < MaxAttempts
      BY <1>0, <2>2, <3>2 DEF DialFails, LinkOK, LinkInv, onReconnectFailed
    <3> QED BY <3>1, <3>2
  <2>3. CASE CoolDownFires
    <3>1. /\ link = "failed" /\ link' = "dialling" /\ connects' = 0 /\ tries' = 0
          /\ coolDown' = FALSE /\ UNCHANGED <<refusal, delay, path>>
      BY <1>0, <2>3 DEF CoolDownFires, LinkInv, connect
    <3>2. LinkOK'
      <4>1. coolDown' \in BOOLEAN /\ refusal' \in BOOLEAN
        BY <1>0, <3>1 DEF LinkOK
      <4> QED BY <1>0, <3>1, <4>1, DialsAnew
    <3>3. link' = "dialling" /\ link = "failed" /\ ~ coolDown'
      BY <3>1
    <3> QED BY <3>2, <3>3
  <2>4. CASE Refused
    <3>1. /\ link = "handshake" /\ link' = "idle" /\ connects' = 0 /\ tries' = 0
          /\ UNCHANGED <<coolDown, path>>
      BY <2>4 DEF Refused
    <3>2. refusal' = TRUE /\ delay' \in 1 .. MaxDelay
      BY <1>0, <2>4, NextDelayIs DEF Refused, onConnectionRefused, LinkOK
    <3> QED BY <1>0, <3>1, <3>2 DEF LinkOK, LinkInv
  <2>5. CASE RefusalFires
    <3>1. /\ refusal' = FALSE /\ UNCHANGED <<coolDown, delay, path>>
      BY <2>5 DEF RefusalFires
    <3>2. CASE active
      <4>1. link \notin {"none", "idle"} /\ UNCHANGED <<link, connects, tries>>
        BY <2>5, <3>2 DEF RefusalFires, active
      <4> QED BY <1>0, <3>1, <4>1 DEF LinkOK, LinkInv
    <3>3. CASE ~ active
      <4>1. link \in {"none", "idle"}
        BY <1>0, <3>3 DEF active, LinkOK
      <4>2. link' = "dialling" /\ connects' = 0 /\ tries' = 0
        BY <2>5, <3>3, <4>1 DEF RefusalFires, connect
      <4>3. coolDown' = coolDown /\ coolDown' \in BOOLEAN /\ refusal' \in BOOLEAN
        BY <1>0, <3>1 DEF LinkOK
      <4>4. LinkOK'
        BY <1>0, <3>1, <4>2, <4>3, DialsAnew
      <4> QED BY <1>0, <4>1, <4>2, <4>3, <4>4 DEF LinkInv
    <3> QED BY <3>2, <3>3
  <2>6. CASE PathChanges
    <3>1. /\ UNCHANGED <<link, connects, tries, coolDown, refusal, delay>>
          /\ path' \in {"up", "down", "refusing"}
      BY <2>6 DEF PathChanges, conn
    <3>2. LinkOK'
      BY <1>0, <3>1 DEF LinkOK
    <3>3. link' = link /\ coolDown' = coolDown /\ refusal' = refusal
      BY <3>1
    <3> QED BY <1>0, <3>2, <3>3 DEF LinkInv
  <2> QED BY <2>1, <2>2, <2>3, <2>4, <2>5, <2>6
<1>3. LinkInv'
  BY <1>0, <1>1, <1>2 DEF LinkInv
<1> QED BY <1>1, <1>2, <1>3, LinkMoves

(* A leave that is there, or is not, after a step.                         *)
LEMMA PrimedTraces ==
    ASSUME NEW h \in Hooks
    PROVE  /\ Mounted(h)' <=> hook'[h] \notin {"out", "gone"}
           /\ JoinHolds(h)' <=>
                 /\ hook'[h] = "joined" \/ [hook |-> h, ok |-> TRUE] \in acks' =>
                       RoomOf[h] \in rooms' /\ NoLeave(h)'
                 /\ h \in checking' => NoLeave(h)'
                 /\ \A i, j \in DOMAIN c2s' : Asks(i, h)' /\ i < j => ~ Leaves(j, h)'
BY DEF Mounted, JoinHolds, NoLeave, Asks, Leaves

(* The connection is gone, and with it every packet and every room.        *)
LEMMA NothingUnderWay ==
    ASSUME SocketInv, LinkOK', LinkInv', link' # "open", c2s' = << >>,
           checking' = {}, acks' = {}, rooms' = {}, hook' \in [Hooks -> HookState],
           \A h \in Hooks : Mounted(h)' => hook'[h] = "waiting"
    PROVE  SocketInv'
<1>1. TrafficOK'
  BY EmptySeq DEF TrafficOK
<1>2. (SocketTypeOK /\ OneHandshake)'
  BY <1>1, TypesStay
<1>3. DOMAIN c2s' = {}
  BY EmptySeq
<1>4. TraceInv'
  BY <1>3 DEF TraceInv, Asks, Mounted
<1>5. ASSUME NEW h \in Hooks, Mounted(h)' PROVE JoinHolds(h)'
  BY <1>3, <1>5 DEF JoinHolds, NoLeave, Asks, Leaves
<1> QED BY <1>2, <1>4, <1>5 DEF SocketInv

(* A connection is lost, or the socket is disconnected.                    *)
LEMMA LosingSteps == SocketInv /\ (Kicked \/ Dropped \/ disconnectSocket) => SocketInv'
<1> SUFFICES ASSUME SocketInv, Kicked \/ Dropped \/ disconnectSocket PROVE SocketInv'
  OBVIOUS
<1>0. LinkOK /\ LinkInv /\ TrafficOK /\ 0 \in 0 .. MaxAttempts - 1
  BY TypesAre, SocketAssumption DEF SocketInv
<1>1. ASSUME Kicked \/ Dropped PROVE SocketInv'
  <2>1. LoseConnection /\ path' = path /\ coolDown' = coolDown /\ connects' = 0
    BY <1>1 DEF Kicked, Dropped
  <2>a. /\ tries' \in 0 .. MaxAttempts - 1 /\ coolDown' \in BOOLEAN
        /\ connects' \in Nat /\ connects' <= 1 /\ path' \in {"up", "down", "refusing"}
    <3>1. tries' = 0 \/ tries' = tries
      BY <1>1 DEF Kicked, Dropped
    <3> QED BY <1>0, <2>1, <3>1 DEF LinkOK
  <2>b. ~ coolDown
    <3>1. link # "failed"
      BY <1>1 DEF Kicked, Dropped
    <3> QED BY <1>0, <3>1 DEF LinkInv
  <2>2. /\ link' \in {"idle", "dialling"}
        /\ link' = "idle" => refusal'
        /\ refusal' \in BOOLEAN /\ delay' \in 1 .. MaxDelay
    <3>1. ASSUME Kicked PROVE link' = "idle" /\ refusal' = TRUE /\ delay' \in 1 .. MaxDelay
      <4>1. link' = "idle" /\ onConnectionRefused
        BY <3>1 DEF Kicked
      <4>2. CASE refusal
        BY <1>0, <4>1, <4>2 DEF onConnectionRefused, LinkOK
      <4>3. CASE ~ refusal
        BY <1>0, <4>1, <4>3, NextDelayIs DEF onConnectionRefused, LinkOK
      <4> QED BY <4>2, <4>3
    <3>2. ASSUME Dropped
          PROVE  link' = "dialling" /\ refusal' \in BOOLEAN /\ delay' \in 1 .. MaxDelay
      <4>1. link' = "dialling" /\ refusal' = refusal /\ delay' = delay
        BY <3>2 DEF Dropped
      <4> QED BY <1>0, <4>1 DEF LinkOK
    <3>3. CASE Kicked
      BY <3>1, <3>3
    <3>4. CASE Dropped
      BY <3>2, <3>4
    <3> QED BY <1>1, <3>3, <3>4
  <2>3. LinkOK'
    BY <2>2, <2>a DEF LinkOK
  <2>4. LinkInv'
    <3>1. link' # "failed" /\ link' # "none" /\ ~ coolDown'
      BY <2>1, <2>2, <2>b
    <3> QED BY <2>2, <3>1 DEF LinkInv
  <2>5. /\ hook' = [h \in Hooks |-> IF Mounted(h) THEN "waiting" ELSE hook[h]]
        /\ c2s' = << >> /\ checking' = {} /\ acks' = {} /\ rooms' = {}
    BY <2>1 DEF LoseConnection
  <2>6. /\ hook' \in [Hooks -> HookState]
        /\ \A h \in Hooks : Mounted(h)' => hook'[h] = "waiting"
    BY <1>0, <2>5 DEF TrafficOK, HookState, Mounted
  <2> QED BY <2>2, <2>3, <2>4, <2>5, <2>6, NothingUnderWay
<1>2. ASSUME disconnectSocket PROVE SocketInv'
  <2>1. /\ link' = "none" /\ connects' = 0 /\ tries' = 0 /\ coolDown' = FALSE
        /\ refusal' = FALSE /\ delay' = 1 /\ UNCHANGED path
        /\ hook' = [h \in Hooks |-> IF Mounted(h) THEN "gone" ELSE hook[h]]
        /\ c2s' = << >> /\ checking' = {} /\ acks' = {} /\ rooms' = {}
    BY <1>2 DEF disconnectSocket
  <2>2. LinkOK'
    <3>1. connects' \in Nat /\ connects' <= 1 /\ tries' \in 0 .. MaxAttempts - 1
      BY <1>0, <2>1
    <3>2. delay' \in 1 .. MaxDelay
      BY <2>1, SocketAssumption
    <3>3. path' \in {"up", "down", "refusing"}
      BY <1>0, <2>1 DEF LinkOK
    <3>4. /\ link' \in {"none", "idle", "dialling", "handshake", "failed", "open"}
          /\ coolDown' \in BOOLEAN /\ refusal' \in BOOLEAN
      BY <2>1
    <3> QED BY <3>1, <3>2, <3>3, <3>4 DEF LinkOK
  <2>3. hook' \in [Hooks -> HookState] /\ \A h \in Hooks : ~ Mounted(h)'
    BY <1>0, <2>1 DEF TrafficOK, HookState, Mounted
  <2>4. LinkInv'
    BY <2>1, <2>3 DEF LinkInv
  <2> QED BY <2>1, <2>2, <2>3, <2>4, NothingUnderWay
<1> QED BY <1>1, <1>2

(* A packet that takes hook h out of its room, and one that asks it in.    *)
Parts(p, h) == p.type = "leave" /\ RoomOf[p.hook] = RoomOf[h]
Begins(p, h) == p.type = "join" /\ p.hook = h

(* A packet sent behind the ones there are adds what it asks, and no more. *)
LEMMA PacketGoesOut ==
    ASSUME TrafficOK, NEW p \in Packets, NEW h \in Hooks, c2s' = Append(c2s, p)
    PROVE  /\ c2s' \in Seq(Packets)
           /\ ~ Parts(p, h) /\ NoLeave(h) => NoLeave(h)'
           /\ ~ Parts(p, h) /\ (\A i, j \in DOMAIN c2s : Asks(i, h) /\ i < j => ~ Leaves(j, h))
                 => \A i, j \in DOMAIN c2s' : Asks(i, h)' /\ i < j => ~ Leaves(j, h)'
           /\ ~ Begins(p, h) /\ (\A i \in DOMAIN c2s : ~ Asks(i, h))
                 => \A i \in DOMAIN c2s' : ~ Asks(i, h)'
           /\ ~ Parts(p, h) /\ (\A i \in DOMAIN c2s : ~ Asks(i, h))
                 => \A i, j \in DOMAIN c2s' : Asks(i, h)' /\ i < j => ~ Leaves(j, h)'
<1> PICK n : n = Len(c2s)
  OBVIOUS
<1>1. c2s \in Seq(Packets)
  BY DEF TrafficOK
<1>2. /\ c2s' \in Seq(Packets) /\ n \in Nat /\ DOMAIN c2s = 1 .. n
      /\ DOMAIN c2s' = 1 .. n + 1
      /\ \A i \in 1 .. n : c2s'[i] = c2s[i]
      /\ c2s'[n + 1] = p
  BY <1>1, AppendIs
<1>3. ASSUME NEW i \in DOMAIN c2s'
      PROVE  /\ i \in 1 .. n => (Asks(i, h)' <=> Asks(i, h)) /\ (Leaves(i, h)' <=> Leaves(i, h))
             /\ i \notin 1 .. n => (Leaves(i, h)' => Parts(p, h)) /\ (Asks(i, h)' => Begins(p, h))
  BY <1>2 DEF Asks, Leaves, Parts, Begins
<1>4. ASSUME ~ Parts(p, h), NEW i \in DOMAIN c2s', Leaves(i, h)' PROVE i \in 1 .. n /\ Leaves(i, h)
  <2>1. CASE i \in 1 .. n
    BY <1>3, <1>4, <2>1
  <2>2. CASE i \notin 1 .. n
    BY <1>3, <1>4, <2>2
  <2> QED BY <2>1, <2>2
<1>5. ~ Parts(p, h) /\ NoLeave(h) => NoLeave(h)'
  BY <1>2, <1>4 DEF NoLeave
<1>6. ASSUME ~ Parts(p, h), NEW i \in DOMAIN c2s', NEW j \in DOMAIN c2s',
             Asks(i, h)', i < j, Leaves(j, h)'
      PROVE  i \in DOMAIN c2s /\ j \in DOMAIN c2s /\ Asks(i, h) /\ Leaves(j, h)
  <2>1. j \in 1 .. n /\ Leaves(j, h)
    BY <1>2, <1>4, <1>6
  <2>2. i \in 1 .. n
    BY <1>2, <1>6, <2>1
  <2> QED BY <1>2, <1>3, <1>6, <2>1, <2>2
<1>7. ASSUME ~ Begins(p, h), NEW i \in DOMAIN c2s', Asks(i, h)' PROVE i \in DOMAIN c2s /\ Asks(i, h)
  <2>1. CASE i \in 1 .. n
    BY <1>2, <1>3, <1>7, <2>1
  <2>2. CASE i \notin 1 .. n
    BY <1>3, <1>7, <2>2
  <2> QED BY <2>1, <2>2
<1>8. ~ Parts(p, h) /\ (\A i, j \in DOMAIN c2s : Asks(i, h) /\ i < j => ~ Leaves(j, h))
         => \A i, j \in DOMAIN c2s' : Asks(i, h)' /\ i < j => ~ Leaves(j, h)'
  BY <1>6
<1>9. ~ Parts(p, h) /\ (\A i \in DOMAIN c2s : ~ Asks(i, h))
         => \A i, j \in DOMAIN c2s' : Asks(i, h)' /\ i < j => ~ Leaves(j, h)'
  BY <1>6
<1> QED BY <1>2, <1>5, <1>7, <1>8, <1>9

(* A join takes nobody out of a room, and begins for its own hook.         *)
LEMMA JoinGoesOut ==
    ASSUME TrafficOK, NEW g \in Hooks, NEW h \in Hooks,
           c2s' = Append(c2s, [type |-> "join", hook |-> g])
    PROVE  /\ c2s' \in Seq(Packets)
           /\ NoLeave(h) => NoLeave(h)'
           /\ (\A i, j \in DOMAIN c2s : Asks(i, h) /\ i < j => ~ Leaves(j, h))
                 => \A i, j \in DOMAIN c2s' : Asks(i, h)' /\ i < j => ~ Leaves(j, h)'
           /\ g # h => ((\A i \in DOMAIN c2s : ~ Asks(i, h))
                            => \A i \in DOMAIN c2s' : ~ Asks(i, h)')
           /\ (\A i \in DOMAIN c2s : ~ Asks(i, h))
                 => \A i, j \in DOMAIN c2s' : Asks(i, h)' /\ i < j => ~ Leaves(j, h)'
<1> DEFINE p == [type |-> "join", hook |-> g]
<1>1. p \in Packets /\ ~ Parts(p, h) /\ (g # h => ~ Begins(p, h))
  BY DEF Packets, Parts, Begins
<1>2. c2s' = Append(c2s, p)
  OBVIOUS
<1> HIDE DEF p
<1> QED BY <1>1, <1>2, PacketGoesOut

(* The parts of the invariant that a step of the traffic has to keep.      *)
LEMMA TrafficMoves ==
    ASSUME SocketInv, UNCHANGED <<conn, path>>, TrafficOK', TraceInv',
           \A h \in Hooks : Mounted(h)' => Mounted(h) \/ link # "none",
           \A h \in Hooks : Mounted(h)' => JoinHolds(h)'
    PROVE  SocketInv'
<1>1. LinkOK /\ LinkInv
  BY TypesAre DEF SocketInv
<1>2. LinkOK'
  BY <1>1 DEF LinkOK, conn
<1>3. (SocketTypeOK /\ OneHandshake)'
  BY <1>2, TypesStay
<1>4. LinkInv'
  <2>1. link' = link /\ coolDown' = coolDown /\ refusal' = refusal
    BY DEF conn
  <2>2. link = "none" => \A h \in Hooks : ~ Mounted(h)'
    BY <1>1 DEF LinkInv
  <2> QED BY <1>1, <2>1, <2>2 DEF LinkInv
<1> QED BY <1>3, <1>4 DEF SocketInv

(* A denied join goes out again.                                           *)
LEMMA Retries == ASSUME SocketInv, NEW h \in Hooks, RetryJoin(h) PROVE SocketInv'
<1>0. TrafficOK /\ LinkInv /\ TraceInv
  BY TypesAre DEF SocketInv
<1>1. /\ hook[h] = "parked" /\ hook' = [hook EXCEPT ![h] = "asked"]
      /\ c2s' = Append(c2s, [type |-> "join", hook |-> h])
      /\ UNCHANGED <<conn, checking, acks, rooms, path>>
  BY DEF RetryJoin
<1>2. /\ Mounted(h) /\ link' = "open" /\ link = "open"
  BY <1>0, <1>1 DEF Mounted, TraceInv, conn
<1>3. TrafficOK'
  <2>1. hook' \in [Hooks -> HookState]
    BY <1>0, <1>1 DEF TrafficOK, HookState
  <2>2. c2s' \in Seq(Packets)
    BY <1>0, <1>1, JoinGoesOut
  <2> QED BY <1>0, <1>1, <2>1, <2>2 DEF TrafficOK
<1>4. \A g \in Hooks : /\ g # h => hook'[g] = hook[g]
                       /\ hook'[g] = "joined" => g # h
                       /\ hook'[g] = "out" => g # h
  BY <1>0, <1>1 DEF TrafficOK
<1>5. TraceInv'
  <2>1. ASSUME NEW g \in Hooks, hook'[g] = "out"
        PROVE  /\ g \notin checking' /\ \A ack \in acks' : ack.hook # g
               /\ \A i \in DOMAIN c2s' : ~ Asks(i, g)'
    <3>1. g # h /\ hook[g] = "out"
      BY <1>4, <2>1
    <3>2. \A i \in DOMAIN c2s : ~ Asks(i, g)
      BY <1>0, <3>1 DEF TraceInv
    <3>3. \A i \in DOMAIN c2s' : ~ Asks(i, g)'
      BY <1>0, <1>1, <3>1, <3>2, JoinGoesOut
    <3> QED BY <1>0, <1>1, <3>1, <3>3 DEF TraceInv
  <2> QED BY <1>2, <2>1 DEF TraceInv, Asks
<1>6. ASSUME NEW g \in Hooks, Mounted(g)' PROVE JoinHolds(g)'
  <2>1. Mounted(g)
    BY <1>0, <1>1, <1>2, <1>6 DEF Mounted, TrafficOK
  <2>2. JoinHolds(g)
    BY <2>1 DEF SocketInv
  <2>3. hook'[g] = "joined" => hook[g] = "joined"
    BY <1>4
  <2>4. /\ NoLeave(g) => NoLeave(g)'
        /\ \A i, j \in DOMAIN c2s' : Asks(i, g)' /\ i < j => ~ Leaves(j, g)'
    BY <1>0, <1>1, <2>2, JoinGoesOut DEF JoinHolds
  <2>5. acks' = acks /\ checking' = checking /\ rooms' = rooms
    BY <1>1
  <2> QED BY <2>2, <2>3, <2>4, <2>5, PrimedTraces DEF JoinHolds
<1>7. \A g \in Hooks : Mounted(g)' => Mounted(g) \/ link # "none"
  BY <1>2
<1> QED BY <1>1, <1>3, <1>5, <1>6, <1>7, TrafficMoves

(* A hook unmounts; its leave takes no mounted hook out of its room.       *)
LEMMA Unmounts ==
    ASSUME SocketInv, BoardsAlone, NEW h \in Hooks, Unmount(h) PROVE SocketInv'
<1>0. TrafficOK /\ LinkInv /\ TraceInv
  BY TypesAre DEF SocketInv
<1>1. /\ Mounted(h) /\ hook' = [hook EXCEPT ![h] = "gone"]
      /\ UNCHANGED <<conn, checking, acks, rooms, path>> /\ link' = link
  BY DEF Unmount, conn
<1> DEFINE p == [type |-> "leave", hook |-> h]
<1>2. c2s' = c2s \/ (releaseRoom(h) /\ c2s' = Append(c2s, p))
  BY DEF Unmount
<1>3. p \in Packets /\ p.hook = h /\ \A g \in Hooks : ~ Begins(p, g)
  BY DEF Packets, Begins
<1>4. \A g \in Hooks : /\ g # h => hook'[g] = hook[g]
                       /\ hook'[g] # "gone" => g # h
  BY <1>0, <1>1 DEF TrafficOK
<1>5. ASSUME releaseRoom(h), NEW g \in Hooks \ {h}, Mounted(g) PROVE ~ Parts(p, g)
  <2>1. RoomOf[g] # RoomOf[h]
    BY <1>1, <1>5 DEF releaseRoom, BoardsAlone
  <2> QED BY <1>3, <2>1 DEF Parts
<1> HIDE DEF p
<1>6. TrafficOK'
  <2>1. hook' \in [Hooks -> HookState]
    BY <1>0, <1>1 DEF TrafficOK, HookState
  <2>2. c2s' \in Seq(Packets)
    <3>1. CASE c2s' = c2s
      BY <1>0, <3>1 DEF TrafficOK
    <3>2. CASE c2s' = Append(c2s, p)
      BY <1>0, <1>3, <3>2, PacketGoesOut
    <3> QED BY <1>2, <3>1, <3>2
  <2> QED BY <1>0, <1>1, <2>1, <2>2 DEF TrafficOK
<1>7. ASSUME NEW g \in Hooks, \A i \in DOMAIN c2s : ~ Asks(i, g)
      PROVE  \A i \in DOMAIN c2s' : ~ Asks(i, g)'
  <2>1. CASE c2s' = c2s
    BY <1>7, <2>1 DEF Asks
  <2>2. CASE c2s' = Append(c2s, p)
    BY <1>0, <1>3, <1>7, <2>2, PacketGoesOut
  <2> QED BY <1>2, <2>1, <2>2
<1>8. TraceInv'
  <2>1. ASSUME NEW g \in Hooks, hook'[g] = "out"
        PROVE  /\ g \notin checking' /\ \A ack \in acks' : ack.hook # g
               /\ \A i \in DOMAIN c2s' : ~ Asks(i, g)'
    <3>1. hook[g] = "out"
      BY <1>4, <2>1
    <3> QED BY <1>0, <1>1, <1>7, <3>1 DEF TraceInv
  <2>2. ASSUME link' # "open"
        PROVE  /\ checking' = {} /\ acks' = {}
               /\ \A g \in Hooks : /\ Mounted(g)' => hook'[g] = "waiting"
                                   /\ \A i \in DOMAIN c2s' : ~ Asks(i, g)'
    <3>1. link # "open"
      BY <1>1, <2>2
    <3>2. \A g \in Hooks : Mounted(g)' => hook'[g] = "waiting"
      BY <1>0, <1>4, <3>1 DEF TraceInv, Mounted
    <3> QED BY <1>0, <1>1, <1>7, <3>1, <3>2 DEF TraceInv
  <2> QED BY <2>1, <2>2 DEF TraceInv
<1>9. ASSUME NEW g \in Hooks, Mounted(g)' PROVE Mounted(g) /\ JoinHolds(g)'
  <2>1. g # h /\ Mounted(g) /\ hook'[g] = hook[g]
    BY <1>4, <1>9 DEF Mounted
  <2>2. JoinHolds(g)
    BY <2>1 DEF SocketInv
  <2>3. /\ NoLeave(g) => NoLeave(g)'
        /\ \A i, j \in DOMAIN c2s' : Asks(i, g)' /\ i < j => ~ Leaves(j, g)'
    <3>1. CASE c2s' = c2s
      BY <2>2, <3>1 DEF Asks, Leaves, NoLeave, JoinHolds
    <3>2. CASE releaseRoom(h) /\ c2s' = Append(c2s, p)
      <4>1. ~ Parts(p, g)
        BY <1>5, <2>1, <3>2
      <4> QED BY <1>0, <1>3, <2>2, <3>2, <4>1, PacketGoesOut DEF JoinHolds
    <3> QED BY <1>2, <3>1, <3>2
  <2>4. acks' = acks /\ checking' = checking /\ rooms' = rooms
    BY <1>1
  <2>5. JoinHolds(g)'
    BY <2>1, <2>2, <2>3, <2>4, PrimedTraces DEF JoinHolds
  <2> QED BY <2>1, <2>5
<1> QED BY <1>1, <1>6, <1>8, <1>9, TrafficMoves

(* A hook mounts: its join is the only packet it has left behind.          *)
LEMMA Mounts == ASSUME SocketInv, NEW h \in Hooks, Mount(h) PROVE SocketInv'
<1>0. TrafficOK /\ LinkOK /\ LinkInv /\ TraceInv
  BY TypesAre DEF SocketInv
<1>1. hook[h] = "out" /\ UNCHANGED <<checking, acks, rooms, path>>
  BY DEF Mount
<1>2. /\ h \notin checking /\ \A ack \in acks : ack.hook # h
      /\ \A i \in DOMAIN c2s : ~ Asks(i, h)
  BY <1>0, <1>1 DEF TraceInv
<1>3. [hook |-> h, ok |-> TRUE] \notin acks
  BY <1>2
<1>4. ASSUME link = "open" PROVE SocketInv'
  <2>1. /\ hook' = [hook EXCEPT ![h] = "asked"] /\ UNCHANGED conn /\ link' = "open"
        /\ c2s' = Append(c2s, [type |-> "join", hook |-> h])
    BY <1>4 DEF Mount, conn
  <2>2. \A g \in Hooks : /\ g # h => hook'[g] = hook[g]
                         /\ hook'[g] \in {"joined", "out"} => g # h
    BY <1>0, <2>1 DEF TrafficOK
  <2>3. TrafficOK'
    <3>1. hook' \in [Hooks -> HookState]
      BY <1>0, <2>1 DEF TrafficOK, HookState
    <3>2. c2s' \in Seq(Packets)
      BY <1>0, <2>1, JoinGoesOut
    <3> QED BY <1>0, <1>1, <3>1, <3>2 DEF TrafficOK
  <2>4. TraceInv'
    <3>1. ASSUME NEW g \in Hooks, hook'[g] = "out"
          PROVE  /\ g \notin checking' /\ \A ack \in acks' : ack.hook # g
                 /\ \A i \in DOMAIN c2s' : ~ Asks(i, g)'
      <4>1. g # h /\ hook[g] = "out"
        BY <2>2, <3>1
      <4>2. \A i \in DOMAIN c2s : ~ Asks(i, g)
        BY <1>0, <4>1 DEF TraceInv
      <4>3. \A i \in DOMAIN c2s' : ~ Asks(i, g)'
        BY <1>0, <2>1, <4>1, <4>2, JoinGoesOut
      <4> QED BY <1>0, <1>1, <4>1, <4>3 DEF TraceInv
    <3> QED BY <2>1, <3>1 DEF TraceInv
  <2>5. ASSUME NEW g \in Hooks, Mounted(g)' PROVE JoinHolds(g)'
    <3>1. acks' = acks /\ checking' = checking /\ rooms' = rooms
      BY <1>1
    <3>2. CASE g = h
      <4>1. \A i, j \in DOMAIN c2s' : Asks(i, h)' /\ i < j => ~ Leaves(j, h)'
        BY <1>0, <1>2, <2>1, JoinGoesOut
      <4>2. hook'[h] # "joined"
        BY <2>2
      <4>3. JoinHolds(h)'
        BY <1>2, <1>3, <3>1, <4>1, <4>2, PrimedTraces
      <4> QED BY <3>2, <4>3
    <3>3. CASE g # h
      <4>1. Mounted(g) /\ hook'[g] = hook[g]
        BY <2>2, <2>5, <3>3 DEF Mounted
      <4>2. JoinHolds(g)
        BY <4>1 DEF SocketInv
      <4>3. /\ NoLeave(g) => NoLeave(g)'
            /\ \A i, j \in DOMAIN c2s' : Asks(i, g)' /\ i < j => ~ Leaves(j, g)'
        BY <1>0, <2>1, <4>2, JoinGoesOut DEF JoinHolds
      <4> QED BY <3>1, <4>1, <4>2, <4>3, PrimedTraces DEF JoinHolds
    <3> QED BY <3>2, <3>3
  <2>6. \A g \in Hooks : Mounted(g)' => Mounted(g) \/ link # "none"
    BY <1>4
  <2> QED BY <1>1, <2>1, <2>3, <2>4, <2>5, <2>6, TrafficMoves
<1>5. ASSUME link # "open" PROVE SocketInv'
  <2>1. hook' = [hook EXCEPT ![h] = "waiting"] /\ connectSocket /\ c2s' = c2s
    BY <1>5 DEF Mount
  <2>2. /\ LinkOK' /\ link' # "open" /\ link' # "none" /\ coolDown' = coolDown
        /\ refusal' = refusal
        /\ link' = link \/ (link \in {"none", "idle"} /\ link' = "dialling")
    <3>1. CASE active
      <4>1. UNCHANGED conn /\ link \notin {"none", "idle"}
        BY <2>1, <3>1 DEF connectSocket, active
      <4> QED BY <1>0, <1>1, <1>5, <4>1 DEF LinkOK, conn
    <3>2. CASE ~ active
      <4>1. link \in {"none", "idle"}
        BY <1>0, <3>2 DEF active, LinkOK
      <4>2. /\ link' = "dialling" /\ connects' = 0 /\ tries' = 0
            /\ UNCHANGED <<coolDown, refusal, delay>>
        BY <2>1, <3>2, <4>1 DEF connectSocket, connect
      <4>3. coolDown' \in BOOLEAN /\ refusal' \in BOOLEAN
        BY <1>0, <4>2 DEF LinkOK
      <4> QED BY <1>0, <1>1, <4>1, <4>2, <4>3, DialsAnew
    <3> QED BY <3>1, <3>2
  <2>3. LinkInv'
    <3>1. coolDown' <=> link' = "failed"
      BY <1>0, <2>2 DEF LinkInv
    <3>2. link' = "idle" => refusal'
      BY <1>0, <2>2 DEF LinkInv
    <3> QED BY <2>2, <3>1, <3>2 DEF LinkInv
  <2>4. \A g \in Hooks : /\ g # h => hook'[g] = hook[g]
                         /\ g = h => hook'[g] = "waiting"
    BY <1>0, <2>1 DEF TrafficOK
  <2>5. TrafficOK'
    <3>1. hook' \in [Hooks -> HookState]
      BY <1>0, <2>1 DEF TrafficOK, HookState
    <3> QED BY <1>0, <1>1, <2>1, <3>1 DEF TrafficOK
  <2>6. /\ checking' = {} /\ acks' = {} /\ \A g \in Hooks : Mounted(g)' => hook'[g] = "waiting"
        /\ \A g \in Hooks : \A i \in DOMAIN c2s' : ~ Asks(i, g)'
    <3>1. \A g \in Hooks : \A i \in DOMAIN c2s : ~ Asks(i, g)
      BY <1>0, <1>5 DEF TraceInv
    <3>2. \A g \in Hooks : Mounted(g)' => hook'[g] = "waiting"
      BY <1>0, <1>5, <2>4 DEF TraceInv, Mounted
    <3>3. checking' = {} /\ acks' = {}
      BY <1>0, <1>1, <1>5 DEF TraceInv
    <3> QED BY <2>1, <3>1, <3>2, <3>3 DEF Asks
  <2>7. TraceInv'
    BY <2>6 DEF TraceInv
  <2>8. ASSUME NEW g \in Hooks, Mounted(g)' PROVE JoinHolds(g)'
    <3>1. hook'[g] # "joined"
      BY <2>6, <2>8
    <3> QED BY <2>6, <3>1, PrimedTraces
  <2>9. (SocketTypeOK /\ OneHandshake)'
    BY <2>2, <2>5, TypesStay
  <2> QED BY <2>3, <2>7, <2>8, <2>9 DEF SocketInv
<1> QED BY <1>4, <1>5

(* The socket connects and every mounted hook asks to join: behind the     *)
(* leaves that were emitted offline.                                       *)
LEMMA Connects == ASSUME SocketInv, Connected PROVE SocketInv'
<1>0. TrafficOK /\ LinkOK /\ LinkInv /\ TraceInv
  BY TypesAre DEF SocketInv
<1> DEFINE M == {h \in Hooks : Mounted(h)}
<1>1. /\ link = "handshake" /\ link' = "open" /\ delay' = 1
      /\ hook' = [h \in Hooks |-> IF Mounted(h) THEN "asked" ELSE hook[h]]
      /\ UNCHANGED <<connects, tries, coolDown, refusal, checking, acks, rooms, path>>
  BY DEF Connected
<1>2. PICK order \in [1 .. Cardinality(M) -> M] :
         c2s' = c2s \o [i \in DOMAIN order |-> [type |-> "join", hook |-> order[i]]]
  BY DEF Connected
<1>3. PICK n \in Nat : n = Cardinality(M)
  BY SocketAssumption, FS_Subset, FS_CardinalityType
<1>4. PICK s : s = [i \in 1 .. n |-> [type |-> "join", hook |-> order[i]]]
  OBVIOUS
<1>5. PICK S : S = M
  OBVIOUS
<1>6. /\ order \in [1 .. n -> S] /\ S \subseteq Hooks
      /\ \A h \in S : hook[h] \notin {"out", "gone"}
  BY <1>3, <1>5 DEF Mounted
<1>7. c2s' = c2s \o s
  BY <1>2, <1>3, <1>4
<1> HIDE DEF M
<1>8. /\ s \in Seq(Packets) /\ Len(s) = n /\ \A i \in 1 .. n : s[i].type = "join" /\ s[i].hook \in S
  <2>1. \A i \in 1 .. n : [type |-> "join", hook |-> order[i]] \in Packets
    BY <1>6 DEF Packets
  <2>2. s \in Seq(Packets)
    BY <1>4, <2>1, IsASeq
  <2>3. DOMAIN s = 1 .. n /\ \A i \in 1 .. n : s[i].type = "join" /\ s[i].hook = order[i]
    BY <1>4
  <2>4. Len(s) = n
    BY <1>3, <2>2, <2>3, LenProperties
  <2> QED BY <1>6, <2>2, <2>3, <2>4
<1>9. PICK m \in Nat : m = Len(c2s)
  BY <1>0, LenProperties DEF TrafficOK
<1>10. /\ c2s' \in Seq(Packets) /\ DOMAIN c2s = 1 .. m /\ DOMAIN c2s' = 1 .. m + n
       /\ \A i \in 1 .. m + n : c2s'[i] = IF i <= m THEN c2s[i] ELSE s[i - m]
  <2>1. c2s \in Seq(Packets)
    BY <1>0 DEF TrafficOK
  <2>2. /\ c2s' \in Seq(Packets) /\ Len(c2s') = m + n
        /\ \A i \in 1 .. m + n : c2s'[i] = IF i <= m THEN c2s[i] ELSE s[i - m]
    BY <1>7, <1>8, <1>9, <2>1, ConcatProperties
  <2> QED BY <1>9, <2>1, <2>2, LenProperties
<1>11. ASSUME NEW i \in DOMAIN c2s', NEW h \in Hooks
       PROVE  /\ i <= m => ~ Asks(i, h)'
              /\ i > m => ~ Leaves(i, h)' /\ (Asks(i, h)' => h \in S)
  <2>1. CASE i <= m
    <3>1. i \in DOMAIN c2s /\ c2s'[i] = c2s[i]
      BY <1>9, <1>10, <2>1
    <3>2. ~ Asks(i, h)
      BY <1>0, <1>1, <3>1 DEF TraceInv
    <3>3. ~ Asks(i, h)'
      BY <3>1, <3>2 DEF Asks
    <3> QED BY <1>9, <1>10, <2>1, <3>3
  <2>2. CASE i > m
    <3>1. PICK k \in 1 .. n : k = i - m /\ c2s'[i] = s[k]
      BY <1>3, <1>9, <1>10, <2>2
    <3>2. c2s'[i].type = "join" /\ c2s'[i].hook \in S
      BY <1>8, <3>1
    <3>3. ~ Leaves(i, h)' /\ (Asks(i, h)' => h \in S)
      BY <3>2 DEF Leaves, Asks
    <3> QED BY <1>9, <1>10, <2>2, <3>3
  <2> QED BY <1>9, <1>10, <2>1, <2>2
<1>12. TrafficOK' /\ LinkOK' /\ LinkInv'
  <2>1. hook' \in [Hooks -> HookState]
    BY <1>0, <1>1 DEF TrafficOK, HookState
  <2>2. TrafficOK'
    BY <1>0, <1>1, <1>10, <2>1 DEF TrafficOK
  <2>3. LinkOK'
    BY <1>0, <1>1, SocketAssumption DEF LinkOK
  <2>4. ~ coolDown /\ coolDown' = coolDown
    BY <1>0, <1>1 DEF LinkInv
  <2>5. LinkInv'
    BY <1>1, <2>4 DEF LinkInv
  <2> QED BY <2>2, <2>3, <2>5
<1>13. checking' = {} /\ acks' = {}
  BY <1>0, <1>1 DEF TraceInv
<1>14. \A h \in Hooks : /\ hook'[h] # "joined"
                        /\ hook'[h] = "out" => hook[h] = "out" /\ h \notin S
  BY <1>0, <1>1, <1>6 DEF TraceInv, Mounted
<1>15. TraceInv'
  <2>1. ASSUME NEW h \in Hooks, hook'[h] = "out" PROVE \A i \in DOMAIN c2s' : ~ Asks(i, h)'
    <3>1. h \notin S
      BY <1>14, <2>1
    <3>2. ASSUME NEW i \in DOMAIN c2s' PROVE ~ Asks(i, h)'
      <4>1. i <= m \/ i > m
        BY <1>9, <1>10
      <4> QED BY <1>11, <3>1, <4>1
    <3> QED BY <3>2
  <2> QED BY <1>1, <1>13, <2>1 DEF TraceInv
<1>16. ASSUME NEW h \in Hooks PROVE JoinHolds(h)'
  <2>1. ASSUME NEW i \in DOMAIN c2s', NEW j \in DOMAIN c2s', Asks(i, h)', i < j
        PROVE  ~ Leaves(j, h)'
    <3>1. i > m
      BY <1>9, <1>10, <1>11, <2>1
    <3>2. j > m
      BY <1>9, <1>10, <2>1, <3>1
    <3> QED BY <1>11, <3>2
  <2> QED BY <1>13, <1>14, <2>1, PrimedTraces
<1>17. (SocketTypeOK /\ OneHandshake)'
  BY <1>12, TypesStay
<1> QED BY <1>12, <1>15, <1>16, <1>17 DEF SocketInv

(* The gateway takes the first packet.                                     *)
LEMMA Handles == ASSUME SocketInv, HandlePacket PROVE SocketInv'
<1>0. TrafficOK /\ LinkInv /\ TraceInv
  BY TypesAre DEF SocketInv
<1>1. /\ link = "open" /\ link' = "open" /\ c2s # << >> /\ c2s' = Tail(c2s)
      /\ UNCHANGED <<conn, hook, acks, path>> /\ hook' = hook /\ acks' = acks
  BY DEF HandlePacket, conn
<1>2. PICK n : n = Len(c2s)
  OBVIOUS
<1>3. PICK p : p = Head(c2s)
  OBVIOUS
<1>4. /\ c2s' \in Seq(Packets) /\ n \in Nat \ {0} /\ DOMAIN c2s = 1 .. n
      /\ DOMAIN c2s' = 1 .. n - 1
      /\ \A i \in 1 .. n - 1 : c2s'[i] = c2s[i + 1]
      /\ p = c2s[1] /\ p \in Packets
  BY <1>0, <1>1, <1>2, <1>3, TailIs DEF TrafficOK
<1>5. /\ p.type = "join" => checking' = checking \cup {p.hook} /\ rooms' = rooms
      /\ p.type # "join" => rooms' = rooms \ {RoomOf[p.hook]} /\ checking' = checking
      /\ p.hook \in Hooks /\ p.type \in {"join", "leave"}
  BY <1>3, <1>4 DEF HandlePacket, Packets
<1>6. ASSUME NEW h \in Hooks, NEW i \in DOMAIN c2s'
      PROVE  /\ i + 1 \in DOMAIN c2s /\ 1 \in DOMAIN c2s /\ i \in Nat /\ 1 < i + 1
             /\ Asks(i, h)' => Asks(i + 1, h)
             /\ Leaves(i, h)' => Leaves(i + 1, h)
  <2>1. i + 1 \in 1 .. n /\ 1 \in 1 .. n /\ i \in Nat /\ 1 < i + 1
    BY <1>4
  <2>2. c2s'[i] = c2s[i + 1]
    BY <1>4
  <2> QED BY <1>4, <2>1, <2>2 DEF Asks, Leaves
<1>7. ASSUME NEW h \in Hooks, NoLeave(h) PROVE NoLeave(h)' /\ (p.type # "join" => RoomOf[p.hook] # RoomOf[h])
  <2>1. NoLeave(h)'
    BY <1>6, <1>7 DEF NoLeave
  <2>2. ~ Leaves(1, h)
    BY <1>4, <1>7 DEF NoLeave
  <2>3. p.type # "join" => RoomOf[p.hook] # RoomOf[h]
    BY <1>4, <1>5, <2>2 DEF Leaves
  <2> QED BY <2>1, <2>3
<1>8. ASSUME NEW h \in Hooks, h \in checking', h \notin checking PROVE Asks(1, h)
  BY <1>4, <1>5, <1>8 DEF Asks
<1>9. TrafficOK'
  <2>1. checking' \subseteq Hooks /\ rooms' \subseteq Rooms
    BY <1>0, <1>5 DEF TrafficOK
  <2> QED BY <1>0, <1>1, <1>4, <2>1 DEF TrafficOK
<1>10. TraceInv'
  <2>1. ASSUME NEW h \in Hooks, hook'[h] = "out"
        PROVE  /\ h \notin checking' /\ \A ack \in acks' : ack.hook # h
               /\ \A i \in DOMAIN c2s' : ~ Asks(i, h)'
    <3>1. /\ h \notin checking /\ \A ack \in acks : ack.hook # h
          /\ \A i \in DOMAIN c2s : ~ Asks(i, h)
      BY <1>0, <1>1, <2>1 DEF TraceInv
    <3>2. h \notin checking'
      BY <1>4, <1>8, <3>1
    <3>3. \A i \in DOMAIN c2s' : ~ Asks(i, h)'
      BY <1>6, <3>1
    <3> QED BY <1>1, <3>1, <3>2, <3>3
  <2> QED BY <1>1, <2>1 DEF TraceInv
<1>11. ASSUME NEW h \in Hooks, Mounted(h)' PROVE Mounted(h) /\ JoinHolds(h)'
  <2>1. Mounted(h) /\ JoinHolds(h)
    BY <1>1, <1>11 DEF Mounted, SocketInv
  <2>2. hook'[h] = "joined" \/ [hook |-> h, ok |-> TRUE] \in acks'
           => RoomOf[h] \in rooms' /\ NoLeave(h)'
    <3>1. ASSUME hook[h] = "joined" \/ [hook |-> h, ok |-> TRUE] \in acks
          PROVE  RoomOf[h] \in rooms' /\ NoLeave(h)'
      <4>1. RoomOf[h] \in rooms /\ NoLeave(h)
        BY <2>1, <3>1 DEF JoinHolds
      <4> QED BY <1>5, <1>7, <4>1
    <3> QED BY <1>1, <3>1
  <2>3. h \in checking' => NoLeave(h)'
    <3>1. CASE h \in checking
      BY <1>7, <2>1, <3>1 DEF JoinHolds
    <3>2. CASE h \in checking' /\ h \notin checking
      <4>1. Asks(1, h)
        BY <1>8, <3>2
      <4>2. \A j \in DOMAIN c2s : 1 < j => ~ Leaves(j, h)
        BY <1>4, <2>1, <4>1 DEF JoinHolds
      <4>3. \A i \in DOMAIN c2s' : ~ Leaves(i, h)'
        BY <1>6, <4>2
      <4> QED BY <4>3 DEF NoLeave
    <3> QED BY <3>1, <3>2
  <2>4. \A i, j \in DOMAIN c2s' : Asks(i, h)' /\ i < j => ~ Leaves(j, h)'
    <3>1. ASSUME NEW i \in DOMAIN c2s', NEW j \in DOMAIN c2s', Asks(i, h)', i < j
          PROVE  ~ Leaves(j, h)'
      <4>1. /\ i + 1 \in DOMAIN c2s /\ j + 1 \in DOMAIN c2s /\ i + 1 < j + 1
            /\ Asks(i + 1, h) /\ (Leaves(j, h)' => Leaves(j + 1, h))
        BY <1>6, <3>1
      <4> QED BY <2>1, <4>1 DEF JoinHolds
    <3> QED BY <3>1
  <2> QED BY <2>1, <2>2, <2>3, <2>4, PrimedTraces
<1> QED BY <1>1, <1>9, <1>10, <1>11, TrafficMoves

(* The gateway answers a join: in the room, or denied.                     *)
LEMMA Answers == ASSUME SocketInv, NEW h \in Hooks, AnswerJoin(h) PROVE SocketInv'
<1>0. TrafficOK /\ LinkInv /\ TraceInv
  BY TypesAre DEF SocketInv
<1>1. /\ link = "open" /\ link' = "open" /\ h \in checking /\ checking' = checking \ {h}
      /\ UNCHANGED <<conn, hook, c2s, path>> /\ hook' = hook /\ c2s' = c2s
  BY DEF AnswerJoin, conn
<1>2. PICK ok \in BOOLEAN :
         /\ acks' = acks \cup {[hook |-> h, ok |-> ok]}
         /\ rooms' = rooms \cup {RoomOf[h]} \/ rooms' = rooms
         /\ ok => RoomOf[h] \in rooms'
  <2>1. CASE rooms' = rooms \cup {RoomOf[h]} /\ acks' = acks \cup {[hook |-> h, ok |-> TRUE]}
    BY <2>1
  <2>2. CASE rooms' = rooms /\ acks' = acks \cup {[hook |-> h, ok |-> FALSE]}
    BY <2>2
  <2> QED BY <2>1, <2>2 DEF AnswerJoin
<1>3. hook[h] # "out"
  BY <1>0, <1>1 DEF TraceInv
<1>4. rooms \subseteq rooms' /\ rooms' \subseteq Rooms
  BY <1>0, <1>2, SocketAssumption DEF TrafficOK
<1>5. TrafficOK'
  <2>1. checking' \subseteq Hooks /\ acks' \subseteq [hook : Hooks, ok : BOOLEAN]
    BY <1>0, <1>1, <1>2 DEF TrafficOK
  <2> QED BY <1>0, <1>1, <1>4, <2>1 DEF TrafficOK
<1>6. TraceInv'
  <2>1. ASSUME NEW g \in Hooks, hook'[g] = "out"
        PROVE  /\ g \notin checking' /\ \A ack \in acks' : ack.hook # g
               /\ \A i \in DOMAIN c2s' : ~ Asks(i, g)'
    <3>1. /\ g \notin checking /\ \A ack \in acks : ack.hook # g
          /\ \A i \in DOMAIN c2s : ~ Asks(i, g)
      BY <1>0, <1>1, <2>1 DEF TraceInv
    <3>2. g # h
      BY <1>1, <1>3, <2>1
    <3>3. \A i \in DOMAIN c2s' : ~ Asks(i, g)'
      BY <1>1, <3>1 DEF Asks
    <3> QED BY <1>1, <1>2, <3>1, <3>2, <3>3
  <2> QED BY <1>1, <2>1 DEF TraceInv
<1>7. ASSUME NEW g \in Hooks, Mounted(g)' PROVE Mounted(g) /\ JoinHolds(g)'
  <2>1. Mounted(g) /\ JoinHolds(g)
    BY <1>1, <1>7 DEF Mounted, SocketInv
  <2>2. /\ NoLeave(g)' <=> NoLeave(g)
        /\ \A i, j \in DOMAIN c2s' : Asks(i, g)' /\ i < j => ~ Leaves(j, g)'
    BY <1>1, <2>1 DEF NoLeave, Asks, Leaves, JoinHolds
  <2>3. [hook |-> g, ok |-> TRUE] \in acks'
           => [hook |-> g, ok |-> TRUE] \in acks \/ (g = h /\ RoomOf[h] \in rooms')
    BY <1>2
  <2>4. hook'[g] = "joined" \/ [hook |-> g, ok |-> TRUE] \in acks'
           => RoomOf[g] \in rooms' /\ NoLeave(g)'
    <3>1. CASE hook[g] = "joined" \/ [hook |-> g, ok |-> TRUE] \in acks
      BY <1>4, <2>1, <2>2, <3>1 DEF JoinHolds
    <3>2. CASE g = h /\ RoomOf[h] \in rooms'
      BY <1>1, <2>1, <2>2, <3>2 DEF JoinHolds
    <3> QED BY <1>1, <2>3, <3>1, <3>2
  <2>5. g \in checking' => NoLeave(g)'
    BY <1>1, <2>1, <2>2 DEF JoinHolds
  <2> QED BY <2>1, <2>2, <2>4, <2>5, PrimedTraces
<1> QED BY <1>1, <1>5, <1>6, <1>7, TrafficMoves

(* A hook takes the answer to its join.                                    *)
LEMMA TakesAck == ASSUME SocketInv, NEW ack \in acks, OnAck(ack) PROVE SocketInv'
<1>0. TrafficOK /\ LinkInv /\ TraceInv
  BY TypesAre DEF SocketInv
<1>1. /\ link = "open" /\ link' = "open" /\ acks' = acks \ {ack}
      /\ UNCHANGED <<conn, c2s, checking, rooms, path>>
      /\ c2s' = c2s /\ checking' = checking /\ rooms' = rooms
  BY DEF OnAck, conn
<1>2. PICK h \in Hooks : h = ack.hook
  BY <1>0 DEF TrafficOK
<1>3. /\ ack = [hook |-> h, ok |-> ack.ok] /\ ack.ok \in BOOLEAN
  BY <1>0, <1>2 DEF TrafficOK
<1>4. hook' = [hook EXCEPT ![h] = IF ~ Mounted(h) THEN hook[h]
                                  ELSE IF ack.ok THEN "joined" ELSE "parked"]
  BY <1>2 DEF OnAck
<1>5. hook[h] # "out"
  BY <1>0, <1>2 DEF TraceInv
<1>6. /\ hook' \in [Hooks -> HookState]
      /\ \A g \in Hooks : /\ hook'[g] = "out" => hook[g] = "out"
                          /\ hook'[g] \notin {"out", "gone"} => Mounted(g)
                          /\ hook'[g] = "joined" => hook[g] = "joined" \/ (g = h /\ ack.ok)
  BY <1>0, <1>4, <1>5 DEF TrafficOK, HookState, Mounted
<1>7. TrafficOK'
  BY <1>0, <1>1, <1>6 DEF TrafficOK
<1>8. TraceInv'
  <2>1. ASSUME NEW g \in Hooks, hook'[g] = "out"
        PROVE  /\ g \notin checking' /\ \A a \in acks' : a.hook # g
               /\ \A i \in DOMAIN c2s' : ~ Asks(i, g)'
    <3>1. /\ g \notin checking /\ \A a \in acks : a.hook # g
          /\ \A i \in DOMAIN c2s : ~ Asks(i, g)
      BY <1>0, <1>6, <2>1 DEF TraceInv
    <3>2. \A i \in DOMAIN c2s' : ~ Asks(i, g)'
      BY <1>1, <3>1 DEF Asks
    <3> QED BY <1>1, <3>1, <3>2
  <2> QED BY <1>1, <2>1 DEF TraceInv
<1>9. ASSUME NEW g \in Hooks, Mounted(g)' PROVE Mounted(g) /\ JoinHolds(g)'
  <2>1. Mounted(g)
    BY <1>6, <1>9 DEF Mounted
  <2>2. JoinHolds(g)
    BY <2>1 DEF SocketInv
  <2>3. /\ NoLeave(g)' <=> NoLeave(g)
        /\ \A i, j \in DOMAIN c2s' : Asks(i, g)' /\ i < j => ~ Leaves(j, g)'
    BY <1>1, <2>2 DEF NoLeave, Asks, Leaves, JoinHolds
  <2>4. hook'[g] = "joined" \/ [hook |-> g, ok |-> TRUE] \in acks'
           => hook[g] = "joined" \/ [hook |-> g, ok |-> TRUE] \in acks
    <3>1. g = h /\ ack.ok => [hook |-> g, ok |-> TRUE] \in acks
      BY <1>3
    <3> QED BY <1>1, <1>6, <3>1
  <2> QED BY <1>1, <2>1, <2>2, <2>3, <2>4, PrimedTraces DEF JoinHolds
<1> QED BY <1>1, <1>7, <1>8, <1>9, TrafficMoves

(* Nothing happens in this tab.                                            *)
LEMMA SocketStutters == SocketInv /\ UNCHANGED socketVars => SocketInv'
<1> SUFFICES ASSUME SocketInv, UNCHANGED socketVars PROVE SocketInv'
  OBVIOUS
<1>1. UNCHANGED <<hook, traffic>> /\ UNCHANGED <<conn, path>> /\ link' = link
  BY DEF socketVars, traffic, conn
<1>2. LinkOK /\ LinkInv
  BY TypesAre DEF SocketInv
<1>3. LinkOK'
  BY <1>1, <1>2 DEF LinkOK, conn
<1>4. coolDown' = coolDown /\ refusal' = refusal /\ hook' = hook
  BY <1>1 DEF conn
<1>5. LinkInv'
  BY <1>1, <1>2, <1>4 DEF LinkInv, Mounted
<1> QED BY <1>1, <1>3, <1>5, LinkMoves

(* Every step of a tab that shows one board at a time keeps the invariant. *)
LEMMA NextSocket == SocketInv /\ BoardsAlone /\ [SocketNext]_socketVars => SocketInv'
<1> SUFFICES ASSUME SocketInv, BoardsAlone, [SocketNext]_socketVars PROVE SocketInv'
  OBVIOUS
<1>1. CASE \E h \in Hooks : Mount(h) \/ Unmount(h)
  BY <1>1, Mounts, Unmounts
<1>2. CASE Kicked \/ Dropped \/ disconnectSocket
  BY <1>2, LosingSteps
<1>3. CASE Dialled \/ DialFails \/ CoolDownFires \/ Refused \/ RefusalFires \/ PathChanges
  BY <1>3, LinkSteps
<1>4. CASE Connected
  BY <1>4, Connects
<1>5. CASE JoinStep
  BY <1>5, Handles, Answers, Retries, TakesAck DEF JoinStep
<1>6. CASE UNCHANGED socketVars
  BY <1>6, SocketStutters
<1> QED BY <1>1, <1>2, <1>3, <1>4, <1>5, <1>6 DEF SocketNext, SocketStep

(* One handshake at a time; a socket some hook waits for has its cool-down *)
(* or its refusal timer running whenever nothing dials; and a hook that    *)
(* shows itself live is in its room at the gateway: for any number of      *)
(* hooks, in a tab that never mounts a second hook on the room of a        *)
(* mounted board hook, whose unmount leaves without counting (connect-     *)
(* Socket, onReconnectFailed, onConnectionRefused, releaseRoom).           *)
THEOREM SocketStaysSound == SocketSpec /\ []BoardsAlone => []SocketSound
<1>1. SocketInv => SocketSound
  <2> SUFFICES ASSUME SocketInv PROVE SocketSound
    OBVIOUS
  <2>1. NeverAbandoned
    BY DEF SocketInv, LinkInv, NeverAbandoned
  <2>2. ASSUME NEW h \in Hooks, hook[h] = "joined" PROVE RoomOf[h] \in rooms
    BY <2>2 DEF SocketInv, Mounted, JoinHolds
  <2>3. LiveHooksAreInTheirRoom
    BY <2>2 DEF LiveHooksAreInTheirRoom
  <2> QED BY <2>1, <2>3 DEF SocketInv, SocketSound
<1> QED BY <1>1, InitSocket, NextSocket, PTL DEF SocketSpec

-----------------------------------------------------------------------------
(* The attachments of the task shown.                                       *)

(* A panel opens on the server's rows of its task, with its reads out.     *)
LEMMA FilesBegin == FilesInit => FilesInv
<1> SUFFICES ASSUME FilesInit PROVE FilesInv
  OBVIOUS
<1>1. PICK t \in Shown :
        /\ shownTask = t
        /\ FilesWith({FileCall("list", NoFile, t, {}), FileCall("config", NoFile, t, {})})
  BY DEF FilesInit
<1> DEFINE first == FileCall("list", NoFile, t, {})
           second == FileCall("config", NoFile, t, {})
<1>2. /\ first \in FileCalls /\ first.kind = "list" /\ first.task = t /\ first.phase = "sent"
      /\ second \in FileCalls /\ second.kind = "config"
  BY DEF FileCall, FileCalls
<1> HIDE DEF first, second
<1>3. /\ stored = Stored0 /\ listed = {} /\ loadedTask = NoTask /\ failedTask = NoTask
      /\ fileCalls = {first, second} /\ crossed = FALSE
      /\ counts = [u \in Shown |-> Cardinality(Stored0[u])]
  <2>1. FilesWith({first, second})
    BY <1>1 DEF first, second
  <2> QED BY <2>1 DEF FilesWith
<1>4. FileWrites = {} /\ FileLists = {first}
  BY <1>2, <1>3 DEF FileWrites, FileLists
<1>5. counts \in [Shown -> 0 .. Cardinality(Files)]
  <2>1. ASSUME NEW u \in Shown PROVE Cardinality(Stored0[u]) \in 0 .. Cardinality(Files)
    <3>1. Stored0[u] \subseteq Files /\ IsFiniteSet(Files)
      BY FilesAssumption
    <3>2. /\ IsFiniteSet(Stored0[u]) /\ Cardinality(Stored0[u]) <= Cardinality(Files)
          /\ Cardinality(Stored0[u]) \in Nat /\ Cardinality(Files) \in Nat
      BY <3>1, FS_Subset, FS_CardinalityType
    <3> QED BY <3>2
  <2> QED BY <1>3, <2>1
<1>6. FilesShape
  BY <1>1, <1>2, <1>3, <1>4, <1>5, FilesAssumption DEF FilesShape
<1>7. CallsFit
  BY <1>1, <1>2, <1>4 DEF CallsFit
<1>8. OneOwner
  BY <1>3, <1>4, FilesAssumption DEF OneOwner, ApartFrom
<1>9. ListFollows
  BY <1>2, <1>3, <1>4, FilesAssumption DEF ListFollows
<1> QED BY <1>6, <1>7, <1>8, <1>9 DEF FilesInv

(* A number of files is never beyond that of all files.                    *)
LEMMA Counted ==
    ASSUME NEW files \in SUBSET Files
    PROVE  Cardinality(files) \in 0 .. Cardinality(Files)
<1>1. /\ IsFiniteSet(files) /\ Cardinality(files) <= Cardinality(Files)
      /\ Cardinality(files) \in Nat /\ Cardinality(Files) \in Nat
  BY FilesAssumption, FS_Subset, FS_CardinalityType
<1> QED BY <1>1

(* What a call becomes when the server or the network has dealt with it.   *)
LEMMA BecomesIs ==
    ASSUME FilesShape, CallsFit, NEW c \in fileCalls, NEW p \in {"sent", "ok", "failed"},
           NEW more \in SUBSET Files, Becomes(c, p, more), UNCHANGED shownTask
    PROVE  /\ fileCalls' \subseteq FileCalls /\ \A d \in FileWrites' : d.file \in Files
           /\ CallsFit'
           /\ (c \in FileWrites) => FileLists' = FileLists
           /\ (c \in FileLists) => FileWrites' = FileWrites
           /\ (c \notin FileWrites /\ c \notin FileLists) =>
                  FileWrites' = FileWrites /\ FileLists' = FileLists
           /\ \E d \in FileCalls :
                 /\ d.kind = c.kind /\ d.file = c.file /\ d.task = c.task
                 /\ d.phase = p /\ d.rows = more
                 /\ (c \in FileWrites) => FileWrites' = {d}
                 /\ (c \in FileLists) => FileLists' = (FileLists \ {c}) \cup {d}
<1> DEFINE d == [c EXCEPT !.phase = p, !.rows = more]
<1>1. c \in FileCalls /\ fileCalls \subseteq FileCalls
  BY DEF FilesShape
<1>2. /\ d \in FileCalls /\ d.kind = c.kind /\ d.file = c.file /\ d.task = c.task
      /\ d.phase = p /\ d.rows = more
  BY <1>1 DEF FileCalls
<1>3. fileCalls' = (fileCalls \ {c}) \cup {d}
  BY DEF Becomes
<1> HIDE DEF d
<1>4. (c \in FileWrites) => FileWrites' = {d} /\ FileLists' = FileLists
  BY <1>2, <1>3 DEF FileWrites, FileLists, CallsFit
<1>5. (c \in FileLists) => FileLists' = (FileLists \ {c}) \cup {d} /\ FileWrites' = FileWrites
  BY <1>2, <1>3 DEF FileWrites, FileLists
<1>6. (c \notin FileWrites /\ c \notin FileLists) =>
          FileWrites' = FileWrites /\ FileLists' = FileLists
  BY <1>2, <1>3 DEF FileWrites, FileLists
<1>7. fileCalls' \subseteq FileCalls
  BY <1>1, <1>2, <1>3
<1>8. \A e \in FileWrites' : e.file \in Files
  BY <1>2, <1>4, <1>5, <1>6 DEF FilesShape, FileWrites, FileLists
<1>9. CallsFit'
  <2>1. \A e, f \in FileWrites' : e = f
    BY <1>4, <1>5, <1>6 DEF CallsFit
  <2>2. \A e \in FileLists' : e.task = shownTask
    BY <1>2, <1>4, <1>5, <1>6 DEF CallsFit
  <2> QED BY <2>1, <2>2 DEF CallsFit
<1> QED BY <1>2, <1>4, <1>5, <1>6, <1>7, <1>8, <1>9

(* A write starts from the list as it is rendered.                         *)
LEMMA WriteBegins ==
    ASSUME FilesInv, NEW kind \in {"add", "remove"}, NEW f \in Files, StartWrite(kind, f),
           kind = "add" => Unused(f)
    PROVE  FilesInv'
<1> DEFINE c == FileCall(kind, f, shownTask, rows)
<1>0. FilesShape /\ CallsFit /\ OneOwner /\ (~crossed => ListFollows)
  BY DEF FilesInv
<1>1. /\ ~filesLoading /\ ~loadFailed /\ ~filesPending
      /\ fileCalls' = fileCalls \cup {c}
      /\ crossed' = (crossed \/ \E d \in fileCalls : d.kind = "list")
      /\ UNCHANGED <<stored, shownTask, listed, loadedTask, failedTask, storage, counts, foreign>>
  BY DEF StartWrite, FilesOffered
<1>2. loadedTask = shownTask /\ rows = listed /\ FileWrites = {}
  BY <1>1 DEF filesLoading, loadFailed, filesPending, rows, FileWrites
<1>3. /\ c \in FileCalls /\ c.kind = kind /\ c.file = f /\ c.task = shownTask
      /\ c.rows = listed /\ c.phase = "sent"
  BY <1>0, <1>2 DEF FilesShape, FileCall, FileCalls
<1> HIDE DEF c
<1>4. FileWrites' = {c} /\ FileLists' = FileLists
  BY <1>1, <1>2, <1>3 DEF FileWrites, FileLists
<1>5. FilesShape'
  BY <1>0, <1>1, <1>3, <1>4 DEF FilesShape
<1>6. CallsFit'
  BY <1>0, <1>1, <1>4 DEF CallsFit
<1>7. OneOwner'
  <2>1. kind = "add" => \A u \in Shown : f \notin stored[u] \cup Stored0[u]
    BY DEF Unused
  <2> QED BY <1>0, <1>1, <1>3, <1>4, <2>1 DEF OneOwner, ApartFrom
<1>8. ~crossed' => ListFollows'
  <2> SUFFICES ASSUME ~crossed' PROVE ListFollows'
    OBVIOUS
  <2>1. ListFollows /\ FileLists = {} /\ shownTask \in Shown
    BY <1>0, <1>1 DEF FileLists, FilesShape
  <2> QED BY <1>1, <1>2, <1>3, <1>4, <2>1 DEF ListFollows, ApartFrom, UpToOthers, Landed
<1> QED BY <1>5, <1>6, <1>7, <1>8 DEF FilesInv

(* Another task is shown: its read starts, those that were out are aborted.*)
LEMMA SwitchKeeps ==
    ASSUME FilesInv, NEW t \in Shown, SwitchTask(t)
    PROVE  FilesInv'
<1> DEFINE c == FileCall("list", NoFile, t, {})
<1>0. FilesShape /\ CallsFit /\ OneOwner /\ (~crossed => ListFollows)
  BY DEF FilesInv
<1>1. /\ shownTask' = t
      /\ fileCalls' = {d \in fileCalls : d.kind # "list"} \cup {c}
      /\ crossed' = (crossed \/ filesPending)
      /\ UNCHANGED <<stored, listed, loadedTask, failedTask, storage, counts, foreign>>
  BY DEF SwitchTask
<1>2. c \in FileCalls /\ c.kind = "list" /\ c.task = t /\ c.phase = "sent"
  BY DEF FileCall, FileCalls
<1> HIDE DEF c
<1>3. FileWrites' = FileWrites /\ FileLists' = {c}
  BY <1>1, <1>2 DEF FileWrites, FileLists
<1>4. FilesShape'
  BY <1>0, <1>1, <1>2, <1>3 DEF FilesShape
<1>5. CallsFit' /\ OneOwner'
  BY <1>0, <1>1, <1>2, <1>3 DEF CallsFit, OneOwner, ApartFrom
<1>6. ~crossed' => ListFollows'
  <2> SUFFICES ASSUME ~crossed' PROVE ListFollows'
    OBVIOUS
  <2>1. ListFollows /\ FileWrites = {}
    BY <1>0, <1>1 DEF FileWrites, filesPending
  <2> QED BY <1>1, <1>2, <1>3, <2>1 DEF ListFollows, ApartFrom, UpToOthers
<1> QED BY <1>4, <1>5, <1>6 DEF FilesInv

(* Another user adds a file nobody has or takes one of the task's away.    *)
LEMMA OtherKeeps ==
    ASSUME FilesInv, NEW t \in Shown, NEW f \in Files, OtherFile(t, f)
    PROVE  FilesInv'
<1>0. FilesShape /\ CallsFit /\ OneOwner /\ (~crossed => ListFollows)
  BY DEF FilesInv
<1>1. /\ stored' = [stored EXCEPT ![t] = IF f \in @ THEN @ \ {f} ELSE @ \cup {f}]
      /\ \A u \in Shown \ {t} : f \notin stored[u] \cup Stored0[u]
      /\ f \in stored[t] \/ Unused(f)
      /\ foreign' = foreign \cup {f}
      /\ counts' = [counts EXCEPT ![t] = Cardinality(stored'[t])]
      /\ UNCHANGED <<shownTask, listed, loadedTask, failedTask, storage, fileCalls, crossed>>
  BY DEF OtherFile
<1>2. /\ stored' \in [Shown -> SUBSET Files]
      /\ \A u \in Shown \ {t} : stored'[u] = stored[u]
      /\ stored'[t] = IF f \in stored[t] THEN stored[t] \ {f} ELSE stored[t] \cup {f}
  BY <1>0, <1>1 DEF FilesShape
<1>3. FileWrites' = FileWrites /\ FileLists' = FileLists
  BY <1>1 DEF FileWrites, FileLists
<1>4. FilesShape'
  <2>1. counts' \in [Shown -> 0 .. Cardinality(Files)]
    BY <1>0, <1>1, <1>2, Counted DEF FilesShape
  <2> QED BY <1>0, <1>1, <1>2, <1>3, <2>1 DEF FilesShape
<1>5. CallsFit'
  BY <1>0, <1>1, <1>3 DEF CallsFit
<1> DEFINE Apart(files, u) == \A v \in Shown \ {u} : files \cap (stored'[v] \cup Stored0[v]) = {}
           Near(files, u) == (files \ stored'[u]) \cup (stored'[u] \ files) \subseteq foreign'
<1>6. \A files, u : ApartFrom(files, u) /\ (u # t => f \in stored[t] \/ f \notin files) => Apart(files, u)
  BY <1>1, <1>2 DEF ApartFrom
<1>7. \A files : \A u \in Shown : UpToOthers(files, u) => Near(files, u)
  BY <1>1, <1>2 DEF UpToOthers
<1> HIDE DEF Apart, Near
<1>8. OneOwner'
  <2>1. ASSUME NEW u \in Shown PROVE Apart(stored'[u] \cup Stored0[u], u)
    <3>1. ApartFrom(stored[u] \cup Stored0[u], u)
      BY <1>0 DEF OneOwner
    <3>2. CASE u = t
      BY <1>1, <1>2, <3>1, <3>2 DEF ApartFrom, Apart
    <3>3. CASE u # t
      BY <1>1, <1>2, <3>1, <3>3 DEF ApartFrom, Apart
    <3> QED BY <3>2, <3>3
  <2>2. ASSUME NEW c \in FileWrites, c.kind = "add" PROVE Apart({c.file}, c.task)
    <3>1. ApartFrom({c.file}, c.task)
      BY <1>0, <2>2 DEF OneOwner
    <3>2. f \in stored[t] \/ f \notin {c.file}
      BY <1>1 DEF Unused, FileWrites
    <3> QED BY <1>6, <3>1, <3>2
  <2> QED BY <1>3, <2>1, <2>2 DEF OneOwner, ApartFrom, Apart
<1>9. ~crossed' => ListFollows'
  <2> SUFFICES ASSUME ~crossed PROVE ListFollows'
    BY <1>1
  <2>1. ListFollows
    BY <1>0
  <2>2. f \in stored[t] \/ f \notin listed
    BY <1>1 DEF Unused
  <2>3. loadedTask \in Shown => Apart(listed, loadedTask)
    BY <1>6, <2>1, <2>2 DEF ListFollows
  <2>4. (FileWrites = {} /\ loadedTask \in Shown) => Near(listed, loadedTask)
    BY <1>7, <2>1 DEF ListFollows
  <2>5. ASSUME NEW c \in FileWrites
        PROVE  /\ c.task = shownTask /\ loadedTask = shownTask
               /\ c.rows = listed /\ Near(Landed(c), c.task)
    <3>1. c.task \in Shown
      BY <1>0 DEF FilesShape, FileWrites, FileCalls
    <3> QED BY <1>7, <2>1, <3>1 DEF ListFollows
  <2>6. ASSUME NEW c \in FileLists, c.phase = "ok"
        PROVE  Apart(c.rows, c.task) /\ Near(c.rows, c.task)
    <3>1. ApartFrom(c.rows, c.task) /\ UpToOthers(c.rows, c.task) /\ c.task \in Shown
      BY <1>0, <2>1, <2>6 DEF ListFollows, FilesShape, FileLists, FileCalls
    <3>2. c.task # t => f \in stored[t] \/ f \notin c.rows
      BY <1>1, <3>1 DEF Unused, UpToOthers
    <3> QED BY <1>6, <1>7, <3>1, <3>2
  <2>7. FileWrites = {} \/ FileLists = {}
    BY <2>1 DEF ListFollows
  <2> QED BY <1>1, <1>3, <2>3, <2>4, <2>5, <2>6, <2>7
          DEF ListFollows, Landed, ApartFrom, UpToOthers, Apart, Near
<1> QED BY <1>4, <1>5, <1>8, <1>9 DEF FilesInv

(* What the server does with a write, answered or not.                     *)
LEMMA ServedWriteKeeps ==
    ASSUME FilesInv, NEW c \in fileCalls, ServeFileWrite(c)
    PROVE  FilesInv'
<1>0. FilesShape /\ CallsFit /\ OneOwner /\ (~crossed => ListFollows)
  BY DEF FilesInv
<1>1. /\ c.phase = "sent" /\ c \in FileWrites /\ FileWrite(c)
      /\ \/ Becomes(c, "ok", c.rows) /\ UNCHANGED <<foreign, fileWork>>
         \/ SpendFile /\ Becomes(c, "failed", c.rows) /\ foreign' = foreign \cup {c.file}
      /\ UNCHANGED <<shownTask, listed, loadedTask, failedTask, storage, counts, crossed>>
  BY DEF ServeFileWrite, FileWrites
<1>2. /\ c \in FileCalls /\ c.task \in Shown /\ c.rows \in SUBSET Files /\ c.file \in Files
      /\ c.kind \in {"add", "remove"} /\ FileWrites = {c}
  BY <1>0, <1>1 DEF FilesShape, FileCalls, CallsFit, FileWrites
<1>3. PICK p \in {"ok", "failed"} :
          /\ Becomes(c, p, c.rows)
          /\ foreign' = IF p = "ok" THEN foreign ELSE foreign \cup {c.file}
  BY <1>1
<1>4. /\ fileCalls' \subseteq FileCalls /\ \A d \in FileWrites' : d.file \in Files
      /\ CallsFit' /\ FileLists' = FileLists
  BY <1>0, <1>1, <1>2, <1>3, BecomesIs
<1>5. PICK d \in FileCalls :
          /\ d.kind = c.kind /\ d.file = c.file /\ d.task = c.task
          /\ d.phase = p /\ d.rows = c.rows /\ FileWrites' = {d}
  BY <1>0, <1>1, <1>2, <1>3, BecomesIs
<1>6. /\ stored' \in [Shown -> SUBSET Files]
      /\ \A u \in Shown \ {c.task} : stored'[u] = stored[u]
      /\ stored'[c.task] = IF c.kind = "add" THEN stored[c.task] \cup {c.file}
                           ELSE stored[c.task] \ {c.file}
  BY <1>0, <1>1, <1>2 DEF FilesShape, FileWrite
<1>7. FilesShape'
  BY <1>0, <1>1, <1>4, <1>6 DEF FilesShape
<1>8. OneOwner'
  <2>1. c.kind = "add" => \A u \in Shown \ {c.task} : c.file \notin stored[u] \cup Stored0[u]
    BY <1>0, <1>1 DEF OneOwner, ApartFrom
  <2>2. \A t, u \in Shown : t # u =>
            (stored[t] \cup Stored0[t]) \cap (stored[u] \cup Stored0[u]) = {}
    BY <1>0 DEF OneOwner, ApartFrom
  <2>3. \A t, u \in Shown : t # u =>
            (stored'[t] \cup Stored0[t]) \cap (stored'[u] \cup Stored0[u]) = {}
    <3> SUFFICES ASSUME NEW t \in Shown, NEW u \in Shown, t # u
                 PROVE  (stored'[t] \cup Stored0[t]) \cap (stored'[u] \cup Stored0[u]) = {}
      OBVIOUS
    <3>1. CASE t = c.task
      BY <1>2, <1>6, <2>1, <2>2, <3>1
    <3>2. CASE u = c.task
      BY <1>2, <1>6, <2>1, <2>2, <3>2
    <3>3. CASE t # c.task /\ u # c.task
      BY <1>6, <2>2, <3>3
    <3> QED BY <3>1, <3>2, <3>3
  <2>4. d.kind = "add" => \A u \in Shown \ {d.task} : d.file \notin stored'[u] \cup Stored0[u]
    BY <1>5, <1>6, <2>1
  <2> QED BY <1>5, <2>3, <2>4 DEF OneOwner, ApartFrom
<1>9. ~crossed' => ListFollows'
  <2> SUFFICES ASSUME ~crossed PROVE ListFollows'
    BY <1>1
  <2>1. /\ ListFollows /\ FileLists = {} /\ c.task = shownTask /\ loadedTask = shownTask
        /\ c.rows = listed
    BY <1>0, <1>2 DEF ListFollows
  <2>2. ApartFrom(listed, loadedTask) /\ UpToOthers(listed, c.task)
    BY <1>1, <1>2, <2>1 DEF ListFollows, Landed
  <2>3. ApartFrom(listed, loadedTask)'
    BY <1>1, <1>6, <2>1, <2>2 DEF ApartFrom
  <2>4. UpToOthers(Landed(d), d.task)'
    BY <1>3, <1>5, <1>6, <2>1, <2>2 DEF UpToOthers, Landed
  <2>5. d.task = shownTask' /\ loadedTask' = shownTask' /\ d.rows = listed'
    BY <1>1, <1>5, <2>1
  <2>6. FileLists' = {} /\ FileWrites' = {d}
    BY <1>4, <1>5, <2>1
  <2> QED BY <2>3, <2>4, <2>5, <2>6 DEF ListFollows, ApartFrom, UpToOthers, Landed
<1> QED BY <1>4, <1>7, <1>8, <1>9 DEF FilesInv

(* A read carries what the server has when it is served.                   *)
LEMMA ServedReadKeeps ==
    ASSUME FilesInv, NEW c \in fileCalls, ServeFileRead(c)
    PROVE  FilesInv'
<1> DEFINE more == IF c.kind = "list" THEN stored[c.task] ELSE {}
<1>0. FilesShape /\ CallsFit /\ OneOwner /\ (~crossed => ListFollows)
  BY DEF FilesInv
<1>1. /\ c.kind \in {"list", "config"} /\ Becomes(c, "ok", more)
      /\ UNCHANGED <<stored, shownTask, listed, loadedTask, failedTask, storage, counts,
                     foreign, crossed, fileWork>>
  BY DEF ServeFileRead
<1>2. /\ c \in FileCalls /\ c.task \in Shown /\ c \notin FileWrites
      /\ (c \in FileLists) = (c.kind = "list")
  BY <1>0, <1>1 DEF FilesShape, FileCalls, FileWrites, FileLists
<1>3. more \in SUBSET Files /\ (c.kind = "list" => more = stored[c.task])
  BY <1>0, <1>2 DEF FilesShape
<1> HIDE DEF more
<1>4. /\ fileCalls' \subseteq FileCalls /\ \A d \in FileWrites' : d.file \in Files
      /\ CallsFit' /\ FileWrites' = FileWrites
  BY <1>0, <1>1, <1>2, <1>3, BecomesIs
<1>5. PICK d \in FileCalls :
          /\ d.task = c.task /\ d.phase = "ok" /\ d.rows = more
          /\ FileLists' = IF c.kind = "list" THEN (FileLists \ {c}) \cup {d} ELSE FileLists
  <2>1. PICK d \in FileCalls :
            /\ d.task = c.task /\ d.phase = "ok" /\ d.rows = more
            /\ (c \in FileLists) => FileLists' = (FileLists \ {c}) \cup {d}
    BY <1>0, <1>1, <1>2, <1>3, BecomesIs
  <2>2. c \notin FileLists => FileLists' = FileLists
    BY <1>0, <1>1, <1>2, <1>3, BecomesIs
  <2> QED BY <1>2, <2>1, <2>2
<1>6. FilesShape'
  BY <1>0, <1>1, <1>4 DEF FilesShape
<1>7. OneOwner'
  BY <1>0, <1>1, <1>4 DEF OneOwner, ApartFrom
<1>8. ~crossed' => ListFollows'
  <2> SUFFICES ASSUME ~crossed PROVE ListFollows'
    BY <1>1
  <2>1. ListFollows
    BY <1>0
  <2>2. c.kind = "list" => ApartFrom(d.rows, d.task) /\ UpToOthers(d.rows, d.task)
    BY <1>0, <1>2, <1>3, <1>5 DEF OneOwner, ApartFrom, UpToOthers
  <2>3. \A e \in FileLists' :
            e.phase = "ok" => ApartFrom(e.rows, e.task) /\ UpToOthers(e.rows, e.task)
    BY <1>5, <2>1, <2>2 DEF ListFollows
  <2>4. FileWrites' = {} \/ FileLists' = {}
    BY <1>2, <1>4, <1>5, <2>1 DEF ListFollows
  <2> QED BY <1>1, <1>4, <2>1, <2>3, <2>4 DEF ListFollows, ApartFrom, UpToOthers, Landed
<1> QED BY <1>4, <1>6, <1>7, <1>8 DEF FilesInv

(* A call that comes to nothing.                                           *)
LEMMA RefusedKeeps ==
    ASSUME FilesInv, NEW c \in fileCalls, RefuseFile(c)
    PROVE  FilesInv'
<1>0. FilesShape /\ CallsFit /\ OneOwner /\ (~crossed => ListFollows)
  BY DEF FilesInv
<1>1. /\ c.phase = "sent" /\ Becomes(c, "failed", c.rows)
      /\ UNCHANGED <<stored, shownTask, listed, loadedTask, failedTask, storage, counts,
                     foreign, crossed>>
  BY DEF RefuseFile
<1>2. c \in FileCalls /\ c.rows \in SUBSET Files
  BY <1>0 DEF FilesShape, FileCalls
<1>3. /\ fileCalls' \subseteq FileCalls /\ \A d \in FileWrites' : d.file \in Files
      /\ CallsFit' /\ ((c \in FileWrites) => FileLists' = FileLists)
      /\ ((c \in FileLists) => FileWrites' = FileWrites)
      /\ ((c \notin FileWrites /\ c \notin FileLists) =>
              FileWrites' = FileWrites /\ FileLists' = FileLists)
  BY <1>0, <1>1, <1>2, BecomesIs
<1>4. PICK d \in FileCalls :
          /\ d.kind = c.kind /\ d.file = c.file /\ d.task = c.task
          /\ d.phase = "failed" /\ d.rows = c.rows
          /\ ((c \in FileWrites) => FileWrites' = {d})
          /\ ((c \in FileLists) => FileLists' = (FileLists \ {c}) \cup {d})
  BY <1>0, <1>1, <1>2, BecomesIs
<1>5. FilesShape'
  BY <1>0, <1>1, <1>3 DEF FilesShape
<1>6. OneOwner'
  <2>1. \A e \in FileWrites' : \E b \in FileWrites :
            e.kind = b.kind /\ e.file = b.file /\ e.task = b.task
    BY <1>3, <1>4
  <2> QED BY <1>0, <1>1, <2>1 DEF OneOwner, ApartFrom
<1>7. ~crossed' => ListFollows'
  <2> SUFFICES ASSUME ~crossed PROVE ListFollows'
    BY <1>1
  <2>1. ListFollows
    BY <1>0
  <2>2. \A e \in FileWrites' : /\ e.task = shownTask /\ loadedTask = shownTask
                               /\ e.rows = listed /\ UpToOthers(Landed(e), e.task)
    BY <1>1, <1>3, <1>4, <2>1 DEF ListFollows, Landed
  <2>3. \A e \in FileLists' :
            e.phase = "ok" => ApartFrom(e.rows, e.task) /\ UpToOthers(e.rows, e.task)
    BY <1>3, <1>4, <2>1 DEF ListFollows
  <2>4. /\ FileWrites' = {} \/ FileLists' = {}
        /\ FileWrites' = {} => FileWrites = {}
    BY <1>3, <1>4, <2>1 DEF ListFollows
  <2> QED BY <1>1, <2>1, <2>2, <2>3, <2>4 DEF ListFollows, ApartFrom, UpToOthers, Landed
<1> QED BY <1>3, <1>5, <1>6, <1>7 DEF FilesInv

(* An answer leaves the call behind, and in the list what it brought.      *)
LEMMA AnsweredKeeps ==
    ASSUME FilesInv, NEW c \in fileCalls, FileAnswered(c)
    PROVE  FilesInv'
<1>0. FilesShape /\ CallsFit /\ OneOwner /\ (~crossed => ListFollows)
  BY DEF FilesInv
<1>1. /\ c.phase # "sent" /\ fileCalls' = fileCalls \ {c}
      /\ ListAnswered(c) \/ ConfigAnswered(c) \/ WriteAnswered(c)
      /\ UNCHANGED <<stored, shownTask, foreign, crossed>>
  BY DEF FileAnswered, ListAnswered, ConfigAnswered, WriteAnswered
<1>2. /\ c \in FileCalls /\ c.task \in Shown /\ c.rows \in SUBSET Files
      /\ c.phase \in {"ok", "failed"}
  BY <1>0, <1>1 DEF FilesShape, FileCalls
<1>3. FileWrites' = FileWrites \ {c} /\ FileLists' = FileLists \ {c}
  BY <1>1 DEF FileWrites, FileLists
<1>4. CallsFit' /\ OneOwner'
  BY <1>0, <1>1, <1>3 DEF CallsFit, OneOwner, ApartFrom
<1>5. /\ fileCalls' \subseteq FileCalls /\ \A d \in FileWrites' : d.file \in Files
      /\ stored' \in [Shown -> SUBSET Files] /\ shownTask' \in Shown
  BY <1>0, <1>1, <1>3 DEF FilesShape
<1>6. CASE ListAnswered(c)
  <2>1. c \in FileLists /\ c \notin FileWrites
    BY <1>6 DEF ListAnswered, FileLists, FileWrites
  <2>2. /\ UNCHANGED counts
        /\ \/ c.phase = "ok" /\ listed' = c.rows /\ loadedTask' = c.task /\ failedTask' = NoTask
           \/ failedTask' = c.task /\ UNCHANGED <<listed, loadedTask>>
    BY <1>6 DEF ListAnswered
  <2>3. FilesShape'
    BY <1>0, <1>2, <1>5, <2>2 DEF FilesShape
  <2>4. ~crossed' => ListFollows'
    <3> SUFFICES ASSUME ~crossed PROVE ListFollows'
      BY <1>1
    <3>1. ListFollows /\ FileWrites = {} /\ FileWrites' = {}
      BY <1>0, <1>3, <2>1 DEF ListFollows
    <3>2. c.phase = "ok" => ApartFrom(c.rows, c.task) /\ UpToOthers(c.rows, c.task)
      BY <2>1, <3>1 DEF ListFollows
    <3>3. loadedTask' \in Shown => /\ ApartFrom(listed', loadedTask')
                                   /\ UpToOthers(listed', loadedTask')
      BY <2>2, <3>1, <3>2 DEF ListFollows
    <3>4. \A e \in FileLists' :
              e.phase = "ok" => ApartFrom(e.rows, e.task) /\ UpToOthers(e.rows, e.task)
      BY <1>3, <3>1 DEF ListFollows
    <3> QED BY <1>1, <3>1, <3>3, <3>4 DEF ListFollows, ApartFrom, UpToOthers
  <2> QED BY <1>4, <2>3, <2>4 DEF FilesInv
<1>7. CASE ConfigAnswered(c)
  <2>1. /\ FileLists' = FileLists /\ FileWrites' = FileWrites
        /\ UNCHANGED <<listed, loadedTask, failedTask, counts>>
    BY <1>3, <1>7 DEF ConfigAnswered, FileLists, FileWrites
  <2>2. FilesShape'
    BY <1>0, <1>5, <2>1 DEF FilesShape
  <2>3. ~crossed' => ListFollows'
    BY <1>0, <1>1, <2>1 DEF ListFollows, ApartFrom, UpToOthers, Landed
  <2> QED BY <1>4, <2>2, <2>3 DEF FilesInv
<1>8. CASE WriteAnswered(c)
  <2>1. /\ c \in FileWrites /\ c.kind \in {"add", "remove"} /\ c.file \in Files
        /\ UNCHANGED <<loadedTask, failedTask>>
    BY <1>0, <1>8 DEF WriteAnswered, FileWrites, FilesShape
  <2>2. FileWrites' = {}
    BY <1>0, <1>3, <2>1 DEF CallsFit
  <2>3. /\ Landed(c) \in SUBSET Files
        /\ \/ /\ c.phase = "ok" /\ listed' = Landed(c)
              /\ counts' = [counts EXCEPT ![c.task] = Cardinality(Landed(c))]
           \/ c.phase = "failed" /\ UNCHANGED <<listed, counts>>
    BY <1>2, <1>8, <2>1 DEF WriteAnswered, Landed
  <2>4. FilesShape'
    <3>1. Cardinality(Landed(c)) \in 0 .. Cardinality(Files)
      BY <2>3, Counted
    <3>2. counts' \in [Shown -> 0 .. Cardinality(Files)]
      BY <1>0, <1>2, <2>3, <3>1 DEF FilesShape
    <3> QED BY <1>0, <1>5, <2>1, <2>3, <3>2 DEF FilesShape
  <2>5. ~crossed' => ListFollows'
    <3> SUFFICES ASSUME ~crossed PROVE ListFollows'
      BY <1>1
    <3>1. /\ ListFollows /\ FileLists = {} /\ c.task = shownTask /\ loadedTask = shownTask
          /\ c.rows = listed /\ UpToOthers(Landed(c), c.task)
      BY <1>0, <2>1 DEF ListFollows
    <3>2. ApartFrom(listed, c.task) /\ (c.kind = "add" => ApartFrom({c.file}, c.task))
      BY <1>0, <1>2, <2>1, <3>1 DEF ListFollows, OneOwner
    <3>3. ApartFrom(Landed(c), c.task)
      BY <2>1, <3>1, <3>2 DEF ApartFrom, Landed
    <3>4. listed' = Landed(c)
      BY <2>3, <3>1 DEF Landed
    <3>5. FileLists' = {} /\ loadedTask' = c.task
      BY <1>3, <2>1, <3>1
    <3> QED BY <1>1, <2>2, <3>1, <3>3, <3>4, <3>5 DEF ListFollows, ApartFrom, UpToOthers
  <2> QED BY <1>4, <2>4, <2>5 DEF FilesInv
<1> QED BY <1>1, <1>6, <1>7, <1>8

(* The strengthening is kept by every step, and says what it is for.       *)
LEMMA FilesKeep == FilesInv /\ [FilesNext]_filesVars => FilesInv'
<1> SUFFICES ASSUME FilesInv, [FilesNext]_filesVars PROVE FilesInv'
  OBVIOUS
<1>1. ASSUME NEW f \in Files, upload(f) \/ addLink(f) \/ remove(f) PROVE FilesInv'
  <2>1. CASE upload(f) \/ addLink(f)
    BY <2>1, WriteBegins DEF upload, addLink
  <2>2. CASE remove(f)
    BY <2>2, WriteBegins DEF remove
  <2> QED BY <1>1, <2>1, <2>2
<1>2. ASSUME NEW t \in Shown, SwitchTask(t) PROVE FilesInv'
  BY <1>2, SwitchKeeps
<1>3. ASSUME NEW t \in Shown, NEW f \in Files, OtherFile(t, f) PROVE FilesInv'
  BY <1>3, OtherKeeps
<1>4. CASE FileNetwork
  BY <1>4, ServedWriteKeeps, ServedReadKeeps, RefusedKeeps, AnsweredKeeps DEF FileNetwork
<1>5. CASE UNCHANGED filesVars
  BY <1>5 DEF filesVars, FilesInv, FilesShape, CallsFit, OneOwner, ListFollows, ApartFrom,
              UpToOthers, Landed, FileWrites, FileLists
<1> QED BY <1>1, <1>2, <1>3, <1>4, <1>5 DEF FilesNext

(* What the strengthening says of the list on screen.                      *)
LEMMA FilesFollow == FilesInv => FilesSound
<1> SUFFICES ASSUME FilesInv PROVE FilesSound
  OBVIOUS
<1>0. FilesShape /\ CallsFit /\ OneOwner /\ (~crossed => ListFollows)
  BY DEF FilesInv
<1>1. FilesTypeOK
  <2>1. Cardinality(FileWrites) <= 1
    <3>1. CASE FileWrites = {}
      BY <3>1, FS_EmptySet
    <3>2. CASE FileWrites # {}
      <4>1. PICK c \in FileWrites : TRUE
        BY <3>2
      <4>2. FileWrites = {c}
        BY <1>0, <4>1 DEF CallsFit
      <4>3. Cardinality({c}) = 1
        BY FS_Singleton
      <4> QED BY <4>2, <4>3
    <3> QED BY <3>1, <3>2
  <2> QED BY <1>0, <2>1 DEF FilesTypeOK, FilesShape, FileWrites
<1>2. OwnFilesListed
  <2> SUFFICES ASSUME ~filesPending, ~filesLoading, ~loadFailed, ~crossed
               PROVE  (rows \ stored[shownTask]) \cup (stored[shownTask] \ rows) \subseteq foreign
    BY DEF OwnFilesListed
  <2>1. FileWrites = {} /\ loadedTask = shownTask /\ rows = listed
    BY DEF FileWrites, filesPending, filesLoading, loadFailed, rows
  <2> QED BY <1>0, <2>1 DEF ListFollows, UpToOthers, FilesShape
<1>3. FilesOfShownTask
  <2>1. CASE loadedTask = shownTask
    BY <1>0, <2>1 DEF FilesOfShownTask, rows, ListFollows, ApartFrom, FilesShape
  <2>2. CASE loadedTask # shownTask
    BY <2>2 DEF FilesOfShownTask, rows
  <2> QED BY <2>1, <2>2
<1> QED BY <1>1, <1>2, <1>3 DEF FilesSound

(* With nothing out the panel lists the shown task's files, its own        *)
(* uploads, links and removals among them, and never another task's, but   *)
(* for the crossings the property excepts (use-task-attachments.ts).       *)
THEOREM FilesStaySound == FilesSpec => []FilesSound
<1>1. FilesInit => FilesInv
  BY FilesBegin
<1>2. FilesInv /\ [FilesNext]_filesVars => FilesInv'
  BY FilesKeep
<1>3. FilesInv => FilesSound
  BY FilesFollow
<1> QED BY <1>1, <1>2, <1>3, PTL DEF FilesSpec

-----------------------------------------------------------------------------
(***************************************************************************)
(* The discussion of a task for any number of tasks, comments and pages:   *)
(* no comment of the task is skipped, none of another is shown, and no     *)
(* text is lost.                                                           *)
(***************************************************************************)

(* Some numbers up to a bound have a greatest and a least among them.      *)
LEMMA HasGreatest ==
    ASSUME NEW n \in Nat, NEW S \in SUBSET (1 .. n), S # {}
    PROVE  \E m \in S : \A x \in S : x <= m
<1> DEFINE above(x) == {y \in S : y > x}
           Above == {above(x) : x \in S}
<1>0. IsFiniteSet(S)
  <2>1. IsFiniteSet(1 .. n)
    BY FS_Interval
  <2> QED BY <2>1, FS_Subset
<1>1. Above \subseteq FiniteSubsetsOf(S) /\ Above # {}
  <2>1. \A x \in S : above(x) \in SUBSET S
    OBVIOUS
  <2>2. FiniteSubsetsOf(S) = SUBSET S
    BY <1>0, FS_FiniteSubsetsOfFinite
  <2>3. \A x \in S : above(x) \in FiniteSubsetsOf(S)
    BY <2>1, <2>2
  <2> HIDE DEF above
  <2> QED BY <2>3
<1>2. PICK A \in Above : \A B \in Above : <<B, A>> \notin StrictSubsetOrdering(S)
  <2> HIDE DEF Above
  <2> QED BY <1>0, <1>1, FS_StrictSubsetOrderingWellFounded, WFMin
<1>3. PICK m \in S : A = above(m)
  OBVIOUS
<1>4. ASSUME NEW x \in S, ~ (x <= m) PROVE FALSE
  <2>1. m \in Int /\ x \in Int /\ m < x /\ \A y \in S : y \in Int
    BY <1>4
  <2>2. above(x) \subseteq above(m)
    <3> SUFFICES ASSUME NEW y \in above(x) PROVE y \in above(m)
      OBVIOUS
    <3>1. y \in S /\ y > x /\ y \in Int
      BY <2>1
    <3> QED BY <2>1, <3>1
  <2>3. x \in above(m) /\ x \notin above(x)
    BY <2>1
  <2>4. <<above(x), above(m)>> \in StrictSubsetOrdering(S)
    <3>1. above(x) \in SUBSET S /\ above(m) \in SUBSET S
      OBVIOUS
    <3> HIDE DEF above
    <3> QED BY <2>2, <2>3, <3>1 DEF StrictSubsetOrdering
  <2>5. above(x) \in Above
    OBVIOUS
  <2> HIDE DEF above, Above
  <2> QED BY <1>2, <1>3, <2>4, <2>5
<1> QED BY <1>4

(* And a least.                                                            *)
LEMMA HasLeast ==
    ASSUME NEW n \in Nat, NEW S \in SUBSET (1 .. n), S # {}
    PROVE  \E m \in S : \A x \in S : m <= x
<1> DEFINE T == {n + 1 - x : x \in S}
<1>1. T \in SUBSET (1 .. n) /\ T # {}
  <2>1. \A x \in S : n + 1 - x \in 1 .. n
    OBVIOUS
  <2> QED BY <2>1
<1>2. PICK g \in T : \A y \in T : y <= g
  <2> HIDE DEF T
  <2> QED BY <1>1, HasGreatest
<1>3. PICK m \in S : g = n + 1 - m
  OBVIOUS
<1>4. \A x \in S : n + 1 - x <= n + 1 - m
  BY <1>2, <1>3
<1>5. \A x \in S : m <= x
  BY <1>4
<1> QED BY <1>5

(* A page has comments of the task after the cursor, and those it leaves   *)
(* out come after its own cursor.                                          *)
LEMMA PageIs ==
    ASSUME TalkShape, NEW t \in TalkTasks, NEW cur \in Nat
    PROVE  /\ PageAfter(t, cur) \in TalkData
           /\ PageAfter(t, cur).comments \subseteq thread[t]
           /\ PageAfter(t, cur).cursor <= made
           /\ LeavesOut(PageAfter(t, cur), cur, t)
<1> DEFINE after == {i \in thread[t] : i > cur}
           upTo(i) == {j \in after : j <= i}
           page == {i \in after : Cardinality(upTo(i)) <= COMMENTS_PAGE_LIMIT}
           last == CHOOSE i \in page : \A j \in page : j <= i
<1>1. /\ made \in Nat /\ made <= MaxComments /\ MaxComments \in Nat
      /\ thread[t] \subseteq 1 .. made /\ acts[t] \in Nat
  <2>1. MaxComments \in Nat
    BY TalkAssumption
  <2>2. made \in 0 .. MaxComments /\ thread[t] \in SUBSET (1 .. made) /\ acts[t] \in Nat
    BY DEF TalkShape
  <2> QED BY <2>1, <2>2
<1>2. after \subseteq 1 .. made /\ IsFiniteSet(after)
  <2>1. after \subseteq 1 .. made /\ IsFiniteSet(1 .. made)
    BY <1>1, FS_Interval
  <2> QED BY <2>1, FS_Subset
<1>3. \A i \in after : IsFiniteSet(upTo(i)) /\ Cardinality(upTo(i)) \in Nat
  <2>1. \A i \in after : upTo(i) \subseteq after
    OBVIOUS
  <2> HIDE DEF upTo, after
  <2> QED BY <1>2, <2>1, FS_Subset, FS_CardinalityType
<1>4. page \subseteq after
  OBVIOUS
<1>5. \A i \in page, k \in after \ page : i < k
  <2> SUFFICES ASSUME NEW i \in page, NEW k \in after \ page, ~ (i < k) PROVE FALSE
    OBVIOUS
  <2>1. upTo(k) \subseteq upTo(i) /\ i \in after
    BY <1>2
  <2>2. Cardinality(upTo(k)) <= Cardinality(upTo(i))
    <3> HIDE DEF upTo
    <3> QED BY <1>3, <2>1, FS_Subset
  <2>3. Cardinality(upTo(i)) <= COMMENTS_PAGE_LIMIT /\ COMMENTS_PAGE_LIMIT \in Nat
    BY TalkAssumption
  <2>4. Cardinality(upTo(i)) \in Nat /\ Cardinality(upTo(k)) \in Nat
    BY <1>3, <2>1
  <2>5. Cardinality(upTo(k)) <= COMMENTS_PAGE_LIMIT
    <3> HIDE DEF upTo
    <3> QED BY <2>2, <2>3, <2>4
  <2> QED BY <2>5
<1>6. after # {} => page # {}
  <2> SUFFICES ASSUME after # {} PROVE page # {}
    OBVIOUS
  <2>1. PICK m \in after : \A x \in after : m <= x
    <3> HIDE DEF after
    <3> QED BY <1>1, <1>2, HasLeast
  <2>2. upTo(m) = {m}
    BY <1>2, <2>1
  <2>3. Cardinality(upTo(m)) = 1
    <3> HIDE DEF upTo
    <3> QED BY <2>2, FS_Singleton
  <2> QED BY <2>3, TalkAssumption
<1>7. page # {} => last \in page /\ \A j \in page : j <= last
  <2> HIDE DEF page
  <2>1. page # {} => \E i \in page : \A j \in page : j <= i
    BY <1>1, <1>2, <1>4, HasGreatest
  <2> QED BY <2>1
<1>8. PageAfter(t, cur) = [comments |-> page, acts |-> acts[t],
                           cursor |-> IF page = after THEN 0 ELSE last]
  BY DEF PageAfter
<1> HIDE DEF page, last
<1>9. page # after => /\ last \in 1 .. made
                      /\ \A k \in after \ page : last < k
  BY <1>2, <1>4, <1>5, <1>6, <1>7
<1>10. PageAfter(t, cur) \in TalkData /\ PageAfter(t, cur).cursor <= made
  BY <1>1, <1>2, <1>4, <1>8, <1>9 DEF TalkData
<1>11. LeavesOut(PageAfter(t, cur), cur, t)
  <2> SUFFICES ASSUME NEW i \in thread[t], i > cur, i \notin page
               PROVE  page # after /\ last # 0 /\ i > last
    BY <1>8 DEF LeavesOut
  <2>1. i \in after \ page
    OBVIOUS
  <2> QED BY <1>2, <1>9, <2>1
<1> QED BY <1>4, <1>8, <1>10, <1>11

(* What makes a call.                                                      *)
LEMMA CallRecord ==
    ASSUME NEW kind \in {"meta", "more", "post", "acts", "del"}, NEW t \in TalkTasks,
           NEW cur \in 0 .. MaxComments, NEW i \in 0 .. MaxComments, NEW x \in TalkData,
           NEW ph \in {"sent", "ok", "failed"}
    PROVE  [kind |-> kind, task |-> t, cursor |-> cur, data |-> x, id |-> i, phase |-> ph]
              \in TalkCalls
<1>1. PICK numbers : numbers = 0 .. MaxComments
  OBVIOUS
<1>2. cur \in numbers /\ i \in numbers
  BY <1>1
<1>3. [kind |-> kind, task |-> t, cursor |-> cur, data |-> x, id |-> i, phase |-> ph]
         \in [kind : {"meta", "more", "post", "acts", "del"}, task : TalkTasks, cursor : numbers,
              data : TalkData, id : numbers, phase : {"sent", "ok", "failed"}]
  BY <1>2
<1> QED BY <1>1, <1>3 DEF TalkCalls

(* A call that goes out: it may name a comment, and has nothing yet.       *)
NewCall(kind, t, cur, i) == [TalkCall(kind, t, cur) EXCEPT !.id = i]

(* Its parts.                                                              *)
LEMMA CallIs ==
    ASSUME NEW kind \in {"meta", "more", "post", "acts", "del"}, NEW t \in TalkTasks,
           NEW cur \in 0 .. MaxComments, NEW i \in 0 .. MaxComments,
           NEW c, c = NewCall(kind, t, cur, i)
    PROVE  /\ c \in TalkCalls /\ c.kind = kind /\ c.task = t /\ c.cursor = cur
           /\ c.id = i /\ c.phase = "sent"
           /\ c.data.comments = {} /\ c.data.cursor = 0
<1>1. InitialData \in TalkData /\ InitialData.comments = {} /\ InitialData.cursor = 0
  <2>1. 0 \in 0 .. MaxComments
    BY TalkAssumption
  <2> QED BY <2>1 DEF InitialData, TalkData
<1>2. c = [kind |-> kind, task |-> t, cursor |-> cur, data |-> InitialData, id |-> i, phase |-> "sent"]
  BY DEF NewCall, TalkCall
<1>3. c.data = InitialData /\ c.kind = kind /\ c.task = t /\ c.cursor = cur /\ c.id = i /\ c.phase = "sent"
  BY <1>2
<1>4. c \in TalkCalls
  <2>1. PICK x, ph : x = InitialData /\ ph = "sent"
    OBVIOUS
  <2>2. [kind |-> kind, task |-> t, cursor |-> cur, data |-> x, id |-> i, phase |-> ph] \in TalkCalls
    BY <1>1, <2>1, CallRecord
  <2> QED BY <1>2, <2>1, <2>2
<1> QED BY <1>1, <1>3, <1>4

(* A call that was answered is the same call.                              *)
LEMMA AnswerIs ==
    ASSUME NEW c \in TalkCalls, NEW ph \in {"sent", "ok", "failed"},
           NEW d, d = [c EXCEPT !.phase = ph]
    PROVE  /\ d \in TalkCalls /\ d.kind = c.kind /\ d.task = c.task /\ d.cursor = c.cursor
           /\ d.data = c.data /\ d.id = c.id /\ d.phase = ph
<1>1. PICK numbers, datas : numbers = 0 .. MaxComments /\ datas = TalkData
  OBVIOUS
<1>2. TalkCalls = [kind : {"meta", "more", "post", "acts", "del"}, task : TalkTasks,
                   cursor : numbers, data : datas, id : numbers, phase : {"sent", "ok", "failed"}]
  BY <1>1 DEF TalkCalls
<1> QED BY <1>1, <1>2

(* The answer to a post names its comment, the answer to a read has a page. *)
Named(c, ph, i) == [c EXCEPT !.phase = ph, !.id = i]
Paged(c, ph, x) == [c EXCEPT !.phase = ph, !.data = x]

(* They, too, are the same call.                                           *)
LEMMA NamedAnswerIs ==
    ASSUME NEW c \in TalkCalls, NEW ph \in {"sent", "ok", "failed"}, NEW i \in 0 .. MaxComments,
           NEW d, d = Named(c, ph, i)
    PROVE  /\ d \in TalkCalls /\ d.kind = c.kind /\ d.task = c.task /\ d.cursor = c.cursor
           /\ d.data = c.data /\ d.id = i /\ d.phase = ph
<1>1. PICK numbers, datas : numbers = 0 .. MaxComments /\ datas = TalkData
  OBVIOUS
<1>2. TalkCalls = [kind : {"meta", "more", "post", "acts", "del"}, task : TalkTasks,
                   cursor : numbers, data : datas, id : numbers, phase : {"sent", "ok", "failed"}]
  BY <1>1 DEF TalkCalls
<1> QED BY <1>1, <1>2 DEF Named

(* So is the answer to a read.                                             *)
LEMMA PageAnswerIs ==
    ASSUME NEW c \in TalkCalls, NEW ph \in {"sent", "ok", "failed"}, NEW x \in TalkData,
           NEW d, d = Paged(c, ph, x)
    PROVE  /\ d \in TalkCalls /\ d.kind = c.kind /\ d.task = c.task /\ d.cursor = c.cursor
           /\ d.data = x /\ d.id = c.id /\ d.phase = ph
<1>1. PICK numbers, datas : numbers = 0 .. MaxComments /\ datas = TalkData
  OBVIOUS
<1>2. TalkCalls = [kind : {"meta", "more", "post", "acts", "del"}, task : TalkTasks,
                   cursor : numbers, data : datas, id : numbers, phase : {"sent", "ok", "failed"}]
  BY <1>1 DEF TalkCalls
<1> QED BY <1>1, <1>2 DEF Paged

(* The bounds of everything.                                               *)
LEMMA Bounds ==
    ASSUME TalkInv
    PROVE  /\ made \in Nat /\ MaxComments \in Nat /\ made <= MaxComments /\ talkTask \in TalkTasks
           /\ 0 \in 0 .. made /\ 0 \in 0 .. MaxComments
           /\ meta.cursor \in 0 .. made /\ meta.comments \subseteq 1 .. made
<1>1. MaxComments \in Nat
  BY TalkAssumption
<1>2. made \in 0 .. MaxComments /\ talkTask \in TalkTasks /\ meta.cursor <= made
      /\ meta.comments \subseteq 1 .. made /\ meta \in TalkData
  BY DEF TalkInv, TalkShape
<1>3. meta.cursor \in 0 .. MaxComments
  BY <1>2 DEF TalkData
<1> QED BY <1>1, <1>2, <1>3

(* What calls are judged by.                                               *)
View == <<thread, made, talkTask, metaLoading, metaFailed, stir, skewed, wrote>>

(* While that stays, they fit as before.                                   *)
LEMMA FitAsBefore ==
    ASSUME UNCHANGED View
    PROVE  \A c : CallFits(c)' <=> CallFits(c)
<1>1. UNCHANGED <<thread, made, talkTask, metaLoading, metaFailed, stir, skewed, wrote>>
  BY DEF View
<1>2. \A c : CallShape(c)' <=> CallShape(c)
  BY <1>1 DEF CallShape
<1>3. \A c : CallBrings(c)' <=> CallBrings(c)
  BY <1>1 DEF CallBrings
<1>4. \A c : CallKeeps(c)' <=> CallKeeps(c)
  BY <1>1 DEF CallKeeps
<1>5. \A d, n, t : LeavesOut(d, n, t)' <=> LeavesOut(d, n, t)
  BY <1>1 DEF LeavesOut
<1>6. \A c : CallReads(c)' <=> CallReads(c)
  BY <1>1, <1>5 DEF CallReads
<1>7. \A c : CallContinues(c)' <=> CallContinues(c)
  BY <1>1, <1>5 DEF CallContinues
<1> QED BY <1>2, <1>3, <1>4, <1>6, <1>7 DEF CallFits

(* Steps that send, answer or drop calls and change nothing they are       *)
(* judged by.                                                              *)
LEMMA CallsKeep ==
    ASSUME TalkInv, UNCHANGED View, UNCHANGED <<acts, meta, body>>,
           \A c \in retries' : CallShape(c) /\ c.kind = "more",
           \A c \in talkCalls' : CallFits(c), OneRead'
    PROVE  TalkInv'
<1>1. UNCHANGED <<thread, made, talkTask, metaLoading, metaFailed, stir, skewed, wrote>>
  BY DEF View
<1>2. TalkShape' /\ OneThread' /\ TextNeverLost'
  BY <1>1 DEF TalkInv, TalkShape, OneThread, TextNeverLost
<1>3. ShownFits'
  BY <1>1 DEF TalkInv, ShownFits, LeavesOut
<1>4. \A c : CallShape(c)' <=> CallShape(c)
  BY <1>1 DEF CallShape
<1> QED BY <1>2, <1>3, <1>4, FitAsBefore DEF TalkInv

(* A call that goes out fits, whatever it asks.                            *)
LEMMA SentFits ==
    ASSUME TalkInv, NEW c, CallShape(c), c.phase = "sent", c.kind \in {"more", "post", "del"},
           c.kind = "post" => c.task = talkTask,
           c.kind \in {"post", "del"} => c.data.comments = {}
    PROVE  CallFits(c)
BY DEF CallFits, CallBrings, CallKeeps, CallReads, CallContinues

(* The numbers of a call that names a comment listed, or none.             *)
LEMMA NewCallFits ==
    ASSUME TalkInv, NEW kind \in {"more", "post", "del"}, NEW cur \in 0 .. made, NEW i \in 0 .. made,
           NEW c, c = NewCall(kind, talkTask, cur, i)
    PROVE  CallFits(c) /\ c.kind = kind
<1>1. /\ made \in Nat /\ MaxComments \in Nat /\ made <= MaxComments /\ talkTask \in TalkTasks
  BY Bounds
<1>2. cur \in 0 .. MaxComments /\ i \in 0 .. MaxComments /\ i <= made /\ 0 <= made
      /\ kind \in {"meta", "more", "post", "acts", "del"}
  BY <1>1
<1>3. /\ c \in TalkCalls /\ c.kind = kind /\ c.task = talkTask /\ c.id = i /\ c.phase = "sent"
      /\ c.data.comments = {} /\ c.data.cursor = 0
  BY <1>1, <1>2, CallIs
<1>4. CallShape(c)
  BY <1>2, <1>3 DEF CallShape
<1> QED BY <1>3, <1>4, SentFits

(* A page is asked for from the cursor of the list.                        *)
LEMMA MoreKeeps == ASSUME TalkInv, loadMoreComments PROVE TalkInv'
<1>0. PICK cur \in 0 .. made : cur = meta.cursor
  BY Bounds
<1> DEFINE new == TalkCall("more", talkTask, cur)
<1>1. /\ talkCalls' = talkCalls \cup {new} /\ UNCHANGED View /\ UNCHANGED <<acts, meta, body, retries>>
  BY <1>0 DEF loadMoreComments, Ask, View
<1>2. 0 \in 0 .. made
  BY Bounds
<1>3. new = NewCall("more", talkTask, cur, 0)
  BY DEF NewCall, TalkCall
<1> HIDE DEF new
<1>4. CallFits(new) /\ new.kind = "more"
  BY <1>2, <1>3, NewCallFits
<1>5. OneRead'
  BY <1>1, <1>4 DEF OneRead, TalkInv
<1> QED BY <1>1, <1>4, <1>5, CallsKeep DEF TalkInv

(* A post goes out for the task on screen.                                 *)
LEMMA SubmitKeeps == ASSUME TalkInv, submit PROVE TalkInv'
<1> DEFINE new == TalkCall("post", talkTask, 0)
<1>1. /\ talkCalls' = talkCalls \cup {new} /\ UNCHANGED View /\ UNCHANGED <<acts, meta, body, retries>>
  BY DEF submit, Ask, View
<1>2. 0 \in 0 .. made
  BY Bounds
<1>3. new = NewCall("post", talkTask, 0, 0)
  BY DEF NewCall, TalkCall
<1> HIDE DEF new
<1>4. CallFits(new) /\ new.kind = "post"
  BY <1>2, <1>3, NewCallFits
<1>5. OneRead'
  BY <1>1, <1>4 DEF OneRead, TalkInv
<1> QED BY <1>1, <1>4, <1>5, CallsKeep DEF TalkInv

(* So does the deletion of a comment that is listed.                       *)
LEMMA RemoveKeeps == ASSUME TalkInv, NEW i, removeComment(i) PROVE TalkInv'
<1> DEFINE new == [TalkCall("del", talkTask, 0) EXCEPT !.id = i]
<1>1. /\ i \in meta.comments
      /\ talkCalls' = talkCalls \cup {new} /\ UNCHANGED View /\ UNCHANGED <<acts, meta, body, retries>>
  BY DEF removeComment, Ask, View
<1>2. 0 \in 0 .. made /\ i \in 0 .. made
  BY <1>1, Bounds
<1>3. new = NewCall("del", talkTask, 0, i)
  BY DEF NewCall
<1> HIDE DEF new
<1>4. CallFits(new) /\ new.kind = "del"
  BY <1>2, <1>3, NewCallFits
<1>5. OneRead'
  BY <1>1, <1>4 DEF OneRead, TalkInv
<1> QED BY <1>1, <1>4, <1>5, CallsKeep DEF TalkInv

(* A page that failed is asked for again, while its task is on screen.     *)
LEMMA RetryKeeps == ASSUME TalkInv, NEW c \in retries, RetryMore(c) PROVE TalkInv'
<1>1. /\ retries' = retries \ {c} /\ UNCHANGED View /\ UNCHANGED <<acts, meta, body>>
      /\ IF c.task = talkTask THEN talkCalls' = talkCalls \cup {[c EXCEPT !.phase = "sent"]}
         ELSE talkCalls' = talkCalls
  BY DEF RetryMore, Ask, View
<1>2. CallShape(c) /\ c.kind = "more" /\ c \in TalkCalls
  BY DEF TalkInv, CallShape
<1>3. \A x \in retries' : CallShape(x) /\ x.kind = "more"
  BY <1>1 DEF TalkInv
<1>4. CASE c.task # talkTask
  <2>1. talkCalls' = talkCalls /\ OneRead'
    BY <1>1, <1>4 DEF TalkInv, OneRead
  <2> QED BY <1>1, <1>3, <2>1, CallsKeep DEF TalkInv
<1>5. CASE c.task = talkTask
  <2>1. PICK d : d = [c EXCEPT !.phase = "sent"]
    OBVIOUS
  <2>2. d \in TalkCalls /\ d.kind = "more" /\ d.task = c.task /\ d.data = c.data /\ d.id = c.id /\ d.phase = "sent"
    BY <1>2, <2>1, AnswerIs
  <2>3. CallShape(d)
    BY <1>2, <2>2 DEF CallShape
  <2>4. CallFits(d)
    BY <2>2, <2>3, SentFits
  <2>5. talkCalls' = talkCalls \cup {d}
    BY <1>1, <1>5, <2>1
  <2>6. OneRead'
    BY <2>2, <2>5 DEF OneRead, TalkInv
  <2> QED BY <1>1, <1>3, <2>4, <2>5, <2>6, CallsKeep DEF TalkInv
<1> QED BY <1>4, <1>5

(* Calls that were there fit when a read starts: nothing is settled then.  *)
LEMMA StartKeeps ==
    ASSUME TalkInv, NEW t \in TalkTasks, StartRead(t), talkTask' = t, stir' \in BOOLEAN,
           UNCHANGED <<thread, acts, made, meta, body, retries, wrote>>
    PROVE  TalkInv'
<1> DEFINE new == TalkCall("meta", t, 0)
<1>1. /\ metaLoading' = TRUE /\ metaFailed' = FALSE
      /\ talkCalls' = {c \in talkCalls : c.kind # "meta"} \cup {new}
  BY DEF StartRead
<1>2. new = NewCall("meta", t, 0, 0)
  BY DEF NewCall, TalkCall
<1> HIDE DEF new
<1>3. /\ new \in TalkCalls /\ new.kind = "meta" /\ new.task = t /\ new.cursor = 0 /\ new.id = 0
      /\ new.phase = "sent" /\ new.data.comments = {} /\ new.data.cursor = 0
  BY <1>2, Bounds, CallIs
<1>4. \A c : CallShape(c) => CallShape(c)'
  BY DEF CallShape
<1>5. ASSUME NEW c \in talkCalls, c.kind # "meta" PROVE CallFits(c)'
  <2>1. CallShape(c)'
    BY <1>4 DEF TalkInv, CallFits
  <2>2. CallBrings(c)' /\ CallKeeps(c)'
    BY DEF TalkInv, CallFits, CallBrings, CallKeeps
  <2>3. CallReads(c)' /\ CallContinues(c)'
    BY <1>1, <1>5 DEF CallReads, CallContinues
  <2> QED BY <2>1, <2>2, <2>3 DEF CallFits
<1>6. CallFits(new)'
  <2>1. 0 <= made' /\ made' = made
    BY Bounds
  <2>2. \A c : c = new => CallFits(c)'
    BY <1>1, <1>3, <2>1 DEF CallFits, CallShape, CallBrings, CallKeeps, CallReads, CallContinues
  <2> QED BY <2>2
<1>7. \A c \in talkCalls' : CallFits(c)'
  BY <1>1, <1>5, <1>6
<1>8. OneRead'
  BY <1>1, <1>3 DEF OneRead
<1>9. TalkShape' /\ OneThread' /\ TextNeverLost'
  BY <1>1 DEF TalkInv, TalkShape, OneThread, TextNeverLost
<1>10. ShownFits'
  BY <1>1 DEF ShownFits
<1>11. \A c \in retries' : CallShape(c)' /\ c.kind = "more"
  BY <1>4 DEF TalkInv
<1> QED BY <1>7, <1>8, <1>9, <1>10, <1>11 DEF TalkInv

(* A comment that was announced starts the read of the discussion again.   *)
LEMMA RefreshKeeps == ASSUME TalkInv, Refresh PROVE TalkInv'
<1>1. /\ StartRead(talkTask) /\ stir' = FALSE /\ talkTask' = talkTask
      /\ UNCHANGED <<thread, acts, made, meta, body, retries, wrote>>
  BY DEF Refresh
<1>2. talkTask \in TalkTasks /\ stir' \in BOOLEAN
  BY <1>1, Bounds
<1> QED BY <1>1, <1>2, StartKeeps

(* So does another task.                                                   *)
LEMMA TaskSwitchKeeps == ASSUME TalkInv, NEW t \in TalkTasks, SwitchTalk(t) PROVE TalkInv'
<1>1. /\ StartRead(t) /\ stir' = stir /\ talkTask' = t
      /\ UNCHANGED <<thread, acts, made, meta, body, retries, wrote>>
  BY DEF SwitchTalk
<1>2. stir' \in BOOLEAN
  BY <1>1 DEF TalkInv, TalkShape
<1> QED BY <1>1, <1>2, StartKeeps

(* Text is typed while nothing is being posted: no call holds the last.    *)
LEMMA TypeKeeps == ASSUME TalkInv, TypeText PROVE TalkInv'
<1>1. /\ ~ posting /\ body' = "text" /\ wrote' = [any |-> TRUE, kept |-> FALSE]
      /\ UNCHANGED <<thread, acts, made, talkTask, meta, metaLoading, metaFailed, talkCalls, stir,
                     retries, skewed>>
  BY DEF TypeText
<1>2. \A c \in talkCalls : c.kind \notin {"post", "acts", "del"}
  <2>1. \A c \in talkCalls : c.kind = "acts" => c.id > 0 /\ c.id # 0
    <3> SUFFICES ASSUME NEW c \in talkCalls, c.kind = "acts" PROVE c.id > 0 /\ c.id # 0
      OBVIOUS
    <3>1. c.id > 0
      BY DEF TalkInv, CallFits, CallKeeps
    <3> QED BY <3>1
  <2> QED BY <1>1, <2>1 DEF posting
<1>3. ASSUME NEW c \in talkCalls PROVE CallFits(c)'
  <2>1. CallFits(c)
    BY DEF TalkInv
  <2>2. CallShape(c)' /\ CallBrings(c)'
    BY <1>1, <2>1 DEF CallFits, CallShape, CallBrings
  <2>3. CallKeeps(c)'
    BY <1>2 DEF CallKeeps
  <2>4. \A d, n, t : LeavesOut(d, n, t)' <=> LeavesOut(d, n, t)
    BY <1>1 DEF LeavesOut
  <2>5. CallReads(c)' /\ CallContinues(c)'
    BY <1>1, <2>1, <2>4 DEF CallFits, CallReads, CallContinues
  <2> QED BY <2>2, <2>3, <2>5 DEF CallFits
<1>4. wrote' \in [any : BOOLEAN, kept : BOOLEAN]
  <2>1. PICK y \in BOOLEAN, n \in BOOLEAN : y = TRUE /\ n = FALSE
    OBVIOUS
  <2>2. [any |-> y, kept |-> n] \in [any : BOOLEAN, kept : BOOLEAN]
    OBVIOUS
  <2> QED BY <1>1, <2>1, <2>2
<1>5. TalkShape' /\ OneThread'
  BY <1>1, <1>4 DEF TalkInv, TalkShape, OneThread
<1>6. TextNeverLost'
  BY <1>1 DEF TextNeverLost
<1>7. ShownFits' /\ OneRead'
  BY <1>1 DEF TalkInv, ShownFits, LeavesOut, OneRead
<1>8. \A c \in retries' : CallShape(c)' /\ c.kind = "more"
  BY <1>1 DEF TalkInv, CallShape
<1> QED BY <1>1, <1>3, <1>5, <1>6, <1>7, <1>8 DEF TalkInv

(* A call that is answered takes the place of the one that was out.        *)
LEMMA AnswerKeeps ==
    ASSUME TalkInv, NEW c \in talkCalls, NEW d, d.kind = c.kind, CallFits(d),
           talkCalls' = (talkCalls \ {c}) \cup {d},
           UNCHANGED View, UNCHANGED <<acts, meta, body, retries>>
    PROVE  TalkInv'
<1>1. OneRead'
  BY DEF TalkInv, OneRead
<1>2. \A x \in talkCalls' : CallFits(x)
  BY DEF TalkInv
<1>3. \A x \in retries' : CallShape(x) /\ x.kind = "more"
  BY DEF TalkInv
<1> QED BY <1>1, <1>2, <1>3, CallsKeep

(* A page brings comments of its own task, and leaves out what lies beyond *)
(* its cursor.                                                             *)
LEMMA ReadKeeps == ASSUME TalkInv, NEW c \in talkCalls, ServeTalkRead(c) PROVE TalkInv'
<1>1. PICK t, cur, x : t = c.task /\ cur = c.cursor /\ x = PageAfter(t, cur)
  OBVIOUS
<1>2. PICK d : d = [c EXCEPT !.phase = "ok", !.data = x]
  OBVIOUS
<1>3. /\ c.kind \in {"meta", "more", "acts"} /\ talkCalls' = (talkCalls \ {c}) \cup {d}
      /\ UNCHANGED View /\ UNCHANGED <<acts, meta, body, retries>>
  BY <1>1, <1>2 DEF ServeTalkRead, Became, View
<1>4. CallFits(c) /\ c \in TalkCalls
  BY DEF TalkInv, CallFits, CallShape
<1>5. t \in TalkTasks /\ cur \in Nat
  <2>1. c.task \in TalkTasks /\ c.cursor \in 0 .. MaxComments
    BY <1>4 DEF TalkCalls
  <2> QED BY <1>1, <2>1, Bounds
<1>6. /\ x \in TalkData /\ x.comments \subseteq thread[t] /\ x.cursor <= made /\ LeavesOut(x, cur, t)
  BY <1>1, <1>5, PageIs DEF TalkInv
<1>7. /\ d \in TalkCalls /\ d.kind = c.kind /\ d.task = t /\ d.cursor = cur
      /\ d.data = x /\ d.id = c.id /\ d.phase = "ok"
  <2>1. PICK ph \in {"sent", "ok", "failed"} : ph = "ok"
    OBVIOUS
  <2>2. d = Paged(c, ph, x)
    BY <1>2, <2>1 DEF Paged
  <2>3. /\ d \in TalkCalls /\ d.kind = c.kind /\ d.task = c.task /\ d.cursor = c.cursor
        /\ d.data = x /\ d.id = c.id /\ d.phase = ph
    BY <1>4, <1>6, <2>2, PageAnswerIs
  <2> QED BY <1>1, <2>1, <2>3
<1>8. thread[t] \subseteq 1 .. made /\ \A u \in TalkTasks \ {t} : thread[t] \cap thread[u] = {}
  BY <1>5 DEF TalkInv, TalkShape, OneThread
<1>9. CallShape(d)
  BY <1>4, <1>6, <1>7, <1>8 DEF CallFits, CallShape
<1>10. CallBrings(d)
  BY <1>3, <1>6, <1>7, <1>8 DEF CallBrings
<1>11. CallKeeps(d)
  BY <1>3, <1>4, <1>7 DEF CallFits, CallKeeps
<1>12. CallReads(d)
  BY <1>1, <1>4, <1>6, <1>7 DEF CallFits, CallReads
<1>13. CallContinues(d)
  BY <1>3, <1>6, <1>7 DEF CallContinues
<1>14. CallFits(d)
  BY <1>9, <1>10, <1>11, <1>12, <1>13 DEF CallFits
<1> QED BY <1>3, <1>7, <1>14, AnswerKeeps

(* A call that is refused or fails brings nothing.                         *)
LEMMA RefuseKeeps == ASSUME TalkInv, NEW c \in talkCalls, RefuseTalk(c) PROVE TalkInv'
<1>1. PICK d : d = [c EXCEPT !.phase = "failed"]
  OBVIOUS
<1>2. /\ talkCalls' = (talkCalls \ {c}) \cup {d}
      /\ UNCHANGED View /\ UNCHANGED <<acts, meta, body, retries>>
  BY <1>1 DEF RefuseTalk, Became, View
<1>3. CallFits(c) /\ c \in TalkCalls
  BY DEF TalkInv, CallFits, CallShape
<1>4. /\ d \in TalkCalls /\ d.kind = c.kind /\ d.task = c.task /\ d.cursor = c.cursor
      /\ d.data = c.data /\ d.id = c.id /\ d.phase = "failed"
  BY <1>1, <1>3, AnswerIs
<1>5. CallFits(d)
  BY <1>3, <1>4 DEF CallFits, CallShape, CallBrings, CallKeeps, CallReads, CallContinues
<1> QED BY <1>2, <1>4, <1>5, AnswerKeeps

(* A comment is made: its number is new, so no list and no answer has it,  *)
(* and the task on screen is told.                                         *)
LEMMA CreateFits ==
    ASSUME TalkInv, NEW t \in TalkTasks, Create(t), wrote.kept => wrote'.kept,
           UNCHANGED <<talkTask, metaLoading, metaFailed, skewed>>
    PROVE  /\ made' = made + 1 /\ made' \in Nat /\ made' <= MaxComments
           /\ thread' \in [TalkTasks -> SUBSET (1 .. made')]
           /\ acts' \in [TalkTasks -> Nat] /\ stir' \in BOOLEAN
           /\ thread'[t] = thread[t] \cup {made'}
           /\ \A u \in TalkTasks \ {t} : thread'[u] = thread[u] /\ made' \notin thread[u]
           /\ t = talkTask => stir'
           /\ OneThread'
           /\ \A c : CallFits(c) => CallFits(c)'
           /\ \A c : CallShape(c) => CallShape(c)'
<1>1. /\ made < MaxComments /\ made' = made + 1 /\ thread' = [thread EXCEPT ![t] = @ \cup {made'}]
      /\ acts' = [acts EXCEPT ![t] = @ + 1] /\ stir' = (stir \/ t = talkTask)
  BY DEF Create
<1>2. /\ thread \in [TalkTasks -> SUBSET (1 .. made)] /\ acts \in [TalkTasks -> Nat] /\ stir \in BOOLEAN
      /\ made \in Nat /\ MaxComments \in Nat
  BY Bounds DEF TalkInv, TalkShape
<1>3. made' \in Nat /\ made' <= MaxComments /\ made' \notin 1 .. made /\ 1 .. made \subseteq 1 .. made'
      /\ made' \in 1 .. made'
  BY <1>1, <1>2
<1>4. /\ thread'[t] = thread[t] \cup {made'}
      /\ \A u \in TalkTasks \ {t} : thread'[u] = thread[u]
      /\ \A u \in TalkTasks : thread[u] \subseteq 1 .. made /\ made' \notin thread[u]
  BY <1>1, <1>2, <1>3
<1>5. thread' \in [TalkTasks -> SUBSET (1 .. made')]
  <2>1. thread[t] \cup {made'} \in SUBSET (1 .. made')
    BY <1>3, <1>4
  <2>2. \A u \in TalkTasks : thread[u] \in SUBSET (1 .. made')
    BY <1>3, <1>4
  <2> QED BY <1>1, <1>2, <2>1, <2>2
<1>6. acts' \in [TalkTasks -> Nat] /\ stir' \in BOOLEAN
  BY <1>1, <1>2
<1>7. OneThread'
  <2> SUFFICES ASSUME NEW u \in TalkTasks, NEW v \in TalkTasks, u # v
               PROVE  thread'[u] \cap thread'[v] = {}
    BY DEF OneThread
  <2>1. thread[u] \cap thread[v] = {}
    BY DEF TalkInv, OneThread
  <2>2. CASE u = t
    BY <1>4, <2>1, <2>2
  <2>3. CASE v = t
    BY <1>4, <2>1, <2>3
  <2>4. CASE u # t /\ v # t
    BY <1>4, <2>1, <2>4
  <2> QED BY <2>2, <2>3, <2>4
<1>8. \A c : CallShape(c) => CallShape(c)'
  <2> SUFFICES ASSUME NEW c, CallShape(c) PROVE CallShape(c)'
    OBVIOUS
  <2>1. c \in TalkCalls /\ c.data.comments \subseteq 1 .. made /\ c.data.cursor <= made /\ c.id <= made
    BY DEF CallShape
  <2>2. c.data.cursor \in Nat /\ c.id \in Nat
    <3>1. c.id \in 0 .. MaxComments /\ c.data \in TalkData
      BY <2>1 DEF TalkCalls
    <3>2. c.data.cursor \in 0 .. MaxComments
      BY <3>1 DEF TalkData
    <3> QED BY <1>2, <3>1, <3>2
  <2>3. c.data.comments \subseteq 1 .. made' /\ c.data.cursor <= made' /\ c.id <= made'
    BY <1>1, <1>2, <1>3, <2>1, <2>2
  <2> QED BY <2>1, <2>3 DEF CallShape
<1>9. ASSUME NEW c, CallFits(c) PROVE CallFits(c)'
  <2>1. c \in TalkCalls /\ c.data.comments \subseteq 1 .. made /\ c.id <= made /\ c.id \in Nat /\ c.task \in TalkTasks
    <3>1. c \in TalkCalls /\ c.data.comments \subseteq 1 .. made /\ c.id <= made
      BY <1>9 DEF CallFits, CallShape
    <3>2. c.id \in 0 .. MaxComments /\ c.task \in TalkTasks
      BY <3>1 DEF TalkCalls
    <3> QED BY <1>2, <3>1, <3>2
  <2>2. made' \notin c.data.comments /\ made' # c.id
    BY <1>1, <1>2, <1>3, <2>1
  <2>3. CallBrings(c)'
    <3> SUFFICES ASSUME c.phase = "ok"
                 PROVE  /\ \A u \in TalkTasks \ {c.task} : c.data.comments \cap thread'[u] = {}
                        /\ c.kind = "post" => c.id > 0 /\ \A u \in TalkTasks \ {c.task} : c.id \notin thread'[u]
                        /\ c.kind = "del" => \A u \in TalkTasks : c.id \notin thread'[u]
      BY DEF CallBrings
    <3>1. \A u \in TalkTasks : thread'[u] \subseteq thread[u] \cup {made'}
      BY <1>4
    <3>2. /\ \A u \in TalkTasks \ {c.task} : c.data.comments \cap thread[u] = {}
          /\ c.kind = "post" => c.id > 0 /\ \A u \in TalkTasks \ {c.task} : c.id \notin thread[u]
          /\ c.kind = "del" => \A u \in TalkTasks : c.id \notin thread[u]
      BY <1>9 DEF CallFits, CallBrings
    <3> QED BY <2>2, <3>1, <3>2
  <2>4. CallKeeps(c)'
    BY <1>9 DEF CallFits, CallKeeps
  <2>5. ASSUME t # talkTask
        PROVE  stir' = stir /\ \A x, n : LeavesOut(x, n, talkTask)' <=> LeavesOut(x, n, talkTask)
    <3>1. thread'[talkTask] = thread[talkTask] /\ talkTask' = talkTask
      BY <1>4, <2>5, Bounds
    <3>2. stir' = stir
      BY <1>1, <1>2, <2>5
    <3> QED BY <3>1, <3>2 DEF LeavesOut
  <2>6. t = talkTask => stir'
    BY <1>1
  <2>7. CallReads(c)'
    BY <1>9, <2>5, <2>6 DEF CallFits, CallReads
  <2>8. CallContinues(c)'
    BY <1>9, <2>5, <2>6 DEF CallFits, CallContinues
  <2> QED BY <1>8, <1>9, <2>3, <2>4, <2>7, <2>8 DEF CallFits
<1> QED BY <1>1, <1>3, <1>4, <1>5, <1>6, <1>7, <1>8, <1>9

(* Lists and calls outlive a new comment.                                  *)
LEMMA CreateKeeps ==
    ASSUME TalkInv, NEW t \in TalkTasks, Create(t), wrote.kept => wrote'.kept,
           wrote' \in [any : BOOLEAN, kept : BOOLEAN], TextNeverLost',
           UNCHANGED <<talkTask, meta, metaLoading, metaFailed, body, retries, skewed>>,
           \A c \in talkCalls' : c \in talkCalls \/ CallFits(c)', OneRead'
    PROVE  TalkInv'
<1>1. /\ made' = made + 1 /\ made' \in Nat /\ made' <= MaxComments
      /\ thread' \in [TalkTasks -> SUBSET (1 .. made')]
      /\ acts' \in [TalkTasks -> Nat] /\ stir' \in BOOLEAN
      /\ thread'[t] = thread[t] \cup {made'}
      /\ \A u \in TalkTasks \ {t} : thread'[u] = thread[u] /\ made' \notin thread[u]
      /\ t = talkTask => stir'
      /\ OneThread'
      /\ \A c : CallFits(c) => CallFits(c)'
      /\ \A c : CallShape(c) => CallShape(c)'
  BY CreateFits
<1>2. made \in Nat /\ meta.cursor \in 0 .. made /\ meta.comments \subseteq 1 .. made /\ MaxComments \in Nat
      /\ talkTask \in TalkTasks
  BY Bounds
<1>3. meta.comments \subseteq 1 .. made' /\ meta.cursor <= made' /\ made' \notin meta.comments
      /\ made' \in 0 .. MaxComments
  BY <1>1, <1>2
<1>4. TalkShape'
  BY <1>1, <1>3 DEF TalkInv, TalkShape
<1>5. ShownFits'
  <2> SUFFICES ASSUME ~ metaLoading, ~ skewed
               PROVE  /\ \A u \in TalkTasks \ {talkTask} : meta.comments \cap thread'[u] = {}
                      /\ ~ metaFailed /\ ~ stir' => LeavesOut(meta, 0, talkTask)'
    BY DEF ShownFits
  <2>1. /\ \A u \in TalkTasks \ {talkTask} : meta.comments \cap thread[u] = {}
        /\ ~ metaFailed /\ ~ stir => LeavesOut(meta, 0, talkTask)
    BY DEF TalkInv, ShownFits
  <2>2. \A u \in TalkTasks : thread'[u] \subseteq thread[u] \cup {made'}
    BY <1>1
  <2>3. \A u \in TalkTasks \ {talkTask} : meta.comments \cap thread'[u] = {}
    BY <1>3, <2>1, <2>2
  <2>4. ASSUME ~ metaFailed, ~ stir' PROVE LeavesOut(meta, 0, talkTask)'
    <3>1. t # talkTask /\ ~ stir
      BY <1>1, <2>4 DEF Create
    <3>2. thread'[talkTask] = thread[talkTask]
      BY <1>1, <1>2, <3>1
    <3> QED BY <2>1, <2>4, <3>1, <3>2 DEF LeavesOut
  <2> QED BY <2>3, <2>4
<1>6. \A c \in talkCalls' : CallFits(c)'
  BY <1>1 DEF TalkInv
<1>7. \A c \in retries' : CallShape(c)' /\ c.kind = "more"
  BY <1>1 DEF TalkInv
<1> QED BY <1>1, <1>4, <1>5, <1>6, <1>7 DEF TalkInv

(* A comment of somebody else.                                             *)
LEMMA OthersKeep == ASSUME TalkInv, NEW t \in TalkTasks, OthersComment(t) PROVE TalkInv'
<1>1. Create(t) /\ UNCHANGED <<talkTask, meta, metaLoading, metaFailed, talkCalls, body, retries, wrote, skewed>>
  BY DEF OthersComment
<1>2. TextNeverLost' /\ OneRead' /\ wrote' \in [any : BOOLEAN, kept : BOOLEAN]
  BY <1>1 DEF TalkInv, TextNeverLost, OneRead, TalkShape
<1> QED BY <1>1, <1>2, CreateKeeps

(* A post adds its comment to its own task; its text is the server's.      *)
LEMMA PostKeeps == ASSUME TalkInv, NEW c \in talkCalls, ServePost(c) PROVE TalkInv'
<1>1. PICK n : n = made'
  OBVIOUS
<1>2. PICK ph, i :
         /\ ph \in {"sent", "ok", "failed"}
         /\ (ph = "ok" /\ i = n) \/ (ph = "failed" /\ i = c.id)
         /\ talkCalls' = (talkCalls \ {c}) \cup {Named(c, ph, i)}
  <2>1. CASE Became(c, [c EXCEPT !.phase = "ok", !.id = made'])
    <3>1. talkCalls' = (talkCalls \ {c}) \cup {Named(c, "ok", n)}
      BY <1>1, <2>1 DEF Became, Named
    <3> QED BY <3>1
  <2>2. CASE Became(c, [c EXCEPT !.phase = "failed"])
    <3>1. c \in TalkCalls
      BY DEF TalkInv, CallFits, CallShape
    <3>2. [c EXCEPT !.phase = "failed"] = [c EXCEPT !.phase = "failed", !.id = c.id]
      BY <3>1 DEF TalkCalls
    <3>3. talkCalls' = (talkCalls \ {c}) \cup {Named(c, "failed", c.id)}
      BY <2>2, <3>2 DEF Became, Named
    <3> QED BY <3>3
  <2> QED BY <2>1, <2>2 DEF ServePost
<1>3. /\ c.phase = "sent" /\ c.kind = "post" /\ Create(c.task)
      /\ wrote' = [wrote EXCEPT !.kept = TRUE]
      /\ UNCHANGED <<talkTask, meta, metaLoading, metaFailed, body, retries, skewed>>
  BY DEF ServePost
<1>4. CallFits(c) /\ c \in TalkCalls /\ c.task \in TalkTasks /\ c.id \in 0 .. MaxComments
  <2>1. CallFits(c) /\ c \in TalkCalls
    BY DEF TalkInv, CallFits, CallShape
  <2> QED BY <2>1 DEF TalkCalls
<1>5. wrote'.kept /\ wrote'.any = wrote.any /\ wrote' \in [any : BOOLEAN, kept : BOOLEAN]
  <2>1. wrote \in [any : BOOLEAN, kept : BOOLEAN]
    BY DEF TalkInv, TalkShape
  <2>2. PICK y \in BOOLEAN : y = TRUE
    OBVIOUS
  <2>3. wrote' = [wrote EXCEPT !.kept = y]
    BY <1>3, <2>2
  <2>4. wrote'.kept = y /\ wrote'.any = wrote.any
    BY <2>1, <2>3
  <2>5. [wrote EXCEPT !.kept = y] \in [any : BOOLEAN, kept : BOOLEAN]
    BY <2>1
  <2> QED BY <2>2, <2>3, <2>4, <2>5
<1>6. /\ made' = made + 1 /\ made' \in Nat /\ made' <= MaxComments
      /\ \A u \in TalkTasks \ {c.task} : thread'[u] = thread[u] /\ made' \notin thread[u]
      /\ \A x : CallFits(x) => CallFits(x)'
  BY <1>3, <1>4, <1>5, CreateFits
<1>7. PICK d : d = Named(c, ph, i)
  OBVIOUS
<1>8. i \in 0 .. MaxComments
  BY <1>1, <1>2, <1>4, <1>6, Bounds
<1>9. /\ d \in TalkCalls /\ d.kind = c.kind /\ d.task = c.task /\ d.cursor = c.cursor
      /\ d.data = c.data /\ d.id = i /\ d.phase = ph
  <2>1. ph \in {"sent", "ok", "failed"}
    BY <1>2
  <2>2. c \in TalkCalls
    BY <1>4
  <2> QED BY <1>7, <1>8, <2>1, <2>2, NamedAnswerIs
<1>10. CallFits(d)'
  <2>0. c.data.comments = {}
    BY <1>3, <1>4 DEF CallFits, CallKeeps
  <2>1. CallFits(c)' /\ made \in Nat
    BY <1>4, <1>6, Bounds
  <2>2. CallShape(d)'
    BY <1>1, <1>2, <1>6, <1>9, <2>1 DEF CallFits, CallShape
  <2>3. CallBrings(d)'
    <3>1. CASE ph = "failed"
      BY <1>9, <3>1 DEF CallBrings
    <3>2. CASE ph = "ok"
      <4>1. i = made' /\ i > 0
        BY <1>1, <1>2, <1>6, <2>1, <3>2
      <4> QED BY <1>3, <1>6, <1>9, <2>0, <4>1 DEF CallBrings
    <3> QED BY <1>2, <3>1, <3>2
  <2>4. CallKeeps(d)'
    BY <1>3, <1>5, <1>9, <2>0 DEF CallKeeps
  <2>5. CallReads(d)'
    BY <1>3, <1>9 DEF CallReads
  <2>6. CallContinues(d)'
    BY <1>3, <1>9, <2>1 DEF CallFits, CallContinues
  <2> QED BY <2>2, <2>3, <2>4, <2>5, <2>6 DEF CallFits
<1>11. talkCalls' = (talkCalls \ {c}) \cup {d}
  BY <1>2, <1>7
<1>12. OneRead'
  BY <1>3, <1>9, <1>11 DEF TalkInv, OneRead
<1>13. TextNeverLost'
  BY <1>5 DEF TextNeverLost
<1>14. \A x \in talkCalls' : x \in talkCalls \/ CallFits(x)'
  BY <1>10, <1>11
<1> QED BY <1>3, <1>4, <1>5, <1>12, <1>13, <1>14, CreateKeeps

(* A comment that is deleted is gone from the thread of its task, and it   *)
(* was in no other.                                                        *)
LEMMA DeleteKeeps == ASSUME TalkInv, NEW c \in talkCalls, ServeDelete(c) PROVE TalkInv'
<1>1. PICK d : d = [c EXCEPT !.phase = "ok"]
  OBVIOUS
<1>2. /\ c.phase = "sent" /\ c.kind = "del" /\ c.id \in thread[c.task]
      /\ thread' = [thread EXCEPT ![c.task] = @ \ {c.id}]
      /\ talkCalls' = (talkCalls \ {c}) \cup {d}
      /\ UNCHANGED <<acts, made, talkTask, meta, metaLoading, metaFailed, stir, body, retries,
                     wrote, skewed, talkWork>>
  BY <1>1 DEF ServeDelete, Became
<1>3. CallFits(c) /\ c \in TalkCalls /\ c.task \in TalkTasks
  <2>1. CallFits(c) /\ c \in TalkCalls
    BY DEF TalkInv, CallFits, CallShape
  <2> QED BY <2>1 DEF TalkCalls
<1>4. /\ d \in TalkCalls /\ d.kind = c.kind /\ d.task = c.task /\ d.cursor = c.cursor
      /\ d.data = c.data /\ d.id = c.id /\ d.phase = "ok"
  BY <1>1, <1>3, AnswerIs
<1>5. thread \in [TalkTasks -> SUBSET (1 .. made)]
  BY DEF TalkInv, TalkShape
<1>6. /\ thread' \in [TalkTasks -> SUBSET (1 .. made)]
      /\ \A u \in TalkTasks : thread'[u] \subseteq thread[u] /\ c.id \notin thread'[u]
  <2>1. thread[c.task] \ {c.id} \in SUBSET (1 .. made)
    BY <1>3, <1>5
  <2>2. thread' \in [TalkTasks -> SUBSET (1 .. made)]
    BY <1>2, <1>3, <1>5, <2>1
  <2>3. \A u \in TalkTasks \ {c.task} : thread'[u] = thread[u] /\ c.id \notin thread[u]
    BY <1>2, <1>3, <1>5 DEF TalkInv, OneThread
  <2>4. thread'[c.task] = thread[c.task] \ {c.id}
    BY <1>2, <1>3, <1>5
  <2> QED BY <2>2, <2>3, <2>4
<1>7. \A x, n, t : t \in TalkTasks /\ LeavesOut(x, n, t) => LeavesOut(x, n, t)'
  BY <1>6 DEF LeavesOut
<1>8. talkTask \in TalkTasks
  BY Bounds
<1>9. ASSUME NEW x, CallFits(x) PROVE CallFits(x)'
  <2>1. CallShape(x)' /\ CallKeeps(x)'
    BY <1>2, <1>9 DEF CallFits, CallShape, CallKeeps
  <2>2. CallBrings(x)'
    BY <1>2, <1>6, <1>9 DEF CallFits, CallBrings
  <2>3. CallReads(x)' /\ CallContinues(x)'
    BY <1>2, <1>7, <1>8, <1>9 DEF CallFits, CallReads, CallContinues
  <2> QED BY <2>1, <2>2, <2>3 DEF CallFits
<1>10. CallFits(d)'
  <2>1. CallFits(c)' /\ c.data.comments = {}
    BY <1>2, <1>3, <1>9 DEF CallFits, CallKeeps
  <2>2. CallShape(d)' /\ CallKeeps(d)'
    BY <1>2, <1>4, <2>1 DEF CallFits, CallShape, CallKeeps
  <2>3. CallBrings(d)'
    BY <1>2, <1>4, <1>6, <2>1 DEF CallBrings
  <2>4. CallReads(d)' /\ CallContinues(d)'
    BY <1>2, <1>4 DEF CallReads, CallContinues
  <2> QED BY <2>2, <2>3, <2>4 DEF CallFits
<1>11. \A x \in talkCalls' : CallFits(x)'
  BY <1>2, <1>9, <1>10 DEF TalkInv
<1>12. OneRead' /\ TextNeverLost' /\ TalkShape'
  BY <1>2, <1>4, <1>6 DEF TalkInv, OneRead, TextNeverLost, TalkShape
<1>13. OneThread'
  BY <1>6 DEF TalkInv, OneThread
<1>14. ShownFits'
  BY <1>2, <1>6, <1>7, <1>8 DEF TalkInv, ShownFits
<1>15. \A x \in retries' : CallShape(x)' /\ x.kind = "more"
  BY <1>2 DEF TalkInv, CallShape
<1> QED BY <1>11, <1>12, <1>13, <1>14, <1>15 DEF TalkInv

(* The list with other comments, another cursor or another history.        *)
Listed(cs, cur) == [meta EXCEPT !.comments = cs, !.cursor = cur]
WithComments(cs) == [meta EXCEPT !.comments = cs]
WithActs(n) == [meta EXCEPT !.acts = n]

(* Its parts.                                                              *)
LEMMA ListIs ==
    ASSUME TalkInv, NEW cs \in SUBSET (1 .. made), NEW cur \in 0 .. made, NEW n \in Nat
    PROVE  /\ Listed(cs, cur) \in TalkData /\ WithComments(cs) \in TalkData /\ WithActs(n) \in TalkData
           /\ Listed(cs, cur).comments = cs /\ Listed(cs, cur).cursor = cur
           /\ WithComments(cs).comments = cs /\ WithComments(cs).cursor = meta.cursor
           /\ WithActs(n).comments = meta.comments /\ WithActs(n).cursor = meta.cursor
<1>1. meta \in TalkData
  BY DEF TalkInv, TalkShape
<1>2. PICK numbers, sets : numbers = 0 .. MaxComments /\ sets = SUBSET (1 .. MaxComments)
  OBVIOUS
<1>3. TalkData = [comments : sets, cursor : numbers, acts : Nat]
  BY <1>2 DEF TalkData
<1>4. cs \in sets /\ cur \in numbers
  BY <1>2, Bounds
<1>5. /\ Listed(cs, cur) \in TalkData /\ Listed(cs, cur).comments = cs /\ Listed(cs, cur).cursor = cur
  BY <1>1, <1>3, <1>4 DEF Listed
<1>6. /\ WithComments(cs) \in TalkData /\ WithComments(cs).comments = cs
      /\ WithComments(cs).cursor = meta.cursor
  BY <1>1, <1>3, <1>4 DEF WithComments
<1>7. /\ WithActs(n) \in TalkData /\ WithActs(n).comments = meta.comments
      /\ WithActs(n).cursor = meta.cursor
  BY <1>1, <1>3 DEF WithActs
<1> QED BY <1>5, <1>6, <1>7

(* An answer changes what is on screen, and nothing on the server.         *)
LEMMA ListKeeps ==
    ASSUME TalkInv, UNCHANGED <<thread, acts, made, talkTask, stir, wrote>>,
           meta' \in TalkData, meta'.comments \subseteq 1 .. made, meta'.cursor <= made,
           metaLoading' \in BOOLEAN, metaFailed' \in BOOLEAN, body' \in {"", "text"},
           TextNeverLost', ShownFits', OneRead', \A x \in talkCalls' : CallFits(x)',
           \A x \in retries' : CallShape(x) /\ x.kind = "more"
    PROVE  TalkInv'
<1>1. TalkShape' /\ OneThread'
  BY DEF TalkInv, TalkShape, OneThread
<1>2. \A x \in retries' : CallShape(x)' /\ x.kind = "more"
  BY DEF CallShape
<1> QED BY <1>1, <1>2 DEF TalkInv

(* What a call is made of.                                                 *)
LEMMA CallParts ==
    ASSUME TalkInv, NEW c \in talkCalls
    PROVE  /\ CallFits(c) /\ c \in TalkCalls /\ c.task \in TalkTasks /\ c.id \in 0 .. made
           /\ c.data \in TalkData /\ c.data.comments \in SUBSET (1 .. made)
           /\ c.data.cursor \in 0 .. made /\ c.data.acts \in Nat
<1>1. CallFits(c) /\ c \in TalkCalls /\ c.data.comments \subseteq 1 .. made
      /\ c.data.cursor <= made /\ c.id <= made
  BY DEF TalkInv, CallFits, CallShape
<1>2. c.task \in TalkTasks /\ c.id \in 0 .. MaxComments /\ c.data \in TalkData
  BY <1>1 DEF TalkCalls
<1>3. c.data.cursor \in 0 .. MaxComments /\ c.data.acts \in Nat
  BY <1>2 DEF TalkData
<1> QED BY <1>1, <1>2, <1>3, Bounds

(* The read of the discussion shows the comments of its task; an answer    *)
(* that is still out, and was asked for by the list before, skews it.      *)
LEMMA MetaKeeps == ASSUME TalkInv, NEW c \in talkCalls, MetaAnswered(c),
                          UNCHANGED <<thread, acts, made, talkTask, stir>> PROVE TalkInv'
<1>1. /\ c.kind = "meta" /\ c.phase # "sent" /\ talkCalls' = talkCalls \ {c} /\ metaLoading' = FALSE
      /\ skewed' = (posting \/ \E d \in talkCalls : d.kind = "more" /\ d.task = talkTask)
      /\ UNCHANGED <<body, retries, wrote>>
  BY DEF MetaAnswered, Done
<1>2. /\ CallFits(c) /\ c.data \in TalkData /\ c.data.comments \in SUBSET (1 .. made)
      /\ c.data.cursor \in 0 .. made
  BY CallParts
<1>3. /\ meta' \in TalkData /\ meta'.comments \subseteq 1 .. made /\ meta'.cursor <= made
      /\ metaFailed' \in BOOLEAN
      /\ \/ meta' = c.data /\ c.phase = "ok"
         \/ meta'.comments = {} /\ metaFailed'
  <2>1. CASE c.phase = "ok"
    <3>1. meta' = c.data /\ metaFailed' = FALSE
      BY <2>1 DEF MetaAnswered
    <3>2. /\ c.data.cursor <= made /\ c.data.comments \subseteq 1 .. made
      BY <1>2, Bounds
    <3> QED BY <1>2, <2>1, <3>1, <3>2
  <2>2. CASE c.phase # "ok"
    <3>1. meta' = InitialData /\ metaFailed' = TRUE
      BY <2>2 DEF MetaAnswered
    <3>2. 0 \in 0 .. MaxComments /\ 0 <= made
      BY Bounds
    <3>3. InitialData \in TalkData /\ InitialData.comments = {} /\ InitialData.cursor = 0
      BY <3>2 DEF InitialData, TalkData
    <3> QED BY <3>1, <3>2, <3>3
  <2> QED BY <2>1, <2>2
<1>4. c.task = talkTask /\ (c.phase = "ok" /\ ~ stir => LeavesOut(c.data, 0, talkTask))
  BY <1>1, <1>2 DEF CallFits, CallReads
<1>5. c.phase = "ok" => \A u \in TalkTasks \ {talkTask} : c.data.comments \cap thread[u] = {}
  BY <1>2, <1>4 DEF CallFits, CallBrings
<1>6. ShownFits'
  <2>1. c.phase = "ok" /\ ~ stir => LeavesOut(c.data, 0, talkTask)'
    BY <1>4 DEF LeavesOut
  <2>2. \A u \in TalkTasks \ {talkTask} : meta'.comments \cap thread[u] = {}
    BY <1>3, <1>5
  <2>3. ~ metaFailed' /\ ~ stir => meta' = c.data /\ c.phase = "ok"
    BY <1>3
  <2> QED BY <2>1, <2>2, <2>3 DEF ShownFits
<1>7. ASSUME NEW x \in talkCalls' PROVE CallFits(x)'
  <2>1. x \in talkCalls /\ x # c /\ CallFits(x)
    BY <1>1 DEF TalkInv
  <2>2. x.kind # "meta"
    BY <1>1, <2>1 DEF TalkInv, OneRead
  <2>3. CallShape(x)' /\ CallBrings(x)' /\ CallKeeps(x)'
    BY <1>1, <2>1 DEF CallFits, CallShape, CallBrings, CallKeeps
  <2>4. ~ skewed' => x.kind # "post" /\ ~ (x.kind = "more" /\ x.task = talkTask)
    BY <1>1, <2>1 DEF posting
  <2>5. CallReads(x)' /\ CallContinues(x)'
    BY <2>2, <2>4 DEF CallReads, CallContinues
  <2> QED BY <2>3, <2>5 DEF CallFits
<1>8. OneRead' /\ TextNeverLost' /\ body' \in {"", "text"}
  BY <1>1 DEF TalkInv, OneRead, TextNeverLost, TalkShape
<1>9. \A x \in retries' : CallShape(x) /\ x.kind = "more"
  BY <1>1 DEF TalkInv
<1> QED BY <1>1, <1>3, <1>6, <1>7, <1>8, <1>9, ListKeeps

(* Answers that go and take nothing with them.                             *)
LEMMA DroppedKeeps ==
    ASSUME TalkInv, NEW c \in talkCalls, talkCalls' = talkCalls \ {c},
           UNCHANGED View, UNCHANGED <<acts, meta, body>>,
           \A x \in retries' : CallShape(x) /\ x.kind = "more"
    PROVE  TalkInv'
<1>1. OneRead' /\ \A x \in talkCalls' : CallFits(x)
  BY DEF TalkInv, OneRead
<1> QED BY <1>1, CallsKeep

(* The calls that are left fit, once the list changed and no more was      *)
(* skewed than before.                                                     *)
LEMMA OthersFit ==
    ASSUME TalkInv, UNCHANGED <<thread, made, talkTask, metaLoading, metaFailed, stir, wrote>>,
           ~ skewed' => ~ skewed
    PROVE  \A x : CallFits(x) => CallFits(x)'
<1>1. \A d, n, t : LeavesOut(d, n, t)' <=> LeavesOut(d, n, t)
  BY DEF LeavesOut
<1>2. \A x : CallFits(x) => CallShape(x)' /\ CallBrings(x)' /\ CallKeeps(x)'
  BY DEF CallFits, CallShape, CallBrings, CallKeeps
<1>3. \A x : CallFits(x) => CallReads(x)' /\ CallContinues(x)'
  BY <1>1 DEF CallFits, CallReads, CallContinues
<1> QED BY <1>2, <1>3 DEF CallFits

(* A page continues the list it was asked for, or skews it; a page of      *)
(* another task, or one that failed, leaves it alone.                      *)
LEMMA PageKeeps == ASSUME TalkInv, NEW c \in talkCalls, MoreAnswered(c),
                          UNCHANGED <<thread, acts, made, talkTask, stir>> PROVE TalkInv'
<1>1. /\ c.kind = "more" /\ c.phase # "sent" /\ talkCalls' = talkCalls \ {c}
      /\ UNCHANGED <<metaLoading, metaFailed, body, wrote>>
  BY DEF MoreAnswered, Done
<1>2. /\ CallFits(c) /\ c.data \in TalkData /\ c.data.comments \in SUBSET (1 .. made)
      /\ c.data.cursor \in 0 .. made
  BY CallParts
<1>3. CASE c.task # talkTask
  <2>1. UNCHANGED <<meta, retries, skewed>>
    BY <1>3 DEF MoreAnswered
  <2>2. UNCHANGED View /\ \A x \in retries' : CallShape(x) /\ x.kind = "more"
    BY <1>1, <2>1 DEF View, TalkInv
  <2> QED BY <1>1, <2>1, <2>2, DroppedKeeps
<1>4. CASE c.task = talkTask /\ c.phase # "ok"
  <2>1. retries' = retries \cup {c} /\ UNCHANGED <<meta, skewed>>
    BY <1>4 DEF MoreAnswered
  <2>2. UNCHANGED View /\ \A x \in retries' : CallShape(x) /\ x.kind = "more"
    BY <1>1, <1>2, <2>1 DEF View, TalkInv, CallFits
  <2> QED BY <1>1, <2>1, <2>2, DroppedKeeps
<1>5. CASE c.task = talkTask /\ c.phase = "ok"
  <2> DEFINE cs == meta.comments \cup c.data.comments
  <2>1. /\ meta' = Listed(cs, c.data.cursor)
        /\ skewed' = (skewed \/ c.cursor # meta.cursor) /\ UNCHANGED retries
    BY <1>5 DEF MoreAnswered, Listed
  <2>2. cs \in SUBSET (1 .. made)
    BY <1>2, Bounds
  <2>3. PICK all : all = cs
    OBVIOUS
  <2>4. meta' \in TalkData /\ meta'.comments = all /\ meta'.cursor = c.data.cursor
    <3>1. 0 \in Nat
      OBVIOUS
    <3> HIDE DEF cs
    <3> QED BY <1>2, <2>1, <2>2, <2>3, <3>1, ListIs
  <2>5. /\ meta'.comments \subseteq 1 .. made /\ meta'.cursor <= made
    BY <1>2, <2>2, <2>3, <2>4, Bounds
  <2>6. ShownFits'
    <3> SUFFICES ASSUME ~ metaLoading, ~ skewed'
                 PROVE  /\ \A u \in TalkTasks \ {talkTask} : meta'.comments \cap thread[u] = {}
                        /\ ~ metaFailed /\ ~ stir => LeavesOut(meta, 0, talkTask)'
      BY <1>1 DEF ShownFits
    <3>1. ~ skewed /\ c.cursor = meta.cursor
      BY <2>1
    <3>2. /\ \A u \in TalkTasks \ {talkTask} : meta.comments \cap thread[u] = {}
          /\ ~ metaFailed /\ ~ stir => LeavesOut(meta, 0, talkTask)
      BY <3>1 DEF TalkInv, ShownFits
    <3>3. /\ \A u \in TalkTasks \ {talkTask} : c.data.comments \cap thread[u] = {}
          /\ ~ metaFailed /\ ~ stir => LeavesOut(c.data, meta.cursor, talkTask)
      BY <1>1, <1>2, <1>5, <3>1 DEF CallFits, CallBrings, CallContinues
    <3>4. \A u \in TalkTasks \ {talkTask} : meta'.comments \cap thread[u] = {}
      BY <2>3, <2>4, <3>2, <3>3
    <3>5. ASSUME ~ metaFailed, ~ stir PROVE LeavesOut(meta, 0, talkTask)'
      <4> SUFFICES ASSUME NEW i \in thread[talkTask], i > 0, i \notin meta'.comments
                   PROVE  meta'.cursor # 0 /\ i > meta'.cursor
        BY DEF LeavesOut
      <4>1. i \notin meta.comments /\ i \notin c.data.comments
        BY <2>3, <2>4
      <4>2. i > meta.cursor
        BY <3>2, <3>5, <4>1 DEF LeavesOut
      <4>3. c.data.cursor # 0 /\ i > c.data.cursor
        BY <3>3, <3>5, <4>1, <4>2 DEF LeavesOut
      <4> QED BY <2>4, <4>3
    <3> QED BY <3>4, <3>5
  <2>7. \A x : CallFits(x) => CallFits(x)'
    <3>1. ~ skewed' => ~ skewed
      BY <2>1
    <3> QED BY <1>1, <3>1, OthersFit
  <2>8. \A x \in talkCalls' : CallFits(x)'
    BY <1>1, <2>7 DEF TalkInv
  <2>9. /\ OneRead' /\ TextNeverLost' /\ body' \in {"", "text"}
        /\ metaLoading' \in BOOLEAN /\ metaFailed' \in BOOLEAN
    BY <1>1 DEF TalkInv, OneRead, TextNeverLost, TalkShape
  <2>10. \A x \in retries' : CallShape(x) /\ x.kind = "more"
    BY <2>1 DEF TalkInv
  <2> QED BY <1>1, <2>4, <2>5, <2>6, <2>8, <2>9, <2>10, ListKeeps
<1> QED BY <1>3, <1>4, <1>5

(* A list that lost no comment of the task, and took none of another,      *)
(* still fits the cursor it had.                                           *)
LEMMA ListFits ==
    ASSUME TalkInv, UNCHANGED <<thread, talkTask, metaLoading, metaFailed, stir, skewed>>,
           meta'.cursor = meta.cursor,
           ~ metaLoading /\ ~ skewed =>
              /\ \A i \in thread[talkTask] : i \in meta.comments => i \in meta'.comments
              /\ \A u \in TalkTasks \ {talkTask} : \A i \in thread[u] :
                    i \in meta'.comments => i \in meta.comments
    PROVE  ShownFits'
<1> SUFFICES ASSUME ~ metaLoading, ~ skewed
             PROVE  /\ \A u \in TalkTasks \ {talkTask} : meta'.comments \cap thread[u] = {}
                    /\ ~ metaFailed /\ ~ stir => LeavesOut(meta, 0, talkTask)'
  BY DEF ShownFits
<1>1. /\ \A u \in TalkTasks \ {talkTask} : meta.comments \cap thread[u] = {}
      /\ ~ metaFailed /\ ~ stir => LeavesOut(meta, 0, talkTask)
  BY DEF TalkInv, ShownFits
<1>2. \A u \in TalkTasks \ {talkTask} : meta'.comments \cap thread[u] = {}
  BY <1>1
<1>3. LeavesOut(meta, 0, talkTask) => LeavesOut(meta, 0, talkTask)'
  BY DEF LeavesOut
<1> QED BY <1>1, <1>2, <1>3

(* A comment that was posted joins the list; the post then waits for the   *)
(* history, unless its task was left, and the field is emptied only when   *)
(* the server has the text.                                                *)
LEMMA PostedKeeps == ASSUME TalkInv, NEW c \in talkCalls, PostAnswered(c),
                            UNCHANGED <<thread, acts, made, talkTask, stir>> PROVE TalkInv'
<1>1. /\ c.kind = "post" /\ c.phase # "sent" /\ UNCHANGED <<metaLoading, metaFailed, retries, wrote, skewed>>
  BY DEF PostAnswered
<1>2. /\ CallFits(c) /\ c.task \in TalkTasks /\ c.id \in 0 .. made
  BY CallParts
<1>3. CASE c.phase # "ok"
  <2>1. talkCalls' = talkCalls \ {c} /\ UNCHANGED <<meta, body>>
    BY <1>3 DEF PostAnswered, Done
  <2>2. UNCHANGED View /\ \A x \in retries' : CallShape(x) /\ x.kind = "more"
    BY <1>1, <2>1 DEF View, TalkInv
  <2> QED BY <1>1, <2>1, <2>2, DroppedKeeps
<1>4. CASE c.phase = "ok"
  <2> DEFINE cs == meta.comments \cup {c.id}
  <2>1. PICK new : new = NewCall("acts", c.task, 0, c.id)
    OBVIOUS
  <2>2. /\ meta' = WithComments(cs)
        /\ \/ talkCalls' = (talkCalls \ {c}) \cup {new} /\ body' = body
           \/ talkCalls' = talkCalls \ {c} /\ body' = ""
    BY <1>4, <2>1 DEF PostAnswered, WithComments, Became, Done, NewCall
  <2>3. /\ c.id > 0 /\ (\A u \in TalkTasks \ {c.task} : c.id \notin thread[u]) /\ wrote.kept
    BY <1>1, <1>2, <1>4 DEF CallFits, CallBrings, CallKeeps
  <2>4. cs \in SUBSET (1 .. made)
    BY <1>2, <2>3, Bounds
  <2>5. PICK all : all = cs
    OBVIOUS
  <2>6. meta' \in TalkData /\ meta'.comments = all /\ meta'.cursor = meta.cursor
    <3>1. 0 \in Nat /\ 0 \in 0 .. made
      BY Bounds
    <3> HIDE DEF cs
    <3> QED BY <2>2, <2>4, <2>5, <3>1, ListIs
  <2>7. /\ meta'.comments \subseteq 1 .. made /\ meta'.cursor <= made
    BY <2>4, <2>5, <2>6, Bounds
  <2>8. ShownFits'
    <3>1. ~ metaLoading /\ ~ skewed => c.task = talkTask
      BY <1>1, <1>2 DEF CallFits, CallContinues
    <3>2. ~ metaLoading /\ ~ skewed =>
            /\ \A i \in thread[talkTask] : i \in meta.comments => i \in meta'.comments
            /\ \A u \in TalkTasks \ {talkTask} : \A i \in thread[u] :
                  i \in meta'.comments => i \in meta.comments
      BY <2>3, <2>5, <2>6, <3>1
    <3> QED BY <1>1, <2>6, <3>2, ListFits
  <2>9. \A x : CallFits(x) => CallFits(x)'
    BY <1>1, OthersFit
  <2>10. CallFits(new)' /\ new.kind = "acts"
    <3>1. /\ new \in TalkCalls /\ new.kind = "acts" /\ new.task = c.task /\ new.cursor = 0
          /\ new.id = c.id /\ new.phase = "sent" /\ new.data.comments = {} /\ new.data.cursor = 0
      <4>1. c.id \in 0 .. MaxComments /\ 0 \in 0 .. MaxComments
        BY <1>2, Bounds
      <4> QED BY <1>2, <2>1, <4>1, CallIs
    <3>2. CallShape(new)'
      BY <1>2, <3>1, Bounds DEF CallShape
    <3>3. CallBrings(new)' /\ CallKeeps(new)' /\ CallReads(new)' /\ CallContinues(new)'
      BY <1>1, <2>3, <3>1 DEF CallBrings, CallKeeps, CallReads, CallContinues
    <3> QED BY <3>1, <3>2, <3>3 DEF CallFits
  <2>11. \A x \in talkCalls' : CallFits(x)'
    <3>1. \A x \in talkCalls' : x \in talkCalls \/ x = new
      BY <2>2
    <3>2. \A x \in talkCalls : CallFits(x)'
      BY <2>9 DEF TalkInv
    <3> QED BY <2>10, <3>1, <3>2
  <2>12. OneRead'
    BY <1>1, <2>2, <2>10 DEF TalkInv, OneRead
  <2>13. /\ TextNeverLost' /\ body' \in {"", "text"}
         /\ metaLoading' \in BOOLEAN /\ metaFailed' \in BOOLEAN
    BY <1>1, <2>2, <2>3 DEF TalkInv, TextNeverLost, TalkShape
  <2>14. \A x \in retries' : CallShape(x) /\ x.kind = "more"
    BY <1>1 DEF TalkInv
  <2> QED BY <1>1, <2>6, <2>7, <2>8, <2>11, <2>12, <2>13, <2>14, ListKeeps
<1> QED BY <1>3, <1>4

(* The history ends a post: the field is emptied, its text was kept.       *)
LEMMA ActsKeep == ASSUME TalkInv, NEW c \in talkCalls, ActsAnswered(c),
                         UNCHANGED <<thread, acts, made, talkTask, stir>> PROVE TalkInv'
<1>1. /\ c.kind = "acts" /\ talkCalls' = talkCalls \ {c} /\ body' = ""
      /\ meta' = IF c.phase = "ok" /\ c.task = talkTask THEN WithActs(c.data.acts) ELSE meta
      /\ UNCHANGED <<metaLoading, metaFailed, retries, wrote, skewed>>
  BY DEF ActsAnswered, Done, WithActs
<1>2. CallFits(c) /\ c.data.acts \in Nat
  BY CallParts
<1>3. meta' \in TalkData /\ meta'.comments = meta.comments /\ meta'.cursor = meta.cursor
  <2>1. meta \in TalkData
    BY DEF TalkInv, TalkShape
  <2>2. 0 \in 0 .. made /\ {} \in SUBSET (1 .. made)
    BY Bounds
  <2>3. CASE meta' = meta
    BY <2>1, <2>3
  <2>4. CASE meta' = WithActs(c.data.acts)
    BY <1>2, <2>2, <2>4, ListIs
  <2> QED BY <1>1, <2>3, <2>4
<1>4. /\ meta'.comments \subseteq 1 .. made /\ meta'.cursor <= made
  BY <1>3, Bounds
<1>5. ShownFits'
  BY <1>1, <1>3, ListFits
<1>6. \A x \in talkCalls' : CallFits(x)'
  <2>1. \A x : CallFits(x) => CallFits(x)'
    BY <1>1, OthersFit
  <2> QED BY <1>1, <2>1 DEF TalkInv
<1>7. /\ OneRead' /\ TextNeverLost' /\ body' \in {"", "text"}
      /\ metaLoading' \in BOOLEAN /\ metaFailed' \in BOOLEAN
  <2>1. wrote.kept
    BY <1>1, <1>2 DEF CallFits, CallKeeps
  <2> QED BY <1>1, <2>1 DEF TalkInv, OneRead, TextNeverLost, TalkShape
<1>8. \A x \in retries' : CallShape(x) /\ x.kind = "more"
  BY <1>1 DEF TalkInv
<1> QED BY <1>1, <1>3, <1>4, <1>5, <1>6, <1>7, <1>8, ListKeeps

(* A comment that was deleted leaves the list: no thread has it.           *)
LEMMA DeletedKeeps == ASSUME TalkInv, NEW c \in talkCalls, DeleteAnswered(c),
                             UNCHANGED <<thread, acts, made, talkTask, stir>> PROVE TalkInv'
<1> DEFINE cs == meta.comments \ {c.id}
<1>1. /\ c.kind = "del" /\ c.phase # "sent" /\ talkCalls' = talkCalls \ {c}
      /\ meta' = IF c.phase = "ok" THEN WithComments(cs) ELSE meta
      /\ UNCHANGED <<metaLoading, metaFailed, body, retries, wrote, skewed>>
  BY DEF DeleteAnswered, Done, WithComments
<1>2. PICK all : all = cs
  OBVIOUS
<1>3. CallFits(c) /\ cs \in SUBSET (1 .. made) /\ talkTask \in TalkTasks
  BY CallParts, Bounds
<1>4. CASE c.phase # "ok"
  <2>1. UNCHANGED View /\ \A x \in retries' : CallShape(x) /\ x.kind = "more"
    BY <1>1 DEF View, TalkInv
  <2> QED BY <1>1, <1>4, <2>1, DroppedKeeps
<1>5. CASE c.phase = "ok"
  <2>1. meta' \in TalkData /\ meta'.comments = all /\ meta'.cursor = meta.cursor
    <3>1. 0 \in Nat /\ 0 \in 0 .. made
      BY Bounds
    <3> HIDE DEF cs
    <3> QED BY <1>1, <1>2, <1>3, <1>5, <3>1, ListIs
  <2>2. /\ meta'.comments \subseteq 1 .. made /\ meta'.cursor <= made
    BY <1>2, <1>3, <2>1, Bounds
  <2>3. \A u \in TalkTasks : c.id \notin thread[u]
    BY <1>1, <1>3, <1>5 DEF CallFits, CallBrings
  <2>4. ShownFits'
    <3>1. /\ \A i \in thread[talkTask] : i \in meta.comments => i \in meta'.comments
          /\ \A u \in TalkTasks \ {talkTask} : \A i \in thread[u] :
                i \in meta'.comments => i \in meta.comments
      BY <1>2, <1>3, <2>1, <2>3
    <3> QED BY <1>1, <2>1, <3>1, ListFits
  <2>5. \A x \in talkCalls' : CallFits(x)'
    <3>1. \A x : CallFits(x) => CallFits(x)'
      BY <1>1, OthersFit
    <3> QED BY <1>1, <3>1 DEF TalkInv
  <2>6. /\ OneRead' /\ TextNeverLost' /\ body' \in {"", "text"}
        /\ metaLoading' \in BOOLEAN /\ metaFailed' \in BOOLEAN
    BY <1>1 DEF TalkInv, OneRead, TextNeverLost, TalkShape
  <2>7. \A x \in retries' : CallShape(x) /\ x.kind = "more"
    BY <1>1 DEF TalkInv
  <2> QED BY <1>1, <2>1, <2>2, <2>4, <2>5, <2>6, <2>7, ListKeeps
<1> QED BY <1>4, <1>5

(* At first the comments are numbered from one, each in one thread, and    *)
(* the read of the discussion is out.                                      *)
LEMMA TalkBegins == TalkInit => TalkInv
<1> SUFFICES ASSUME NEW t \in TalkTasks, TalkWith(t, {TalkCall("meta", t, 0)}) PROVE TalkInv
  BY DEF TalkInit
<1>1. PICK new : new = TalkCall("meta", t, 0)
  OBVIOUS
<1>2. /\ thread = Thread0 /\ acts = [u \in TalkTasks |-> 0]
      /\ made = Cardinality(UNION {Thread0[u] : u \in TalkTasks})
      /\ talkTask = t /\ talkCalls = {new} /\ meta = InitialData
      /\ metaLoading = TRUE /\ metaFailed = FALSE /\ stir = FALSE /\ body = "" /\ retries = {}
      /\ wrote = [any |-> FALSE, kept |-> FALSE] /\ skewed = FALSE
  BY <1>1 DEF TalkWith
<1>3. PICK n \in 0 .. MaxComments : UNION {Thread0[u] : u \in TalkTasks} = 1 .. n
  BY TalkAssumption
<1>4. MaxComments \in Nat /\ n \in Nat /\ n <= MaxComments /\ 0 \in 0 .. MaxComments
  BY TalkAssumption
<1>5. made = n
  <2>1. Cardinality(1 .. n) = n
    BY <1>4, FS_Interval
  <2> QED BY <1>2, <1>3, <2>1
<1>6. thread \in [TalkTasks -> SUBSET (1 .. made)]
  <2>1. Thread0 \in [TalkTasks -> SUBSET (1 .. MaxComments)]
    BY TalkAssumption
  <2>2. \A u \in TalkTasks : Thread0[u] \subseteq 1 .. n
    BY <1>3
  <2> QED BY <1>2, <1>5, <2>1, <2>2
<1>7. OneThread
  BY <1>2, TalkAssumption DEF OneThread
<1>8. meta \in TalkData /\ meta.comments = {} /\ meta.cursor = 0
  BY <1>2, <1>4 DEF InitialData, TalkData
<1>9. wrote \in [any : BOOLEAN, kept : BOOLEAN] /\ TextNeverLost
  <2>1. PICK no \in BOOLEAN : no = FALSE
    OBVIOUS
  <2>2. wrote = [any |-> no, kept |-> no]
    BY <1>2, <2>1
  <2>3. wrote \in [any : BOOLEAN, kept : BOOLEAN] /\ wrote.any = no
    BY <2>2
  <2> QED BY <2>1, <2>3 DEF TextNeverLost
<1>10. TalkShape
  <2>1. made \in 0 .. MaxComments /\ meta.comments \subseteq 1 .. made /\ meta.cursor <= made
    BY <1>4, <1>5, <1>8
  <2>2. acts \in [TalkTasks -> Nat] /\ talkTask \in TalkTasks
    BY <1>2
  <2>3. /\ metaLoading \in BOOLEAN /\ metaFailed \in BOOLEAN /\ stir \in BOOLEAN
        /\ body \in {"", "text"}
    BY <1>2
  <2> QED BY <1>6, <1>8, <1>9, <2>1, <2>2, <2>3 DEF TalkShape
<1>11. new = NewCall("meta", t, 0, 0)
  BY <1>1 DEF NewCall, TalkCall
<1>12. /\ new \in TalkCalls /\ new.kind = "meta" /\ new.task = t /\ new.cursor = 0 /\ new.id = 0
       /\ new.phase = "sent" /\ new.data.comments = {} /\ new.data.cursor = 0
  BY <1>4, <1>11, CallIs
<1>13. CallFits(new)
  <2>1. metaLoading /\ talkTask = t
    BY <1>2
  <2>2. new.id <= made /\ new.data.cursor <= made /\ new.data.comments \subseteq 1 .. made
    BY <1>4, <1>5, <1>12
  <2> QED BY <1>12, <2>1, <2>2
         DEF CallFits, CallShape, CallBrings, CallKeeps, CallReads, CallContinues
<1>14. ShownFits /\ OneRead
  BY <1>2 DEF ShownFits, OneRead
<1> QED BY <1>2, <1>7, <1>9, <1>10, <1>13, <1>14 DEF TalkInv

(* No step of the reader, of the server or of an answer breaks it.         *)
LEMMA TalkKeeps == TalkInv /\ [TalkNext]_talkVars => TalkInv'
<1> SUFFICES ASSUME TalkInv, [TalkNext]_talkVars PROVE TalkInv'
  OBVIOUS
<1>1. CASE Refresh
  BY <1>1, RefreshKeeps
<1>2. CASE loadMoreComments
  BY <1>2, MoreKeeps
<1>3. CASE TypeText
  BY <1>3, TypeKeeps
<1>4. CASE submit
  BY <1>4, SubmitKeeps
<1>5. CASE \E c \in retries : RetryMore(c)
  BY <1>5, RetryKeeps
<1>6. CASE \E i \in 1 .. MaxComments : removeComment(i)
  BY <1>6, RemoveKeeps
<1>7. CASE \E t \in TalkTasks : SwitchTalk(t) \/ OthersComment(t)
  BY <1>7, TaskSwitchKeeps, OthersKeep
<1>8. CASE TalkNetwork
  <2>1. PICK c \in talkCalls : \/ ServePost(c) \/ ServeDelete(c) \/ ServeTalkRead(c)
                               \/ RefuseTalk(c) \/ TalkAnswered(c)
    BY <1>8 DEF TalkNetwork
  <2>2. CASE ServePost(c) \/ ServeDelete(c) \/ ServeTalkRead(c) \/ RefuseTalk(c)
    BY <2>2, PostKeeps, DeleteKeeps, ReadKeeps, RefuseKeeps
  <2>3. CASE TalkAnswered(c)
    <3>1. UNCHANGED <<thread, acts, made, talkTask, stir>>
      BY <2>3 DEF TalkAnswered
    <3>2. \/ MetaAnswered(c) \/ MoreAnswered(c) \/ PostAnswered(c)
          \/ ActsAnswered(c) \/ DeleteAnswered(c)
      BY <2>3 DEF TalkAnswered
    <3> QED BY <3>1, <3>2, MetaKeeps, PageKeeps, PostedKeeps, ActsKeep, DeletedKeeps
  <2> QED BY <2>1, <2>2, <2>3
<1>9. CASE UNCHANGED talkVars
  <2>1. UNCHANGED View /\ UNCHANGED <<acts, meta, body, retries, talkCalls>>
    BY <1>9 DEF talkVars, View
  <2>2. OneRead'
    BY <2>1 DEF TalkInv, OneRead
  <2> QED BY <2>1, <2>2, CallsKeep DEF TalkInv
<1> QED BY <1>1, <1>2, <1>3, <1>4, <1>5, <1>6, <1>7, <1>8, <1>9 DEF TalkNext

(* It has what the discussion promises.                                    *)
LEMMA TalkFollows == TalkInv => TalkSound
<1> SUFFICES ASSUME TalkInv PROVE TalkSound
  OBVIOUS
<1>1. NoCommentSkipped
  <2> SUFFICES ASSUME ~ metaLoading, ~ metaFailed, ~ stir, ~ skewed,
                      NEW i \in thread[talkTask], i \notin meta.comments
               PROVE  meta.cursor # 0 /\ i > meta.cursor
    BY DEF NoCommentSkipped
  <2>1. LeavesOut(meta, 0, talkTask)
    BY DEF TalkInv, ShownFits
  <2>2. i > 0
    <3>1. thread[talkTask] \subseteq 1 .. made
      BY Bounds DEF TalkInv, TalkShape
    <3> QED BY <3>1, Bounds
  <2> QED BY <2>1, <2>2 DEF LeavesOut
<1>2. CommentsOfShownTask
  BY DEF TalkInv, ShownFits, CommentsOfShownTask
<1>3. TalkTypeOK
  <2> DEFINE reads == {c \in talkCalls : c.kind = "meta"}
  <2>1. Cardinality(reads) <= 1
    <3>1. \A c, d \in reads : c = d
      BY DEF TalkInv, OneRead
    <3>2. CASE reads = {}
      <4>1. Cardinality(reads) = 0
        BY <3>2, FS_EmptySet
      <4> QED BY <4>1
    <3>3. CASE reads # {}
      <4>1. PICK c \in reads : TRUE
        BY <3>3
      <4>2. reads = {c}
        BY <3>1, <4>1
      <4>3. Cardinality(reads) = 1
        <5> HIDE DEF reads
        <5> QED BY <4>2, FS_Singleton
      <4> QED BY <4>3
    <3> QED BY <3>2, <3>3
  <2>2. /\ thread \in [TalkTasks -> SUBSET (1 .. made)] /\ made <= MaxComments
        /\ meta.comments \subseteq 1 .. made /\ meta.cursor \in 0 .. made /\ body \in {"", "text"}
    BY Bounds DEF TalkInv, TalkShape
  <2> QED BY <2>1, <2>2 DEF TalkTypeOK
<1> QED BY <1>1, <1>2, <1>3 DEF TalkInv, TalkSound

(* The comments listed are those of the task shown and none is skipped, by *)
(* any number of pages, posts, deletions, refreshes and switches of task   *)
(* and whatever order their answers come in, unless an answer met another  *)
(* list than it was asked for; and a text leaves its field only once the   *)
(* server has it (use-task-metadata.ts, task-comments-section.tsx:112).    *)
THEOREM TalkStaysSound == TalkSpec => []TalkSound
<1>1. TalkInit => TalkInv
  BY TalkBegins
<1>2. TalkInv /\ [TalkNext]_talkVars => TalkInv'
  BY TalkKeeps
<1>3. TalkInv => TalkSound
  BY TalkFollows
<1> QED BY <1>1, <1>2, <1>3, PTL DEF TalkSpec

-----------------------------------------------------------------------------
(***************************************************************************)
(* The fields and lists of an open panel, for any number of items, labels, *)
(* texts and sections and without a bound on what is done: the card beside *)
(* the panel counts what it lists and is the server's once all is quiet.   *)
(***************************************************************************)

(* A summary is two numbers.                                               *)
LEMMA SummaryIs ==
    ASSUME NEW l, l.items \subseteq Items, l.done \subseteq Items
    PROVE  summarize(l) \in [total : Nat, done : Nat]
<1>1. IsFiniteSet(l.items) /\ IsFiniteSet(l.done)
  BY PanelAssumption, FS_Subset
<1> QED BY <1>1, FS_CardinalityType DEF summarize

(* What a server row looks like as an answer.                              *)
LEMMA DetailIs ==
    ASSUME NEW t \in TaskRows, t.done \subseteq t.items
    PROVE  /\ Detail(t) \in Cards /\ Row(t) \in Cards
           /\ ListsCounted(Detail(t)) /\ ListsCounted(Row(t))
           /\ Detail(t).lists.loaded /\ Detail(t).lists.items = t.items /\ Detail(t).lists.done = t.done
           /\ Row(t).lists = NotLoaded /\ ~NotLoaded.loaded
           /\ \A x \in {Detail(t), Row(t)} :
                 /\ x.sum = summarize(t) /\ x.labels = t.labels
                 /\ x.title = t.title /\ x.text = t.text /\ x.prio = t.prio
<1>1. summarize(t) \in [total : Nat, done : Nat]
  BY SummaryIs DEF TaskRows
<1>2. /\ Detail(t) = [lists |-> [loaded |-> TRUE, items |-> t.items, done |-> t.done],
              sum |-> summarize(t), labels |-> t.labels,
              title |-> t.title, text |-> t.text, prio |-> t.prio]
      /\ Row(t) = [lists |-> NotLoaded,
              sum |-> summarize(t), labels |-> t.labels,
              title |-> t.title, text |-> t.text, prio |-> t.prio]
  BY DEF Detail, Row
<1>3. NotLoaded \in ListCopies /\ ~NotLoaded.loaded
      /\ NotLoaded.done \subseteq NotLoaded.items
  BY DEF NotLoaded, ListCopies
<1>4. [loaded |-> TRUE, items |-> t.items, done |-> t.done] \in ListCopies
  BY DEF ListCopies, TaskRows
<1>5. Detail(t) \in Cards /\ Row(t) \in Cards
  BY <1>1, <1>2, <1>3, <1>4 DEF Cards, TaskRows
<1>6. ListsCounted(Detail(t)) /\ ListsCounted(Row(t))
  <2>1. summarize(t) = summarize([loaded |-> TRUE, items |-> t.items, done |-> t.done])
    BY DEF summarize
  <2> QED BY <1>2, <1>3, <2>1 DEF ListsCounted
<1> QED BY <1>2, <1>3, <1>5, <1>6

(* A read that goes out.                                                   *)
LEMMA ReadIs ==
    ASSUME NEW k \in {"detail", "upsert", "board"}
    PROVE  /\ Read(k) \in PanelCalls /\ Read(k).kind = k /\ Read(k).phase = "sent"
           /\ Read(k).base = 0 /\ CopiesFit(Read(k))
<1>1. summarize(NotLoaded) \in [total : Nat, done : Nat]
  BY SummaryIs DEF NotLoaded
<1>2. NotLoaded \in ListCopies
  BY DEF NotLoaded, ListCopies
<1>3. Blank \in Cards
  BY <1>1, <1>2, PanelAssumption DEF Blank, Cards
<1>4. NoArg \in PanelArgs
  BY PanelAssumption DEF NoArg, PanelArgs
<1>5. Read(k) \in PanelCalls /\ Read(k).kind = k /\ Read(k).phase = "sent" /\ Read(k).base = 0
      /\ Read(k).prev = Blank /\ Read(k).dto = Blank
  BY <1>3, <1>4 DEF Read, PanelCalls
<1>6. ListsCounted(Blank)
  BY DEF ListsCounted, Blank, NotLoaded
<1> QED BY <1>5, <1>6 DEF CopiesFit

(* A write that goes out.                                                  *)
LEMMA WriteIs ==
    ASSUME PanelShape, CopiesHold, NEW k \in WriteKinds, NEW a \in PanelArgs
    PROVE  /\ Write(k, a) \in PanelCalls
           /\ Write(k, a).kind = k /\ Write(k, a).arg = a /\ Write(k, a).phase = "sent"
           /\ Write(k, a).prev = card /\ Write(k, a).typed = typed
           /\ Write(k, a).base = (IF raced THEN -1 ELSE newest)
           /\ ListsCounted(Write(k, a).prev) /\ ListsCounted(Write(k, a).dto)
<1>1. summarize(NotLoaded) \in [total : Nat, done : Nat]
  BY SummaryIs DEF NotLoaded
<1>2. NotLoaded \in ListCopies
  BY DEF NotLoaded, ListCopies
<1>3. Blank \in Cards
  BY <1>1, <1>2, PanelAssumption DEF Blank, Cards
<1>4. PICK b \in Int : b = (IF raced THEN -1 ELSE newest)
  BY DEF PanelShape
<1>5. Write(k, a) = [kind |-> k, arg |-> a, phase |-> "sent", prev |-> card, base |-> b,
                     typed |-> typed, dto |-> Blank, ver |-> 0]
  <2>1. Read(k) = [kind |-> k, arg |-> NoArg, phase |-> "sent", prev |-> Blank,
                   base |-> 0, typed |-> {}, dto |-> Blank, ver |-> 0]
    BY DEF Read
  <2>2. Write(k, a) = [Read(k) EXCEPT !.arg = a, !.prev = card, !.typed = typed, !.base = b]
    BY <1>4 DEF Write
  <2>3. PICK r : r = [Read(k) EXCEPT !.arg = a]
    OBVIOUS
  <2>4. r = [kind |-> k, arg |-> a, phase |-> "sent", prev |-> Blank,
             base |-> 0, typed |-> {}, dto |-> Blank, ver |-> 0]
    BY <2>1, <2>3
  <2>5. PICK p : p = [r EXCEPT !.prev = card]
    OBVIOUS
  <2>6. p = [kind |-> k, arg |-> a, phase |-> "sent", prev |-> card,
             base |-> 0, typed |-> {}, dto |-> Blank, ver |-> 0]
    BY <2>4, <2>5
  <2>7. PICK q : q = [p EXCEPT !.typed = typed]
    OBVIOUS
  <2>8. q = [kind |-> k, arg |-> a, phase |-> "sent", prev |-> card,
             base |-> 0, typed |-> typed, dto |-> Blank, ver |-> 0]
    BY <2>6, <2>7
  <2>9. [q EXCEPT !.base = b] = [kind |-> k, arg |-> a, phase |-> "sent", prev |-> card,
                                base |-> b, typed |-> typed, dto |-> Blank, ver |-> 0]
    BY <2>8
  <2> QED BY <2>2, <2>3, <2>5, <2>7, <2>9
<1>6. Write(k, a) \in PanelCalls
  BY <1>3, <1>5 DEF PanelCalls, PanelShape
<1>7. ListsCounted(Blank) /\ ListsCounted(card)
  BY DEF ListsCounted, Blank, NotLoaded, CopiesHold
<1> QED BY <1>4, <1>5, <1>6, <1>7

(* What a render of a new copy does: reads of the detail begin and end, the *)
(* other calls stay, and the fields follow.                                 *)
LEMMA ShowIs ==
    ASSUME PanelShape, DraftTyped, NEW new \in Cards, NEW out \in SUBSET PanelCalls,
           Show(new, out)
    PROVE  /\ card' = new /\ calls' \subseteq PanelCalls
           /\ calls' \subseteq out \cup {Read("detail")}
           /\ \A c \in out : c.kind # "detail" => c \in calls'
           /\ draft' \in [title : Texts, text : Texts] /\ typed' \subseteq {"title", "text"}
           /\ DraftTyped'
           /\ \/ draft' = [title |-> new.title, text |-> new.text]
              \/ new.title = card.title /\ new.text = card.text /\ draft' = draft
           /\ (card.lists.loaded \/ \E c \in out : c.kind = "detail")
              => new.lists.loaded \/ Out({"detail"})'
<1>1. card' = new /\ TakeOver(new)
      /\ calls' = IF new.lists.loaded THEN {c \in out : c.kind # "detail"}
                ELSE IF card.lists.loaded THEN out \cup {Read("detail")}
                ELSE out
  BY DEF Show
<1>2. Read("detail") \in PanelCalls /\ Read("detail").kind = "detail"
  BY ReadIs
<1>3. \/ draft' = [title |-> new.title, text |-> new.text] /\ typed' = {}
      \/ new.title = card.title /\ new.text = card.text /\ draft' = draft /\ typed' = typed
  BY <1>1 DEF TakeOver
<1>4. draft' \in [title : Texts, text : Texts] /\ typed' \subseteq {"title", "text"}
  <2>1. new.title \in Texts /\ new.text \in Texts
    BY DEF Cards
  <2>2. CASE draft' = [title |-> new.title, text |-> new.text] /\ typed' = {}
    BY <2>1, <2>2
  <2>3. CASE draft' = draft /\ typed' = typed
    BY <2>3 DEF PanelShape
  <2> QED BY <1>3, <2>2, <2>3
<1>5. DraftTyped'
  <2>1. CASE draft' = [title |-> new.title, text |-> new.text]
    BY <1>1, <2>1 DEF DraftTyped, Cards
  <2>2. CASE new.title = card.title /\ new.text = card.text /\ draft' = draft /\ typed' = typed
    BY <1>1, <2>2 DEF DraftTyped
  <2> QED BY <1>3, <2>1, <2>2
<1>6. calls' \subseteq PanelCalls /\ calls' \subseteq out \cup {Read("detail")}
      /\ \A c \in out : c.kind # "detail" => c \in calls'
  BY <1>1, <1>2
<1>7. (card.lists.loaded \/ \E c \in out : c.kind = "detail") => new.lists.loaded \/ Out({"detail"})'
  BY <1>1, <1>2 DEF Out
<1> QED BY <1>1, <1>3, <1>4, <1>5, <1>6, <1>7

(* While row and version stay, what fits them still does.                  *)
LEMMA SameVersion ==
    ASSUME newest' = newest, edits' = edits, task' = task,
           \A d \in calls' : d.kind = "drop" /\ d.phase = "ok" => d \in calls
    PROVE  /\ Known' => Known
           /\ \A d \in calls' : LastDrop(d)' => d \in calls /\ LastDrop(d)
           /\ \A x : LabelsAgree(x) => LabelsAgree(x)'
           /\ \A x : (ListsAgree(x) <=> ListsAgree(x)') /\ (FieldsAgree(x) <=> FieldsAgree(x)')
           /\ \A c : AnswerFits(c) => AnswerFits(c)'
           /\ \A c : RollbackFits(c) => RollbackFits(c)'
<1>1. \A d \in calls' : LastDrop(d)' => d \in calls /\ LastDrop(d)
  BY DEF LastDrop
<1>2. Known' => Known
  BY <1>1 DEF Known
<1>3. \A x : (ListsAgree(x) <=> ListsAgree(x)') /\ (FieldsAgree(x) <=> FieldsAgree(x)')
  BY DEF ListsAgree, FieldsAgree
<1>4. \A x : LabelsAgree(x) => LabelsAgree(x)'
  BY <1>1 DEF LabelsAgree
<1>5. \A c : AnswerFits(c) => AnswerFits(c)'
  BY <1>2, <1>3, <1>4 DEF AnswerFits
<1>6. \A c : RollbackFits(c) => RollbackFits(c)'
  BY <1>2, <1>3, <1>4 DEF RollbackFits
<1> QED BY <1>1, <1>2, <1>3, <1>4, <1>5, <1>6

(* When a newer version is shown, every write was sent over an older one.  *)
LEMMA NewerVersion ==
    ASSUME PanelShape, PanelShape', RollbacksHold, newest < newest', edits' = edits, task' = task,
           \A d \in calls' : d.kind = "drop" /\ d.phase = "ok" => d \in calls
    PROVE  /\ \A d \in calls' : ~LastDrop(d)'
           /\ Known' => newest' = edits
           /\ \A c : AnswerFits(c) => AnswerFits(c)'
           /\ \A c \in calls \cup toasts : RollbackFits(c)'
<1>0. newest \in Nat /\ newest' \in Nat /\ edits \in Nat
      /\ \A c \in calls \cup toasts : c.base \in Int /\ c.base <= newest
  BY DEF PanelShape, PanelCalls, RollbacksHold, RollbackFits
<1>1. \A d \in calls' : ~LastDrop(d)'
  <2> SUFFICES ASSUME NEW d \in calls', LastDrop(d)' PROVE FALSE
    OBVIOUS
  <2>1. d.kind = "drop" /\ d.phase = "ok" /\ d.base = newest'
    BY DEF LastDrop
  <2>2. d \in calls
    BY <2>1
  <2> QED BY <1>0, <2>1, <2>2
<1>2. Known' => newest' = edits
  BY <1>1 DEF Known
<1>3. \A x : (ListsAgree(x) <=> ListsAgree(x)') /\ (FieldsAgree(x) <=> FieldsAgree(x)')
  BY DEF ListsAgree, FieldsAgree
<1>4. \A x : LabelsAgree(x)' <=> (newest' = edits => x.labels = task.labels)
  BY <1>1 DEF LabelsAgree
<1>5. \A c : AnswerFits(c) => AnswerFits(c)'
  BY <1>2, <1>3, <1>4 DEF AnswerFits
<1>6. \A c \in calls \cup toasts : RollbackFits(c)'
  BY <1>0 DEF RollbackFits
<1> QED BY <1>1, <1>2, <1>5, <1>6

(* A read that has just gone out answers and takes back nothing.           *)
LEMMA ReadFits ==
    ASSUME PanelShape, NEW k \in {"detail", "upsert", "board"}
    PROVE  AnswerFits(Read(k)) /\ RollbackFits(Read(k))
<1>1. Read(k).phase = "sent" /\ Read(k).kind = k /\ Read(k).base = 0 /\ 0 <= newest
  BY ReadIs DEF PanelShape
<1> QED BY <1>1 DEF AnswerFits, RollbackFits

(* A write that goes out: the lists or the fields it shows at once are its *)
(* own, and it takes back what was shown.                                  *)
LEMMA SentKeeps ==
    ASSUME PanelInv, NEW c \in PanelCalls, NEW shown \in Cards,
           c.kind \in WriteKinds, c.phase = "sent", c.kind = "add" => c.arg.id \in Items,
           CopiesFit(c), RollbackFits(c), ListsCounted(shown),
           shown.labels = card.labels, shown.prio = card.prio,
           shown.lists.loaded = card.lists.loaded,
           c.kind = "tick" \/ (shown.lists = card.lists /\ shown.sum = card.sum),
           c.kind = "save" \/ (shown.title = card.title /\ shown.text = card.text),
           c.kind = "save" =>
               \/ FieldsAgree(shown) \/ draft' = [title |-> shown.title, text |-> shown.text]
               \/ ~Known \/ raced,
           Show(shown, calls \cup {c}), toasts' \subseteq toasts,
           UNCHANGED <<task, palette, edits, echo, failedRead, newest, raced, section>>
    PROVE  PanelInv'
<1> DEFINE out == calls \cup {c}
<1>a. out \in SUBSET PanelCalls
  BY DEF PanelInv, PanelShape
<1>b. /\ card' = shown /\ calls' \subseteq PanelCalls
      /\ calls' \subseteq out \cup {Read("detail")}
      /\ \A d \in out : d.kind # "detail" => d \in calls'
      /\ draft' \in [title : Texts, text : Texts] /\ typed' \subseteq {"title", "text"}
      /\ DraftTyped'
      /\ \/ draft' = [title |-> shown.title, text |-> shown.text]
         \/ shown.title = card.title /\ shown.text = card.text /\ draft' = draft
      /\ (card.lists.loaded \/ \E d \in out : d.kind = "detail")
           => shown.lists.loaded \/ Out({"detail"})'
  BY <1>a, ShowIs DEF PanelInv
<1>r. /\ Read("detail") \in PanelCalls /\ Read("detail").kind = "detail"
      /\ Read("detail").phase = "sent" /\ CopiesFit(Read("detail"))
      /\ AnswerFits(Read("detail")) /\ RollbackFits(Read("detail"))
  BY ReadIs, ReadFits DEF PanelInv
<1>c. \A d \in calls' : d.kind = "drop" /\ d.phase = "ok" => d \in calls
  BY <1>b, <1>r
<1>d. /\ Known' => Known
      /\ \A x : LabelsAgree(x) => LabelsAgree(x)'
      /\ \A x : (ListsAgree(x) <=> ListsAgree(x)') /\ (FieldsAgree(x) <=> FieldsAgree(x)')
      /\ \A d : AnswerFits(d) => AnswerFits(d)'
      /\ \A d : RollbackFits(d) => RollbackFits(d)'
  BY <1>c, SameVersion
<1>1. PanelShape'
  BY <1>b, <1>r DEF PanelInv, PanelShape
<1>2. CopiesHold'
  BY <1>b, <1>r DEF PanelInv, CopiesHold
<1>3. ListsAsked'
  BY <1>b DEF PanelInv, ListsAsked, Out
<1>4. AnswersHold'
  <2>1. AnswerFits(c)
    BY DEF AnswerFits
  <2> QED BY <2>1, <1>b, <1>r, <1>d DEF PanelInv, AnswersHold
<1>5. RollbacksHold'
  BY <1>b, <1>r, <1>d DEF PanelInv, RollbacksHold
<1>6. CardHolds'
  <2> SUFFICES ASSUME Known', ~raced' PROVE
        /\ Out({"tick"})' \/ ListsAgree(shown)'
        /\ Out({"save"})' \/ FieldsAgree(shown)'
        /\ Out({"save"})' =>
              FieldsAgree(shown)' \/ draft' = [title |-> shown.title, text |-> shown.text]
        /\ shown.prio = task.prio /\ LabelsAgree(shown)'
    BY <1>b DEF CardHolds, ListsAgree, FieldsAgree, LabelsAgree
  <2>1. /\ Known /\ ~raced
        /\ Out({"tick"}) \/ ListsAgree(card)
        /\ Out({"save"}) \/ FieldsAgree(card)
        /\ Out({"save"}) =>
              FieldsAgree(card) \/ draft = [title |-> card.title, text |-> card.text]
        /\ card.prio = task.prio /\ LabelsAgree(card)
    BY <1>d DEF PanelInv, CardHolds
  <2>2. \A k \in {"tick", "save"} : (Out({k}) \/ c.kind = k) <=> Out({k})'
    BY <1>b, <1>r DEF Out
  <2>3. Out({"tick"})' \/ ListsAgree(shown)'
    BY <2>1, <2>2, <1>d DEF ListsAgree
  <2>4. Out({"save"})' \/ FieldsAgree(shown)'
    BY <2>1, <2>2, <1>d DEF FieldsAgree
  <2>5. Out({"save"})' =>
              FieldsAgree(shown)' \/ draft' = [title |-> shown.title, text |-> shown.text]
    BY <2>1, <2>2, <1>b, <1>d DEF FieldsAgree
  <2>6. LabelsAgree(shown)
    BY <2>1 DEF LabelsAgree
  <2> QED BY <2>1, <2>3, <2>4, <2>5, <2>6, <1>d
<1>7. NewsComes'
  BY <1>b DEF PanelInv, NewsComes
<1> QED BY <1>1, <1>2, <1>b, <1>3, <1>4, <1>5, <1>6, <1>7 DEF PanelInv

(* A control of the panel sends what it shows, over the card it shows.     *)
LEMMA SendKeeps ==
    ASSUME PanelInv, NEW k \in WriteKinds, NEW a \in PanelArgs, NEW shown \in Cards,
           k = "add" => a.id \in Items, ListsCounted(shown),
           shown.labels = card.labels, shown.prio = card.prio,
           shown.lists.loaded = card.lists.loaded,
           k = "tick" \/ (shown.lists = card.lists /\ shown.sum = card.sum),
           k = "save" \/ (shown.title = card.title /\ shown.text = card.text),
           k = "tick" => ~Out(ListWrites),
           k = "save" => /\ draft # [title |-> card.title, text |-> card.text]
                         /\ a.title = draft.title /\ a.text = draft.text
                         /\ shown.title = draft.title /\ shown.text = draft.text,
           Send(k, a, shown), toasts' = toasts
    PROVE  PanelInv'
<1> DEFINE c == Write(k, a)
<1>1. /\ c \in PanelCalls /\ c.kind = k /\ c.arg = a /\ c.phase = "sent"
      /\ c.prev = card /\ c.typed = typed
      /\ c.base = (IF raced THEN -1 ELSE newest)
      /\ ListsCounted(c.prev) /\ ListsCounted(c.dto)
  BY WriteIs DEF PanelInv
<1>2. CopiesFit(c)
  <2>1. k = "save" => \A f \in {"title", "text"} : a[f] # card[f] => f \in typed
    BY DEF PanelInv, DraftTyped
  <2> QED BY <1>1, <2>1 DEF CopiesFit
<1>3. RollbackFits(c)
  <2>1. newest \in Nat /\ raced \in BOOLEAN
    BY DEF PanelInv, PanelShape
  <2>2. c.base <= newest /\ (c.base = newest => ~raced)
    BY <1>1, <2>1
  <2>3. k = "tick" => ~Out({"tick"})
    BY DEF Out, ListWrites
  <2>4. Known /\ ~raced =>
          /\ k = "tick" => ListsAgree(card)
          /\ k = "save" => FieldsAgree(card)
          /\ k = "field" => card.prio = task.prio
          /\ k = "drop" => LabelsAgree(card)
    BY <2>3 DEF PanelInv, CardHolds
  <2> QED BY <1>1, <2>2, <2>4 DEF RollbackFits
<1>4. /\ Show(shown, calls \cup {c})
      /\ UNCHANGED <<task, palette, edits, echo, failedRead, newest, raced, section>>
  BY DEF Send
<1>5. k = "save" => draft' = [title |-> shown.title, text |-> shown.text]
  <2> SUFFICES ASSUME k = "save" PROVE draft' = [title |-> shown.title, text |-> shown.text]
    OBVIOUS
  <2>1. draft = [title |-> shown.title, text |-> shown.text]
    BY DEF PanelInv, PanelShape
  <2>2. shown.title # card.title \/ shown.text # card.text
    BY <2>1
  <2> QED BY <1>4, <2>2 DEF Show, TakeOver
<1> HIDE DEF c
<1> QED BY <1>1, <1>2, <1>3, <1>4, <1>5, SentKeeps

(* The argument of a call that names an id.                                *)
LEMMA ArgIs ==
    ASSUME NEW i \in Items \cup Labels, NEW on \in BOOLEAN, NEW u \in Texts, NEW v \in Texts
    PROVE  /\ NoArg \in PanelArgs
           /\ [NoArg EXCEPT !.id = i] \in PanelArgs /\ [NoArg EXCEPT !.id = i].id = i
           /\ [NoArg EXCEPT !.id = i, !.on = on] \in PanelArgs
           /\ [NoArg EXCEPT !.id = i, !.on = on].id = i /\ [NoArg EXCEPT !.id = i, !.on = on].on = on
           /\ [NoArg EXCEPT !.prio = u] \in PanelArgs
           /\ [NoArg EXCEPT !.title = u, !.text = v] \in PanelArgs
           /\ [NoArg EXCEPT !.title = u, !.text = v].title = u
           /\ [NoArg EXCEPT !.title = u, !.text = v].text = v
<1>1. NoArg \in PanelArgs
  BY PanelAssumption DEF NoArg, PanelArgs
<1>2. [NoArg EXCEPT !.id = i] \in PanelArgs /\ [NoArg EXCEPT !.id = i].id = i
  BY <1>1 DEF PanelArgs
<1>3. /\ [NoArg EXCEPT !.id = i, !.on = on] \in PanelArgs
      /\ [NoArg EXCEPT !.id = i, !.on = on].id = i
      /\ [NoArg EXCEPT !.id = i, !.on = on].on = on
  BY <1>1 DEF PanelArgs
<1>4. [NoArg EXCEPT !.prio = u] \in PanelArgs
  BY <1>1 DEF PanelArgs
<1>5. /\ [NoArg EXCEPT !.title = u, !.text = v] \in PanelArgs
      /\ [NoArg EXCEPT !.title = u, !.text = v].title = u
      /\ [NoArg EXCEPT !.title = u, !.text = v].text = v
  BY <1>1 DEF PanelArgs
<1> QED BY <1>1, <1>2, <1>3, <1>4, <1>5

(* An optimistic tick is counted with the lists it changes.                *)
LEMMA TickedIs ==
    ASSUME PanelShape, CopiesHold, NEW i \in card.lists.items, NEW on \in BOOLEAN
    PROVE  /\ TickedShown(i, on) \in Cards /\ ListsCounted(TickedShown(i, on))
           /\ TickedShown(i, on).lists.loaded = card.lists.loaded
           /\ TickedShown(i, on).labels = card.labels /\ TickedShown(i, on).prio = card.prio
           /\ TickedShown(i, on).title = card.title /\ TickedShown(i, on).text = card.text
<1> DEFINE l == ticked(card.lists, i, on)
<1>0. card \in Cards /\ card.lists \in ListCopies /\ card.lists.done \subseteq card.lists.items
  BY DEF PanelShape, Cards, CopiesHold, ListsCounted
<1>1. /\ l \in ListCopies /\ l.loaded = card.lists.loaded
      /\ l.items = card.lists.items /\ l.done \subseteq l.items
  BY <1>0 DEF ticked, ListCopies
<1>2. summarize(l) \in [total : Nat, done : Nat]
  BY <1>1, SummaryIs DEF ListCopies
<1>3. TickedShown(i, on) = [card EXCEPT !.lists = l, !.sum = summarize(l)]
  BY DEF TickedShown
<1> HIDE DEF l
<1>4. PICK n \in [total : Nat, done : Nat] : n = summarize(l)
  BY <1>2
<1>5. /\ [card EXCEPT !.lists = l, !.sum = n] \in Cards
      /\ [card EXCEPT !.lists = l, !.sum = n].lists = l
      /\ [card EXCEPT !.lists = l, !.sum = n].sum = n
      /\ [card EXCEPT !.lists = l, !.sum = n].labels = card.labels
      /\ [card EXCEPT !.lists = l, !.sum = n].prio = card.prio
      /\ [card EXCEPT !.lists = l, !.sum = n].title = card.title
      /\ [card EXCEPT !.lists = l, !.sum = n].text = card.text
  BY <1>0, <1>1 DEF Cards
<1>6. card.lists.loaded
  BY <1>0 DEF ListsCounted, CopiesHold, NotLoaded
<1> QED BY <1>1, <1>3, <1>4, <1>5, <1>6 DEF ListsCounted

(* The lists' controls: tick, add and remove an item.                      *)
LEMMA ListsKeep ==
    ASSUME PanelInv, NEW i \in Items, toggleItem(i) \/ addItem(i) \/ removeItem(i)
    PROVE  PanelInv'
<1>1. PanelShape /\ CopiesHold /\ card \in Cards /\ ListsCounted(card)
  BY DEF PanelInv, PanelShape, CopiesHold
<1>2. CASE toggleItem(i)
  <2>1. PICK on \in BOOLEAN : on = (i \notin card.lists.done)
    OBVIOUS
  <2>2. /\ Send("tick", [NoArg EXCEPT !.id = i, !.on = on], TickedShown(i, on))
        /\ toasts' = toasts /\ ~Out(ListWrites) /\ i \in card.lists.items
    BY <1>2, <2>1 DEF toggleItem, ListsOffered
  <2>3. "tick" \in WriteKinds /\ [NoArg EXCEPT !.id = i, !.on = on] \in PanelArgs
    BY ArgIs, PanelAssumption DEF WriteKinds, ListWrites
  <2> QED BY <1>1, <2>2, <2>3, TickedIs, SendKeeps
<1>3. CASE addItem(i) \/ removeItem(i)
  <2>1. PICK k \in {"add", "remove"} :
          Send(k, [NoArg EXCEPT !.id = i], card) /\ toasts' = toasts
    BY <1>3 DEF addItem, removeItem
  <2>2. /\ k \in WriteKinds /\ [NoArg EXCEPT !.id = i] \in PanelArgs
        /\ [NoArg EXCEPT !.id = i].id = i
    BY ArgIs, PanelAssumption DEF WriteKinds, ListWrites
  <2> QED BY <1>1, <2>1, <2>2, SendKeeps
<1> QED BY <1>2, <1>3

(* The properties: a field, a label, and the removal of a label.           *)
LEMMA PropertiesKeep ==
    ASSUME PanelInv,
           \/ \E v \in Texts : patchTask(v)
           \/ \E l \in Labels : toggleLabel(l) \/ deleteBoardLabel(l)
    PROVE  PanelInv'
<1>1. card \in Cards /\ ListsCounted(card)
  BY DEF PanelInv, PanelShape, CopiesHold
<1>2. PICK k \in {"field", "label", "drop"}, a \in PanelArgs : Send(k, a, card) /\ toasts' = toasts
  <2>1. ASSUME NEW v \in Texts, patchTask(v)
        PROVE  Send("field", [NoArg EXCEPT !.prio = v], card) /\ toasts' = toasts
               /\ [NoArg EXCEPT !.prio = v] \in PanelArgs
    <3>1. [NoArg EXCEPT !.prio = v] \in PanelArgs
      BY PanelAssumption DEF NoArg, PanelArgs
    <3> QED BY <2>1, <3>1 DEF patchTask
  <2>2. ASSUME NEW l \in Labels, toggleLabel(l)
        PROVE  \E a \in PanelArgs : Send("label", a, card) /\ toasts' = toasts
    <3>1. PICK on \in BOOLEAN : on = (l \notin card.labels)
      OBVIOUS
    <3> QED BY <2>2, <3>1, ArgIs, PanelAssumption DEF toggleLabel
  <2>3. ASSUME NEW l \in Labels, deleteBoardLabel(l)
        PROVE  \E a \in PanelArgs : Send("drop", a, card) /\ toasts' = toasts
    BY <2>3, ArgIs, PanelAssumption DEF deleteBoardLabel
  <2> QED BY <2>1, <2>2, <2>3
<1>3. k \in WriteKinds
  BY DEF WriteKinds
<1> QED BY <1>1, <1>2, <1>3, SendKeeps

(* The blur that saves.                                                    *)
LEMMA SaveKeeps == ASSUME PanelInv, save PROVE PanelInv'
<1> DEFINE a == [NoArg EXCEPT !.title = draft.title, !.text = draft.text]
           shown == [card EXCEPT !.title = draft.title, !.text = draft.text]
<1>1. draft.title \in Texts /\ draft.text \in Texts /\ card \in Cards /\ ListsCounted(card)
  BY DEF PanelInv, PanelShape, CopiesHold
<1>2. a \in PanelArgs /\ a.title = draft.title /\ a.text = draft.text
  BY <1>1, PanelAssumption DEF NoArg, PanelArgs
<1>3. /\ shown \in Cards /\ shown.lists = card.lists /\ shown.sum = card.sum
      /\ shown.labels = card.labels /\ shown.prio = card.prio
      /\ shown.title = draft.title /\ shown.text = draft.text
  BY <1>1 DEF Cards
<1>4. ListsCounted(shown)
  BY <1>1, <1>3 DEF ListsCounted
<1>5. /\ Send("save", a, shown) /\ toasts' = toasts
      /\ draft # [title |-> card.title, text |-> card.text]
  BY DEF save
<1>6. "save" \in WriteKinds
  BY DEF WriteKinds
<1> HIDE DEF a, shown
<1> QED BY <1>2, <1>3, <1>4, <1>5, <1>6, SendKeeps

(* A retry sends a failed save again, over the version it was made for.    *)
LEMMA RetriedSaveKeeps == ASSUME PanelInv, NEW c \in toasts, RetrySave(c) PROVE PanelInv'
<1> DEFINE shown == [card EXCEPT !.title = c.arg.title, !.text = c.arg.text]
           p == [c EXCEPT !.phase = "sent"]
<1>1. /\ c \in PanelCalls /\ c.kind = "save" /\ CopiesFit(c) /\ RollbackFits(c)
      /\ card \in Cards /\ ListsCounted(card)
  BY DEF PanelInv, PanelShape, CopiesHold, RollbacksHold
<1>2. /\ p \in PanelCalls /\ p.kind = "save" /\ p.phase = "sent" /\ p.arg = c.arg
      /\ p.prev = c.prev /\ p.base = c.base /\ p.typed = c.typed /\ p.dto = c.dto
  BY <1>1 DEF PanelCalls
<1>3. CopiesFit(p) /\ RollbackFits(p)
  BY <1>1, <1>2 DEF CopiesFit, RollbackFits
<1>4. /\ shown \in Cards /\ shown.lists = card.lists /\ shown.sum = card.sum
      /\ shown.labels = card.labels /\ shown.prio = card.prio
      /\ shown.title = c.arg.title /\ shown.text = c.arg.text
  <2>1. c.arg.title \in Texts /\ c.arg.text \in Texts
    BY <1>1 DEF PanelCalls, PanelArgs
  <2> QED BY <1>1, <2>1 DEF Cards
<1>5. ListsCounted(shown)
  BY <1>1, <1>4 DEF ListsCounted
<1>6. /\ Show(shown, calls \cup {p}) /\ toasts' \subseteq toasts
      /\ UNCHANGED <<task, palette, edits, echo, failedRead, newest, raced, section>>
  BY DEF RetrySave
<1>7. \/ FieldsAgree(shown) \/ draft' = [title |-> shown.title, text |-> shown.text]
      \/ ~Known \/ raced
  <2>1. CASE shown.title # card.title \/ shown.text # card.text
    BY <2>1, <1>6 DEF Show, TakeOver
  <2>2. CASE shown.title = card.title /\ shown.text = card.text
    <3>1. draft' = draft
      BY <2>2, <1>6 DEF Show, TakeOver
    <3>2. Known /\ ~raced =>
            FieldsAgree(card) \/ draft = [title |-> card.title, text |-> card.text]
      BY DEF PanelInv, CardHolds
    <3> QED BY <2>2, <3>1, <3>2 DEF FieldsAgree
  <2> QED BY <2>1, <2>2
<1>8. "save" \in WriteKinds
  BY DEF WriteKinds
<1> HIDE DEF shown, p
<1> QED BY <1>2, <1>3, <1>4, <1>5, <1>6, <1>7, <1>8, SentKeeps

(* Calls begin or are handled while row, version and card stay.            *)
LEMMA CallsChange ==
    ASSUME PanelInv, calls' \subseteq PanelCalls,
           \A p \in calls' : \/ p \in calls
                             \/ /\ CopiesFit(p) /\ AnswerFits(p) /\ RollbackFits(p)
                                /\ p.kind = "add" => p.arg.id \in Items
                                /\ ~(p.kind = "drop" /\ p.phase = "ok"),
           \A k \in {"tick", "save", "detail"} : Out({k}) => Out({k})',
           Out({"save"})' => Out({"save"}),
           NewsComes', echo' \in BOOLEAN,
           UNCHANGED <<task, palette, edits, card, toasts, failedRead, draft, typed, newest,
                       raced>>
    PROVE  PanelInv'
<1>1. \A d \in calls' : d.kind = "drop" /\ d.phase = "ok" => d \in calls
  OBVIOUS
<1>2. /\ Known' => Known
      /\ \A x : LabelsAgree(x) => LabelsAgree(x)'
      /\ \A x : (ListsAgree(x) <=> ListsAgree(x)') /\ (FieldsAgree(x) <=> FieldsAgree(x)')
      /\ \A c : AnswerFits(c) => AnswerFits(c)'
      /\ \A c : RollbackFits(c) => RollbackFits(c)'
  BY <1>1, SameVersion
<1>3. PanelShape'
  BY DEF PanelInv, PanelShape
<1>4. CopiesHold' /\ DraftTyped'
  BY DEF PanelInv, CopiesHold, DraftTyped
<1>5. ListsAsked'
  BY DEF PanelInv, ListsAsked
<1>6. AnswersHold' /\ RollbacksHold'
  BY <1>2 DEF PanelInv, AnswersHold, RollbacksHold
<1>7. CardHolds'
  <2> SUFFICES ASSUME Known', ~raced PROVE
        /\ Out({"tick"})' \/ ListsAgree(card)'
        /\ Out({"save"})' \/ FieldsAgree(card)'
        /\ Out({"save"})' =>
              FieldsAgree(card)' \/ draft = [title |-> card.title, text |-> card.text]
        /\ card.prio = task.prio /\ LabelsAgree(card)'
    BY DEF CardHolds, ListsAgree, FieldsAgree, LabelsAgree
  <2>1. /\ Out({"tick"}) \/ ListsAgree(card)
        /\ Out({"save"}) \/ FieldsAgree(card)
        /\ Out({"save"}) =>
              FieldsAgree(card) \/ draft = [title |-> card.title, text |-> card.text]
        /\ card.prio = task.prio /\ LabelsAgree(card)
    BY <1>2 DEF PanelInv, CardHolds
  <2>2. (ListsAgree(card) => ListsAgree(card)') /\ (FieldsAgree(card) => FieldsAgree(card)')
    BY DEF ListsAgree, FieldsAgree
  <2>3. LabelsAgree(card)'
    <3>1. \A d \in calls' : LastDrop(d)' => d \in calls /\ LastDrop(d)
      BY <1>1, SameVersion
    <3> QED BY <2>1, <3>1 DEF LabelsAgree
  <2> QED BY <2>1, <2>2, <2>3
<1> QED BY <1>3, <1>4, <1>5, <1>6, <1>7 DEF PanelInv

(* A handled call is of the kind it was.                                   *)
LEMMA PhaseIs ==
    ASSUME NEW c \in calls, NEW p, p.kind = c.kind, Phase(c, p)
    PROVE  /\ \A k \in {"tick", "save", "detail"} : Out({k}) <=> Out({k})'
           /\ \A d \in calls' : d \in calls \/ d = p
           /\ \A d \in calls : d \in calls' \/ d = c
           /\ p \in calls'
BY DEF Out, Phase

(* Typing into a field, a read that goes out.                              *)
LEMMA QuietStepKeeps ==
    ASSUME PanelInv, (\E f \in {"title", "text"}, v \in Texts : Type(f, v)) \/ Upsert \/ Reload
    PROVE  PanelInv'
<1>1. CASE \E f \in {"title", "text"}, v \in Texts : Type(f, v)
  <2>1. PICK f \in {"title", "text"}, v \in Texts : Type(f, v)
    BY <1>1
  <2>2. /\ draft' = [draft EXCEPT ![f] = v] /\ typed' = typed \cup {f} /\ ~Out({"save"})
        /\ UNCHANGED <<task, palette, edits, card, calls, toasts, echo, failedRead, newest, raced>>
    BY <2>1 DEF Type
  <2>3. PanelShape'
    BY <2>2 DEF PanelInv, PanelShape
  <2>4. DraftTyped'
    BY <2>2 DEF PanelInv, PanelShape, DraftTyped
  <2>5. CopiesHold' /\ ListsAsked' /\ AnswersHold' /\ RollbacksHold' /\ NewsComes'
    BY <2>2 DEF PanelInv, CopiesHold, ListsAsked, Out, AnswersHold, AnswerFits, RollbacksHold,
       RollbackFits, NewsComes, Known, LastDrop, ListsAgree, FieldsAgree, LabelsAgree
  <2>6. CardHolds'
    <3>1. ~Out({"save"})' /\ (Out({"tick"})' <=> Out({"tick"}))
      BY <2>2 DEF Out
    <3>2. (Known' <=> Known) /\ (ListsAgree(card)' <=> ListsAgree(card))
          /\ (FieldsAgree(card)' <=> FieldsAgree(card)) /\ (LabelsAgree(card)' <=> LabelsAgree(card))
      BY <2>2 DEF Known, LastDrop, ListsAgree, FieldsAgree, LabelsAgree
    <3> QED BY <2>2, <3>1, <3>2 DEF PanelInv, CardHolds
  <2> QED BY <2>3, <2>4, <2>5, <2>6 DEF PanelInv
<1>2. CASE Upsert \/ Reload
  <2>1. PICK k \in {"upsert", "board"} :
          /\ calls' = calls \cup {Read(k)} /\ echo' \in BOOLEAN
          /\ k = "upsert" \/ echo' = echo
          /\ UNCHANGED <<task, palette, edits, card, toasts, failedRead, draft, typed, newest, raced>>
    BY <1>2 DEF Upsert, Reload, PanelInv, PanelShape
  <2>2. /\ Read(k) \in PanelCalls /\ Read(k).kind = k /\ Read(k).phase = "sent"
        /\ CopiesFit(Read(k)) /\ AnswerFits(Read(k)) /\ RollbackFits(Read(k))
    BY ReadIs, ReadFits DEF PanelInv
  <2>3. NewsComes'
    BY <2>1, <2>2 DEF PanelInv, NewsComes
  <2>4. \A j \in {"tick", "save", "detail"} : Out({j}) <=> Out({j})'
    BY <2>1, <2>2 DEF Out
  <2>5. calls' \subseteq PanelCalls
    BY <2>1, <2>2 DEF PanelInv, PanelShape
  <2> QED BY <2>1, <2>2, <2>3, <2>4, <2>5, CallsChange
<1> QED BY <1>1, <1>2

(* A read is answered by the row there is.                                 *)
LEMMA ReadKeepsPanel == ASSUME PanelInv, NEW c \in calls, ServeRead(c) PROVE PanelInv'
<1> DEFINE x == IF c.kind = "board" THEN Row(task) ELSE Detail(task)
           p == [c EXCEPT !.phase = "ok", !.ver = edits, !.dto = x]
<1>1. /\ c \in PanelCalls /\ c.phase = "sent" /\ c.kind \notin WriteKinds /\ edits \in Nat
      /\ newest \in Nat /\ CopiesFit(c) /\ RollbackFits(c)
  BY DEF ServeRead, PanelInv, PanelShape, CopiesHold, RollbacksHold
<1>2. /\ x \in Cards /\ ListsCounted(x) /\ ListsAgree(x) /\ FieldsAgree(x) /\ x.prio = task.prio
      /\ x.labels = task.labels /\ (c.kind # "board" => x.lists.loaded)
  <2>1. task \in TaskRows /\ task.done \subseteq task.items
    BY DEF PanelInv, PanelShape
  <2>2. x \in {Row(task), Detail(task)} /\ (c.kind # "board" => x = Detail(task))
    OBVIOUS
  <2> QED BY <2>1, <2>2, DetailIs DEF ListsAgree, FieldsAgree
<1> HIDE DEF x
<1>3. /\ p \in PanelCalls /\ p.kind = c.kind /\ p.phase = "ok" /\ p.ver = edits /\ p.dto = x
      /\ p.prev = c.prev /\ p.base = c.base /\ p.typed = c.typed /\ p.arg = c.arg
  BY <1>1, <1>2 DEF PanelCalls
<1>4. /\ Phase(c, p)
      /\ UNCHANGED <<task, palette, edits, card, toasts, echo, failedRead, draft, typed, newest,
                     raced>>
  BY DEF ServeRead, x
<1> HIDE DEF p
<1>5. c.kind \in {"detail", "upsert", "board"} /\ c.kind \notin {"add", "drop", "tick", "save", "field"}
  BY <1>1 DEF PanelCalls, WriteKinds, ListWrites
<1>6. CopiesFit(p) /\ RollbackFits(p)
  BY <1>1, <1>2, <1>3 DEF CopiesFit, RollbackFits
<1>7. AnswerFits(p)
  <2>1. p.ver = newest => LabelsAgree(x)
    BY <1>1, <1>2, <1>3 DEF LabelsAgree, LastDrop
  <2> QED BY <1>1, <1>2, <1>3, <1>5, <2>1 DEF AnswerFits
<1>8. /\ \A k \in {"tick", "save", "detail"} : Out({k}) <=> Out({k})'
      /\ \A d \in calls' : d \in calls \/ d = p
      /\ \A d \in calls : d \in calls' \/ d = c
      /\ p \in calls'
  BY <1>3, <1>4, PhaseIs
<1>9. NewsComes'
  BY <1>1, <1>3, <1>4, <1>5, <1>8 DEF PanelInv, NewsComes
<1>10. calls' \subseteq PanelCalls /\ echo' \in BOOLEAN
  BY <1>3, <1>4, <1>8 DEF PanelInv, PanelShape
<1> QED BY <1>3, <1>4, <1>5, <1>6, <1>7, <1>8, <1>9, <1>10, CallsChange

(* A call is refused or lost.                                              *)
LEMMA RefusedKeepsPanel == ASSUME PanelInv, NEW c \in calls, Refuse(c) PROVE PanelInv'
<1> DEFINE p == [c EXCEPT !.phase = "failed"]
<1>1. /\ c \in PanelCalls /\ c.phase = "sent" /\ CopiesFit(c) /\ RollbackFits(c)
      /\ c.kind = "add" => c.arg.id \in Items
  BY DEF Refuse, PanelInv, PanelShape, CopiesHold, RollbacksHold
<1>3. /\ p \in PanelCalls /\ p.kind = c.kind /\ p.phase = "failed" /\ p.dto = c.dto
      /\ p.prev = c.prev /\ p.base = c.base /\ p.typed = c.typed /\ p.arg = c.arg
  BY <1>1 DEF PanelCalls
<1>4. /\ Phase(c, p)
      /\ UNCHANGED <<task, palette, edits, card, toasts, echo, failedRead, draft, typed, newest,
                     raced>>
  BY DEF Refuse
<1> HIDE DEF p
<1>6. CopiesFit(p) /\ RollbackFits(p) /\ AnswerFits(p)
  BY <1>1, <1>3 DEF CopiesFit, RollbackFits, AnswerFits
<1>8. /\ \A k \in {"tick", "save", "detail"} : Out({k}) <=> Out({k})'
      /\ \A d \in calls' : d \in calls \/ d = p
      /\ \A d \in calls : d \in calls' \/ d = c
      /\ p \in calls'
  BY <1>3, <1>4, PhaseIs
<1>9. NewsComes'
  BY <1>1, <1>3, <1>4, <1>8 DEF PanelInv, NewsComes
<1>10. calls' \subseteq PanelCalls /\ echo' \in BOOLEAN
  BY <1>3, <1>4, <1>8 DEF PanelInv, PanelShape
<1> QED BY <1>1, <1>3, <1>4, <1>6, <1>8, <1>9, <1>10, CallsChange

(* A write leaves a row of a task; the removal of a label takes nothing    *)
(* else from it.                                                           *)
LEMMA WrittenIs ==
    ASSUME PanelShape, NEW k \in WriteKinds, NEW a \in PanelArgs, k = "add" => a.id \in Items,
           Written(k, a).ok
    PROVE  LET row == Written(k, a).row
           IN /\ row \in TaskRows /\ row.done \subseteq row.items
              /\ row.labels \subseteq (IF k = "drop" THEN palette \ {a.id} ELSE palette)
              /\ k = "drop" => /\ row.items = task.items /\ row.done = task.done
                               /\ row.title = task.title /\ row.text = task.text
                               /\ row.prio = task.prio /\ row.labels = task.labels \ {a.id}
<1>0. /\ task \in TaskRows /\ task.done \subseteq task.items
      /\ task.labels \subseteq palette /\ palette \subseteq Labels
  BY DEF PanelShape
<1>1. CASE k = "tick"
  <2>1. /\ Written(k, a).ok <=> a.id \in task.items
        /\ Written(k, a).row = ticked(task, a.id, a.on)
    BY <1>1, Zenon DEF Written, ItemWrite, ListWrites
  <2>2. PICK d \in SUBSET task.items : ticked(task, a.id, a.on) = [task EXCEPT !.done = d]
    <3>1. CASE a.on
      <4>1. ticked(task, a.id, a.on) = [task EXCEPT !.done = task.done \cup {a.id}]
        BY <3>1 DEF ticked
      <4> QED BY <1>0, <2>1, <4>1
    <3>2. CASE ~a.on
      <4>1. ticked(task, a.id, a.on) = [task EXCEPT !.done = task.done \ {a.id}]
        BY <3>2 DEF ticked
      <4> QED BY <1>0, <4>1
    <3> QED BY <3>1, <3>2
  <2> QED BY <1>0, <1>1, <2>1, <2>2 DEF TaskRows
<1>2. CASE k = "add"
  <2>1. Written(k, a).row = [task EXCEPT !.items = @ \cup {a.id}]
    BY <1>2 DEF Written, ItemWrite, ListWrites
  <2> QED BY <1>0, <1>2, <2>1 DEF TaskRows
<1>3. CASE k = "remove"
  <2>1. Written(k, a).row = [task EXCEPT !.items = @ \ {a.id}, !.done = @ \ {a.id}]
    BY <1>3 DEF Written, ItemWrite, ListWrites
  <2> QED BY <1>0, <1>3, <2>1 DEF TaskRows
<1>4. CASE k = "label"
  <2>1. Written(k, a) = TaskLabelWrite(a, task)
    BY <1>4 DEF Written, ListWrites
  <2>2. PICK l \in SUBSET palette : Written(k, a).row = [task EXCEPT !.labels = l]
    <3>1. a.id \in palette
      <4>1. TaskLabelWrite(a, task).ok <=> a.id \in palette /\ (a.on <=> a.id \notin task.labels)
        BY DEF TaskLabelWrite
      <4> QED BY <2>1, <4>1
    <3>2. Written(k, a).row
          = [task EXCEPT !.labels = IF a.on THEN @ \cup {a.id} ELSE @ \ {a.id}]
      BY <2>1 DEF TaskLabelWrite
    <3>3. CASE a.on
      BY <1>0, <3>1, <3>2, <3>3
    <3>4. CASE ~a.on
      BY <1>0, <3>2, <3>4
    <3> QED BY <3>3, <3>4
  <2> QED BY <1>0, <1>4, <2>2 DEF TaskRows
<1>5. CASE k = "drop"
  <2>1. Written(k, a).row = [task EXCEPT !.labels = @ \ {a.id}]
    BY <1>5 DEF Written, LabelRemove, ListWrites
  <2> QED BY <1>0, <1>5, <2>1 DEF TaskRows
<1>6. CASE k \in {"save", "field"}
  <2>1. Written(k, a).row = planTaskUpdate(k, a, task)
    BY <1>6 DEF Written, ListWrites
  <2>2. a.title \in Texts /\ a.text \in Texts /\ a.prio \in Texts
    BY DEF PanelArgs
  <2>3. CASE k = "save"
    BY <1>0, <2>1, <2>2, <2>3 DEF planTaskUpdate, TaskRows
  <2>4. CASE k = "field"
    BY <1>0, <2>1, <2>2, <2>4 DEF planTaskUpdate, TaskRows
  <2> QED BY <1>6, <2>3, <2>4
<1> QED BY <1>1, <1>2, <1>3, <1>4, <1>5, <1>6 DEF WriteKinds, ListWrites

(* The server's row gets a new version.  What was known of the old one is  *)
(* known of the new one only after the removal of a label.                 *)
LEMMA NewVersion ==
    ASSUME PanelInv, task' \in TaskRows, task'.done \subseteq task'.items,
           task'.labels \subseteq palette', palette' \subseteq Labels,
           edits' = edits + 1, echo' \in BOOLEAN, NewsComes',
           UNCHANGED <<card, toasts, failedRead, draft, typed, newest, raced>>,
           calls' \subseteq PanelCalls,
           \A k \in {"tick", "save", "detail"} : Out({k}) <=> Out({k})',
           \A p \in calls' :
              \/ p \in calls
              \/ \E c \in calls :
                    /\ p.kind = c.kind /\ p.arg = c.arg /\ p.prev = c.prev /\ p.base = c.base
                    /\ p.typed = c.typed /\ ListsCounted(p.dto)
                    /\ p.phase = "ok" => /\ p.ver = edits'
                                         /\ p.kind # "drop" => p.dto = Detail(task')
                    /\ p.kind = "drop" /\ p.phase = "ok" =>
                          /\ task'.items = task.items /\ task'.done = task.done
                          /\ task'.title = task.title /\ task'.text = task.text
                          /\ task'.prio = task.prio /\ task'.labels = task.labels \ {p.arg.id}
    PROVE  PanelInv'
<1>0. edits \in Nat /\ newest \in Nat /\ newest <= edits /\ edits' # newest /\ edits' # edits
      /\ newest' # edits'
  BY DEF PanelInv, PanelShape
<1>1. \A d \in calls' : LastDrop(d)' =>
          /\ newest = edits
          /\ task'.items = task.items /\ task'.done = task.done
          /\ task'.title = task.title /\ task'.text = task.text
          /\ task'.prio = task.prio /\ task'.labels = task.labels \ {d.arg.id}
  <2> SUFFICES ASSUME NEW d \in calls', LastDrop(d)'
               PROVE  /\ newest = edits
                      /\ task'.items = task.items /\ task'.done = task.done
                      /\ task'.title = task.title /\ task'.text = task.text
                      /\ task'.prio = task.prio /\ task'.labels = task.labels \ {d.arg.id}
    OBVIOUS
  <2>1. d.kind = "drop" /\ d.phase = "ok" /\ d.ver = edits' /\ edits' = newest' + 1
    BY DEF LastDrop
  <2>2. d \notin calls
    BY <1>0, <2>1 DEF PanelInv, AnswersHold, AnswerFits
  <2> QED BY <1>0, <2>1, <2>2
<1>2. Known' => /\ newest = edits /\ Known
                /\ Detail(task').lists = Detail(task).lists /\ summarize(task') = summarize(task)
                /\ task'.title = task.title /\ task'.text = task.text /\ task'.prio = task.prio
  <2>1. Known' => \E d \in calls' : LastDrop(d)'
    BY <1>0 DEF Known
  <2> QED BY <1>1, <2>1 DEF Known, Detail, summarize
<1>3. \A x : Known' => (ListsAgree(x) => ListsAgree(x)') /\ (FieldsAgree(x) => FieldsAgree(x)')
  BY <1>2 DEF ListsAgree, FieldsAgree
<1>4. \A x : (Known => LabelsAgree(x)) => LabelsAgree(x)'
  <2> SUFFICES ASSUME NEW x, Known => LabelsAgree(x) PROVE LabelsAgree(x)'
    OBVIOUS
  <2>1. \A d \in calls' : LastDrop(d)' => x.labels \ {d.arg.id} = task'.labels
    <3> SUFFICES ASSUME NEW d \in calls', LastDrop(d)'
                 PROVE x.labels \ {d.arg.id} = task'.labels
      OBVIOUS
    <3>1. newest = edits /\ task'.labels = task.labels \ {d.arg.id}
      BY <1>1
    <3>2. x.labels = task.labels
      BY <3>1 DEF Known, LabelsAgree
    <3> QED BY <3>1, <3>2
  <2> QED BY <1>0, <2>1 DEF LabelsAgree
<1>5. PanelShape'
  <2>1. \A p \in calls' : p.kind = "add" => p.arg.id \in Items
    BY DEF PanelInv, PanelShape
  <2> QED BY <1>0, <2>1 DEF PanelInv, PanelShape
<1>6. CopiesHold' /\ DraftTyped'
  BY DEF PanelInv, CopiesHold, CopiesFit, DraftTyped
<1>7. ListsAsked'
  BY DEF PanelInv, ListsAsked
<1>8. AnswersHold'
  <2> SUFFICES ASSUME NEW p \in calls' PROVE AnswerFits(p)'
    BY DEF AnswersHold
  <2>1. CASE p \in calls
    <3> SUFFICES ASSUME p.phase = "ok" PROVE AnswerFits(p)'
      BY DEF AnswerFits
    <3>1. /\ p.ver \in Nat /\ p.ver <= edits /\ (p.kind = "detail" => p.dto.lists.loaded)
          /\ p.kind # "drop" /\ (p.ver = edits \/ (p.ver = newest /\ Known)) =>
              ListsAgree(p.dto) /\ FieldsAgree(p.dto) /\ p.dto.prio = task.prio
          /\ p.kind # "drop" /\ p.ver = newest => LabelsAgree(p.dto)
      BY <2>1 DEF PanelInv, PanelShape, PanelCalls, AnswersHold, AnswerFits
    <3>2. p.ver <= edits' /\ p.ver # edits'
      BY <1>0, <3>1
    <3>3. p.kind # "drop" /\ p.ver = newest' /\ Known' =>
            ListsAgree(p.dto)' /\ FieldsAgree(p.dto)' /\ p.dto.prio = task'.prio
      BY <1>2, <1>3, <3>1
    <3>4. p.kind # "drop" /\ p.ver = newest' => LabelsAgree(p.dto)'
      BY <1>4, <3>1
    <3> QED BY <3>1, <3>2, <3>3, <3>4 DEF AnswerFits
  <2>2. CASE p \notin calls
    <3>1. p.phase = "ok" => p.ver = edits' /\ (p.kind # "drop" => p.dto = Detail(task'))
      BY <2>2
    <3>2. /\ ListsAgree(Detail(task))' /\ FieldsAgree(Detail(task))'
          /\ Detail(task').prio = task'.prio /\ Detail(task').labels = task'.labels
          /\ Detail(task').lists.loaded
      BY DetailIs, <1>5 DEF ListsAgree, FieldsAgree, PanelShape
    <3>3. p.phase = "ok" /\ p.kind # "drop" =>
            ListsAgree(p.dto)' /\ FieldsAgree(p.dto)' /\ p.dto.prio = task'.prio
            /\ p.dto.labels = task'.labels /\ p.dto.lists.loaded
      BY <3>1, <3>2 DEF ListsAgree, FieldsAgree
    <3> QED BY <1>0, <3>1, <3>3 DEF AnswerFits
  <2> QED BY <2>1, <2>2
<1>9. RollbacksHold'
  <2>1. \A q \in calls \cup toasts : RollbackFits(q)
    BY DEF PanelInv, RollbacksHold
  <2>2. ASSUME NEW q \in calls \cup toasts, NEW p, p.kind = q.kind, p.prev = q.prev, p.base = q.base
        PROVE  RollbackFits(p)'
    BY <1>2, <1>3, <1>4, <2>1, <2>2 DEF RollbackFits
  <2> QED BY <2>2 DEF RollbacksHold
<1>10. CardHolds'
  <2> SUFFICES ASSUME Known', ~raced PROVE
        /\ Out({"tick"})' \/ ListsAgree(card)'
        /\ Out({"save"})' \/ FieldsAgree(card)'
        /\ Out({"save"})' =>
              FieldsAgree(card)' \/ draft = [title |-> card.title, text |-> card.text]
        /\ card.prio = task'.prio /\ LabelsAgree(card)'
    BY DEF CardHolds, ListsAgree, FieldsAgree, LabelsAgree
  <2>1. /\ Out({"tick"}) \/ ListsAgree(card)
        /\ Out({"save"}) \/ FieldsAgree(card)
        /\ Out({"save"}) =>
              FieldsAgree(card) \/ draft = [title |-> card.title, text |-> card.text]
        /\ card.prio = task.prio /\ LabelsAgree(card)
    BY <1>2 DEF PanelInv, CardHolds
  <2>2. (ListsAgree(card) => ListsAgree(card)') /\ (FieldsAgree(card) => FieldsAgree(card)')
    BY <1>2 DEF ListsAgree, FieldsAgree
  <2>3. LabelsAgree(card)'
    <3>1. \A d \in calls' : LastDrop(d)' => card.labels \ {d.arg.id} = task'.labels
      BY <1>1, <2>1 DEF LabelsAgree
    <3> QED BY <1>0, <3>1 DEF LabelsAgree
  <2> QED BY <1>2, <2>1, <2>2, <2>3
<1> QED BY <1>5, <1>6, <1>7, <1>8, <1>9, <1>10 DEF PanelInv

(* One commit: the same row again, or a new version of it.                 *)
LEMMA CommitIs ==
    ASSUME PanelInv, NEW k \in WriteKinds, NEW a \in PanelArgs, k = "add" => a.id \in Items,
           Written(k, a).ok, Commit(k, a)
    PROVE  /\ task' \in TaskRows /\ task'.done \subseteq task'.items
           /\ task'.labels \subseteq palette' /\ palette' \subseteq Labels
           /\ Detail(task') \in Cards /\ ListsCounted(Detail(task')) /\ edits' \in Nat
           /\ k = "drop" => /\ task'.items = task.items /\ task'.done = task.done
                            /\ task'.title = task.title /\ task'.text = task.text
                            /\ task'.prio = task.prio /\ task'.labels = task.labels \ {a.id}
           /\ echo' \in BOOLEAN /\ (echo => echo')
           /\ \/ /\ k \in {"save", "field"}
                 /\ UNCHANGED <<task, palette, edits, echo>>
              \/ edits' = edits + 1 /\ (echo' \/ k = "drop")
<1>0. PanelShape
  BY DEF PanelInv
<1>1. task' = Written(k, a).row /\ palette' = IF k = "drop" THEN palette \ {a.id} ELSE palette
  BY DEF Commit
<1>2. /\ task' \in TaskRows /\ task'.done \subseteq task'.items
      /\ task'.labels \subseteq palette' /\ palette' \subseteq Labels
      /\ k = "drop" => /\ task'.items = task.items /\ task'.done = task.done
                       /\ task'.title = task.title /\ task'.text = task.text
                       /\ task'.prio = task.prio /\ task'.labels = task.labels \ {a.id}
  BY <1>0, <1>1, WrittenIs DEF PanelShape
<1>3. Detail(task') \in Cards /\ ListsCounted(Detail(task'))
  BY <1>2, DetailIs
<1>4. PICK quiet \in BOOLEAN :
        /\ quiet <=> (k \in {"save", "field"} /\ task' = task)
        /\ edits' = IF quiet THEN edits ELSE edits + 1
        /\ echo' = (echo \/ ~(quiet \/ k = "drop"))
  <2>1. PICK quiet \in BOOLEAN : quiet = (k \in {"save", "field"} /\ Written(k, a).row = task)
    OBVIOUS
  <2>2. /\ edits' = IF quiet THEN edits ELSE edits + 1
        /\ echo' = (echo \/ ~(quiet \/ k = "drop"))
    BY <2>1, Zenon DEF Commit
  <2> QED BY <1>1, <2>1, <2>2
<1>5. CASE quiet
  BY <1>0, <1>1, <1>2, <1>3, <1>4, <1>5 DEF PanelShape
<1>6. CASE ~quiet
  <2>1. echo' \/ k = "drop"
    BY <1>4, <1>6, Zenon
  <2>2. echo' \in BOOLEAN /\ (echo => echo')
    BY <1>4, Zenon
  <2>3. edits' = edits + 1 /\ edits' \in Nat
    BY <1>0, <1>4, <1>6 DEF PanelShape
  <2> QED BY <1>2, <1>3, <2>1, <2>2, <2>3
<1> QED BY <1>5, <1>6

(* The server handles a write; its answer may be lost.                     *)
LEMMA WriteKeeps == ASSUME PanelInv, NEW c \in calls, ServeWrite(c) PROVE PanelInv'
<1>1. /\ c \in PanelCalls /\ c.phase = "sent" /\ c.kind \in WriteKinds /\ c.arg \in PanelArgs
      /\ c.kind = "add" => c.arg.id \in Items
      /\ CopiesFit(c) /\ RollbackFits(c) /\ Written(c.kind, c.arg).ok /\ Commit(c.kind, c.arg)
  BY DEF ServeWrite, PanelInv, PanelShape, PanelCalls, CopiesHold, RollbacksHold
<1>2. /\ task' \in TaskRows /\ task'.done \subseteq task'.items
      /\ task'.labels \subseteq palette' /\ palette' \subseteq Labels
      /\ Detail(task') \in Cards /\ ListsCounted(Detail(task')) /\ edits' \in Nat
      /\ c.kind = "drop" => /\ task'.items = task.items /\ task'.done = task.done
                       /\ task'.title = task.title /\ task'.text = task.text
                       /\ task'.prio = task.prio /\ task'.labels = task.labels \ {c.arg.id}
      /\ echo' \in BOOLEAN /\ (echo => echo')
      /\ \/ /\ c.kind \in {"save", "field"}
            /\ UNCHANGED <<task, palette, edits, echo>>
         \/ edits' = edits + 1 /\ (echo' \/ c.kind = "drop")
  BY <1>1, CommitIs
<1>3. PICK p \in PanelCalls :
        /\ Phase(c, p) /\ p.kind = c.kind /\ p.arg = c.arg /\ p.prev = c.prev /\ p.base = c.base
        /\ p.typed = c.typed
        /\ \/ p.phase = "ok" /\ p.dto = Detail(task') /\ p.ver = edits'
           \/ p.phase = "failed" /\ p.kind # "drop" /\ p.dto = c.dto
  <2>1. CASE Phase(c, [c EXCEPT !.phase = "ok", !.dto = Detail(task'), !.ver = edits'])
    <3>1. PICK x \in Cards, v \in Nat : x = Detail(task') /\ v = edits'
      BY <1>2
    <3>2. Phase(c, [c EXCEPT !.phase = "ok", !.dto = x, !.ver = v])
      BY <2>1, <3>1
    <3>3. PICK p : p = [c EXCEPT !.phase = "ok", !.dto = x, !.ver = v]
      OBVIOUS
    <3>4. /\ p \in PanelCalls /\ p.phase = "ok" /\ p.dto = x /\ p.ver = v
          /\ p.kind = c.kind /\ p.arg = c.arg /\ p.prev = c.prev
          /\ p.base = c.base /\ p.typed = c.typed
      BY <1>1, <3>3 DEF PanelCalls
    <3> QED BY <3>1, <3>2, <3>3, <3>4
  <2>2. CASE c.kind # "drop" /\ Phase(c, [c EXCEPT !.phase = "failed"])
    BY <1>1, <2>2 DEF PanelCalls
  <2> QED BY <2>1, <2>2 DEF ServeWrite
<1>4. UNCHANGED <<card, toasts, failedRead, draft, typed, newest, raced>>
  BY DEF ServeWrite
<1>5. /\ \A k \in {"tick", "save", "detail"} : Out({k}) <=> Out({k})'
      /\ \A d \in calls' : d \in calls \/ d = p
      /\ \A d \in calls : d \in calls' \/ d = c
      /\ p \in calls'
  BY <1>3, PhaseIs
<1>6. ListsCounted(p.dto)
  BY <1>1, <1>2, <1>3 DEF CopiesFit
<1>7. CopiesFit(p)
  BY <1>1, <1>3, <1>6 DEF CopiesFit
<1>8. calls' \subseteq PanelCalls
  BY <1>3, <1>5 DEF PanelInv, PanelShape
<1>9. CASE c.kind \in {"save", "field"} /\ UNCHANGED <<task, palette, edits, echo>>
  <2>1. RollbackFits(p)
    BY <1>1, <1>3 DEF RollbackFits
  <2>2. AnswerFits(p)
    <3>1. /\ ListsAgree(Detail(task)) /\ FieldsAgree(Detail(task))
          /\ Detail(task).prio = task.prio /\ Detail(task).labels = task.labels
      BY DetailIs DEF PanelInv, PanelShape, ListsAgree, FieldsAgree
    <3>2. newest = edits => LabelsAgree(Detail(task))
      BY <3>1 DEF LabelsAgree, LastDrop, PanelInv, PanelShape
    <3>3. edits \in Nat
      BY DEF PanelInv, PanelShape
    <3> QED BY <1>3, <1>9, <3>1, <3>2, <3>3 DEF AnswerFits
  <2>3. NewsComes'
    BY <1>1, <1>3, <1>4, <1>5, <1>9 DEF PanelInv, NewsComes
  <2> QED BY <1>2, <1>3, <1>4, <1>5, <1>7, <1>8, <1>9, <2>1, <2>2, <2>3, CallsChange
<1>10. CASE edits' = edits + 1 /\ (echo' \/ c.kind = "drop")
  <2>1. NewsComes'
    BY <1>3, <1>5, <1>10 DEF NewsComes
  <2>2. \A q \in calls' : q \in calls \/
          /\ q.kind = c.kind /\ q.arg = c.arg /\ q.prev = c.prev /\ q.base = c.base
          /\ q.typed = c.typed /\ ListsCounted(q.dto)
          /\ q.phase = "ok" => q.ver = edits' /\ (q.kind # "drop" => q.dto = Detail(task'))
          /\ q.kind = "drop" /\ q.phase = "ok" =>
                /\ task'.items = task.items /\ task'.done = task.done
                /\ task'.title = task.title /\ task'.text = task.text
                /\ task'.prio = task.prio /\ task'.labels = task.labels \ {q.arg.id}
    BY <1>2, <1>3, <1>5, <1>6
  <2> QED BY <1>2, <1>4, <1>5, <1>8, <1>10, <2>1, <2>2, NewVersion
<1> QED BY <1>2, <1>9, <1>10

(* Another tab writes.                                                     *)
LEMMA OthersWriteKeeps ==
    ASSUME PanelInv, NEW k \in {"tick", "save"}, NEW a \in PanelArgs, RemoteWrite(k, a)
    PROVE  PanelInv'
<1>1. /\ k \in WriteKinds /\ Written(k, a).ok /\ Written(k, a).row # task /\ Commit(k, a)
      /\ UNCHANGED <<card, calls, toasts, failedRead, draft, typed, newest, raced>>
  BY DEF RemoteWrite, WriteKinds, ListWrites
<1>2. /\ task' \in TaskRows /\ task'.done \subseteq task'.items
      /\ task'.labels \subseteq palette' /\ palette' \subseteq Labels
      /\ echo' \in BOOLEAN
      /\ task' = task \/ (edits' = edits + 1 /\ (echo' \/ k = "drop"))
  BY <1>1, CommitIs
<1>3. edits' = edits + 1 /\ echo'
  BY <1>1, <1>2 DEF Commit
<1>4. NewsComes'
  BY <1>3 DEF NewsComes
<1>5. \A j \in {"tick", "save", "detail"} : Out({j}) <=> Out({j})'
  BY <1>1 DEF Out
<1> QED BY <1>1, <1>2, <1>3, <1>4, <1>5, NewVersion DEF PanelInv, PanelShape

(* A read of the detail has just gone out, whatever is shown now.          *)
LEMMA NewReadFits ==
    ASSUME newest' \in Nat
    PROVE  AnswerFits(Read("detail"))' /\ RollbackFits(Read("detail"))'
<1>1. Read("detail").phase = "sent" /\ Read("detail").kind = "detail" /\ Read("detail").base = 0
  BY ReadIs
<1> QED BY <1>1 DEF AnswerFits, RollbackFits

(* What an answer shows.                                                   *)
LEMMA PatchedIs ==
    ASSUME PanelInv, NEW c \in calls, c.phase = "ok"
    PROVE  /\ Patched(c) \in Cards /\ ListsCounted(Patched(c))
           /\ c.kind = "detail" => Patched(c).lists.loaded
           /\ c.kind # "drop" => Patched(c) = c.dto
           /\ c.kind = "drop" =>
                 /\ Patched(c).lists = c.prev.lists /\ Patched(c).sum = c.prev.sum
                 /\ Patched(c).title = c.prev.title /\ Patched(c).text = c.prev.text
                 /\ Patched(c).prio = c.prev.prio
                 /\ Patched(c).labels = c.prev.labels \ {c.arg.id}
<1>1. /\ c.prev \in Cards /\ c.dto \in Cards /\ ListsCounted(c.prev) /\ ListsCounted(c.dto)
      /\ c.kind = "detail" => c.dto.lists.loaded
  BY DEF PanelInv, PanelShape, PanelCalls, CopiesHold, CopiesFit, AnswersHold, AnswerFits
<1>2. CASE c.kind = "drop"
  <2>1. Patched(c) = [c.prev EXCEPT !.labels = @ \ {c.arg.id}]
    BY <1>2 DEF Patched
  <2>2. /\ Patched(c) \in Cards
        /\ Patched(c).lists = c.prev.lists /\ Patched(c).sum = c.prev.sum
        /\ Patched(c).title = c.prev.title /\ Patched(c).text = c.prev.text
        /\ Patched(c).prio = c.prev.prio
        /\ Patched(c).labels = c.prev.labels \ {c.arg.id}
    BY <1>1, <2>1 DEF Cards
  <2> QED BY <1>1, <1>2, <2>2 DEF ListsCounted
<1>3. CASE c.kind # "drop"
  BY <1>1, <1>3 DEF Patched
<1> QED BY <1>2, <1>3

(* An answer comes back.                                                   *)
LEMMA AnswerKeepsPanel == ASSUME PanelInv, NEW c \in calls, Answered(c) PROVE PanelInv'
<1> DEFINE shown == Patched(c)
           out == calls \ {c}
<1>0. /\ PanelShape /\ DraftTyped /\ newest \in Nat /\ edits \in Nat /\ newest <= edits
      /\ c \in PanelCalls /\ c.phase = "ok" /\ c.ver \in Nat /\ c.ver <= edits /\ c.base \in Int
      /\ out \in SUBSET PanelCalls
  BY DEF Answered, PanelInv, PanelShape, PanelCalls, AnswersHold, AnswerFits
<1>1. /\ shown \in Cards /\ ListsCounted(shown)
      /\ c.kind = "detail" => shown.lists.loaded
      /\ c.kind # "drop" => shown = c.dto
      /\ c.kind = "drop" =>
            /\ shown.lists = c.prev.lists /\ shown.sum = c.prev.sum
            /\ shown.title = c.prev.title /\ shown.text = c.prev.text
            /\ shown.prio = c.prev.prio
            /\ shown.labels = c.prev.labels \ {c.arg.id}
  BY <1>0, PatchedIs
<1>2. /\ Show(shown, out)
      /\ newest' = (IF c.ver > newest THEN c.ver ELSE newest)
      /\ UNCHANGED <<task, palette, edits, toasts, echo>>
  BY DEF Answered
<1>3. /\ raced' = (c.ver < newest \/ (c.kind = "drop" /\ (raced \/ PutsBackOlder(c))))
      /\ failedRead' = (failedRead /\ c.kind # "detail")
  BY DEF Answered
<1> HIDE DEF shown
<1>b. /\ card' = shown /\ calls' \subseteq PanelCalls
      /\ calls' \subseteq out \cup {Read("detail")}
      /\ \A d \in out : d.kind # "detail" => d \in calls'
      /\ draft' \in [title : Texts, text : Texts] /\ typed' \subseteq {"title", "text"}
      /\ DraftTyped'
      /\ \/ draft' = [title |-> shown.title, text |-> shown.text]
         \/ shown.title = card.title /\ shown.text = card.text /\ draft' = draft
      /\ (card.lists.loaded \/ \E d \in out : d.kind = "detail")
           => shown.lists.loaded \/ Out({"detail"})'
  BY <1>0, <1>1, <1>2, ShowIs
<1>r. /\ Read("detail") \in PanelCalls /\ Read("detail").kind = "detail"
      /\ Read("detail").phase = "sent" /\ CopiesFit(Read("detail"))
  BY ReadIs
<1>c. \A d \in calls' : d.kind = "drop" /\ d.phase = "ok" => d \in calls
  BY <1>b, <1>r
<1>n. newest' \in Nat /\ newest' <= edits /\ newest <= newest' /\ c.ver <= newest'
  BY <1>0, <1>2
<1>4. PanelShape'
  <2>1. raced' \in BOOLEAN /\ failedRead' \in BOOLEAN
    BY <1>3, Zenon
  <2>2. newest' \in 0 .. edits'
    BY <1>0, <1>2, <1>n
  <2>3. \A d \in calls' : d.kind = "add" => d.arg.id \in Items
    BY <1>0, <1>b, <1>r DEF PanelShape
  <2> QED BY <1>0, <1>1, <1>2, <1>b, <2>1, <2>2, <2>3 DEF PanelShape
<1>5. CopiesHold'
  BY <1>1, <1>2, <1>b, <1>r DEF PanelInv, CopiesHold
<1>6. ListsAsked'
  <2>1. CASE c.kind = "detail"
    BY <1>1, <1>b, <2>1 DEF ListsAsked
  <2>2. CASE c.kind # "detail"
    <3>1. failedRead' <=> failedRead
      BY <1>3, <2>2, Zenon
    <3>2. Out({"detail"}) => \E d \in out : d.kind = "detail"
      BY <2>2 DEF Out
    <3> QED BY <1>b, <3>1, <3>2 DEF PanelInv, ListsAsked
  <2> QED BY <2>1, <2>2
<1>7. newest' = newest \/ newest < newest'
  BY <1>0, <1>2, <1>n
<1>s. newest' = newest =>
        /\ Known' => Known
        /\ \A x : LabelsAgree(x) => LabelsAgree(x)'
        /\ \A d : AnswerFits(d) => AnswerFits(d)'
        /\ \A d : RollbackFits(d) => RollbackFits(d)'
  BY <1>2, <1>c, SameVersion
<1>g. newest < newest' =>
        /\ \A d \in calls' : ~LastDrop(d)'
        /\ Known' => newest' = edits
        /\ \A d : AnswerFits(d) => AnswerFits(d)'
        /\ \A d \in calls \cup toasts : RollbackFits(d)'
  BY <1>2, <1>4, <1>c, NewerVersion DEF PanelInv
<1>8. AnswersHold' /\ RollbacksHold'
  <2>1. AnswerFits(Read("detail"))' /\ RollbackFits(Read("detail"))'
    BY <1>n, NewReadFits
  <2>2. \A d \in calls : AnswerFits(d)'
    BY <1>7, <1>s, <1>g DEF PanelInv, AnswersHold
  <2>3. \A d \in calls \cup toasts : RollbackFits(d)'
    BY <1>7, <1>s, <1>g DEF PanelInv, RollbacksHold
  <2> QED BY <1>2, <1>b, <2>1, <2>2, <2>3 DEF AnswersHold, RollbacksHold
<1>9. CardHolds'
  <2> SUFFICES ASSUME Known', ~raced' PROVE
        /\ Out({"tick"})' \/ ListsAgree(shown)'
        /\ Out({"save"})' \/ FieldsAgree(shown)'
        /\ Out({"save"})' =>
              FieldsAgree(shown)' \/ draft' = [title |-> shown.title, text |-> shown.text]
        /\ shown.prio = task.prio /\ LabelsAgree(shown)'
    BY <1>2, <1>b DEF CardHolds, ListsAgree, FieldsAgree, LabelsAgree
  <2>1. ~(c.ver < newest) /\ (c.kind = "drop" => ~raced /\ ~PutsBackOlder(c))
    BY <1>3, Zenon
  <2>2. CASE c.kind # "drop"
    <3>1. /\ c.ver = edits \/ (c.ver = newest /\ Known) =>
              ListsAgree(c.dto) /\ FieldsAgree(c.dto) /\ c.dto.prio = task.prio
          /\ c.ver = edits => c.dto.labels = task.labels
          /\ c.ver = newest => LabelsAgree(c.dto)
      BY <1>0, <2>2 DEF PanelInv, AnswersHold, AnswerFits
    <3>2. CASE newest' = newest
      <4>1. c.ver = newest /\ Known
        BY <1>0, <1>n, <1>s, <2>1, <3>2
      <4>2. ListsAgree(c.dto) /\ FieldsAgree(c.dto) /\ c.dto.prio = task.prio /\ LabelsAgree(c.dto)'
        BY <1>s, <3>1, <3>2, <4>1
      <4>3. ListsAgree(shown)' /\ FieldsAgree(shown)' /\ LabelsAgree(shown)'
        BY <1>1, <1>2, <1>b, <2>2, <4>2 DEF ListsAgree, FieldsAgree, LabelsAgree
      <4> QED BY <1>1, <2>2, <4>2, <4>3
    <3>3. CASE newest < newest'
      <4>1. c.ver = edits /\ newest' = edits /\ \A d \in calls' : ~LastDrop(d)'
        BY <1>0, <1>2, <1>g, <3>3
      <4>2. ListsAgree(c.dto) /\ FieldsAgree(c.dto) /\ c.dto.prio = task.prio
            /\ c.dto.labels = task.labels
        BY <3>1, <4>1
      <4>3. ListsAgree(shown)' /\ FieldsAgree(shown)' /\ LabelsAgree(shown)'
        BY <1>1, <1>2, <2>2, <4>1, <4>2 DEF ListsAgree, FieldsAgree, LabelsAgree
      <4> QED BY <1>1, <2>2, <4>2, <4>3
    <3> QED BY <1>7, <3>2, <3>3
  <2>3. CASE c.kind = "drop"
    <3>1. ~raced /\ c.base = newest /\ c.ver = newest + 1 /\ [card EXCEPT !.labels = c.prev.labels] = c.prev
      BY <2>1, <2>3 DEF PutsBackOlder
    <3>2. newest < newest' /\ newest' = c.ver
      BY <1>0, <1>2, <3>1
    <3>3. newest' = edits /\ c.ver = edits /\ \A d \in calls' : ~LastDrop(d)'
      BY <1>g, <3>2
    <3>4. LastDrop(c) /\ Known
      BY <1>0, <2>3, <3>1, <3>3 DEF LastDrop, Known
    <3>5. /\ shown.lists = card.lists /\ shown.sum = card.sum /\ shown.title = card.title
          /\ shown.text = card.text /\ shown.prio = card.prio
      <4>1. card \in Cards
        BY <1>0 DEF PanelShape
      <4> QED BY <1>1, <2>3, <3>1, <4>1 DEF Cards
    <3>6. /\ Out({"tick"}) \/ ListsAgree(card)
          /\ Out({"save"}) \/ FieldsAgree(card)
          /\ Out({"save"}) =>
                FieldsAgree(card) \/ draft = [title |-> card.title, text |-> card.text]
          /\ card.prio = task.prio
      BY <3>1, <3>4 DEF PanelInv, CardHolds
    <3>7. \A k \in {"tick", "save"} : Out({k}) <=> Out({k})'
      BY <1>b, <1>r, <2>3 DEF Out
    <3>8. c.prev.labels \ {c.arg.id} = task.labels
      <4>1. LabelsAgree(c.prev)
        BY <2>3, <3>1, <3>4 DEF PanelInv, RollbacksHold, RollbackFits
      <4> QED BY <3>4, <4>1 DEF LabelsAgree
    <3>9. LabelsAgree(shown)'
      BY <1>1, <1>2, <2>3, <3>3, <3>8 DEF LabelsAgree
    <3>10. (ListsAgree(card) => ListsAgree(shown)') /\ (FieldsAgree(card) <=> FieldsAgree(shown)')
      BY <1>2, <3>5 DEF ListsAgree, FieldsAgree
    <3> QED BY <1>b, <3>5, <3>6, <3>7, <3>9, <3>10
  <2> QED BY <2>2, <2>3
<1>10. NewsComes'
  <2> SUFFICES ASSUME newest' < edits PROVE
        \/ echo
        \/ \E d \in calls' : d.kind = "upsert" /\ (d.phase = "ok" => d.ver = edits)
        \/ \E d \in calls' : d.kind = "drop" /\ d.phase = "ok" /\ d.ver = edits
    BY <1>2 DEF NewsComes
  <2>1. newest < edits /\ c.ver # edits
    BY <1>0, <1>n
  <2>2. \/ echo
        \/ \E d \in calls : d.kind = "upsert" /\ (d.phase = "ok" => d.ver = edits)
        \/ \E d \in calls : d.kind = "drop" /\ d.phase = "ok" /\ d.ver = edits
    BY <2>1 DEF PanelInv, NewsComes
  <2> QED BY <1>0, <1>b, <2>1, <2>2
<1> QED BY <1>4, <1>5, <1>b, <1>6, <1>8, <1>9, <1>10 DEF PanelInv

(* What a failure shows again.                                             *)
LEMMA RolledBackIs ==
    ASSUME PanelInv, NEW c \in calls
    PROVE  /\ RolledBack(c) \in Cards /\ ListsCounted(RolledBack(c))
           /\ RolledBack(c).labels = card.labels
           /\ card.lists.loaded \/ failedRead \/ Out({"detail"})
           /\ IF c.kind = "tick"
              THEN RolledBack(c).lists = c.prev.lists /\ RolledBack(c).sum = c.prev.sum
              ELSE RolledBack(c).lists = card.lists /\ RolledBack(c).sum = card.sum
           /\ IF c.kind = "save"
              THEN RolledBack(c).title = c.prev.title /\ RolledBack(c).text = c.prev.text
              ELSE RolledBack(c).title = card.title /\ RolledBack(c).text = card.text
           /\ IF c.kind = "field" THEN RolledBack(c).prio = c.prev.prio
                                  ELSE RolledBack(c).prio = card.prio
<1>1. /\ c.prev \in Cards /\ card \in Cards /\ ListsCounted(c.prev) /\ ListsCounted(card)
      /\ card.lists.loaded \/ failedRead \/ Out({"detail"})
  BY DEF PanelInv, PanelShape, PanelCalls, CopiesHold, CopiesFit, ListsAsked
<1>2. CASE c.kind = "tick"
  <2>1. RolledBack(c) = [card EXCEPT !.lists = c.prev.lists, !.sum = c.prev.sum]
    BY <1>2 DEF RolledBack
  <2> QED BY <1>1, <1>2, <2>1 DEF Cards, ListsCounted
<1>3. CASE c.kind = "save"
  <2>1. RolledBack(c) = [card EXCEPT !.title = c.prev.title, !.text = c.prev.text]
    BY <1>3 DEF RolledBack
  <2> QED BY <1>1, <1>3, <2>1 DEF Cards, ListsCounted
<1>4. CASE c.kind = "field"
  <2>1. RolledBack(c) = [card EXCEPT !.prio = c.prev.prio]
    BY <1>4 DEF RolledBack
  <2> QED BY <1>1, <1>4, <2>1 DEF Cards, ListsCounted
<1>5. CASE c.kind \notin {"tick", "save", "field"}
  <2>1. RolledBack(c) = card
    BY <1>5 DEF RolledBack
  <2> QED BY <1>1, <1>5, <2>1
<1> QED BY <1>2, <1>3, <1>4, <1>5

(* A call fails: what it had shown is taken back.                          *)
LEMMA FailureKeeps == ASSUME PanelInv, NEW c \in calls, Failed(c) PROVE PanelInv'
<1> DEFINE out == calls \ {c}
<1>0. /\ PanelShape /\ DraftTyped /\ newest \in Nat /\ edits \in Nat /\ newest <= edits
      /\ c \in PanelCalls /\ c.phase = "failed" /\ c.base \in Int /\ c.base <= newest
      /\ out \in SUBSET PanelCalls
  BY DEF Failed, PanelInv, PanelShape, PanelCalls, RollbacksHold, RollbackFits
<1>1. PICK shown \in Cards :
      /\ shown = RolledBack(c) /\ ListsCounted(shown)
      /\ shown.labels = card.labels
      /\ IF c.kind = "tick"
         THEN shown.lists = c.prev.lists /\ shown.sum = c.prev.sum
         ELSE shown.lists = card.lists /\ shown.sum = card.sum
      /\ IF c.kind = "save"
         THEN shown.title = c.prev.title /\ shown.text = c.prev.text
         ELSE shown.title = card.title /\ shown.text = card.text
      /\ IF c.kind = "field" THEN shown.prio = c.prev.prio ELSE shown.prio = card.prio
  BY RolledBackIs
<1>2. /\ Show(shown, out)
      /\ newest' = (IF c.kind = "upsert" THEN edits ELSE newest)
      /\ toasts' = (IF c.kind = "save" THEN toasts \cup {c} ELSE toasts)
      /\ UNCHANGED <<task, palette, edits, echo>>
  BY <1>1 DEF Failed
<1>3. /\ raced' = (raced \/ c.kind = "upsert"
                     \/ (c.kind \in {"tick", "save", "field"} /\ c.base < newest))
      /\ failedRead' = (failedRead \/ c.kind = "detail")
  BY DEF Failed
<1>b. /\ card' = shown /\ calls' \subseteq PanelCalls
      /\ calls' \subseteq out \cup {Read("detail")}
      /\ \A d \in out : d.kind # "detail" => d \in calls'
      /\ draft' \in [title : Texts, text : Texts] /\ typed' \subseteq {"title", "text"}
      /\ DraftTyped'
      /\ \/ draft' = [title |-> shown.title, text |-> shown.text]
         \/ shown.title = card.title /\ shown.text = card.text /\ draft' = draft
      /\ (card.lists.loaded \/ \E d \in out : d.kind = "detail")
           => shown.lists.loaded \/ Out({"detail"})'
  BY <1>0, <1>1, <1>2, ShowIs
<1>r. /\ Read("detail") \in PanelCalls /\ Read("detail").kind = "detail"
      /\ Read("detail").phase = "sent" /\ CopiesFit(Read("detail"))
  BY ReadIs
<1>c. \A d \in calls' : d.kind = "drop" /\ d.phase = "ok" => d \in calls
  BY <1>b, <1>r
<1>n. newest' \in Nat /\ newest' <= edits /\ newest <= newest'
  BY <1>0, <1>2
<1>4. PanelShape'
  <2>1. raced' \in BOOLEAN /\ failedRead' \in BOOLEAN
    BY <1>3, Zenon
  <2>2. newest' \in 0 .. edits'
    BY <1>0, <1>2, <1>n
  <2>3. \A d \in calls' : d.kind = "add" => d.arg.id \in Items
    BY <1>0, <1>b, <1>r DEF PanelShape
  <2>4. toasts' \subseteq {d \in PanelCalls : d.kind = "save"}
    BY <1>0, <1>2 DEF PanelShape
  <2> QED BY <1>0, <1>1, <1>2, <1>b, <2>1, <2>2, <2>3, <2>4 DEF PanelShape
<1>t. \A d \in calls' \cup toasts' : d \in calls \cup toasts \/ d = Read("detail")
  BY <1>2, <1>b
<1>5. CopiesHold'
  BY <1>1, <1>b, <1>r, <1>t DEF PanelInv, CopiesHold
<1>6. ListsAsked'
  <2>1. CASE c.kind = "detail"
    <3>1. failedRead'
      BY <1>3, <2>1, Zenon
    <3> QED BY <3>1 DEF ListsAsked
  <2>2. CASE c.kind # "detail"
    <3>1. failedRead' <=> failedRead
      BY <1>3, <2>2, Zenon
    <3>2. Out({"detail"}) => \E d \in out : d.kind = "detail"
      BY <2>2 DEF Out
    <3> QED BY <1>b, <3>1, <3>2 DEF PanelInv, ListsAsked
  <2> QED BY <2>1, <2>2
<1>7. newest' = newest \/ newest < newest'
  BY <1>0, <1>2, <1>n
<1>s. newest' = newest =>
        /\ Known' => Known
        /\ \A x : LabelsAgree(x) => LabelsAgree(x)'
        /\ \A x : (ListsAgree(x) <=> ListsAgree(x)') /\ (FieldsAgree(x) <=> FieldsAgree(x)')
        /\ \A d : AnswerFits(d) => AnswerFits(d)'
        /\ \A d : RollbackFits(d) => RollbackFits(d)'
  BY <1>2, <1>c, SameVersion
<1>g. newest < newest' =>
        /\ \A d : AnswerFits(d) => AnswerFits(d)'
        /\ \A d \in calls \cup toasts : RollbackFits(d)'
  BY <1>2, <1>4, <1>c, NewerVersion DEF PanelInv
<1>8. AnswersHold' /\ RollbacksHold'
  <2>1. AnswerFits(Read("detail"))' /\ RollbackFits(Read("detail"))'
    BY <1>n, NewReadFits
  <2>2. \A d \in calls : AnswerFits(d)'
    BY <1>7, <1>s, <1>g DEF PanelInv, AnswersHold
  <2>3. \A d \in calls \cup toasts : RollbackFits(d)'
    BY <1>7, <1>s, <1>g DEF PanelInv, RollbacksHold
  <2> QED BY <1>b, <1>t, <2>1, <2>2, <2>3 DEF AnswersHold, RollbacksHold
<1>9. CardHolds'
  <2> SUFFICES ASSUME Known', ~raced' PROVE
        /\ Out({"tick"})' \/ ListsAgree(shown)'
        /\ Out({"save"})' \/ FieldsAgree(shown)'
        /\ Out({"save"})' =>
              FieldsAgree(shown)' \/ draft' = [title |-> shown.title, text |-> shown.text]
        /\ shown.prio = task.prio /\ LabelsAgree(shown)'
    BY <1>2, <1>b DEF CardHolds, ListsAgree, FieldsAgree, LabelsAgree
  <2>1. ~raced /\ c.kind # "upsert" /\ (c.kind \in {"tick", "save", "field"} => ~(c.base < newest))
    BY <1>3, Zenon
  <2>2. newest' = newest /\ Known
    BY <1>2, <1>s, <2>1
  <2>3. c.kind \in {"tick", "save", "field"} => c.base = newest
    BY <1>0, <2>1
  <2>4. /\ c.kind = "tick" => ListsAgree(c.prev)
        /\ c.kind = "save" => FieldsAgree(c.prev)
        /\ c.kind = "field" => c.prev.prio = task.prio
    BY <2>2, <2>3 DEF PanelInv, RollbacksHold, RollbackFits
  <2>5. /\ Out({"tick"}) \/ ListsAgree(card)
        /\ Out({"save"}) \/ FieldsAgree(card)
        /\ Out({"save"}) =>
              FieldsAgree(card) \/ draft = [title |-> card.title, text |-> card.text]
        /\ card.prio = task.prio /\ LabelsAgree(card)
    BY <2>1, <2>2 DEF PanelInv, CardHolds
  <2>6. \A k \in {"tick", "save"} : /\ c.kind # k => (Out({k}) <=> Out({k})')
                                    /\ Out({k})' => Out({k})
    BY <1>b, <1>r DEF Out
  <2>7. Out({"tick"})' \/ ListsAgree(shown)'
    <3>1. Out({"tick"})' \/ ListsAgree(shown)
      BY <1>1, <2>4, <2>5, <2>6 DEF ListsAgree
    <3> QED BY <1>s, <2>2, <3>1
  <2>8. Out({"save"})' \/ FieldsAgree(shown)'
    <3>1. Out({"save"})' \/ FieldsAgree(shown)
      BY <1>1, <2>4, <2>5, <2>6 DEF FieldsAgree
    <3> QED BY <1>s, <2>2, <3>1
  <2>9. Out({"save"})' =>
              FieldsAgree(shown)' \/ draft' = [title |-> shown.title, text |-> shown.text]
    <3>1. Out({"save"})' =>
              FieldsAgree(shown) \/ draft' = [title |-> shown.title, text |-> shown.text]
      BY <1>1, <1>b, <2>4, <2>5, <2>6 DEF FieldsAgree
    <3> QED BY <1>s, <2>2, <3>1
  <2>10. shown.prio = task.prio
    BY <1>1, <2>4, <2>5
  <2>11. LabelsAgree(shown)'
    <3>1. LabelsAgree(shown)
      BY <1>1, <2>5 DEF LabelsAgree
    <3> QED BY <1>s, <2>2, <3>1
  <2> QED BY <2>7, <2>8, <2>9, <2>10, <2>11
<1>10. NewsComes'
  <2> SUFFICES ASSUME newest' < edits PROVE
        \/ echo
        \/ \E d \in calls' : d.kind = "upsert" /\ (d.phase = "ok" => d.ver = edits)
        \/ \E d \in calls' : d.kind = "drop" /\ d.phase = "ok" /\ d.ver = edits
    BY <1>2 DEF NewsComes
  <2>1. newest < edits /\ c.kind # "upsert"
    BY <1>0, <1>2, <1>n
  <2>2. \/ echo
        \/ \E d \in calls : d.kind = "upsert" /\ (d.phase = "ok" => d.ver = edits)
        \/ \E d \in calls : d.kind = "drop" /\ d.phase = "ok" /\ d.ver = edits
    BY <2>1 DEF PanelInv, NewsComes
  <2> QED BY <1>0, <1>b, <2>1, <2>2
<1> QED BY <1>4, <1>5, <1>b, <1>6, <1>8, <1>9, <1>10 DEF PanelInv

(* A panel opens over a card of the board, its read out.                   *)
LEMMA PanelBegins == PanelInit => PanelInv
<1> SUFFICES ASSUME PanelInit PROVE PanelInv
  OBVIOUS
<1>1. PICK t : /\ t \in Texts
               /\ task = [items |-> StartItems, done |-> {}, labels |-> {}, title |-> t,
                          text |-> "", prio |-> ""]
  BY DEF PanelInit, PanelWith
<1>2. /\ palette = Labels /\ edits = 0 /\ card = Row(task)
      /\ newest = 0 /\ draft = [title |-> task.title, text |-> task.text] /\ typed = {}
      /\ calls = {Read("detail")} /\ toasts = {}
  BY DEF PanelInit, PanelWith
<1>v. edits = 0 /\ newest = 0
  BY DEF PanelInit, PanelWith
<1>b. raced \in BOOLEAN /\ failedRead \in BOOLEAN /\ echo \in BOOLEAN /\ section \in SectionSets
  BY DEF PanelInit, PanelWith
<1>3. /\ task \in TaskRows /\ task.done \subseteq task.items
      /\ task.labels \subseteq palette /\ task.title \in Texts /\ task.text \in Texts
  BY <1>1, PanelAssumption DEF TaskRows
<1>4. /\ Read("detail") \in PanelCalls /\ Read("detail").kind = "detail"
      /\ Read("detail").phase = "sent" /\ Read("detail").base = 0 /\ CopiesFit(Read("detail"))
  BY ReadIs
<1>5. /\ Row(task) \in Cards /\ ListsCounted(Row(task)) /\ ListsAgree(Row(task)) /\ FieldsAgree(Row(task))
      /\ Row(task).prio = task.prio /\ Row(task).labels = task.labels
      /\ Row(task).title = task.title /\ Row(task).text = task.text
  BY <1>3, DetailIs DEF ListsAgree, FieldsAgree
<1>6. PanelShape
  <2>1. draft \in [title : Texts, text : Texts] /\ typed \subseteq {"title", "text"}
    BY <1>2, <1>3
  <2>2. edits \in Nat /\ newest \in 0 .. edits
    BY <1>v
  <2>3. /\ calls \subseteq PanelCalls /\ toasts \subseteq {c \in PanelCalls : c.kind = "save"}
        /\ \A c \in calls : c.kind = "add" => c.arg.id \in Items
    BY <1>2, <1>4
  <2>4. card \in Cards /\ palette \subseteq Labels
    BY <1>2, <1>5
  <2> QED BY <1>3, <1>b, <2>1, <2>2, <2>3, <2>4 DEF PanelShape
<1>7. CopiesHold /\ ListsAsked
  BY <1>2, <1>4, <1>5 DEF CopiesHold, ListsAsked, Out
<1>8. DraftTyped
  <2>1. draft["title"] = card["title"] /\ draft["text"] = card["text"]
    BY <1>2, <1>5
  <2> QED BY <2>1 DEF DraftTyped
<1>9. AnswersHold /\ RollbacksHold /\ NewsComes
  <2>1. AnswerFits(Read("detail"))
    BY <1>4 DEF AnswerFits
  <2>2. Read("detail").base <= newest
    BY <1>v, <1>4
  <2>3. RollbackFits(Read("detail"))
    BY <1>4, <2>2 DEF RollbackFits
  <2>4. ~(newest < edits)
    BY <1>v
  <2>5. \A c \in calls \cup toasts : c = Read("detail")
    BY <1>2
  <2> QED BY <2>1, <2>3, <2>4, <2>5 DEF AnswersHold, RollbacksHold, NewsComes
<1>10. CardHolds
  <2>1. ~Out({"save"})
    BY <1>2, <1>4 DEF Out
  <2>2. LabelsAgree(Row(task))
    BY <1>2, <1>4, <1>5 DEF LabelsAgree, LastDrop
  <2> QED BY <1>2, <1>5, <2>1, <2>2 DEF CardHolds
<1> QED BY <1>6, <1>7, <1>8, <1>9, <1>10 DEF PanelInv

(* Every step keeps the invariant.                                         *)
LEMMA PanelKeeps == PanelInv /\ [PanelNext]_panelVars => PanelInv'
<1> SUFFICES ASSUME PanelInv, [PanelNext]_panelVars PROVE PanelInv'
  OBVIOUS
<1>1. CASE UNCHANGED panelVars
  BY <1>1 DEF panelVars, PanelInv, PanelShape, CopiesHold, DraftTyped, ListsAsked, Out, AnswersHold,
     AnswerFits, RollbacksHold, RollbackFits, CardHolds, NewsComes, Known, LastDrop, ListsAgree,
     FieldsAgree, LabelsAgree
<1>2. CASE User
  <2>1. CASE \E i \in Items : toggleItem(i) \/ addItem(i) \/ removeItem(i)
    BY <2>1, ListsKeep
  <2>2. CASE \E f \in {"title", "text"}, v \in Texts : Type(f, v)
    BY <2>2, QuietStepKeeps
  <2>3. CASE save
    BY <2>3, SaveKeeps
  <2>4. CASE \E c \in toasts : RetrySave(c)
    BY <2>4, RetriedSaveKeeps
  <2>5. CASE \/ \E v \in Texts : patchTask(v)
             \/ \E l \in Labels : toggleLabel(l) \/ deleteBoardLabel(l)
    BY <2>5, PropertiesKeep
  <2> QED BY <1>2, <2>1, <2>2, <2>3, <2>4, <2>5 DEF User
<1>3. CASE Others
  <2>1. ASSUME NEW i \in Items, NEW on \in BOOLEAN,
               RemoteWrite("tick", [NoArg EXCEPT !.id = i, !.on = on])
        PROVE  PanelInv'
    <3>1. [NoArg EXCEPT !.id = i, !.on = on] \in PanelArgs
      BY ArgIs, PanelAssumption
    <3> QED BY <2>1, <3>1, OthersWriteKeeps
  <2>2. ASSUME NEW v \in Texts,
               RemoteWrite("save", [NoArg EXCEPT !.title = task.title, !.text = v])
        PROVE  PanelInv'
    <3>1. task.title \in Texts
      BY DEF PanelInv, PanelShape, TaskRows
    <3>2. [NoArg EXCEPT !.title = task.title, !.text = v] \in PanelArgs
      BY <3>1, PanelAssumption DEF NoArg, PanelArgs
    <3> QED BY <2>2, <3>2, OthersWriteKeeps
  <2> QED BY <1>3, <2>1, <2>2 DEF Others
<1>4. CASE Network
  BY <1>4, WriteKeeps, ReadKeepsPanel, RefusedKeepsPanel, AnswerKeepsPanel, FailureKeeps DEF Network
<1>5. CASE Upsert \/ Reload
  BY <1>5, QuietStepKeeps
<1> QED BY <1>1, <1>2, <1>3, <1>4, <1>5 DEF PanelNext

(* With nothing out, there is nothing that explains a difference.          *)
LEMMA PanelFollows == PanelInv => PanelSound
<1> SUFFICES ASSUME PanelInv PROVE PanelSound
  OBVIOUS
<1>1. PanelTypeOK
  <2>1. card.lists.done \subseteq card.lists.items
    BY DEF PanelInv, CopiesHold, ListsCounted
  <2>2. {c.kind : c \in calls} \subseteq WriteKinds \cup {"detail", "upsert", "board"}
    BY DEF PanelInv, PanelShape, PanelCalls
  <2>3. task.items \subseteq Items
    BY DEF PanelInv, PanelShape, TaskRows
  <2>4. {c.kind : c \in toasts} \subseteq {"save"} /\ newest <= edits
    BY DEF PanelInv, PanelShape
  <2> QED BY <2>1, <2>2, <2>3, <2>4 DEF PanelTypeOK, PanelInv, PanelShape
<1>2. SummaryMatchesLists
  BY DEF PanelInv, CopiesHold, ListsCounted, SummaryMatchesLists
<1>3. QuietCardIsCurrent
  <2> SUFFICES ASSUME calls = {}, ~echo, ~raced
               PROVE  /\ card.lists.loaded \/ failedRead
                      /\ card = IF card.lists.loaded THEN Detail(task) ELSE Row(task)
    BY DEF QuietCardIsCurrent
  <2>1. ~Out({"tick"}) /\ ~Out({"save"}) /\ ~Out({"detail"})
    BY DEF Out
  <2>2. newest = edits
    BY DEF PanelInv, PanelShape, NewsComes
  <2>3. /\ ListsAgree(card) /\ FieldsAgree(card) /\ card.prio = task.prio
        /\ card.labels = task.labels
    BY <2>1, <2>2 DEF PanelInv, CardHolds, Known, LabelsAgree
  <2>4. card \in Cards /\ task \in TaskRows /\ task.done \subseteq task.items
        /\ (~card.lists.loaded => card.lists = NotLoaded)
    BY DEF PanelInv, PanelShape, CopiesHold, ListsCounted
  <2>5. card.lists.loaded \/ failedRead
    BY <2>1 DEF PanelInv, ListsAsked
  <2>6. /\ Detail(task) \in Cards /\ Row(task) \in Cards /\ Row(task).lists = NotLoaded
        /\ \A x \in {Detail(task), Row(task)} :
              /\ x.sum = summarize(task) /\ x.labels = task.labels
              /\ x.title = task.title /\ x.text = task.text /\ x.prio = task.prio
    BY <2>4, DetailIs
  <2>7. ASSUME NEW x \in Cards, x.lists = card.lists, x.sum = card.sum, x.labels = card.labels,
               x.title = card.title, x.text = card.text, x.prio = card.prio
        PROVE  card = x
    BY <2>4, <2>7 DEF Cards
  <2>8. CASE card.lists.loaded
    BY <2>3, <2>5, <2>6, <2>7, <2>8 DEF ListsAgree, FieldsAgree
  <2>9. CASE ~card.lists.loaded
    BY <2>3, <2>4, <2>5, <2>6, <2>7, <2>9 DEF ListsAgree, FieldsAgree
  <2> QED BY <2>8, <2>9
<1>4. UntypedFieldSentAsShown
  BY DEF PanelInv, CopiesHold, CopiesFit, UntypedFieldSentAsShown
<1> QED BY <1>1, <1>2, <1>3, <1>4 DEF PanelSound

(* The card beside an open panel counts what it lists, is the server's once *)
(* quiet, and a save sends what was shown or typed, for any number of items,*)
(* labels and texts and whatever is done in whichever sections.             *)
THEOREM PanelStaysSound == PanelSpec => []PanelSound
<1>1. PanelSpec => []PanelInv
  BY PanelBegins, PanelKeeps, PTL DEF PanelSpec
<1> QED BY <1>1, PanelFollows, PTL
=============================================================================
