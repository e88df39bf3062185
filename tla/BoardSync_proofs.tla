-------------------------- MODULE BoardSync_proofs --------------------------
(***************************************************************************)
(* A board that has settled is the server's, for every number of tasks,    *)
(* writes, moves, lost connections and failures and for every page size;   *)
(* and so is its list of columns, for every number of writes to it.        *)
(***************************************************************************)
EXTENDS BoardSync, BoardColumns, FiniteSetTheorems, SequenceTheorems, WellFoundedInduction, TLAPS

-----------------------------------------------------------------------------
(* Pages.                                                                  *)

(* Some tasks have a last one among them.                                  *)
LEMMA HasLast ==
    ASSUME NEW S \in SUBSET Tasks, S # {}
    PROVE  \E m \in S : \A x \in S : x <= m
<1> DEFINE above(x) == {y \in S : y > x}
           Above == {above(x) : x \in S}
<1>0. IsFiniteSet(S) /\ S \subseteq Nat
  <2>1. IsFiniteSet(Tasks) /\ Tasks \subseteq Nat
    BY SyncAssumption
  <2> QED BY <2>1, FS_Subset
<1>1. Above \subseteq FiniteSubsetsOf(S) /\ Above # {}
  <2>1. \A x \in S : above(x) \in SUBSET S
    OBVIOUS
  <2>2. FiniteSubsetsOf(S) = SUBSET S
    BY <1>0, FS_FiniteSubsetsOfFinite
  <2>3. \A x \in S : above(x) \in FiniteSubsetsOf(S)
    BY <2>1, <2>2
  <2> HIDE DEF above
  <2> QED BY <2>3
<1>2. PICK A \in Above : \A B \in Above : <<B, A>> \notin StrictSubsetOrdering(S)
  <2> HIDE DEF Above
  <2> QED BY <1>0, <1>1, FS_StrictSubsetOrderingWellFounded, WFMin
<1>3. PICK m \in S : A = above(m)
  OBVIOUS
<1>4. ASSUME NEW x \in S, ~ (x <= m) PROVE FALSE
  <2>1. m \in Int /\ x \in Int /\ m < x /\ \A y \in S : y \in Int
    BY <1>0, <1>4
  <2>2. above(x) \subseteq above(m)
    <3> SUFFICES ASSUME NEW y \in above(x) PROVE y \in above(m)
      OBVIOUS
    <3>1. y \in S /\ y > x /\ y \in Int
      BY <2>1
    <3> QED BY <2>1, <3>1
  <2>3. x \in above(m) /\ x \notin above(x)
    BY <2>1
  <2>4. <<above(x), above(m)>> \in StrictSubsetOrdering(S)
    <3>1. above(x) \in SUBSET S /\ above(m) \in SUBSET S
      OBVIOUS
    <3> HIDE DEF above
    <3> QED BY <2>2, <2>3, <3>1 DEF StrictSubsetOrdering
  <2>5. above(x) \in Above
    OBVIOUS
  <2> HIDE DEF above, Above
  <2> QED BY <1>2, <1>3, <2>4, <2>5
<1> QED BY <1>4

(* And a first one.                                                        *)
LEMMA HasFirst ==
    ASSUME NEW S \in SUBSET Tasks, S # {}
    PROVE  \E m \in S : \A x \in S : m <= x
<1> DEFINE below(x) == {y \in S : y < x}
           Below == {below(x) : x \in S}
<1>0. IsFiniteSet(S) /\ S \subseteq Nat
  <2>1. IsFiniteSet(Tasks) /\ Tasks \subseteq Nat
    BY SyncAssumption
  <2> QED BY <2>1, FS_Subset
<1>1. Below \subseteq FiniteSubsetsOf(S) /\ Below # {}
  <2>1. \A x \in S : below(x) \in SUBSET S
    OBVIOUS
  <2>2. FiniteSubsetsOf(S) = SUBSET S
    BY <1>0, FS_FiniteSubsetsOfFinite
  <2>3. \A x \in S : below(x) \in FiniteSubsetsOf(S)
    BY <2>1, <2>2
  <2> HIDE DEF below
  <2> QED BY <2>3
<1>2. PICK A \in Below : \A B \in Below : <<B, A>> \notin StrictSubsetOrdering(S)
  <2> HIDE DEF Below
  <2> QED BY <1>0, <1>1, FS_StrictSubsetOrderingWellFounded, WFMin
<1>3. PICK m \in S : A = below(m)
  OBVIOUS
<1>4. ASSUME NEW x \in S, ~ (m <= x) PROVE FALSE
  <2>1. m \in Int /\ x \in Int /\ x < m /\ \A y \in S : y \in Int
    BY <1>0, <1>4
  <2>2. below(x) \subseteq below(m)
    <3> SUFFICES ASSUME NEW y \in below(x) PROVE y \in below(m)
      OBVIOUS
    <3>1. y \in S /\ y < x /\ y \in Int
      BY <2>1
    <3> QED BY <2>1, <3>1
  <2>3. x \in below(m) /\ x \notin below(x)
    BY <2>1
  <2>4. <<below(x), below(m)>> \in StrictSubsetOrdering(S)
    <3>1. below(x) \in SUBSET S /\ below(m) \in SUBSET S
      OBVIOUS
    <3> HIDE DEF below
    <3> QED BY <2>2, <2>3, <3>1 DEF StrictSubsetOrdering
  <2>5. below(x) \in Below
    OBVIOUS
  <2> HIDE DEF below, Below
  <2> QED BY <1>2, <1>3, <2>4, <2>5
<1> QED BY <1>4

(* A page leaves out only what comes after it.                             *)
LEMMA FirstNIs ==
    ASSUME NEW S \in SUBSET Tasks, NEW page, page = FirstN(PageSize, S)
    PROVE  /\ page \subseteq S
           /\ \A k \in S \ page : \A i \in page : i < k
           /\ S # {} => page # {}
<1> DEFINE before(t) == {u \in S : u < t}
<1>1. page = {t \in S : Cardinality(before(t)) < PageSize}
  BY DEF FirstN
<1>2. IsFiniteSet(S) /\ S \subseteq Nat /\ PageSize \in Nat /\ PageSize > 0
  <2>1. IsFiniteSet(Tasks) /\ Tasks \subseteq Nat /\ PageSize \in Nat /\ PageSize > 0
    BY SyncAssumption
  <2> QED BY <2>1, FS_Subset
<1>3. \A t \in S : IsFiniteSet(before(t)) /\ Cardinality(before(t)) \in Nat
  <2>1. \A t \in S : before(t) \subseteq S
    OBVIOUS
  <2> HIDE DEF before
  <2> QED BY <1>2, <2>1, FS_Subset, FS_CardinalityType
<1>4. ASSUME NEW k \in S \ page, NEW i \in page, ~ (i < k) PROVE FALSE
  <2>0. i \in S /\ k \in S /\ k <= i /\ \A y \in S : y \in Int
    BY <1>1, <1>2, <1>4
  <2>1. before(k) \subseteq before(i)
    <3> SUFFICES ASSUME NEW y \in S, y < k PROVE y < i
      OBVIOUS
    <3>1. y \in Int /\ k \in Int /\ i \in Int /\ y < k /\ k <= i
      BY <2>0
    <3> QED BY <3>1
  <2>2. Cardinality(before(k)) <= Cardinality(before(i))
    <3> HIDE DEF before
    <3> QED BY <1>3, <2>0, <2>1, FS_Subset
  <2>3. Cardinality(before(i)) < PageSize /\ ~ (Cardinality(before(k)) < PageSize)
    BY <1>1
  <2> HIDE DEF before
  <2> QED BY <1>2, <1>3, <2>0, <2>2, <2>3
<1>5. ASSUME S # {} PROVE page # {}
  <2>1. PICK m \in S : \A x \in S : m <= x
    BY <1>5, HasFirst
  <2>2. before(m) = {}
    <3> SUFFICES ASSUME NEW y \in S, y < m PROVE FALSE
      OBVIOUS
    <3>1. y \in Int /\ m \in Int /\ m <= y
      BY <1>2, <2>1
    <3> QED BY <3>1
  <2>3. Cardinality(before(m)) = 0
    <3> HIDE DEF before
    <3> QED BY <2>2, FS_EmptySet
  <2> QED BY <1>1, <1>2, <2>3
<1> QED BY <1>1, <1>4, <1>5

-----------------------------------------------------------------------------
(* The refs of requestResync.                                              *)

Refs == [fresh : BOOLEAN, timer : BOOLEAN, running : BOOLEAN, queued : BOOLEAN]

(* What setting one of them does.                                          *)
LEMMA RefSet ==
    ASSUME NEW s \in Refs, NEW b \in BOOLEAN
    PROVE  /\ [s EXCEPT !.fresh = b] \in Refs /\ [s EXCEPT !.timer = b] \in Refs
           /\ [s EXCEPT !.running = b] \in Refs /\ [s EXCEPT !.queued = b] \in Refs
           /\ s.fresh \in BOOLEAN /\ s.timer \in BOOLEAN /\ s.running \in BOOLEAN /\ s.queued \in BOOLEAN
BY DEF Refs

(* A request is dropped while the board is fresh, queued while a resync    *)
(* runs, and otherwise sets the timer.                                     *)
LEMMA RequestIs ==
    ASSUME NEW s \in Refs, NEW r, r = requestResync(s)
    PROVE  /\ r \in Refs /\ (r.fresh <=> s.fresh) /\ (r.running <=> s.running)
           /\ r.queued <=> s.queued \/ (~ s.fresh /\ s.running)
           /\ r.timer <=> s.timer \/ (~ s.fresh /\ ~ s.running)
<1>1. PICK y \in BOOLEAN : y = TRUE
  OBVIOUS
<1>2. CASE s.fresh
  BY <1>2 DEF requestResync
<1>3. CASE ~ s.fresh /\ s.running
  <2>1. r = [s EXCEPT !.queued = y]
    BY <1>1, <1>3 DEF requestResync
  <2>2. r \in Refs
    BY <2>1, RefSet
  <2>3. r.fresh = s.fresh /\ r.running = s.running /\ r.timer = s.timer /\ r.queued = y
    BY <2>1 DEF Refs
  <2> QED BY <1>1, <1>3, <2>2, <2>3
<1>4. CASE ~ s.fresh /\ ~ s.running
  <2>1. r = [s EXCEPT !.timer = y]
    BY <1>1, <1>4 DEF requestResync
  <2>2. r \in Refs
    BY <2>1, RefSet
  <2>3. r.fresh = s.fresh /\ r.running = s.running /\ r.queued = s.queued /\ r.timer = y
    BY <2>1 DEF Refs
  <2> QED BY <1>1, <1>4, <2>2, <2>3
<1> QED BY <1>2, <1>3, <1>4

(* The end of a resync starts the one that was queued.                     *)
LEMMA EndsIs ==
    ASSUME NEW s \in Refs, NEW r, r = ResyncEnds("resync", s)
    PROVE  /\ r \in Refs /\ (r.fresh <=> s.fresh) /\ ~ r.running /\ ~ r.queued
           /\ r.timer <=> s.timer \/ (s.queued /\ ~ s.fresh)
<1>1. PICK n \in BOOLEAN : n = FALSE
  OBVIOUS
<1>2. CASE ~ s.queued
  <2>1. r = [s EXCEPT !.running = n]
    BY <1>1, <1>2 DEF ResyncEnds
  <2>2. r \in Refs
    BY <2>1, RefSet
  <2>3. r.fresh = s.fresh /\ r.queued = s.queued /\ r.timer = s.timer /\ r.running = n
    BY <2>1 DEF Refs
  <2> QED BY <1>1, <1>2, <2>2, <2>3
<1>3. CASE s.queued
  <2>1. PICK q : q = [s EXCEPT !.running = n, !.queued = n]
    OBVIOUS
  <2>2. r = requestResync(q)
    BY <1>1, <1>3, <2>1 DEF ResyncEnds
  <2>3. q \in Refs /\ q.fresh = s.fresh /\ q.timer = s.timer /\ q.running = n /\ q.queued = n
    BY <2>1 DEF Refs
  <2>4. /\ r \in Refs /\ (r.fresh <=> q.fresh) /\ (r.running <=> q.running)
        /\ r.queued <=> q.queued \/ (~ q.fresh /\ q.running)
        /\ r.timer <=> q.timer \/ (~ q.fresh /\ ~ q.running)
    BY <2>2, <2>3, RequestIs
  <2> QED BY <1>1, <1>3, <2>3, <2>4
<1> QED BY <1>2, <1>3

-----------------------------------------------------------------------------
(* The events on their way.                                                *)

(* An event that is announced goes out behind the others.                  *)
LEMMA Announced ==
    ASSUME SyncShape, NEW e \in Events, net' = Append(net, e)
    PROVE  /\ net' \in Seq(Events) /\ Len(net) \in Nat /\ DOMAIN net = 1 .. Len(net)
           /\ DOMAIN net' = 1 .. Len(net) + 1
           /\ \A i \in 1 .. Len(net) : net'[i] = net[i]
           /\ net'[Len(net) + 1] = e
<1>1. net \in Seq(Events)
  BY DEF SyncShape
<1>2. /\ Append(net, e) \in Seq(Events) /\ Len(Append(net, e)) = Len(net) + 1
      /\ \A i \in 1 .. Len(net) : Append(net, e)[i] = net[i]
      /\ Append(net, e)[Len(net) + 1] = e
  BY <1>1, AppendProperties
<1>3. DOMAIN Append(net, e) = 1 .. Len(Append(net, e)) /\ Len(net) \in Nat /\ DOMAIN net = 1 .. Len(net)
  BY <1>1, <1>2, LenProperties
<1> QED BY <1>2, <1>3

(* An event that arrives leaves the others.                                *)
LEMMA Arrived ==
    ASSUME SyncShape, net # << >>, net' = Tail(net)
    PROVE  /\ net' \in Seq(Events) /\ Len(net) \in Nat /\ Len(net) > 0 /\ DOMAIN net = 1 .. Len(net)
           /\ DOMAIN net' = 1 .. Len(net) - 1 /\ Head(net) = net[1] /\ net[1] \in Events
           /\ \A i \in 1 .. Len(net) - 1 : net'[i] = net[i + 1]
<1>1. net \in Seq(Events)
  BY DEF SyncShape
<1>2. /\ Tail(net) \in Seq(Events) /\ Len(Tail(net)) = Len(net) - 1 /\ Head(net) \in Events
      /\ \A i \in 1 .. Len(Tail(net)) : Tail(net)[i] = net[i + 1]
  BY <1>1, HeadTailProperties
<1>3. Len(net) \in Nat /\ DOMAIN net = 1 .. Len(net) /\ DOMAIN Tail(net) = 1 .. Len(Tail(net))
  BY <1>1, <1>2, LenProperties
<1>4. Len(net) > 0
  BY <1>1, <1>3, EmptySeq
<1>5. Head(net) = net[1]
  OBVIOUS
<1> QED BY <1>2, <1>3, <1>4, <1>5

(* What is told once an event was announced.                               *)
LEMMA ToldMore ==
    ASSUME SyncShape, NEW e \in Events, net' = Append(net, e)
    PROVE  \A t, kinds : Told(t, kinds)' <=> Told(t, kinds) \/ (e.task = t /\ e.type \in kinds)
<1>1. /\ Len(net) \in Nat /\ DOMAIN net = 1 .. Len(net) /\ DOMAIN net' = 1 .. Len(net) + 1
      /\ \A i \in 1 .. Len(net) : net'[i] = net[i]
      /\ net'[Len(net) + 1] = e
  BY Announced
<1> SUFFICES ASSUME NEW t, NEW kinds
             PROVE  Told(t, kinds)' <=> Told(t, kinds) \/ (e.task = t /\ e.type \in kinds)
  OBVIOUS
<1>2. Told(t, kinds) => Told(t, kinds)'
  BY <1>1 DEF Told
<1>3. e.task = t /\ e.type \in kinds => Told(t, kinds)'
  <2>1. Len(net) + 1 \in DOMAIN net'
    BY <1>1
  <2> QED BY <1>1, <2>1 DEF Told
<1>4. ASSUME Told(t, kinds)' PROVE Told(t, kinds) \/ (e.task = t /\ e.type \in kinds)
  <2>1. PICK i \in DOMAIN net' : net'[i].task = t /\ net'[i].type \in kinds
    BY <1>4 DEF Told
  <2>2. i \in 1 .. Len(net) \/ i = Len(net) + 1
    BY <1>1
  <2> QED BY <1>1, <2>1, <2>2 DEF Told
<1> QED BY <1>2, <1>3, <1>4

(* What is told once an event arrived.                                     *)
LEMMA ToldLess ==
    ASSUME SyncShape, net # << >>, net' = Tail(net), NEW e, e = Head(net)
    PROVE  \A t, kinds : Told(t, kinds) <=> Told(t, kinds)' \/ (e.task = t /\ e.type \in kinds)
<1>1. /\ Len(net) \in Nat /\ Len(net) > 0 /\ DOMAIN net = 1 .. Len(net)
      /\ DOMAIN net' = 1 .. Len(net) - 1 /\ e = net[1]
      /\ \A i \in 1 .. Len(net) - 1 : net'[i] = net[i + 1]
  BY Arrived
<1> SUFFICES ASSUME NEW t, NEW kinds
             PROVE  Told(t, kinds) <=> Told(t, kinds)' \/ (e.task = t /\ e.type \in kinds)
  OBVIOUS
<1>2. ASSUME Told(t, kinds)' PROVE Told(t, kinds)
  <2>1. PICK i \in DOMAIN net' : net'[i].task = t /\ net'[i].type \in kinds
    BY <1>2 DEF Told
  <2>2. i + 1 \in DOMAIN net /\ net'[i] = net[i + 1]
    BY <1>1
  <2> QED BY <2>1, <2>2 DEF Told
<1>3. e.task = t /\ e.type \in kinds => Told(t, kinds)
  <2>1. 1 \in DOMAIN net
    BY <1>1
  <2> QED BY <1>1, <2>1 DEF Told
<1>4. ASSUME Told(t, kinds) PROVE Told(t, kinds)' \/ (e.task = t /\ e.type \in kinds)
  <2>1. PICK i \in DOMAIN net : net[i].task = t /\ net[i].type \in kinds
    BY <1>4 DEF Told
  <2>2. CASE i = 1
    BY <1>1, <2>1, <2>2
  <2>3. CASE i # 1
    <3>1. i - 1 \in DOMAIN net' /\ net'[i - 1] = net[i]
      <4>1. i - 1 \in 1 .. Len(net) - 1 /\ i - 1 + 1 = i
        BY <1>1, <2>3
      <4> QED BY <1>1, <4>1
    <3> QED BY <2>1, <3>1 DEF Told
  <2> QED BY <2>2, <2>3
<1> QED BY <1>2, <1>3, <1>4

(* The events stay true when a write is announced.                         *)
LEMMA EventsMore ==
    ASSUME SyncInv, NEW t \in Tasks, NEW rec, NEW e \in Events, net' = Append(net, e),
           tasks' = [tasks EXCEPT ![t] = rec], born \subseteq born', t \in born',
           e.task = t, e.type = "deleted" => rec = Gone,
           e.type = "moved" /\ rec # Gone => e.pos = rec.pos,
           rec = Gone \/ t \notin born \/ tasks[t] # Gone,
           rec = Gone \/ t \notin born \/ e.type = "moved" \/ rec.pos = tasks[t].pos
    PROVE  EventsTrue'
<1>1. SyncShape /\ EventsTrue
  BY DEF SyncInv
<1>2. /\ Len(net) \in Nat /\ DOMAIN net = 1 .. Len(net) /\ DOMAIN net' = 1 .. Len(net) + 1
      /\ \A i \in 1 .. Len(net) : net'[i] = net[i]
      /\ net'[Len(net) + 1] = e
  BY <1>1, Announced
<1>3. tasks'[t] = rec /\ \A u : u # t => tasks'[u] = tasks[u]
  <2>1. tasks \in [Tasks -> ServerRec \cup {Gone}]
    BY <1>1 DEF SyncShape, Board
  <2>2. tasks'[t] = rec
    BY <2>1
  <2>3. ASSUME NEW u, u # t PROVE tasks'[u] = tasks[u]
    BY <2>1, <2>3
  <2> QED BY <2>2, <2>3
<1> SUFFICES ASSUME NEW i \in DOMAIN net'
             PROVE  /\ net'[i].type # "ack" => net'[i].task \in born'
                    /\ net'[i].type = "deleted" => tasks'[net'[i].task] = Gone
                    /\ net'[i].type = "moved" /\ LastMove(i)' /\ tasks'[net'[i].task] # Gone
                          => net'[i].pos = tasks'[net'[i].task].pos
  BY DEF EventsTrue
<1>4. CASE i = Len(net) + 1
  BY <1>2, <1>3, <1>4
<1>5. CASE i \in 1 .. Len(net)
  <2>1. /\ net'[i] = net[i] /\ i \in DOMAIN net
    BY <1>2, <1>5
  <2>2. /\ net[i].type # "ack" => net[i].task \in born
        /\ net[i].type = "deleted" => tasks[net[i].task] = Gone
        /\ net[i].type = "moved" /\ LastMove(i) /\ tasks[net[i].task] # Gone
              => net[i].pos = tasks[net[i].task].pos
    BY <1>1, <2>1 DEF EventsTrue
  <2>3. LastMove(i)' => LastMove(i)
    <3> SUFFICES ASSUME NEW j \in DOMAIN net, j > i, net[j].type = "moved", net[j].task = net[i].task
                 PROVE  ~ LastMove(i)'
      BY DEF LastMove
    <3>1. j \in DOMAIN net' /\ net'[j] = net[j]
      BY <1>2
    <3> QED BY <2>1, <3>1 DEF LastMove
  <2>4. CASE net[i].task # t
    BY <1>3, <2>1, <2>2, <2>3, <2>4
  <2>5. CASE net[i].task = t
    <3>1. net[i].type = "moved" /\ LastMove(i)' => e.type # "moved"
      <4>1. Len(net) + 1 \in DOMAIN net' /\ Len(net) + 1 > i
        BY <1>2, <1>5
      <4> QED BY <1>2, <2>1, <2>5, <4>1 DEF LastMove
    <3>2. net[i].type = "deleted" => rec = Gone
      BY <2>2, <2>5
    <3>3. net[i].type = "moved" /\ LastMove(i)' /\ rec # Gone => net[i].pos = rec.pos
      BY <2>2, <2>3, <2>5, <3>1
    <3> QED BY <1>3, <2>1, <2>2, <2>5, <3>2, <3>3
  <2> QED BY <2>4, <2>5
<1> QED BY <1>2, <1>4, <1>5

(* And when one arrives.                                                   *)
LEMMA EventsLess ==
    ASSUME SyncInv, net # << >>, net' = Tail(net), UNCHANGED <<tasks, born>>
    PROVE  EventsTrue'
<1>1. SyncShape /\ EventsTrue
  BY DEF SyncInv
<1>2. /\ Len(net) \in Nat /\ Len(net) > 0 /\ DOMAIN net = 1 .. Len(net)
      /\ DOMAIN net' = 1 .. Len(net) - 1
      /\ \A i \in 1 .. Len(net) - 1 : net'[i] = net[i + 1]
  BY <1>1, Arrived
<1> SUFFICES ASSUME NEW i \in DOMAIN net'
             PROVE  /\ net'[i].type # "ack" => net'[i].task \in born
                    /\ net'[i].type = "deleted" => tasks[net'[i].task] = Gone
                    /\ net'[i].type = "moved" /\ LastMove(i)' /\ tasks[net'[i].task] # Gone
                          => net'[i].pos = tasks[net'[i].task].pos
  BY DEF EventsTrue
<1>3. net'[i] = net[i + 1] /\ i + 1 \in DOMAIN net
  BY <1>2
<1>4. /\ net[i + 1].type # "ack" => net[i + 1].task \in born
      /\ net[i + 1].type = "deleted" => tasks[net[i + 1].task] = Gone
      /\ net[i + 1].type = "moved" /\ LastMove(i + 1) /\ tasks[net[i + 1].task] # Gone
            => net[i + 1].pos = tasks[net[i + 1].task].pos
  BY <1>1, <1>3 DEF EventsTrue
<1>5. LastMove(i)' => LastMove(i + 1)
  <2> SUFFICES ASSUME NEW j \in DOMAIN net, j > i + 1, net[j].type = "moved",
                      net[j].task = net[i + 1].task
               PROVE  ~ LastMove(i)'
    BY DEF LastMove
  <2>1. j - 1 \in DOMAIN net' /\ j - 1 > i /\ net'[j - 1] = net[j]
    <3>1. j - 1 \in 1 .. Len(net) - 1 /\ j - 1 + 1 = j /\ j - 1 > i
      BY <1>2
    <3> QED BY <1>2, <3>1
  <2> QED BY <1>3, <2>1 DEF LastMove
<1> QED BY <1>3, <1>4, <1>5

(* The last move of a task that arrives has its position.                  *)
LEMMA LastMoveTells ==
    ASSUME SyncInv, net # << >>, net' = Tail(net), NEW e, e = Head(net), e.type = "moved"
    PROVE  Told(e.task, {"moved"})' \/ tasks[e.task] = Gone \/ e.pos = tasks[e.task].pos
<1>1. SyncShape /\ EventsTrue
  BY DEF SyncInv
<1>2. /\ Len(net) \in Nat /\ Len(net) > 0 /\ DOMAIN net = 1 .. Len(net) /\ e = net[1]
      /\ DOMAIN net' = 1 .. Len(net) - 1
      /\ \A i \in 1 .. Len(net) - 1 : net'[i] = net[i + 1]
  BY <1>1, Arrived
<1>3. 1 \in DOMAIN net
  BY <1>2
<1>4. CASE LastMove(1)
  BY <1>1, <1>2, <1>3, <1>4 DEF EventsTrue
<1>5. CASE ~ LastMove(1)
  <2>1. PICK j \in DOMAIN net : j > 1 /\ net[j].type = "moved" /\ net[j].task = e.task
    BY <1>2, <1>5 DEF LastMove
  <2>2. j - 1 \in DOMAIN net' /\ net'[j - 1] = net[j]
    <3>1. j - 1 \in 1 .. Len(net) - 1 /\ j - 1 + 1 = j
      BY <1>2, <2>1
    <3> QED BY <1>2, <3>1
  <2> QED BY <2>1, <2>2 DEF Told
<1> QED BY <1>4, <1>5

-----------------------------------------------------------------------------
(* What a step leaves alone.                                               *)

(* The events stay true while neither they nor the tasks change.           *)
LEMMA EventsStay ==
    ASSUME EventsTrue, UNCHANGED <<net, tasks, born>>
    PROVE  EventsTrue'
BY DEF EventsTrue, LastMove

(* A page under way ends as it did.                                        *)
LEMMA PagesStay ==
    ASSUME \A d \in Drain : PageEnds(d), UNCHANGED drains
    PROVE  \A d \in Drain : PageEnds(d)'
BY DEF PageEnds

(* The moves and the writes left for them are as they were.                *)
LEMMA MovesStay ==
    ASSUME MovesShape, UNCHANGED <<writes, moves, generation>>
    PROVE  MovesShape'
BY DEF MovesShape, WritesLeft

(* What was answered is still what the server has.                         *)
LEMMA AnswersStay ==
    ASSUME AnswersTrue, UNCHANGED <<tasks, answers, moves, drains>>
    PROVE  AnswersTrue'
BY DEF AnswersTrue, PageTrue, Beyond

(* The refs of requestResync fit as before.                                *)
LEMMA RefsStay ==
    ASSUME RefsFit, UNCHANGED <<loading, link, rs, skipped, lost, drains>>
    PROVE  RefsFit'
BY DEF RefsFit

(* A missed event is made up for as before.                                *)
LEMMA ChasedStays ==
    ASSUME Chased, UNCHANGED <<link, rs, skipped, lost, drains>>
    PROVE  Chased'
BY DEF Chased, FirstAsked

(* Moves and pages that are left alone.                                    *)
LEMMA MovingStays ==
    ASSUME UNCHANGED moves
    PROVE  \A t, but : Moving(t, but) => Moving(t, but)'
BY DEF Moving

(* The pages under way reach what they did.                                *)
LEMMA PagesReach ==
    ASSUME UNCHANGED drains
    PROVE  /\ Renewed' <=> Renewed
           /\ \A t : InPages(t) => InPages(t)'
BY DEF Renewed, InPages

(* What is told stays told.                                                *)
LEMMA ToldStays ==
    ASSUME UNCHANGED net
    PROVE  \A t, kinds : Told(t, kinds) => Told(t, kinds)'
BY DEF Told

(* What explains a task still does while the reads, events, moves and      *)
(* pages that do are still under way.                                      *)
LEMMA FitsKeep ==
    ASSUME NEW t, tasks'[t] = tasks[t],
           tasks[t] # Gone /\ Coming(t) => Coming(t)',
           \A k \in {"created", "moved", "deleted"} : Told(t, {k}) => Told(t, {k})',
           \A but : Moving(t, but) => Moving(t, but)',
           InPages(t) => InPages(t)'
    PROVE  \A v, but : Fits(v, t, but) => Fits(v, t, but)'
BY DEF Fits

(* A step carries the explanation of the board over, task by task: what a  *)
(* row shows and why is left alone, or the row is read anew.               *)
LEMMA Carried ==
    ASSUME Explained, MovesShape, ~lost' /\ ~Renewed' => ~lost /\ ~Renewed,
           \A g \in 1 .. MaxMoves : g = generation' /\ moves'[g].pc \in {"sent", "failed"} =>
              /\ g = generation /\ moves[g].pc \in {"sent", "failed"}
              /\ moves'[g].task = moves[g].task /\ moves'[g].snap = moves[g].snap,
           \A t \in Tasks : \/ /\ view'[t] = view[t]
                               /\ \A v, but : (v = Gone => view[t] = Gone) /\ Fits(v, t, but) => Fits(v, t, but)'
                            \/ view'[t].pos # Guess /\ Fits(view[t], t, 0)'
    PROVE  Explained'
<1> SUFFICES ASSUME ~lost', ~Renewed'
             PROVE  /\ \A t \in Tasks : Fits(view[t], t, 0)'
                    /\ \A g \in 1 .. MaxMoves : SnapFits(g)'
  BY DEF Explained
<1>1. /\ \A t \in Tasks : Fits(view[t], t, 0)
      /\ \A g \in 1 .. MaxMoves : SnapFits(g)
  BY DEF Explained
<1>2. ASSUME NEW t \in Tasks PROVE Fits(view[t], t, 0)'
  <2>1. CASE /\ view'[t] = view[t]
             /\ \A v, but : (v = Gone => view[t] = Gone) /\ Fits(v, t, but) => Fits(v, t, but)'
    <3>1. PICK w : w = view[t]
      OBVIOUS
    <3>2. Fits(w, t, 0)
      BY <1>1, <3>1
    <3>3. Fits(w, t, 0)'
      <4>1. w = Gone => view[t] = Gone
        BY <3>1
      <4> QED BY <2>1, <3>2, <4>1, Zenon
    <3>4. view'[t] = w
      BY <2>1, <3>1
    <3> QED BY <3>3, <3>4 DEF Fits
  <2> QED BY <2>1
<1>3. ASSUME NEW g \in 1 .. MaxMoves PROVE SnapFits(g)'
  <2> SUFFICES ASSUME Stands(g)'
               PROVE  /\ moves'[g].snap[moves'[g].task] # Gone
                      /\ Fits(moves[g].snap[moves[g].task], moves[g].task, g)'
    BY DEF SnapFits
  <2>1. /\ g = generation' /\ moves'[g].pc \in {"sent", "failed"}
        /\ view'[moves'[g].task] = [moves'[g].snap[moves'[g].task] EXCEPT !.pos = Guess]
    BY DEF Stands
  <2>2. /\ g = generation /\ moves[g].pc \in {"sent", "failed"}
        /\ moves'[g].task = moves[g].task /\ moves'[g].snap = moves[g].snap
    BY <2>1
  <2>3. PICK t \in Tasks : t = moves[g].task
    BY <2>2 DEF MovesShape, Pending
  <2>4. PICK w : w = moves[g].snap[t]
    OBVIOUS
  <2>5. w \in Rec \cup {Gone}
    BY <2>3, <2>4 DEF MovesShape, Moves, Cache
  <2>6. view'[t] = [w EXCEPT !.pos = Guess]
    BY <2>1, <2>2, <2>3, <2>4
  <2>7. view'[t].pos = Guess
    BY <2>5, <2>6 DEF Rec, Gone
  <2>8. /\ view'[t] = view[t]
        /\ \A v, but : (v = Gone => view[t] = Gone) /\ Fits(v, t, but) => Fits(v, t, but)'
    BY <2>7
  <2>9. Stands(g)
    BY <2>2, <2>3, <2>4, <2>6, <2>8 DEF Stands
  <2>10. w # Gone /\ Fits(w, t, g)
    BY <1>1, <2>3, <2>4, <2>9 DEF SnapFits
  <2>11. Fits(w, t, g)'
    BY <2>8, <2>10, Zenon
  <2>12. moves'[g].task = t /\ moves'[g].snap[moves'[g].task] = w
    BY <2>2, <2>3, <2>4
  <2> QED BY <2>10, <2>11, <2>12 DEF Fits
<1> QED BY <1>2, <1>3

-----------------------------------------------------------------------------
(* What an action does to the drains, the moves and the counts.            *)

DrainsBut(d, v) ==
    /\ drains' \in [Drain -> Drains] /\ drains'[d] = v
    /\ \A e \in Drain \ {d} : drains'[e] = drains[e]

(* A drain that is set leaves the others alone.                            *)
LEMMA DrainSet ==
    ASSUME SyncShape, NEW d \in Drain, NEW v \in Drains, drains' = [drains EXCEPT ![d] = v]
    PROVE  DrainsBut(d, v)
<1>1. drains \in [Drain -> Drains]
  BY DEF SyncShape
<1> QED BY <1>1 DEF DrainsBut

(* The first page of a drain, and no drain.                                *)
LEMMA FirstPageIs ==
    /\ NoDrain \in Drains /\ NoDrain.pc = "idle" /\ FirstPage \in Drains
    /\ FirstPage.pc = "asked" /\ FirstPage.cursor = 0
<1>1. PICK b \in BOOLEAN : b = FALSE
  OBVIOUS
<1>2. [t \in Tasks |-> Gone] \in Board
  BY DEF Board
<1>3. NoDrain = [pc |-> "idle", cursor |-> 0, page |-> [t \in Tasks |-> Gone], more |-> b]
  BY <1>1 DEF NoDrain
<1>4. NoDrain \in Drains /\ NoDrain.pc = "idle" /\ NoDrain.cursor = 0
  BY <1>2, <1>3 DEF Drains
<1>5. FirstPage = [pc |-> "asked", cursor |-> 0, page |-> [t \in Tasks |-> Gone], more |-> b]
  BY <1>3 DEF FirstPage
<1>6. FirstPage \in Drains /\ FirstPage.pc = "asked" /\ FirstPage.cursor = 0
  BY <1>2, <1>5 DEF Drains
<1> QED BY <1>4, <1>6

(* A page read is what the server has behind the cursor, and leaves out    *)
(* only what lies beyond it.                                               *)
LEMMA PageRead ==
    ASSUME SyncShape, NEW d \in Drain, ReadPage(d)
    PROVE  \E v \in Drains :
              /\ DrainsBut(d, v) /\ drains[d].pc = "asked"
              /\ v.pc = "read" /\ v.cursor = drains[d].cursor
              /\ PageEnds(d)' /\ PageTrue(d)'
<1> DEFINE old == drains[d]
           rest == {t \in Tasks : tasks[t] # Gone /\ t > old.cursor}
           page == FirstN(PageSize, rest)
           pages == [t \in Tasks |-> IF t \in page THEN tasks[t] ELSE Gone]
<1>1. PICK b \in BOOLEAN : b = (rest # page)
  OBVIOUS
<1>2. PICK v : v = [old EXCEPT !.pc = "read", !.more = b, !.page = pages]
  OBVIOUS
<1>3. /\ old \in Drains /\ drains \in [Drain -> Drains] /\ tasks \in Board
  BY DEF SyncShape
<1>4. rest \in SUBSET Tasks
  OBVIOUS
<1>5. /\ page \subseteq rest /\ \A k \in rest \ page : \A i \in page : i < k
      /\ rest # {} => page # {}
  <2> HIDE DEF rest
  <2> QED BY <1>4, FirstNIs
<1>6. pages \in Board
  BY <1>3 DEF Board
<1>7. /\ v \in Drains /\ v.pc = "read" /\ v.cursor = old.cursor
      /\ v.page = pages /\ v.more = b
  <2> HIDE DEF pages
  <2> QED BY <1>2, <1>3, <1>6 DEF Drains
<1>8. drains' = [drains EXCEPT ![d] = v] /\ old.pc = "asked"
  <2>1. drains' = [drains EXCEPT ![d].pc = "read", ![d].more = (rest # page), ![d].page = pages] /\ old.pc = "asked"
    BY DEF ReadPage
  <2>2. drains' = [drains EXCEPT ![d].pc = "read", ![d].more = b, ![d].page = pages]
    BY <1>1, <2>1
  <2> HIDE DEF pages
  <2> QED BY <1>2, <1>3, <2>1, <2>2
<1>9. DrainsBut(d, v)
  BY <1>7, <1>8, DrainSet
<1>10. drains'[d] = v
  BY <1>9 DEF DrainsBut
<1>11. \A t \in Tasks : v.page[t] = IF t \in page THEN tasks[t] ELSE Gone
  BY <1>7
<1>12. tasks' = tasks
  BY DEF ReadPage, serverVars
<1>13. \A t \in Tasks : (v.page[t] # Gone <=> t \in page) /\ (v.page[t] # Gone => v.page[t] = tasks[t])
  BY <1>5, <1>11
<1>14. ASSUME NEW t \in rest, t \notin page PROVE b = TRUE /\ Beyond(v.page, t)
  <2>1. b = TRUE
    BY <1>1, <1>14
  <2> QED BY <1>5, <1>13, <1>14, <2>1 DEF Beyond
<1>15. PageTrue(d)'
  <2> SUFFICES ASSUME NEW t \in Tasks
               PROVE  /\ v.page[t] # Gone => v.page[t] = tasks[t]
                      /\ t > v.cursor /\ tasks[t] # Gone =>
                            v.page[t] # Gone \/ (v.more /\ Beyond(v.page, t))
    BY <1>10, <1>12 DEF PageTrue, Beyond
  <2>1. CASE t \in page
    BY <1>13, <2>1
  <2>2. CASE t \notin page /\ t \in rest
    <3>1. v.more
      BY <1>7, <1>14, <2>2
    <3> QED BY <1>13, <1>14, <2>2, <3>1
  <2>3. CASE t \notin rest
    BY <1>5, <1>7, <1>13, <2>3
  <2> QED BY <2>1, <2>2, <2>3
<1>16. PageEnds(d)'
  <2> SUFFICES ASSUME v.more
               PROVE  \E t \in Tasks : v.page[t] # Gone /\ \A u \in Tasks : v.page[u] # Gone => u <= t
    BY <1>10 DEF PageEnds
  <2>1. b = TRUE
    BY <1>7
  <2>2. page \in SUBSET Tasks /\ page # {}
    <3>1. rest # page
      BY <1>1, <2>1
    <3> QED BY <1>4, <1>5, <3>1
  <2>3. PICK m \in page : \A x \in page : x <= m
    <3> HIDE DEF page
    <3> QED BY <2>2, HasLast
  <2> QED BY <1>13, <2>2, <2>3
<1> QED BY <1>7, <1>8, <1>9, <1>15, <1>16

(* The page after a full one starts behind its last task.                  *)
LEMMA NextPage ==
    ASSUME SyncShape, NEW d \in Drain, PageEnds(d), ApplyPage(d)
    PROVE  \E v \in Drains :
              /\ DrainsBut(d, v) /\ drains[d].pc = "read"
              /\ drains[d].more => /\ v.pc = "asked" /\ v.cursor \in Tasks
                                   /\ \A t \in Tasks : Beyond(drains[d].page, t) => v.cursor < t
              /\ ~ drains[d].more => v.pc = "idle"
<1>1. /\ drains[d] \in Drains /\ drains \in [Drain -> Drains] /\ drains[d].pc = "read"
      /\ drains' = [drains EXCEPT ![d] =
                      IF drains[d].more THEN [FirstPage EXCEPT !.cursor = LastId(drains[d].page)]
                      ELSE NoDrain]
  BY DEF SyncShape, ApplyPage
<1>2. CASE drains[d].more
  <2>1. PICK m : m = LastId(drains[d].page)
    OBVIOUS
  <2>2. /\ m \in Tasks /\ drains[d].page[m] # Gone
    BY <1>1, <1>2, <2>1 DEF PageEnds, LastId
  <2>3. PICK v : v = [FirstPage EXCEPT !.cursor = m]
    OBVIOUS
  <2>4. v \in Drains /\ v.pc = "asked" /\ v.cursor = m
    BY <2>2, <2>3, FirstPageIs DEF Drains
  <2>5. drains' = [drains EXCEPT ![d] = v]
    BY <1>1, <1>2, <2>1, <2>3
  <2>6. DrainsBut(d, v)
    BY <2>4, <2>5, DrainSet
  <2>7. \A t \in Tasks : Beyond(drains[d].page, t) => m < t
    BY <2>2 DEF Beyond
  <2> QED BY <1>1, <1>2, <2>2, <2>4, <2>6, <2>7
<1>3. CASE ~ drains[d].more
  <2>1. drains' = [drains EXCEPT ![d] = NoDrain]
    BY <1>1, <1>3
  <2>2. DrainsBut(d, NoDrain)
    BY <2>1, DrainSet, FirstPageIs
  <2> QED BY <1>1, <1>3, <2>2, FirstPageIs
<1> QED BY <1>2, <1>3

(* A move changes, and a write is still left for each on its way.          *)
MovesBut(g, m) ==
    /\ moves' \in [1 .. MaxMoves -> Moves] /\ moves'[g] = m
    /\ \A h \in (1 .. MaxMoves) \ {g} : moves'[h] = moves[h]

(* A move that is set leaves the others alone, and the writes suffice.     *)
LEMMA MoveSet ==
    ASSUME MovesShape, NEW g \in 1 .. MaxMoves, NEW m \in Moves, moves' = [moves EXCEPT ![g] = m],
           m.pc \in Pending => m.task \in Tasks,
           generation' \in 0 .. MaxMoves, generation' >= generation, g <= generation',
           \/ writes' = writes /\ (m.pc # "sent" \/ WritesLeft > 0)
           \/ writes' = writes + 1 /\ moves[g].pc = "sent" /\ m.pc # "sent"
    PROVE  MovesShape' /\ MovesBut(g, m)
<1> DEFINE sent == {h \in 1 .. MaxMoves : moves[h].pc = "sent"}
           sentNow == {h \in 1 .. MaxMoves : moves'[h].pc = "sent"}
<1>1. moves \in [1 .. MaxMoves -> Moves] /\ writes \in Nat /\ generation \in 0 .. MaxMoves
  BY DEF MovesShape
<1>2. MovesBut(g, m)
  BY <1>1 DEF MovesBut
<1>3. \A h \in (1 .. MaxMoves) \ {g} : moves'[h] = moves[h]
  BY <1>2 DEF MovesBut
<1>4. moves'[g] = m
  BY <1>2 DEF MovesBut
<1>5. MaxMoves \in Nat /\ MaxWrites \in Nat
  BY SyncAssumption
<1>6. IsFiniteSet(sent) /\ IsFiniteSet(sentNow)
  <2>1. IsFiniteSet(1 .. MaxMoves)
    BY <1>5, FS_Interval
  <2>2. sent \subseteq 1 .. MaxMoves /\ sentNow \subseteq 1 .. MaxMoves
    OBVIOUS
  <2> HIDE DEF sent, sentNow
  <2> QED BY <2>1, <2>2, FS_Subset
<1>7. Cardinality(sent) \in Nat /\ Cardinality(sentNow) \in Nat
  <2> HIDE DEF sent, sentNow
  <2> QED BY <1>6, FS_CardinalityType
<1>8. WritesLeft = MaxWrites - writes - Cardinality(sent) /\ WritesLeft >= 0
  BY DEF WritesLeft, MovesShape
<1>9. WritesLeft' = MaxWrites - writes' - Cardinality(sentNow)
  BY DEF WritesLeft
<1>10. writes' \in Nat /\ WritesLeft' >= 0
  <2>1. CASE writes' = writes /\ m.pc # "sent"
    <3>1. sentNow \subseteq sent
      BY <1>3, <1>4, <2>1
    <3>2. Cardinality(sentNow) <= Cardinality(sent)
      <4> HIDE DEF sent, sentNow
      <4> QED BY <1>6, <3>1, FS_Subset
    <3> HIDE DEF sent, sentNow
    <3> QED BY <1>1, <1>5, <1>7, <1>8, <1>9, <2>1, <3>2
  <2>2. CASE writes' = writes /\ WritesLeft > 0
    <3>1. sentNow \subseteq sent \cup {g}
      BY <1>3
    <3>2. IsFiniteSet(sent \cup {g}) /\ Cardinality(sent \cup {g}) <= Cardinality(sent) + 1
      <4> HIDE DEF sent, sentNow
      <4>1. IsFiniteSet(sent \cup {g}) /\ Cardinality(sent \cup {g}) = IF g \in sent THEN Cardinality(sent) ELSE Cardinality(sent) + 1
        BY <1>6, FS_AddElement
      <4> QED BY <1>7, <4>1
    <3>3. Cardinality(sentNow) <= Cardinality(sent \cup {g}) /\ Cardinality(sent \cup {g}) \in Nat
      <4> HIDE DEF sent, sentNow
      <4> QED BY <3>1, <3>2, FS_Subset, FS_CardinalityType
    <3> HIDE DEF sent, sentNow
    <3> QED BY <1>1, <1>5, <1>7, <1>8, <1>9, <2>2, <3>2, <3>3
  <2>3. CASE writes' = writes + 1 /\ moves[g].pc = "sent" /\ m.pc # "sent"
    <3>1. sentNow \subseteq sent \ {g} /\ g \in sent
      BY <1>3, <1>4, <2>3
    <3>2. IsFiniteSet(sent \ {g}) /\ Cardinality(sent \ {g}) = Cardinality(sent) - 1
      <4> HIDE DEF sent, sentNow
      <4>1. IsFiniteSet(sent \ {g}) /\ Cardinality(sent \ {g}) = IF g \in sent THEN Cardinality(sent) - 1 ELSE Cardinality(sent)
        BY <1>6, FS_RemoveElement
      <4> QED BY <3>1, <4>1
    <3>3. Cardinality(sentNow) <= Cardinality(sent \ {g})
      <4> HIDE DEF sent, sentNow
      <4> QED BY <3>1, <3>2, FS_Subset
    <3> HIDE DEF sent, sentNow
    <3> QED BY <1>1, <1>5, <1>7, <1>8, <1>9, <2>3, <3>2, <3>3
  <2> QED BY <2>1, <2>2, <2>3
<1>11. ASSUME NEW h \in 1 .. MaxMoves
       PROVE  /\ h > generation' => moves'[h].pc = "none"
              /\ moves'[h].pc \in Pending => moves'[h].task \in Tasks
  <2>1. /\ h > generation => moves[h].pc = "none"
        /\ moves[h].pc \in Pending => moves[h].task \in Tasks
    BY DEF MovesShape
  <2>2. CASE h = g
    BY <1>1, <1>4, <1>5, <2>2
  <2>3. CASE h # g
    BY <1>1, <1>3, <1>5, <2>1, <2>3
  <2> QED BY <2>2, <2>3
<1>12. moves' \in [1 .. MaxMoves -> Moves]
  BY <1>2 DEF MovesBut
<1> QED BY <1>2, <1>10, <1>11, <1>12 DEF MovesShape

(* A write of another user takes one that was left.                        *)
LEMMA WriteLeft ==
    ASSUME MovesShape, WritesLeft > 0, writes' = writes + 1, UNCHANGED <<moves, generation>>
    PROVE  MovesShape' /\ writes' \in 0 .. MaxWrites
<1> DEFINE sent == {h \in 1 .. MaxMoves : moves[h].pc = "sent"}
<1>1. writes \in Nat /\ MaxWrites \in Nat /\ MaxMoves \in Nat
  BY SyncAssumption DEF MovesShape
<1>2. Cardinality(sent) \in Nat
  <2>1. IsFiniteSet(1 .. MaxMoves)
    BY <1>1, FS_Interval
  <2>2. sent \subseteq 1 .. MaxMoves
    OBVIOUS
  <2> HIDE DEF sent
  <2> QED BY <2>1, <2>2, FS_Subset, FS_CardinalityType
<1>3. WritesLeft = MaxWrites - writes - Cardinality(sent)
  BY DEF WritesLeft
<1>4. WritesLeft' = MaxWrites - writes' - Cardinality(sent)
  BY DEF WritesLeft
<1>5. writes' \in 0 .. MaxWrites /\ WritesLeft' >= 0
  <2> HIDE DEF sent
  <2> QED BY <1>1, <1>2, <1>3, <1>4
<1> QED BY <1>1, <1>5 DEF MovesShape

(* A move on its way has a write left.                                     *)
LEMMA MoveLeft ==
    ASSUME MovesShape, NEW g \in 1 .. MaxMoves
    PROVE  writes \in 0 .. MaxWrites /\ (moves[g].pc = "sent" => writes + 1 \in 0 .. MaxWrites)
<1> DEFINE sent == {h \in 1 .. MaxMoves : moves[h].pc = "sent"}
<1>1. writes \in Nat /\ MaxWrites \in Nat /\ MaxMoves \in Nat
  BY SyncAssumption DEF MovesShape
<1>2. IsFiniteSet(sent) /\ Cardinality(sent) \in Nat
  <2>1. IsFiniteSet(1 .. MaxMoves)
    BY <1>1, FS_Interval
  <2>2. sent \subseteq 1 .. MaxMoves
    OBVIOUS
  <2> HIDE DEF sent
  <2> QED BY <2>1, <2>2, FS_Subset, FS_CardinalityType
<1>3. WritesLeft = MaxWrites - writes - Cardinality(sent) /\ WritesLeft >= 0
  BY DEF WritesLeft, MovesShape
<1>4. ASSUME moves[g].pc = "sent" PROVE Cardinality(sent) > 0
  <2>1. g \in sent
    BY <1>4
  <2> HIDE DEF sent
  <2>2. Cardinality(sent) # 0
    BY <1>2, <2>1, FS_EmptySet
  <2> QED BY <1>2, <2>2
<1> HIDE DEF sent
<1> QED BY <1>1, <1>2, <1>3, <1>4

-----------------------------------------------------------------------------
(* A write: its event says what it did, so that what a row shows is        *)
(* explained as before or by the event.                                    *)
Wrote(t, rec, e) ==
    /\ e.task = t /\ born \subseteq born' /\ t \in born' /\ born' \subseteq born \cup {t}
    /\ \/ e.type = "created" /\ t \notin born /\ rec # Gone
       \/ e.type = "updated" /\ tasks[t] # Gone /\ rec # Gone /\ rec.pos = tasks[t].pos
       \/ /\ e.type = "moved" /\ tasks[t] # Gone /\ rec # Gone
          /\ e.pos = rec.pos /\ rec.body = tasks[t].body
       \/ e.type = "deleted" /\ tasks[t] # Gone /\ rec = Gone

(* A write leaves whole tasks, and its event is true.                      *)
LEMMA WriteSets ==
    ASSUME SyncInv, NEW t \in Tasks, NEW rec \in ServerRec \cup {Gone}, NEW e \in Events,
           Write(t, rec, e), Wrote(t, rec, e), UNCHANGED link
    PROVE  /\ tasks' \in Board /\ tasks'[t] = rec /\ \A u : u # t => tasks'[u] = tasks[u]
           /\ born' \subseteq Tasks /\ \A u \in Tasks \ born' : tasks'[u] = Gone
           /\ net' \in Seq(Events) /\ (link' = "off" => net' = << >>)
           /\ EventsTrue' /\ lost' \in BOOLEAN /\ raced' \in BOOLEAN
<1>1. SyncShape /\ EventsTrue
  BY DEF SyncInv
<1>2. /\ tasks \in Board /\ born \subseteq Tasks /\ \A u \in Tasks \ born : tasks[u] = Gone
      /\ net \in Seq(Events) /\ (link = "off" => net = << >>)
      /\ lost \in BOOLEAN /\ raced \in BOOLEAN
  BY <1>1 DEF SyncShape
<1>3. /\ tasks' = [tasks EXCEPT ![t] = rec]
      /\ net' = IF link = "off" THEN net ELSE Append(net, e)
  BY DEF Write
<1>4. tasks' \in Board /\ tasks'[t] = rec /\ \A u : u # t => tasks'[u] = tasks[u]
  <2>1. tasks' \in Board /\ tasks'[t] = rec
    BY <1>2, <1>3 DEF Board
  <2>2. ASSUME NEW u, u # t PROVE tasks'[u] = tasks[u]
    BY <1>2, <1>3, <2>2 DEF Board
  <2> QED BY <2>1, <2>2
<1>5. born \subseteq born' /\ t \in born' /\ born' \subseteq born \cup {t}
  BY DEF Wrote
<1>6. born' \subseteq Tasks /\ \A u \in Tasks \ born' : tasks'[u] = Gone
  BY <1>2, <1>4, <1>5
<1>7. lost' \in BOOLEAN /\ raced' \in BOOLEAN
  <2>1. (lost' <=> lost \/ link = "off") /\ (raced' <=> raced \/ Overtakes(t)) /\ lost' = (lost \/ link = "off") /\ raced' = (raced \/ Overtakes(t))
    BY DEF Write
  <2>2. (lost \/ link = "off") \in BOOLEAN /\ (raced \/ Overtakes(t)) \in BOOLEAN
    OBVIOUS
  <2> QED BY <2>1, <2>2, Zenon
<1>8. CASE link = "off"
  <2>1. net' = << >>
    BY <1>2, <1>3, <1>8
  <2>2. net' \in Seq(Events)
    BY <1>2, <1>3, <1>8
  <2>3. EventsTrue'
    <3>1. DOMAIN net' = {}
      BY <2>1
    <3> QED BY <3>1 DEF EventsTrue
  <2> QED BY <1>4, <1>6, <1>7, <2>1, <2>2, <2>3
<1>9. CASE link # "off"
  <2>1. net' = Append(net, e)
    BY <1>3, <1>9
  <2>2. net' \in Seq(Events)
    BY <1>1, <2>1, Announced
  <2>3. /\ e.task = t /\ (e.type = "deleted" => rec = Gone)
        /\ e.type = "moved" /\ rec # Gone => e.pos = rec.pos
        /\ rec = Gone \/ t \notin born \/ tasks[t] # Gone
        /\ rec = Gone \/ t \notin born \/ e.type = "moved" \/ rec.pos = tasks[t].pos
    BY DEF Wrote
  <2>4. EventsTrue'
    BY <1>3, <1>5, <2>1, <2>3, EventsMore
  <2> QED BY <1>4, <1>6, <1>7, <1>9, <2>2, <2>4
<1> QED BY <1>8, <1>9

(* What a row shows is explained as before the write, or by its event,     *)
(* unless the event is missed.                                             *)
LEMMA WriteTold ==
    ASSUME SyncInv, NEW t \in Tasks, NEW rec \in ServerRec \cup {Gone}, NEW e \in Events,
           Write(t, rec, e), Wrote(t, rec, e), UNCHANGED <<link, timers, asked, answers, drains>>,
           \A u, but : Moving(u, but) => Moving(u, but)', ~lost'
    PROVE  \A u \in Tasks : \A v, but : Fits(v, u, but) => Fits(v, u, but)'
<1>1. SyncShape /\ EventsTrue
  BY DEF SyncInv
<1>2. link # "off" /\ net' = Append(net, e)
  BY DEF Write
<1>3. \A u, k : Told(u, k)' <=> Told(u, k) \/ (e.task = u /\ e.type \in k)
  BY <1>1, <1>2, ToldMore
<1>4. tasks'[t] = rec /\ \A u : u # t => tasks'[u] = tasks[u]
  BY WriteSets
<1>5. \A u : InPages(u) => InPages(u)'
  BY PagesReach
<1>6. \A u : Coming(u) => Coming(u)'
  BY <1>3 DEF Coming
<1> SUFFICES ASSUME NEW u \in Tasks PROVE \A v, but : Fits(v, u, but) => Fits(v, u, but)'
  OBVIOUS
<1>7. CASE u # t
  <2>1. tasks'[u] = tasks[u]
    BY <1>4, <1>7
  <2>2. \A k \in {"created", "moved", "deleted"} : Told(u, {k}) => Told(u, {k})'
    BY <1>3
  <2> QED BY <1>5, <1>6, <2>1, <2>2, FitsKeep
<1>8. CASE u = t
  <2> SUFFICES ASSUME NEW v, NEW but, Fits(v, t, but) PROVE Fits(v, t, but)'
    BY <1>8
  <2>1. CASE e.type = "created" /\ t \notin born /\ rec # Gone
    <3>1. tasks[t] = Gone
      BY <1>1, <2>1 DEF SyncShape
    <3>2. ~ Told(t, {"deleted"})
      BY <1>1, <2>1 DEF Told, EventsTrue
    <3>3. v = Gone
      BY <3>1, <3>2 DEF Fits
    <3>4. Told(t, {"created"})'
      BY <1>3, <2>1 DEF Wrote
    <3> QED BY <1>4, <2>1, <3>3, <3>4 DEF Fits
  <2>2. CASE e.type = "updated" /\ rec # Gone
    <3>1. Told(t, {"updated"})'
      BY <1>3, <2>2 DEF Wrote
    <3> QED BY <1>4, <2>2, <3>1 DEF Fits, Coming
  <2>3. CASE e.type = "moved" /\ tasks[t] # Gone /\ rec # Gone /\ rec.body = tasks[t].body
    <3>1. Told(t, {"moved"})'
      BY <1>3, <2>3 DEF Wrote
    <3>2. Told(t, {"created"}) => Told(t, {"created"})'
      BY <1>3
    <3> QED BY <1>4, <1>5, <1>6, <2>3, <3>1, <3>2 DEF Fits
  <2>4. CASE e.type = "deleted" /\ rec = Gone
    <3>1. Told(t, {"deleted"})'
      BY <1>3, <2>4 DEF Wrote
    <3> QED BY <1>4, <2>4, <3>1 DEF Fits
  <2> QED BY <2>1, <2>2, <2>3, <2>4 DEF Wrote
<1> QED BY <1>7, <1>8

(* Unless the write overtakes an answer, the answers stay true.            *)
LEMMA WriteLate ==
    ASSUME SyncInv, NEW t \in Tasks, NEW rec \in ServerRec \cup {Gone}, NEW e \in Events,
           Write(t, rec, e), Wrote(t, rec, e), UNCHANGED <<link, answers, drains>>,
           ~raced',
           \A g \in 1 .. MaxMoves : moves'[g].pc = "answered" =>
              moves'[g] = moves[g] \/ (moves'[g].task = t /\ moves'[g].rec = rec)
    PROVE  AnswersTrue'
<1>1. ~raced /\ ~Overtakes(t)
  BY DEF Write
<1>2. AnswersTrue
  BY <1>1 DEF SyncInv
<1>3. tasks'[t] = rec /\ \A u : u # t => tasks'[u] = tasks[u]
  BY WriteSets
<1>4. \A a \in answers' : a.rec = tasks'[a.task]
  BY <1>1, <1>2, <1>3 DEF AnswersTrue, Overtakes
<1>5. \A g \in 1 .. MaxMoves : moves'[g].pc = "answered" => moves'[g].rec = tasks'[moves'[g].task]
  BY <1>1, <1>2, <1>3 DEF AnswersTrue, Overtakes
<1>6. \A d \in Drain : PageTrue(d)'
  BY <1>1 DEF PageTrue, Overtakes
<1> QED BY <1>4, <1>5, <1>6 DEF AnswersTrue

(* A write keeps the invariant, a remote one or a move's.                  *)
LEMMA WriteKeeps ==
    ASSUME SyncInv, NEW t \in Tasks, NEW rec \in ServerRec \cup {Gone}, NEW e \in Events,
           Write(t, rec, e), Wrote(t, rec, e), MovesShape',
           UNCHANGED <<view, link, timers, asked, answers, drains, loading, rs, generation, skipped>>,
           drops' \in 0 .. MaxDrops, failures' \in 0 .. MaxFailures,
           \A g \in 1 .. MaxMoves :
              \/ moves'[g] = moves[g]
              \/ /\ moves[g].pc = "sent" /\ moves'[g].pc \in {"answered", "failed"}
                 /\ moves'[g].task = moves[g].task /\ moves'[g].snap = moves[g].snap
                 /\ moves'[g].pc = "answered" => moves'[g].task = t /\ moves'[g].rec = rec
    PROVE  SyncInv'
<1>1. SyncShape /\ RefsFit /\ MovesShape /\ (\A d \in Drain : PageEnds(d))
  BY DEF SyncInv
<1>2. /\ tasks' \in Board /\ born' \subseteq Tasks /\ \A u \in Tasks \ born' : tasks'[u] = Gone
      /\ net' \in Seq(Events) /\ (link' = "off" => net' = << >>)
      /\ EventsTrue' /\ lost' \in BOOLEAN /\ raced' \in BOOLEAN
  BY WriteSets
<1>3. SyncShape'
  BY <1>1, <1>2 DEF SyncShape
<1>4. lost => lost'
  BY DEF Write
<1>5. RefsFit'
  BY <1>1, <1>4 DEF RefsFit
<1>6. \A d \in Drain : PageEnds(d)'
  BY <1>1, PagesStay
<1>7. ASSUME ~raced' PROVE AnswersTrue' /\ Chased' /\ Explained'
  <2>1. ~raced
    BY <1>7 DEF Write
  <2>2. Chased /\ Explained
    BY <2>1 DEF SyncInv
  <2>3. AnswersTrue'
    BY <1>7, WriteLate
  <2>4. Chased'
    <3>1. lost' => lost \/ link = "off"
      BY DEF Write
    <3> QED BY <2>2, <3>1 DEF Chased, FirstAsked
  <2>5. \A u, but : Moving(u, but) => Moving(u, but)'
    <3>1. \A g \in 1 .. MaxMoves : moves[g].pc \in Pending => moves'[g].pc \in Pending /\ moves'[g].task = moves[g].task
      BY DEF Pending
    <3> QED BY <3>1 DEF Moving
  <2>6. Explained'
    <3>1. ASSUME ~lost' PROVE \A u \in Tasks : \A v, but : Fits(v, u, but) => Fits(v, u, but)'
      BY <2>5, <3>1, WriteTold
    <3>2. CASE lost'
      BY <3>2 DEF Explained
    <3>3. CASE ~lost'
      <4>1. Renewed' <=> Renewed
        BY PagesReach
      <4>2. \A g \in 1 .. MaxMoves : g = generation' /\ moves'[g].pc \in {"sent", "failed"} =>
              /\ g = generation /\ moves[g].pc \in {"sent", "failed"}
              /\ moves'[g].task = moves[g].task /\ moves'[g].snap = moves[g].snap
        OBVIOUS
      <4>3. \A u \in Tasks : view'[u] = view[u] /\ \A v, but : Fits(v, u, but) => Fits(v, u, but)'
        BY <3>1, <3>3
      <4> QED BY <1>1, <1>4, <2>2, <4>1, <4>2, <4>3, Carried
    <3> QED BY <3>2, <3>3
  <2> QED BY <2>3, <2>4, <2>6
<1> QED BY <1>2, <1>3, <1>5, <1>6, <1>7 DEF SyncInv

(* Another user's create, update, move or delete keeps the invariant.      *)
LEMMA RemoteWriteKeeps ==
    ASSUME SyncInv, NEW t \in Tasks, RemoteWrite(t)
    PROVE  SyncInv'
<1>1. SyncShape /\ MovesShape
  BY DEF SyncInv
<1>2. /\ WritesLeft > 0
      /\ t \in born => UNCHANGED born
      /\ UNCHANGED <<view, link, drops, failures, timers, asked, answers, drains, loading, rs,
                     moves, generation, skipped>>
  BY DEF RemoteWrite, boundVars, readVars, moveVars
<1>3. PICK n : n = writes + 1
  OBVIOUS
<1>4. writes' = n
  BY <1>3 DEF RemoteWrite, Write
<1>5. MovesShape' /\ n \in 0 .. MaxWrites
  BY <1>1, <1>2, <1>3, <1>4, WriteLeft
<1>6. tasks[t] \in ServerRec \cup {Gone} /\ born \subseteq Tasks /\ (tasks[t] # Gone => t \in born)
  BY <1>1 DEF SyncShape, Board
<1>7. drops' \in 0 .. MaxDrops /\ failures' \in 0 .. MaxFailures
  BY <1>1, <1>2 DEF SyncShape
<1>8. ASSUME NEW rec \in ServerRec \cup {Gone}, NEW e \in Events, Write(t, rec, e), Wrote(t, rec, e)
      PROVE  SyncInv'
  BY <1>2, <1>5, <1>7, <1>8, WriteKeeps
<1>9. CASE /\ t \notin born /\ born' = born \cup {t}
           /\ Write(t, [pos |-> n, body |-> n], [type |-> "created", task |-> t])
  <2>1. PICK rec : rec = [pos |-> n, body |-> n]
    OBVIOUS
  <2>2. rec \in ServerRec /\ rec # Gone
    BY <1>5, <2>1 DEF ServerRec, Gone
  <2>3. PICK e : e = [type |-> "created", task |-> t]
    OBVIOUS
  <2>4. e \in Events /\ e.type = "created" /\ e.task = t
    BY <2>3 DEF Events
  <2>5. Write(t, rec, e)
    BY <1>9, <2>1, <2>3
  <2>6. Wrote(t, rec, e)
    BY <1>9, <2>2, <2>4 DEF Wrote
  <2> QED BY <1>8, <2>2, <2>4, <2>5, <2>6
<1>10. CASE tasks[t] # Gone /\ Write(t, [tasks[t] EXCEPT !.body = n], [type |-> "updated", task |-> t])
  <2>1. PICK rec : rec = [tasks[t] EXCEPT !.body = n]
    OBVIOUS
  <2>2. rec \in ServerRec /\ rec # Gone /\ rec.pos = tasks[t].pos
    BY <1>5, <1>6, <1>10, <2>1 DEF ServerRec, Gone
  <2>3. PICK e : e = [type |-> "updated", task |-> t]
    OBVIOUS
  <2>4. e \in Events /\ e.type = "updated" /\ e.task = t
    BY <2>3 DEF Events
  <2>5. Write(t, rec, e)
    BY <1>10, <2>1, <2>3
  <2>6. Wrote(t, rec, e)
    BY <1>2, <1>6, <1>10, <2>2, <2>4 DEF Wrote
  <2> QED BY <1>8, <2>2, <2>4, <2>5, <2>6
<1>11. ASSUME NEW mine \in BOOLEAN, tasks[t] # Gone,
              Write(t, [tasks[t] EXCEPT !.pos = n], [type |-> "moved", task |-> t, pos |-> n, own |-> mine])
       PROVE  SyncInv'
  <2>1. PICK rec : rec = [tasks[t] EXCEPT !.pos = n]
    OBVIOUS
  <2>2. rec \in ServerRec /\ rec # Gone /\ rec.pos = n /\ rec.body = tasks[t].body
    BY <1>5, <1>6, <1>11, <2>1 DEF ServerRec, Gone
  <2>3. PICK e : e = [type |-> "moved", task |-> t, pos |-> n, own |-> mine]
    OBVIOUS
  <2>4. e \in Events /\ e.type = "moved" /\ e.task = t /\ e.pos = n
    BY <1>5, <2>3 DEF Events
  <2>5. Write(t, rec, e)
    BY <1>11, <2>1, <2>3
  <2>6. Wrote(t, rec, e)
    BY <1>2, <1>6, <1>11, <2>2, <2>4 DEF Wrote
  <2> QED BY <1>8, <2>2, <2>4, <2>5, <2>6
<1>12. CASE tasks[t] # Gone /\ Write(t, Gone, [type |-> "deleted", task |-> t])
  <2>1. PICK e : e = [type |-> "deleted", task |-> t]
    OBVIOUS
  <2>2. e \in Events /\ e.type = "deleted" /\ e.task = t
    BY <2>1 DEF Events
  <2>3. Write(t, Gone, e)
    BY <1>12, <2>1
  <2>4. Wrote(t, Gone, e)
    BY <1>2, <1>6, <1>12, <2>2 DEF Wrote
  <2> QED BY <1>8, <2>2, <2>3, <2>4
<1> QED BY <1>3, <1>9, <1>10, <1>11, <1>12 DEF RemoteWrite

(* A move that commits keeps it, whether or not its answer arrives.        *)
LEMMA MoveCommitsKeeps ==
    ASSUME SyncInv, NEW g \in 1 .. MaxMoves, MoveCommits(g)
    PROVE  SyncInv'
<1>1. SyncShape /\ MovesShape
  BY DEF SyncInv
<1>2. PICK n : n = writes + 1
  OBVIOUS
<1>3. PICK t \in Tasks : t = moves[g].task
  BY <1>1 DEF MovesShape, Pending, MoveCommits
<1>4. PICK rec : rec = [tasks[t] EXCEPT !.pos = n]
  OBVIOUS
<1>5. PICK e : e = [type |-> "moved", task |-> t, pos |-> n, own |-> TRUE]
  OBVIOUS
<1>6. /\ moves[g].pc = "sent" /\ tasks[t] # Gone /\ Write(t, rec, e)
      /\ \/ moves' = [moves EXCEPT ![g].pc = "answered", ![g].rec = rec] /\ UNCHANGED <<drops, failures>>
         \/ Fails /\ moves' = [moves EXCEPT ![g].pc = "failed"]
      /\ UNCHANGED <<born, view, link, timers, asked, answers, drains, loading, rs, generation, skipped>>
  BY <1>2, <1>3, <1>4, <1>5 DEF MoveCommits, boundVars, readVars
<1>7. n \in 0 .. MaxWrites /\ writes' = writes + 1
  BY <1>1, <1>2, <1>6, MoveLeft DEF Write
<1>8. tasks[t] \in ServerRec \cup {Gone} /\ (tasks[t] # Gone => t \in born)
  BY <1>1 DEF SyncShape, Board
<1>9. rec \in ServerRec /\ rec # Gone /\ rec.pos = n /\ rec.body = tasks[t].body
  BY <1>4, <1>6, <1>7, <1>8 DEF ServerRec, Gone
<1>10. e \in Events /\ e.type = "moved" /\ e.task = t /\ e.pos = n
  BY <1>5, <1>7 DEF Events
<1>11. Wrote(t, rec, e)
  BY <1>6, <1>8, <1>9, <1>10 DEF Wrote
<1>12. moves[g] \in Moves /\ generation \in 0 .. MaxMoves /\ MaxMoves \in Nat /\ g <= generation
  BY <1>1, <1>6, SyncAssumption DEF MovesShape
<1>13. drops' \in 0 .. MaxDrops /\ failures' \in 0 .. MaxFailures
  BY <1>1, <1>6, SyncAssumption DEF SyncShape, Fails
<1>14. ASSUME NEW m \in Moves, moves' = [moves EXCEPT ![g] = m], m.pc \in {"answered", "failed"},
              m.task = moves[g].task, m.snap = moves[g].snap, m.pc = "answered" => m.rec = rec
       PROVE  SyncInv'
  <2>1. m.pc # "sent" /\ (m.pc \in Pending => m.task \in Tasks)
    BY <1>3, <1>14
  <2>2. generation' \in 0 .. MaxMoves /\ generation' >= generation /\ g <= generation'
    BY <1>6, <1>12
  <2>3. MovesShape' /\ MovesBut(g, m)
    BY <1>1, <1>6, <1>7, <1>14, <2>1, <2>2, MoveSet
  <2>4. \A h \in 1 .. MaxMoves :
           \/ moves'[h] = moves[h]
           \/ /\ moves[h].pc = "sent" /\ moves'[h].pc \in {"answered", "failed"}
              /\ moves'[h].task = moves[h].task /\ moves'[h].snap = moves[h].snap
              /\ moves'[h].pc = "answered" => moves'[h].task = t /\ moves'[h].rec = rec
    BY <1>3, <1>6, <1>14, <2>3 DEF MovesBut
  <2>5. rec \in ServerRec \cup {Gone}
    BY <1>9
  <2> QED BY <1>6, <1>10, <1>11, <1>13, <2>3, <2>4, <2>5, WriteKeeps
<1>15. CASE moves' = [moves EXCEPT ![g].pc = "answered", ![g].rec = rec]
  <2>1. PICK m : m = [moves[g] EXCEPT !.pc = "answered", !.rec = rec]
    OBVIOUS
  <2>2. /\ m \in Moves /\ m.pc = "answered" /\ m.task = moves[g].task
        /\ m.snap = moves[g].snap /\ m.rec = rec
    BY <1>9, <1>12, <2>1 DEF Moves
  <2>3. moves' = [moves EXCEPT ![g] = m]
    BY <1>1, <1>15, <2>1 DEF MovesShape
  <2> QED BY <1>14, <2>2, <2>3
<1>16. CASE moves' = [moves EXCEPT ![g].pc = "failed"]
  <2>1. PICK m : m = [moves[g] EXCEPT !.pc = "failed"]
    OBVIOUS
  <2>2. /\ m \in Moves /\ m.pc = "failed" /\ m.task = moves[g].task
        /\ m.snap = moves[g].snap
    BY <1>12, <2>1 DEF Moves
  <2>3. moves' = [moves EXCEPT ![g] = m]
    BY <1>1, <1>16, <2>1 DEF MovesShape
  <2> QED BY <1>14, <2>2, <2>3
<1> QED BY <1>6, <1>15, <1>16

-----------------------------------------------------------------------------
(* The connection and its events.                                          *)

(* A join starts with nothing but its ack on the way.                      *)
LEMMA JoinKeeps ==
    ASSUME SyncInv, Join
    PROVE  SyncInv'
<1>1. SyncShape /\ MovesShape /\ RefsFit /\ (\A d \in Drain : PageEnds(d))
  BY DEF SyncInv
<1>2. /\ link = "off" /\ ~loading /\ link' = "room" /\ net = << >>
      /\ UNCHANGED <<tasks, born, writes, view, drops, failures, timers, asked, answers, drains,
                     loading, rs, moves, generation, lost, skipped, raced>>
  BY <1>1 DEF Join, serverVars, boundVars, readVars, moveVars, SyncShape
<1>3. PICK e : e = [type |-> "ack", task |-> 0]
  OBVIOUS
<1>4. e \in Events /\ e.type = "ack" /\ net' = <<e>>
  BY <1>3 DEF Events, Join
<1>5. net' \in Seq(Events) /\ DOMAIN net' = {1} /\ net'[1] = e
  BY <1>4
<1>6. SyncShape'
  BY <1>1, <1>2, <1>5 DEF SyncShape
<1>7. EventsTrue'
  BY <1>4, <1>5 DEF EventsTrue
<1>8. RefsFit'
  BY <1>1, <1>2 DEF RefsFit
<1>9. MovesShape' /\ \A d \in Drain : PageEnds(d)'
  BY <1>1, <1>2, MovesStay, PagesStay
<1>10. ASSUME ~raced' PROVE AnswersTrue' /\ Chased' /\ Explained'
  <2>1. AnswersTrue /\ Chased /\ Explained
    BY <1>2, <1>10 DEF SyncInv
  <2>2. Chased'
    BY <1>2 DEF Chased
  <2>3. \A t, k : ~ Told(t, k)
    BY <1>2 DEF Told
  <2>4. \A t : Coming(t) => Coming(t)'
    BY <1>2, <2>3 DEF Coming
  <2>5. (Renewed' <=> Renewed) /\ \A t : InPages(t) => InPages(t)'
    BY <1>2, PagesReach
  <2>6. \A t, but : Moving(t, but) => Moving(t, but)'
    BY <1>2, MovingStays
  <2>7. ASSUME NEW t \in Tasks
        PROVE  view'[t] = view[t] /\ \A v, but : Fits(v, t, but) => Fits(v, t, but)'
    <3>1. \A k \in {"created", "moved", "deleted"} : Told(t, {k}) => Told(t, {k})'
      BY <2>3
    <3>2. \A v, but : Fits(v, t, but) => Fits(v, t, but)'
      BY <1>2, <2>4, <2>5, <2>6, <3>1, FitsKeep
    <3> QED BY <1>2, <3>2
  <2>8. Explained'
    BY <1>1, <1>2, <2>1, <2>5, <2>7, Carried
  <2> QED BY <1>2, <2>1, <2>2, <2>8, AnswersStay
<1> QED BY <1>6, <1>7, <1>8, <1>9, <1>10 DEF SyncInv

(* What a lost connection had on its way is missed.                        *)
LEMMA DroppedKeeps ==
    ASSUME SyncInv, Dropped
    PROVE  SyncInv'
<1>1. SyncShape /\ MovesShape /\ RefsFit /\ (\A d \in Drain : PageEnds(d))
  BY DEF SyncInv
<1>2. /\ link # "off" /\ link' = "off" /\ net' = << >> /\ drops < MaxDrops /\ drops' = drops + 1
      /\ lost' = (lost \/ \E i \in DOMAIN net : net[i].type # "ack")
      /\ UNCHANGED <<tasks, born, writes, view, failures, timers, asked, answers, drains,
                     loading, rs, moves, generation, skipped, raced>>
  BY DEF Dropped, serverVars, readVars, moveVars
<1>3. net' \in Seq(Events) /\ DOMAIN net' = {}
  BY <1>2
<1>4. lost' \in BOOLEAN
  <2>1. (lost \/ \E i \in DOMAIN net : net[i].type # "ack") \in BOOLEAN
    OBVIOUS
  <2> QED BY <1>2, <2>1, Zenon
<1>5. drops' \in 0 .. MaxDrops
  BY <1>1, <1>2, SyncAssumption DEF SyncShape
<1>6. SyncShape'
  BY <1>1, <1>2, <1>3, <1>4, <1>5 DEF SyncShape
<1>7. EventsTrue'
  BY <1>3 DEF EventsTrue
<1>8. RefsFit'
  BY <1>1, <1>2 DEF RefsFit
<1>9. MovesShape' /\ \A d \in Drain : PageEnds(d)'
  BY <1>1, <1>2, MovesStay, PagesStay
<1>10. ASSUME ~raced' PROVE AnswersTrue' /\ Chased' /\ Explained'
  <2>1. AnswersTrue /\ Chased /\ Explained
    BY <1>2, <1>10 DEF SyncInv
  <2>2. Chased'
    BY <1>2 DEF Chased
  <2>3. CASE lost'
    BY <1>2, <2>1, <2>2, <2>3, AnswersStay DEF Explained
  <2>4. CASE ~lost'
    <3>1. \A i \in DOMAIN net : net[i].type = "ack"
      BY <1>2, <2>4
    <3>2. \A t : \A k \in {"created", "updated", "moved", "deleted"} : ~ Told(t, {k})
      BY <3>1 DEF Told
    <3>3. \A t : Coming(t) => Coming(t)'
      BY <1>2, <3>2 DEF Coming
    <3>4. (Renewed' <=> Renewed) /\ \A t : InPages(t) => InPages(t)'
      BY <1>2, PagesReach
    <3>5. \A t, but : Moving(t, but) => Moving(t, but)'
      BY <1>2, MovingStays
    <3>6. ASSUME NEW t \in Tasks
          PROVE  view'[t] = view[t] /\ \A v, but : Fits(v, t, but) => Fits(v, t, but)'
      <4>1. \A k \in {"created", "moved", "deleted"} : Told(t, {k}) => Told(t, {k})'
        BY <3>2
      <4>2. \A v, but : Fits(v, t, but) => Fits(v, t, but)'
        BY <1>2, <3>3, <3>4, <3>5, <4>1, FitsKeep
      <4> QED BY <1>2, <4>2
    <3>7. ~lost' /\ ~Renewed' => ~lost /\ ~Renewed
      BY <1>2, <3>4
    <3>8. Explained'
      BY <1>1, <1>2, <2>1, <3>6, <3>7, Carried
    <3> QED BY <1>2, <2>1, <2>2, <3>8, AnswersStay
  <2> QED BY <2>3, <2>4
<1> QED BY <1>6, <1>7, <1>8, <1>9, <1>10 DEF SyncInv

(* The kinds of event.                                                     *)
LEMMA EventIs ==
    ASSUME NEW e \in Events
    PROVE  \/ e.type = "ack"
           \/ e.type \in {"created", "updated", "deleted"} /\ e.task \in Tasks
           \/ /\ e.type = "moved" /\ e.task \in Tasks
              /\ e.pos \in 0 .. MaxWrites /\ e.own \in BOOLEAN
BY DEF Events

(* The end of the fresh window and a join may ask for a resync: what the   *)
(* request leaves fits, and the events missed are made up for.             *)
LEMMA AckKeeps ==
    ASSUME SyncInv, HandleEvent, Head(net).type = "ack"
    PROVE  SyncInv'
<1>1. SyncShape /\ MovesShape /\ RefsFit /\ (\A d \in Drain : PageEnds(d))
  BY DEF SyncInv
<1>2. PICK e : e = Head(net)
  OBVIOUS
<1>3. /\ net # << >> /\ net' = Tail(net) /\ link' = "live" /\ rs' = requestResync(rs)
      /\ skipped' = (skipped \/ (lost /\ rs.fresh))
      /\ UNCHANGED <<tasks, born, writes, view, drops, failures, timers, asked, answers, drains,
                     loading, moves, generation, lost, raced>>
  BY DEF HandleEvent, serverVars, boundVars, moveVars
<1>4. /\ rs' \in Refs /\ (rs'.fresh <=> rs.fresh) /\ (rs'.running <=> rs.running)
      /\ rs'.queued <=> rs.queued \/ (~ rs.fresh /\ rs.running)
      /\ rs'.timer <=> rs.timer \/ (~ rs.fresh /\ ~ rs.running)
  <2>1. rs \in Refs
    BY <1>1 DEF SyncShape, Refs
  <2> QED BY <1>3, <2>1, RequestIs
<1>5. link # "off" /\ ~loading
  BY <1>1, <1>3 DEF SyncShape, RefsFit
<1>6. skipped' \in BOOLEAN
  <2>1. (skipped \/ (lost /\ rs.fresh)) \in BOOLEAN
    OBVIOUS
  <2> QED BY <1>3, <2>1, Zenon
<1>7. net' \in Seq(Events)
  BY <1>1, <1>3, Arrived
<1>8. SyncShape'
  BY <1>1, <1>3, <1>4, <1>6, <1>7 DEF SyncShape, Refs
<1>9. EventsTrue'
  BY <1>3, EventsLess
<1>10. RefsFit'
  BY <1>1, <1>3, <1>4, <1>5 DEF RefsFit
<1>11. MovesShape' /\ \A d \in Drain : PageEnds(d)'
  BY <1>1, <1>3, MovesStay, PagesStay
<1>12. ASSUME ~raced' PROVE AnswersTrue' /\ Chased' /\ Explained'
  <2>1. AnswersTrue /\ Chased /\ Explained
    BY <1>3, <1>12 DEF SyncInv
  <2>2. Chased'
    <3> SUFFICES ASSUME lost', ~skipped' PROVE rs'.timer \/ rs'.queued
      BY DEF Chased
    <3>1. lost /\ ~rs.fresh
      BY <1>3
    <3> QED BY <1>4, <3>1
  <2>3. \A t, k : Told(t, k) <=> Told(t, k)' \/ (e.task = t /\ e.type \in k)
    BY <1>1, <1>2, <1>3, ToldLess
  <2>4. \A t : \A k \in {"created", "updated", "moved", "deleted"} : Told(t, {k}) => Told(t, {k})'
    BY <1>2, <2>3
  <2>5. \A t : Coming(t) => Coming(t)'
    BY <1>3, <2>4 DEF Coming
  <2>6. (Renewed' <=> Renewed) /\ \A t : InPages(t) => InPages(t)'
    BY <1>3, PagesReach
  <2>7. \A t, but : Moving(t, but) => Moving(t, but)'
    BY <1>3, MovingStays
  <2>8. ASSUME NEW t \in Tasks
        PROVE  view'[t] = view[t] /\ \A v, but : Fits(v, t, but) => Fits(v, t, but)'
    <3>1. \A k \in {"created", "moved", "deleted"} : Told(t, {k}) => Told(t, {k})'
      BY <2>4
    <3>2. \A v, but : Fits(v, t, but) => Fits(v, t, but)'
      BY <1>3, <2>5, <2>6, <2>7, <3>1, FitsKeep
    <3> QED BY <1>3, <3>2
  <2>9. Explained'
    BY <1>1, <1>3, <2>1, <2>6, <2>8, Carried
  <2> QED BY <1>3, <2>1, <2>2, <2>9, AnswersStay
<1> QED BY <1>8, <1>9, <1>10, <1>11, <1>12 DEF SyncInv

(* A task event keeps the invariant when what the row shows then is        *)
(* explained as before or without the event.                               *)
LEMMA TaskEventKeeps ==
    ASSUME SyncInv, HandleEvent, NEW t \in Tasks, NEW e, e = Head(net), e.task = t, e.type # "ack",
           view' \in Cache, timers' \subseteq Tasks, timers \subseteq timers',
           \A u \in Tasks \ {t} : view'[u] = view[u],
           \/ /\ view'[t] = view[t]
              /\ \A v, but : (v = Gone => view[t] = Gone) /\ Fits(v, t, but) => Fits(v, t, but)'
           \/ view'[t].pos # Guess /\ (~raced /\ ~lost /\ ~Renewed => Fits(view[t], t, 0)')
    PROVE  SyncInv'
<1>1. SyncShape /\ MovesShape /\ RefsFit /\ (\A d \in Drain : PageEnds(d))
  BY DEF SyncInv
<1>2. /\ net # << >> /\ net' = Tail(net)
      /\ UNCHANGED <<tasks, born, writes, drops, failures, asked, answers, drains,
                     loading, moves, generation, lost, raced, link, rs, skipped>>
  BY DEF HandleEvent, serverVars, boundVars, moveVars
<1>3. net' \in Seq(Events) /\ (link' = "off" => net' = << >>)
  BY <1>1, <1>2, Arrived DEF SyncShape
<1>4. SyncShape'
  BY <1>1, <1>2, <1>3 DEF SyncShape
<1>5. EventsTrue'
  BY <1>2, EventsLess
<1>6. RefsFit' /\ MovesShape' /\ \A d \in Drain : PageEnds(d)'
  BY <1>1, <1>2, MovesStay, PagesStay, RefsStay
<1>7. ASSUME ~raced' PROVE AnswersTrue' /\ Chased' /\ Explained'
  <2>1. AnswersTrue /\ Chased /\ Explained
    BY <1>2, <1>7 DEF SyncInv
  <2>2. AnswersTrue' /\ Chased'
    BY <1>2, <2>1, AnswersStay, ChasedStays
  <2>3. \A u, k : Told(u, k) <=> Told(u, k)' \/ (t = u /\ e.type \in k)
    BY <1>1, <1>2, ToldLess
  <2>4. (Renewed' <=> Renewed) /\ \A u : InPages(u) => InPages(u)'
    BY <1>2, PagesReach
  <2>5. \A u, but : Moving(u, but) => Moving(u, but)'
    BY <1>2, MovingStays
  <2>6. CASE lost \/ Renewed
    BY <1>2, <2>2, <2>4, <2>6 DEF Explained
  <2>7. CASE ~lost /\ ~Renewed
    <3>1. ASSUME NEW u \in Tasks
          PROVE  \/ /\ view'[u] = view[u]
                    /\ \A v, but : (v = Gone => view[u] = Gone) /\ Fits(v, u, but) => Fits(v, u, but)'
                 \/ view'[u].pos # Guess /\ Fits(view[u], u, 0)'
      <4>1. CASE u = t
        BY <1>2, <1>7, <2>7, <4>1
      <4>2. CASE u # t
        <5>1. \A k \in {"created", "moved", "deleted"} : Told(u, {k}) => Told(u, {k})'
          BY <2>3, <4>2
        <5>2. Coming(u) => Coming(u)'
          BY <1>2, <2>3, <4>2 DEF Coming
        <5>3. \A v, but : Fits(v, u, but) => Fits(v, u, but)'
          BY <1>2, <2>4, <2>5, <5>1, <5>2, FitsKeep
        <5> QED BY <4>2, <5>3
      <4> QED BY <4>1, <4>2
    <3>2. Explained'
      BY <1>1, <1>2, <2>1, <2>4, <3>1, Carried
    <3> QED BY <2>2, <3>2
  <2> QED BY <2>6, <2>7
<1> QED BY <1>4, <1>5, <1>6, <1>7 DEF SyncInv

(* A created task that is not shown is read.                               *)
LEMMA CreatedKeeps ==
    ASSUME SyncInv, HandleEvent, Head(net).type = "created"
    PROVE  SyncInv'
<1>1. SyncShape
  BY DEF SyncInv
<1>2. PICK e : e = Head(net)
  OBVIOUS
<1>3. /\ net # << >> /\ net' = Tail(net) /\ onTaskCreated(e) /\ e.type = "created"
      /\ UNCHANGED <<tasks, answers, asked, drains, moves>>
  BY <1>2 DEF HandleEvent, serverVars, moveVars
<1>4. PICK t \in Tasks : t = e.task
  BY <1>1, <1>2, <1>3, Arrived, EventIs
<1>5. /\ timers' = timers \cup {u \in {t} : view[u] = Gone}
      /\ UNCHANGED view
  BY <1>3, <1>4 DEF onTaskCreated
<1>6. view' \in Cache /\ timers' \subseteq Tasks /\ timers \subseteq timers'
  BY <1>1, <1>5 DEF SyncShape
<1>7. \A u, k : Told(u, k) <=> Told(u, k)' \/ (e.task = u /\ e.type \in k)
  BY <1>1, <1>2, <1>3, ToldLess
<1>8. (\A u : InPages(u) => InPages(u)') /\ \A u, but : Moving(u, but) => Moving(u, but)'
  BY <1>3, PagesReach, MovingStays
<1>9. \A k \in {"updated", "moved", "deleted"} : Told(t, {k}) => Told(t, {k})'
  BY <1>3, <1>7
<1>10. Coming(t) => Coming(t)'
  BY <1>3, <1>6, <1>9 DEF Coming
<1>11. ASSUME NEW v, NEW but, v = Gone => view[t] = Gone, Fits(v, t, but) PROVE Fits(v, t, but)'
  <2>1. CASE view[t] = Gone
    <3>1. Coming(t)'
      BY <1>5, <2>1 DEF Coming
    <3> QED BY <1>3, <1>9, <1>11, <3>1 DEF Fits
  <2>2. CASE view[t] # Gone
    <3>1. v # Gone
      BY <1>11, <2>2
    <3> QED BY <1>3, <1>8, <1>9, <1>10, <1>11, <3>1 DEF Fits
  <2> QED BY <2>1, <2>2
<1>12. \A v, but : (v = Gone => view[t] = Gone) /\ Fits(v, t, but) => Fits(v, t, but)'
  BY <1>11
<1>13. \A u \in Tasks \ {t} : view'[u] = view[u]
  BY <1>5
<1>14. view'[t] = view[t] /\ e.type # "ack" /\ e.task = t
  BY <1>3, <1>4, <1>5
<1> QED BY <1>2, <1>6, <1>12, <1>13, <1>14, TaskEventKeeps

(* An updated task is read.                                                *)
LEMMA UpdatedKeeps ==
    ASSUME SyncInv, HandleEvent, Head(net).type = "updated"
    PROVE  SyncInv'
<1>1. SyncShape
  BY DEF SyncInv
<1>2. PICK e : e = Head(net)
  OBVIOUS
<1>3. /\ net # << >> /\ net' = Tail(net) /\ onTaskUpdated(e) /\ e.type = "updated"
      /\ UNCHANGED tasks
  BY <1>2 DEF HandleEvent, serverVars
<1>4. PICK t \in Tasks : t = e.task
  BY <1>1, <1>2, <1>3, Arrived, EventIs
<1>5. timers' = timers \cup {t} /\ UNCHANGED view
  BY <1>3, <1>4 DEF onTaskUpdated
<1>6. view' \in Cache /\ timers' \subseteq Tasks /\ timers \subseteq timers'
  BY <1>1, <1>5 DEF SyncShape
<1>7. \A u, k : Told(u, k) <=> Told(u, k)' \/ (e.task = u /\ e.type \in k)
  BY <1>1, <1>2, <1>3, ToldLess
<1>8. Told(t, {"deleted"}) => Told(t, {"deleted"})'
  BY <1>3, <1>7
<1>9. Coming(t)'
  BY <1>5 DEF Coming
<1>10. \A v, but : (v = Gone => view[t] = Gone) /\ Fits(v, t, but) => Fits(v, t, but)'
  BY <1>3, <1>8, <1>9 DEF Fits
<1>11. \A u \in Tasks \ {t} : view'[u] = view[u]
  BY <1>5
<1>12. view'[t] = view[t] /\ e.type # "ack" /\ e.task = t
  BY <1>3, <1>4, <1>5
<1> QED BY <1>2, <1>6, <1>10, <1>11, <1>12, TaskEventKeeps

(* A moved task is put at its place, or a later move will put it there.    *)
LEMMA MovedKeeps ==
    ASSUME SyncInv, HandleEvent, Head(net).type = "moved"
    PROVE  SyncInv'
<1>1. SyncShape
  BY DEF SyncInv
<1>2. PICK e : e = Head(net)
  OBVIOUS
<1>3. /\ net # << >> /\ net' = Tail(net) /\ onTaskMoved(e) /\ e.type = "moved"
      /\ UNCHANGED <<tasks, answers, asked, drains, moves>>
  BY <1>2 DEF HandleEvent, serverVars, moveVars
<1>4. PICK t \in Tasks : t = e.task /\ e.pos \in 0 .. MaxWrites
  BY <1>1, <1>2, <1>3, Arrived, EventIs
<1>5. view \in Cache /\ MaxWrites \in Nat
  BY <1>1, SyncAssumption DEF SyncShape
<1>6. PICK w : w = IF view[t] = Gone THEN Gone ELSE [view[t] EXCEPT !.pos = e.pos]
  OBVIOUS
<1>7. /\ w \in Rec \cup {Gone} /\ w.pos # Guess
      /\ view[t] = Gone => w = Gone
      /\ view[t] # Gone => w # Gone /\ w.pos = e.pos /\ w.body = view[t].body
  <2>1. view[t] \in Rec \cup {Gone}
    BY <1>5 DEF Cache
  <2> QED BY <1>4, <1>5, <1>6, <2>1 DEF Rec, Gone, Guess
<1>8. /\ view' = [view EXCEPT ![t] = w]
      /\ timers' = timers \cup {u \in {t} : ~ e.own /\ view[u] = Gone}
  BY <1>3, <1>4, <1>5, <1>6 DEF onTaskMoved, Cache
<1>9. view' \in Cache /\ view'[t] = w /\ \A u \in Tasks \ {t} : view'[u] = view[u]
  BY <1>5, <1>7, <1>8 DEF Cache
<1>10. timers' \subseteq Tasks /\ timers \subseteq timers'
  BY <1>1, <1>8 DEF SyncShape
<1>11. \A u, k : Told(u, k) <=> Told(u, k)' \/ (e.task = u /\ e.type \in k)
  BY <1>1, <1>2, <1>3, ToldLess
<1>12. \A k \in {"created", "updated", "deleted"} : Told(t, {k}) => Told(t, {k})'
  BY <1>3, <1>11
<1>13. Coming(t) => Coming(t)'
  BY <1>3, <1>10, <1>12 DEF Coming
<1>14. InPages(t) => InPages(t)'
  BY <1>3, PagesReach
<1>15. Told(t, {"moved"})' \/ tasks[t] = Gone \/ e.pos = tasks[t].pos
  BY <1>2, <1>3, <1>4, LastMoveTells
<1>16. ASSUME ~raced, ~lost, ~Renewed PROVE Fits(view[t], t, 0)'
  <2>1. Fits(view[t], t, 0)
    BY <1>16 DEF SyncInv, Explained
  <2>2. CASE view[t] = Gone
    BY <1>3, <1>7, <1>9, <1>12, <1>13, <1>14, <2>1, <2>2 DEF Fits
  <2>3. CASE view[t] # Gone
    BY <1>3, <1>7, <1>9, <1>12, <1>13, <1>15, <2>1, <2>3 DEF Fits
  <2> QED BY <2>2, <2>3
<1>17. view'[t].pos # Guess /\ e.type # "ack" /\ e.task = t
  BY <1>3, <1>4, <1>7, <1>9
<1> QED BY <1>2, <1>9, <1>10, <1>16, <1>17, TaskEventKeeps

(* A deleted task is no longer shown.                                      *)
LEMMA DeletedKeeps ==
    ASSUME SyncInv, HandleEvent, Head(net).type = "deleted"
    PROVE  SyncInv'
<1>1. SyncShape /\ EventsTrue
  BY DEF SyncInv
<1>2. PICK e : e = Head(net)
  OBVIOUS
<1>3. /\ net # << >> /\ net' = Tail(net) /\ onTaskDeleted(e) /\ e.type = "deleted"
      /\ UNCHANGED tasks
  BY <1>2 DEF HandleEvent, serverVars
<1>4. PICK t \in Tasks : t = e.task
  BY <1>1, <1>2, <1>3, Arrived, EventIs
<1>5. view \in Cache /\ view' = [view EXCEPT ![t] = Gone] /\ UNCHANGED timers
  BY <1>1, <1>3, <1>4 DEF SyncShape, onTaskDeleted
<1>6. view' \in Cache /\ view'[t] = Gone /\ \A u \in Tasks \ {t} : view'[u] = view[u]
  BY <1>5 DEF Cache
<1>7. timers' \subseteq Tasks /\ timers \subseteq timers'
  BY <1>1, <1>5 DEF SyncShape
<1>8. tasks[t] = Gone
  <2>1. 1 \in DOMAIN net /\ net[1] = e
    BY <1>1, <1>2, <1>3, Arrived
  <2> QED BY <1>1, <1>3, <1>4, <2>1 DEF EventsTrue
<1>9. Fits(view[t], t, 0)'
  BY <1>3, <1>6, <1>8 DEF Fits
<1>10. view'[t].pos # Guess /\ e.type # "ack" /\ e.task = t
  <2>1. MaxWrites \in Nat
    BY SyncAssumption
  <2> QED BY <1>3, <1>4, <1>6, <2>1 DEF Gone, Guess
<1> QED BY <1>2, <1>6, <1>7, <1>9, <1>10, TaskEventKeeps

(* Every event keeps the invariant.                                        *)
LEMMA HandleEventKeeps ==
    ASSUME SyncInv, HandleEvent
    PROVE  SyncInv'
<1>1. Head(net).type \in {"ack", "created", "updated", "moved", "deleted"}
  BY DEF HandleEvent
<1> QED BY <1>1, AckKeeps, CreatedKeeps, UpdatedKeeps, MovedKeeps, DeletedKeeps

-----------------------------------------------------------------------------
(* The reads of a task.                                                    *)

(* A step that changes only the reads under way keeps the invariant when   *)
(* whatever they explained still is.                                       *)
LEMMA ReadsKeep ==
    ASSUME SyncInv, NEW t \in Tasks,
           UNCHANGED <<tasks, born, writes, view, link, net, drains, loading, rs, moves, generation,
                       lost, skipped, drops>>,
           failures' \in 0 .. MaxFailures, raced' \in BOOLEAN,
           timers' \subseteq Tasks, asked' \in [Tasks -> Nat],
           answers' \subseteq [task : Tasks, rec : ServerRec],
           ~raced' => ~raced /\ \A a \in answers' : a.rec = tasks[a.task],
           ~raced' /\ tasks[t] # Gone /\ Coming(t) => Coming(t)',
           \A u \in Tasks \ {t} : Coming(u) => Coming(u)'
    PROVE  SyncInv'
<1>1. SyncShape /\ MovesShape /\ EventsTrue /\ RefsFit /\ (\A d \in Drain : PageEnds(d))
  BY DEF SyncInv
<1>2. SyncShape'
  BY <1>1 DEF SyncShape
<1>3. MovesShape' /\ EventsTrue' /\ RefsFit' /\ \A d \in Drain : PageEnds(d)'
  BY <1>1, MovesStay, EventsStay, RefsStay, PagesStay
<1>4. ASSUME ~raced' PROVE AnswersTrue' /\ Chased' /\ Explained'
  <2>1. AnswersTrue /\ Chased /\ Explained
    BY <1>4 DEF SyncInv
  <2>2. Chased'
    BY <2>1, ChasedStays
  <2>3. AnswersTrue'
    <3>1. \A a \in answers' : a.rec = tasks'[a.task]
      BY <1>4
    <3>2. \A g \in 1 .. MaxMoves : moves'[g].pc = "answered" => moves'[g].rec = tasks'[moves'[g].task]
      BY <2>1 DEF AnswersTrue
    <3>3. \A d \in Drain : PageTrue(d)'
      BY <2>1 DEF AnswersTrue, PageTrue, Beyond
    <3> QED BY <3>1, <3>2, <3>3 DEF AnswersTrue
  <2>4. \A u, k : Told(u, k) => Told(u, k)'
    BY ToldStays
  <2>5. (Renewed' <=> Renewed) /\ \A u : InPages(u) => InPages(u)'
    BY PagesReach
  <2>6. \A u, but : Moving(u, but) => Moving(u, but)'
    BY MovingStays
  <2>7. ASSUME NEW u \in Tasks
        PROVE  view'[u] = view[u] /\ \A v, but : Fits(v, u, but) => Fits(v, u, but)'
    <3>1. tasks[u] # Gone /\ Coming(u) => Coming(u)'
      BY <1>4
    <3>2. tasks'[u] = tasks[u] /\ \A k \in {"created", "moved", "deleted"} : Told(u, {k}) => Told(u, {k})'
      BY <2>4
    <3>3. \A v, but : Fits(v, u, but) => Fits(v, u, but)'
      BY <2>5, <2>6, <3>1, <3>2, FitsKeep
    <3> QED BY <3>3
  <2>8. Explained'
    BY <1>1, <2>1, <2>5, <2>7, Carried
  <2> QED BY <2>2, <2>3, <2>8
<1> QED BY <1>2, <1>3, <1>4 DEF SyncInv

(* A debounced read is asked.                                              *)
LEMMA UpsertFiresKeeps ==
    ASSUME SyncInv, NEW t \in Tasks, UpsertFires(t)
    PROVE  SyncInv'
<1>1. SyncShape
  BY DEF SyncInv
<1>2. /\ timers' = timers \ {t} /\ asked' = [asked EXCEPT ![t] = @ + 1]
      /\ UNCHANGED <<tasks, born, writes, view, link, drops, failures, net, answers, drains, loading,
                     rs, moves, generation, lost, skipped, raced>>
  BY DEF UpsertFires, serverVars, boundVars, moveVars
<1>3. asked \in [Tasks -> Nat] /\ timers \subseteq Tasks
  BY <1>1 DEF SyncShape
<1>4. /\ asked' \in [Tasks -> Nat] /\ timers' \subseteq Tasks /\ asked'[t] > 0
      /\ \A u \in Tasks \ {t} : asked'[u] = asked[u]
  BY <1>2, <1>3
<1>5. ~raced' => \A a \in answers' : a.rec = tasks[a.task]
  BY <1>2 DEF SyncInv, AnswersTrue
<1>6. \A u, k : Told(u, k) => Told(u, k)'
  BY <1>2, ToldStays
<1>7. Coming(t)'
  BY <1>4 DEF Coming
<1>8. \A u \in Tasks \ {t} : Coming(u) => Coming(u)'
  BY <1>2, <1>4, <1>6 DEF Coming
<1>9. /\ failures' \in 0 .. MaxFailures /\ raced' \in BOOLEAN
      /\ answers' \subseteq [task : Tasks, rec : ServerRec]
  BY <1>1, <1>2 DEF SyncShape
<1> QED BY <1>2, <1>4, <1>5, <1>7, <1>8, <1>9, ReadsKeep

(* A read is answered with the server's task, or with nothing when the     *)
(* task is gone, or it fails.                                              *)
LEMMA TaskReadKeeps ==
    ASSUME SyncInv, NEW t \in Tasks, TaskRead(t)
    PROVE  SyncInv'
<1>1. SyncShape
  BY DEF SyncInv
<1>2. /\ asked[t] > 0 /\ asked' = [asked EXCEPT ![t] = @ - 1]
      /\ \/ /\ answers' = answers \cup {a \in {[task |-> t, rec |-> tasks[t]]} : tasks[t] # Gone}
            /\ UNCHANGED <<raced, drops, failures>>
         \/ Fails /\ raced' = TRUE /\ UNCHANGED answers
      /\ UNCHANGED <<tasks, born, writes, view, link, net, timers, drains, loading,
                     rs, moves, generation, lost, skipped>>
  BY DEF TaskRead, serverVars, boundVars, moveVars
<1>3. asked \in [Tasks -> Nat] /\ tasks[t] \in ServerRec \cup {Gone}
  BY <1>1 DEF SyncShape, Board
<1>4. asked' \in [Tasks -> Nat] /\ \A u \in Tasks \ {t} : asked'[u] = asked[u]
  BY <1>2, <1>3
<1>5. PICK a : a = [task |-> t, rec |-> tasks[t]]
  OBVIOUS
<1>6. a.task = t /\ a.rec = tasks[t] /\ (tasks[t] # Gone => a \in [task : Tasks, rec : ServerRec])
  BY <1>3, <1>5
<1>7. answers \subseteq answers' /\ answers' \subseteq answers \cup {a}
  BY <1>2, <1>5
<1>8. answers' \subseteq [task : Tasks, rec : ServerRec]
  BY <1>1, <1>2, <1>5, <1>6 DEF SyncShape
<1>9. /\ failures' \in 0 .. MaxFailures /\ raced' \in BOOLEAN /\ UNCHANGED drops
      /\ timers' \subseteq Tasks
  <2>1. CASE UNCHANGED <<raced, drops, failures>>
    BY <1>1, <1>2, <2>1 DEF SyncShape
  <2>2. CASE Fails /\ raced' = TRUE
    BY <1>1, <1>2, <2>2, SyncAssumption DEF SyncShape, Fails
  <2> QED BY <1>2, <2>1, <2>2
<1>10. ASSUME ~raced'
       PROVE  ~raced /\ (\A b \in answers' : b.rec = tasks[b.task]) /\ (tasks[t] # Gone => Coming(t)')
  <2>1. ~raced /\ answers' = answers \cup {b \in {a} : tasks[t] # Gone}
    BY <1>2, <1>5, <1>10
  <2>2. \A b \in answers : b.rec = tasks[b.task]
    BY <2>1 DEF SyncInv, AnswersTrue
  <2>3. tasks[t] # Gone => a \in answers'
    BY <2>1
  <2> QED BY <1>6, <1>7, <2>1, <2>2, <2>3 DEF Coming
<1>11. \A u, k : Told(u, k) => Told(u, k)'
  BY <1>2, ToldStays
<1>12. \A u \in Tasks \ {t} : Coming(u) => Coming(u)'
  BY <1>2, <1>4, <1>7, <1>11 DEF Coming
<1>13. ~raced' => ~raced /\ \A b \in answers' : b.rec = tasks[b.task]
  BY <1>10
<1>14. ~raced' /\ tasks[t] # Gone /\ Coming(t) => Coming(t)'
  BY <1>10
<1> QED BY <1>2, <1>4, <1>8, <1>9, <1>12, <1>13, <1>14, ReadsKeep

(* An answer that nothing overtook makes its row the server's.             *)
LEMMA ApplyReadKeeps ==
    ASSUME SyncInv, NEW a \in answers, ApplyRead(a)
    PROVE  SyncInv'
<1>1. SyncShape /\ MovesShape /\ EventsTrue /\ RefsFit /\ (\A d \in Drain : PageEnds(d))
  BY DEF SyncInv
<1>2. /\ answers' = answers \ {a} /\ view' = [view EXCEPT ![a.task] = a.rec]
      /\ UNCHANGED <<tasks, born, writes, link, drops, failures, net, timers, asked, drains, loading,
                     rs, moves, generation, lost, skipped, raced>>
  BY DEF ApplyRead, serverVars, boundVars, moveVars
<1>3. PICK t \in Tasks : t = a.task
  BY <1>1 DEF SyncShape
<1>4. a.rec \in ServerRec /\ view \in Cache /\ answers \subseteq [task : Tasks, rec : ServerRec]
  BY <1>1 DEF SyncShape
<1>5. a.rec \in Rec /\ a.rec # Gone /\ a.rec.pos # Guess
  <2>1. MaxWrites \in Nat
    BY SyncAssumption
  <2> QED BY <1>4, <2>1 DEF ServerRec, Rec, Gone, Guess
<1>6. view' \in Cache /\ view'[t] = a.rec /\ \A u \in Tasks \ {t} : view'[u] = view[u]
  BY <1>2, <1>3, <1>4, <1>5 DEF Cache
<1>7. SyncShape'
  BY <1>1, <1>2, <1>6 DEF SyncShape
<1>8. MovesShape' /\ EventsTrue' /\ RefsFit' /\ \A d \in Drain : PageEnds(d)'
  BY <1>1, <1>2, MovesStay, EventsStay, RefsStay, PagesStay
<1>9. ASSUME ~raced' PROVE AnswersTrue' /\ Chased' /\ Explained'
  <2>1. AnswersTrue /\ Chased /\ Explained
    BY <1>2, <1>9 DEF SyncInv
  <2>2. Chased'
    BY <1>2, <2>1, ChasedStays
  <2>3. AnswersTrue'
    <3>1. \A b \in answers' : b.rec = tasks'[b.task]
      BY <1>2, <2>1 DEF AnswersTrue
    <3>2. \A g \in 1 .. MaxMoves : moves'[g].pc = "answered" => moves'[g].rec = tasks'[moves'[g].task]
      BY <1>2, <2>1 DEF AnswersTrue
    <3>3. \A d \in Drain : PageTrue(d)'
      BY <1>2, <2>1 DEF AnswersTrue, PageTrue, Beyond
    <3> QED BY <3>1, <3>2, <3>3 DEF AnswersTrue
  <2>4. \A u, k : Told(u, k) => Told(u, k)'
    BY <1>2, ToldStays
  <2>5. (Renewed' <=> Renewed) /\ \A u : InPages(u) => InPages(u)'
    BY <1>2, PagesReach
  <2>6. \A u, but : Moving(u, but) => Moving(u, but)'
    BY <1>2, MovingStays
  <2>7. ASSUME NEW u \in Tasks \ {t}
        PROVE  view'[u] = view[u] /\ \A v, but : Fits(v, u, but) => Fits(v, u, but)'
    <3>1. Coming(u) => Coming(u)'
      BY <1>2, <1>3, <2>4 DEF Coming
    <3>2. tasks'[u] = tasks[u] /\ \A k \in {"created", "moved", "deleted"} : Told(u, {k}) => Told(u, {k})'
      BY <1>2, <2>4
    <3>3. \A v, but : Fits(v, u, but) => Fits(v, u, but)'
      BY <2>5, <2>6, <3>1, <3>2, FitsKeep
    <3> QED BY <1>6, <3>3
  <2>8. view'[t].pos # Guess /\ Fits(view[t], t, 0)'
    <3>1. a.rec = tasks'[t] /\ tasks'[t] # Gone
      BY <1>2, <1>3, <1>5, <2>1 DEF AnswersTrue
    <3> QED BY <1>5, <1>6, <3>1 DEF Fits
  <2>9. \A u \in Tasks : \/ /\ view'[u] = view[u]
                            /\ \A v, but : (v = Gone => view[u] = Gone) /\ Fits(v, u, but) => Fits(v, u, but)'
                         \/ view'[u].pos # Guess /\ Fits(view[u], u, 0)'
    BY <2>7, <2>8
  <2>10. \A g \in 1 .. MaxMoves : g = generation' /\ moves'[g].pc \in {"sent", "failed"} =>
            /\ g = generation /\ moves[g].pc \in {"sent", "failed"}
            /\ moves'[g].task = moves[g].task /\ moves'[g].snap = moves[g].snap
    BY <1>2
  <2>11. ~lost' /\ ~Renewed' => ~lost /\ ~Renewed
    BY <1>2, <2>5
  <2>12. Explained'
    BY <1>1, <2>1, <2>9, <2>10, <2>11, Carried
  <2> QED BY <2>2, <2>3, <2>12
<1> QED BY <1>7, <1>8, <1>9 DEF SyncInv

-----------------------------------------------------------------------------
(* The pages of a drain.                                                   *)

(* A drain's end frees the next resync, and leaves fitting refs.           *)
LEMMA EndedRefs ==
    ASSUME SyncShape, RefsFit, NEW d \in Drain, rs' = ResyncEnds(d, rs),
           UNCHANGED <<loading, link, lost, skipped>>,
           \A e \in Drain \ {d} : drains[e].pc # "idle" => drains'[e].pc # "idle"
    PROVE  /\ rs' \in Refs /\ RefsFit'
           /\ rs.timer \/ rs.queued => rs'.timer \/ rs'.queued
<1>1. rs \in Refs
  BY DEF SyncShape, Refs
<1>2. CASE d = "resync"
  <2>1. /\ rs' \in Refs /\ (rs'.fresh <=> rs.fresh) /\ ~ rs'.running /\ ~ rs'.queued
        /\ rs'.timer <=> rs.timer \/ (rs.queued /\ ~ rs.fresh)
    BY <1>1, <1>2, EndsIs
  <2>2. RefsFit'
    BY <2>1 DEF RefsFit
  <2> QED BY <2>1, <2>2 DEF RefsFit
<1>3. CASE d # "resync"
  <2>1. rs' = rs
    BY <1>3 DEF ResyncEnds
  <2>2. "resync" \in Drain
    BY DEF Drain
  <2>3. RefsFit'
    BY <1>3, <2>1, <2>2 DEF RefsFit
  <2> QED BY <1>1, <2>1, <2>3
<1> QED BY <1>2, <1>3

(* The first page of a drain starts anew: what was missed or overtaken     *)
(* before it no longer matters.                                            *)
LEMMA ReadPageKeeps ==
    ASSUME SyncInv, NEW d \in Drain, ReadPage(d)
    PROVE  SyncInv'
<1>1. SyncShape /\ MovesShape /\ EventsTrue /\ RefsFit /\ (\A e \in Drain : PageEnds(e))
  BY DEF SyncInv
<1>2. /\ lost' = (lost /\ drains[d].cursor # 0)
      /\ skipped' = (skipped /\ drains[d].cursor # 0)
      /\ raced' = (raced /\ ~ (drains[d].cursor = 0 /\ Undisturbed(d)))
      /\ UNCHANGED <<tasks, born, writes, view, link, drops, failures, net, timers, asked, answers,
                     loading, rs, moves, generation>>
  BY DEF ReadPage, serverVars, boundVars, readVars, moveVars
<1>3. PICK v \in Drains : /\ DrainsBut(d, v) /\ drains[d].pc = "asked"
                          /\ v.pc = "read" /\ v.cursor = drains[d].cursor
                          /\ PageEnds(d)' /\ PageTrue(d)'
  BY <1>1, PageRead
<1>4. drains' \in [Drain -> Drains] /\ drains'[d] = v /\ \A e \in Drain \ {d} : drains'[e] = drains[e]
  BY <1>3 DEF DrainsBut
<1>5. lost' \in BOOLEAN /\ skipped' \in BOOLEAN /\ raced' \in BOOLEAN
  <2>1. /\ (lost /\ drains[d].cursor # 0) \in BOOLEAN
        /\ (skipped /\ drains[d].cursor # 0) \in BOOLEAN
        /\ (raced /\ ~ (drains[d].cursor = 0 /\ Undisturbed(d))) \in BOOLEAN
    OBVIOUS
  <2> QED BY <1>2, <2>1, Zenon
<1>6. SyncShape'
  BY <1>1, <1>2, <1>4, <1>5 DEF SyncShape
<1>7. MovesShape' /\ EventsTrue'
  BY <1>1, <1>2, MovesStay, EventsStay
<1>8. \A e \in Drain : drains'[e].pc # "idle" <=> drains[e].pc # "idle"
  BY <1>3, <1>4
<1>9. RefsFit'
  <2>1. "resync" \in Drain
    BY DEF Drain
  <2> QED BY <1>1, <1>2, <1>8, <2>1 DEF RefsFit
<1>10. \A e \in Drain : PageEnds(e)'
  <2> SUFFICES ASSUME NEW e \in Drain, e # d PROVE PageEnds(e)'
    BY <1>3
  <2>1. drains'[e] = drains[e] /\ PageEnds(e)
    BY <1>1, <1>4
  <2> QED BY <2>1 DEF PageEnds
<1>11. \A e \in Drain : drains'[e].cursor = drains[e].cursor
  BY <1>3, <1>4
<1>12. (Renewed => Renewed') /\ \A t : InPages(t) => InPages(t)'
  BY <1>8, <1>11 DEF Renewed, InPages
<1>13. ASSUME ~raced' PROVE AnswersTrue' /\ Chased' /\ Explained'
  <2>1. CASE drains[d].cursor = 0
    <3>1. Chased'
      BY <1>2, <2>1 DEF Chased
    <3>2. Explained'
      BY <1>3, <1>4, <2>1 DEF Explained, Renewed
    <3>3. CASE ~raced
      <4>1. AnswersTrue
        BY <3>3 DEF SyncInv
      <4>2. /\ \A a \in answers' : a.rec = tasks'[a.task]
            /\ \A g \in 1 .. MaxMoves : moves'[g].pc = "answered" => moves'[g].rec = tasks'[moves'[g].task]
        BY <1>2, <4>1 DEF AnswersTrue
      <4>3. ASSUME NEW e \in Drain PROVE PageTrue(e)'
        <5>1. CASE e = d
          BY <1>3, <5>1
        <5>2. CASE e # d
          <6>1. drains'[e] = drains[e] /\ PageTrue(e)
            BY <1>4, <4>1, <5>2 DEF AnswersTrue
          <6> QED BY <1>2, <6>1 DEF PageTrue, Beyond
        <5> QED BY <5>1, <5>2
      <4> QED BY <3>1, <3>2, <4>2, <4>3 DEF AnswersTrue
    <3>4. CASE raced
      <4>1. Undisturbed(d)
        BY <1>2, <1>13, <3>4
      <4>2. /\ \A a \in answers' : a.rec = tasks'[a.task]
            /\ \A g \in 1 .. MaxMoves : moves'[g].pc = "answered" => moves'[g].rec = tasks'[moves'[g].task]
        BY <1>2, <4>1 DEF Undisturbed
      <4>3. ASSUME NEW e \in Drain PROVE PageTrue(e)'
        <5>1. CASE e = d
          BY <1>3, <5>1
        <5>2. CASE e # d
          BY <1>4, <4>1, <5>2 DEF PageTrue, Undisturbed
        <5> QED BY <5>1, <5>2
      <4> QED BY <3>1, <3>2, <4>2, <4>3 DEF AnswersTrue
    <3> QED BY <3>3, <3>4
  <2>2. CASE drains[d].cursor # 0
    <3>1. ~raced /\ (lost' <=> lost) /\ (skipped' <=> skipped)
      BY <1>2, <1>13, <2>2
    <3>2. AnswersTrue /\ Chased /\ Explained
      BY <3>1 DEF SyncInv
    <3>3. Chased'
      <4>1. FirstAsked => FirstAsked'
        BY <1>4, <2>2 DEF FirstAsked
      <4> QED BY <1>2, <3>1, <3>2, <4>1 DEF Chased
    <3>4. AnswersTrue'
      <4>1. /\ \A a \in answers' : a.rec = tasks'[a.task]
            /\ \A g \in 1 .. MaxMoves : moves'[g].pc = "answered" => moves'[g].rec = tasks'[moves'[g].task]
        BY <1>2, <3>2 DEF AnswersTrue
      <4>2. ASSUME NEW e \in Drain PROVE PageTrue(e)'
        <5>1. CASE e = d
          BY <1>3, <5>1
        <5>2. CASE e # d
          <6>1. drains'[e] = drains[e] /\ PageTrue(e)
            BY <1>4, <3>2, <5>2 DEF AnswersTrue
          <6> QED BY <1>2, <6>1 DEF PageTrue, Beyond
        <5> QED BY <5>1, <5>2
      <4> QED BY <4>1, <4>2 DEF AnswersTrue
    <3>5. \A u, k : Told(u, k) => Told(u, k)'
      BY <1>2, ToldStays
    <3>6. \A u, but : Moving(u, but) => Moving(u, but)'
      BY <1>2, MovingStays
    <3>7. ASSUME NEW u \in Tasks
          PROVE  view'[u] = view[u] /\ \A w, but : Fits(w, u, but) => Fits(w, u, but)'
      <4>1. Coming(u) => Coming(u)'
        BY <1>2, <3>5 DEF Coming
      <4>2. tasks'[u] = tasks[u] /\ \A k \in {"created", "moved", "deleted"} : Told(u, {k}) => Told(u, {k})'
        BY <1>2, <3>5
      <4>3. \A w, but : Fits(w, u, but) => Fits(w, u, but)'
        BY <1>12, <3>6, <4>1, <4>2, FitsKeep
      <4> QED BY <1>2, <4>3
    <3>8. ~lost' /\ ~Renewed' => ~lost /\ ~Renewed
      BY <1>12, <3>1
    <3>9. Explained'
      BY <1>1, <1>2, <3>2, <3>7, <3>8, Carried
    <3> QED BY <3>3, <3>4, <3>9
  <2> QED BY <2>1, <2>2
<1> QED BY <1>6, <1>7, <1>9, <1>10, <1>13 DEF SyncInv

(* A page shows what it read, and what it left out a later page brings.    *)
LEMMA ApplyPageKeeps ==
    ASSUME SyncInv, NEW d \in Drain, ApplyPage(d)
    PROVE  SyncInv'
<1>1. SyncShape /\ MovesShape /\ EventsTrue /\ RefsFit /\ (\A e \in Drain : PageEnds(e))
  BY DEF SyncInv
<1>2. /\ view' = onPage(drains[d].cursor = 0, drains[d].page)
      /\ rs' = IF drains[d].more THEN rs ELSE ResyncEnds(d, rs)
      /\ UNCHANGED <<tasks, born, writes, link, drops, failures, net, timers, asked, answers,
                     loading, moves, generation, lost, skipped, raced>>
  BY DEF ApplyPage, serverVars, boundVars, readVars, moveVars
<1>3. PICK n \in Drains : /\ DrainsBut(d, n) /\ drains[d].pc = "read"
                          /\ drains[d].more => /\ n.pc = "asked" /\ n.cursor \in Tasks
                                               /\ \A t \in Tasks : Beyond(drains[d].page, t) => n.cursor < t
                          /\ ~ drains[d].more => n.pc = "idle"
  BY <1>1, NextPage
<1>4. drains' \in [Drain -> Drains] /\ drains'[d] = n /\ \A e \in Drain \ {d} : drains'[e] = drains[e]
  BY <1>3 DEF DrainsBut
<1>5. PICK page : page = drains[d].page
  OBVIOUS
<1>6. page \in Board /\ view \in Cache /\ Tasks \subseteq Nat \ {0} /\ MaxWrites \in Nat
  BY <1>1, <1>5, SyncAssumption DEF SyncShape, Drains
<1>7. \A t \in Tasks : page[t] \in Rec \cup {Gone} /\ page[t].pos # Guess
  BY <1>6 DEF Board, ServerRec, Rec, Gone, Guess
<1>8. /\ drains[d].cursor = 0 => view' = page
      /\ drains[d].cursor # 0 => view' = [t \in Tasks |-> IF view[t] = Gone THEN page[t] ELSE view[t]]
  BY <1>2, <1>5 DEF onPage
<1>9. view' \in Cache
  <2>1. CASE drains[d].cursor = 0
    BY <1>6, <1>7, <1>8, <2>1 DEF Board, Cache
  <2>2. CASE drains[d].cursor # 0
    BY <1>6, <1>7, <1>8, <2>2 DEF Cache
  <2> QED BY <2>1, <2>2
<1>10. /\ rs' \in Refs /\ RefsFit'
       /\ rs.timer \/ rs.queued => rs'.timer \/ rs'.queued
  <2>1. CASE drains[d].more
    <3>1. "resync" \in Drain /\ rs' = rs
      BY <1>2, <2>1 DEF Drain
    <3>2. drains["resync"].pc # "idle" => drains'["resync"].pc # "idle"
      BY <1>3, <1>4, <2>1, <3>1
    <3> QED BY <1>1, <1>2, <3>1, <3>2 DEF RefsFit, SyncShape, Refs
  <2>2. CASE ~ drains[d].more
    <3>1. rs' = ResyncEnds(d, rs) /\ UNCHANGED <<loading, link, lost, skipped>>
      BY <1>2, <2>2
    <3>2. \A e \in Drain \ {d} : drains[e].pc # "idle" => drains'[e].pc # "idle"
      BY <1>4
    <3> QED BY <1>1, <3>1, <3>2, EndedRefs
  <2> QED BY <2>1, <2>2
<1>11. SyncShape'
  BY <1>1, <1>2, <1>4, <1>9, <1>10 DEF SyncShape, Refs
<1>12. MovesShape' /\ EventsTrue'
  BY <1>1, <1>2, MovesStay, EventsStay
<1>13. n.pc # "read"
  BY <1>3
<1>14. \A e \in Drain : PageEnds(e)'
  <2> SUFFICES ASSUME NEW e \in Drain PROVE PageEnds(e)'
    OBVIOUS
  <2>1. CASE e = d
    BY <1>4, <1>13, <2>1 DEF PageEnds
  <2>2. CASE e # d
    <3>1. drains'[e] = drains[e] /\ PageEnds(e)
      BY <1>1, <1>4, <2>2
    <3> QED BY <3>1 DEF PageEnds
  <2> QED BY <2>1, <2>2
<1>15. ASSUME ~raced' PROVE AnswersTrue' /\ Chased' /\ Explained'
  <2>1. AnswersTrue /\ Chased /\ Explained
    BY <1>2, <1>15 DEF SyncInv
  <2>2. AnswersTrue'
    <3>1. /\ \A a \in answers' : a.rec = tasks'[a.task]
          /\ \A g \in 1 .. MaxMoves : moves'[g].pc = "answered" => moves'[g].rec = tasks'[moves'[g].task]
      BY <1>2, <2>1 DEF AnswersTrue
    <3>2. ASSUME NEW e \in Drain PROVE PageTrue(e)'
      <4>1. CASE e = d
        BY <1>4, <1>13, <4>1 DEF PageTrue
      <4>2. CASE e # d
        <5>1. drains'[e] = drains[e] /\ PageTrue(e)
          BY <1>4, <2>1, <4>2 DEF AnswersTrue
        <5> QED BY <1>2, <5>1 DEF PageTrue, Beyond
      <4> QED BY <4>1, <4>2
    <3> QED BY <3>1, <3>2 DEF AnswersTrue
  <2>3. Chased'
    <3>1. FirstAsked => FirstAsked'
      BY <1>3, <1>4 DEF FirstAsked
    <3> QED BY <1>2, <1>10, <2>1, <3>1 DEF Chased
  <2>4. \A t \in Tasks : /\ page[t] # Gone => page[t] = tasks[t]
                         /\ t > drains[d].cursor /\ tasks[t] # Gone /\ page[t] = Gone =>
                               drains[d].more /\ Beyond(page, t)
    BY <1>3, <1>5, <2>1 DEF AnswersTrue, PageTrue
  <2>5. ASSUME NEW t \in Tasks, drains[d].more, Beyond(page, t) PROVE InPages(t)'
    BY <1>3, <1>4, <1>5, <2>5 DEF InPages
  <2>6. CASE drains[d].cursor = 0
    <3>1. ASSUME NEW t \in Tasks PROVE view'[t].pos # Guess /\ (~lost => Fits(view[t], t, 0)')
      <4>1. view'[t] = page[t] /\ t > 0 /\ tasks'[t] = tasks[t]
        BY <1>2, <1>6, <1>8, <2>6
      <4>2. CASE page[t] # Gone
        BY <1>7, <2>4, <4>1, <4>2 DEF Fits
      <4>3. CASE page[t] = Gone
        BY <1>7, <2>4, <2>5, <2>6, <4>1, <4>3 DEF Fits
      <4> QED BY <4>2, <4>3
    <3>2. ASSUME NEW g \in 1 .. MaxMoves PROVE ~ Stands(g)'
      <4> SUFFICES ASSUME g = generation', moves'[g].pc \in {"sent", "failed"},
                          view'[moves'[g].task] = [moves'[g].snap[moves'[g].task] EXCEPT !.pos = Guess]
                   PROVE  FALSE
        BY DEF Stands
      <4>1. PICK t \in Tasks : t = moves[g].task
        BY <1>1, <1>2 DEF MovesShape, Pending
      <4>2. PICK w : w = moves[g].snap[t]
        OBVIOUS
      <4>3. w \in Rec \cup {Gone}
        BY <1>1, <4>1, <4>2 DEF MovesShape, Moves, Cache
      <4>4. view'[t] = [w EXCEPT !.pos = Guess]
        BY <1>2, <4>1, <4>2
      <4>5. view'[t].pos = Guess
        BY <4>3, <4>4 DEF Rec, Gone
      <4> QED BY <3>1, <4>5
    <3>3. Explained'
      BY <1>2, <3>1, <3>2 DEF Explained, SnapFits
    <3> QED BY <2>2, <2>3, <3>3
  <2>7. CASE drains[d].cursor # 0
    <3>1. \A u, k : Told(u, k) => Told(u, k)'
      BY <1>2, ToldStays
    <3>2. \A u, but : Moving(u, but) => Moving(u, but)'
      BY <1>2, MovingStays
    <3>3. \A u : Coming(u) => Coming(u)'
      BY <1>2, <3>1 DEF Coming
    <3>4. Renewed => Renewed'
      BY <1>4, <2>7 DEF Renewed
    <3>5. ASSUME NEW t \in Tasks, view[t] # Gone
          PROVE  /\ view'[t] = view[t]
                 /\ \A v, but : (v = Gone => view[t] = Gone) /\ Fits(v, t, but) => Fits(v, t, but)'
      <4>1. view'[t] = view[t] /\ tasks'[t] = tasks[t]
        BY <1>2, <1>8, <2>7, <3>5
      <4> SUFFICES ASSUME NEW v, NEW but, v # Gone, Fits(v, t, but) PROVE Fits(v, t, but)'
        BY <3>5, <4>1
      <4> QED BY <3>1, <3>2, <3>3, <4>1 DEF Fits
    <3>6. ASSUME NEW t \in Tasks, view[t] = Gone, ~lost, ~Renewed
          PROVE  view'[t].pos # Guess /\ Fits(view[t], t, 0)'
      <4>1. view'[t] = page[t] /\ tasks'[t] = tasks[t]
        BY <1>2, <1>8, <2>7, <3>6
      <4>2. CASE page[t] # Gone
        BY <1>7, <2>4, <4>1, <4>2 DEF Fits
      <4>3. CASE page[t] = Gone
        <5>1. Fits(view[t], t, 0)
          BY <2>1, <3>6 DEF Explained
        <5>2. CASE tasks[t] = Gone
          BY <1>7, <4>1, <4>3, <5>2 DEF Fits
        <5>3. CASE tasks[t] # Gone /\ Coming(t)
          BY <1>7, <3>3, <4>1, <5>3 DEF Fits
        <5>4. CASE tasks[t] # Gone /\ Told(t, {"created"})
          BY <1>7, <3>1, <4>1, <4>3, <5>4 DEF Fits
        <5>5. CASE tasks[t] # Gone /\ InPages(t)
          <6>1. InPages(t)'
            <7>1. PICK e \in Drain : drains[e].pc # "idle" /\ drains[e].cursor < t
              BY <5>5 DEF InPages
            <7>2. CASE e = d
              <8>1. drains[d].cursor < t
                BY <7>1, <7>2
              <8>2. t > drains[d].cursor
                <9>1. drains[d] \in Drains
                  BY <1>1 DEF SyncShape
                <9>2. drains[d].cursor \in Tasks \cup {0}
                  BY <9>1 DEF Drains
                <9>3. \A u \in Tasks \cup {0} : u \in Nat
                  BY SyncAssumption
                <9>4. drains[d].cursor \in Nat /\ t \in Nat
                  BY <9>2, <9>3, Zenon
                <9> QED BY <8>1, <9>4
              <8> QED BY <2>4, <2>5, <4>3, <5>5, <8>2
            <7>3. CASE e # d
              BY <1>4, <7>1, <7>3 DEF InPages
            <7> QED BY <7>2, <7>3
          <6> QED BY <1>7, <4>1, <4>3, <5>5, <6>1 DEF Fits
        <5> QED BY <3>6, <5>1, <5>2, <5>3, <5>4, <5>5 DEF Fits
      <4> QED BY <4>2, <4>3
    <3>7. CASE lost \/ Renewed
      BY <1>2, <2>2, <2>3, <3>4, <3>7 DEF Explained
    <3>8. CASE ~lost /\ ~Renewed
      <4>1. \A u \in Tasks :
               \/ /\ view'[u] = view[u]
                  /\ \A v, but : (v = Gone => view[u] = Gone) /\ Fits(v, u, but) => Fits(v, u, but)'
               \/ view'[u].pos # Guess /\ Fits(view[u], u, 0)'
        BY <3>5, <3>6, <3>8, Zenon
      <4>2. \A g \in 1 .. MaxMoves : g = generation' /\ moves'[g].pc \in {"sent", "failed"} =>
              /\ g = generation /\ moves[g].pc \in {"sent", "failed"}
              /\ moves'[g].task = moves[g].task /\ moves'[g].snap = moves[g].snap
        BY <1>2
      <4>3. Explained'
        BY <1>1, <2>1, <3>8, <4>1, <4>2, Carried
      <4> QED BY <2>2, <2>3, <4>3
    <3> QED BY <3>7, <3>8
  <2> QED BY <2>6, <2>7
<1> QED BY <1>10, <1>11, <1>12, <1>14, <1>15 DEF SyncInv

(* A step that leaves the board and its reads, events and moves alone      *)
(* keeps the invariant when the pages under way still reach what they did. *)
LEMMA DrainsKeep ==
    ASSUME SyncInv,
           UNCHANGED <<tasks, born, writes, view, link, net, timers, asked, answers, moves, generation,
                       lost, skipped, drops>>,
           failures' \in 0 .. MaxFailures, loading' \in BOOLEAN, raced' \in BOOLEAN, raced => raced',
           drains' \in [Drain -> Drains], rs' \in Refs, RefsFit',
           \A e \in Drain : \E f \in Drain : drains'[e] = drains[f] \/ drains'[e].pc # "read",
           ~raced' /\ (rs.timer \/ rs.queued \/ FirstAsked) => rs'.timer \/ rs'.queued \/ FirstAsked',
           ~raced' /\ ~Renewed' => ~Renewed /\ \A t \in Tasks : InPages(t) => InPages(t)'
    PROVE  SyncInv'
<1>1. SyncShape /\ MovesShape /\ EventsTrue /\ (\A e \in Drain : PageEnds(e))
  BY DEF SyncInv
<1>2. SyncShape'
  BY <1>1 DEF SyncShape, Refs
<1>3. MovesShape' /\ EventsTrue'
  BY <1>1, MovesStay, EventsStay
<1>4. \A e \in Drain : PageEnds(e)'
  <2> SUFFICES ASSUME NEW e \in Drain PROVE PageEnds(e)'
    OBVIOUS
  <2>1. PICK f \in Drain : drains'[e] = drains[f] \/ drains'[e].pc # "read"
    OBVIOUS
  <2>2. PageEnds(f)
    BY <1>1
  <2> QED BY <2>1, <2>2 DEF PageEnds
<1>5. ASSUME ~raced' PROVE AnswersTrue' /\ Chased' /\ Explained'
  <2>1. AnswersTrue /\ Chased /\ Explained
    BY <1>5 DEF SyncInv
  <2>2. AnswersTrue'
    <3>1. /\ \A a \in answers' : a.rec = tasks'[a.task]
          /\ \A g \in 1 .. MaxMoves : moves'[g].pc = "answered" => moves'[g].rec = tasks'[moves'[g].task]
      BY <2>1 DEF AnswersTrue
    <3>2. ASSUME NEW e \in Drain PROVE PageTrue(e)'
      <4>1. PICK f \in Drain : drains'[e] = drains[f] \/ drains'[e].pc # "read"
        OBVIOUS
      <4>2. PageTrue(f)
        BY <2>1 DEF AnswersTrue
      <4> QED BY <4>1, <4>2 DEF PageTrue, Beyond
    <3> QED BY <3>1, <3>2 DEF AnswersTrue
  <2>3. Chased'
    BY <1>5, <2>1 DEF Chased
  <2>4. CASE Renewed'
    BY <2>2, <2>3, <2>4 DEF Explained
  <2>5. CASE ~Renewed'
    <3>1. ~Renewed /\ \A t \in Tasks : InPages(t) => InPages(t)'
      BY <1>5, <2>5
    <3>2. \A u, k : Told(u, k) => Told(u, k)'
      BY ToldStays
    <3>3. \A u, but : Moving(u, but) => Moving(u, but)'
      BY MovingStays
    <3>4. ASSUME NEW u \in Tasks
          PROVE  view'[u] = view[u] /\ \A v, but : Fits(v, u, but) => Fits(v, u, but)'
      <4>1. Coming(u) => Coming(u)'
        BY <3>2 DEF Coming
      <4>2. tasks'[u] = tasks[u] /\ \A k \in {"created", "moved", "deleted"} : Told(u, {k}) => Told(u, {k})'
        BY <3>2
      <4>3. \A v, but : Fits(v, u, but) => Fits(v, u, but)'
        BY <3>1, <3>3, <4>1, <4>2, FitsKeep
      <4> QED BY <4>3
    <3>5. Explained'
      BY <1>1, <2>1, <3>1, <3>4, Carried
    <3> QED BY <2>2, <2>3, <3>5
  <2> QED BY <2>4, <2>5
<1> QED BY <1>2, <1>3, <1>4, <1>5 DEF SyncInv

(* The board is shown, and is fresh.                                       *)
LEMMA RevealKeeps ==
    ASSUME SyncInv, Reveal
    PROVE  SyncInv'
<1>1. SyncShape /\ RefsFit
  BY DEF SyncInv
<1>2. /\ loading /\ loading' = FALSE /\ rs' = [rs EXCEPT !.fresh = TRUE]
      /\ Fails \/ UNCHANGED <<drops, failures>>
      /\ UNCHANGED <<tasks, born, writes, view, link, net, timers, asked, answers, drains, moves,
                     generation, lost, skipped, raced>>
  BY DEF Reveal, serverVars, boundVars, readVars, moveVars
<1>3. PICK y \in BOOLEAN : y = TRUE
  OBVIOUS
<1>4. rs \in Refs
  BY <1>1 DEF SyncShape, Refs
<1>5. rs' = [rs EXCEPT !.fresh = y]
  BY <1>2, <1>3
<1>6. /\ rs' \in Refs /\ rs'.timer = rs.timer /\ rs'.running = rs.running /\ rs'.queued = rs.queued
  BY <1>4, <1>5 DEF Refs
<1>7. ~rs.timer /\ ~rs.running /\ ~rs.queued
  BY <1>1, <1>2 DEF RefsFit
<1>8. ~loading' /\ loading' \in BOOLEAN
  BY <1>2
<1>9. RefsFit'
  BY <1>1, <1>2, <1>6, <1>7, <1>8 DEF RefsFit
<1>10. failures' \in 0 .. MaxFailures /\ UNCHANGED drops
  BY <1>1, <1>2, SyncAssumption DEF SyncShape, Fails
<1>11. raced' \in BOOLEAN /\ (raced => raced') /\ drains' \in [Drain -> Drains]
  BY <1>1, <1>2 DEF SyncShape
<1>12. (Renewed' <=> Renewed) /\ \A t : InPages(t) => InPages(t)'
  BY <1>2, PagesReach
<1>13. FirstAsked' <=> FirstAsked
  BY <1>2 DEF FirstAsked
<1>14. \A e \in Drain : \E f \in Drain : drains'[e] = drains[f] \/ drains'[e].pc # "read"
  BY <1>2
<1> QED BY <1>2, <1>6, <1>8, <1>9, <1>10, <1>11, <1>12, <1>13, <1>14, DrainsKeep

(* A drain that fails counts as a failed read.                             *)
LEMMA DrainFailsKeeps ==
    ASSUME SyncInv, NEW d \in Drain, DrainFails(d)
    PROVE  SyncInv'
<1>1. SyncShape /\ RefsFit
  BY DEF SyncInv
<1>2. /\ drains' = [drains EXCEPT ![d] = NoDrain] /\ rs' = ResyncEnds(d, rs) /\ Fails /\ raced' = TRUE
      /\ UNCHANGED <<tasks, born, writes, view, link, net, timers, asked, answers, loading, moves,
                     generation, lost, skipped>>
  BY DEF DrainFails, serverVars, readVars, moveVars
<1>3. DrainsBut(d, NoDrain) /\ NoDrain.pc = "idle"
  BY <1>1, <1>2, DrainSet, FirstPageIs
<1>4. /\ drains' \in [Drain -> Drains] /\ drains'[d].pc = "idle"
      /\ \A e \in Drain \ {d} : drains'[e] = drains[e]
  BY <1>3 DEF DrainsBut
<1>5. rs' \in Refs /\ RefsFit'
  BY <1>1, <1>2, <1>4, EndedRefs
<1>6. failures' \in 0 .. MaxFailures /\ UNCHANGED drops
  BY <1>1, <1>2, SyncAssumption DEF SyncShape, Fails
<1>7. raced' \in BOOLEAN /\ raced' /\ loading' \in BOOLEAN
  BY <1>1, <1>2 DEF SyncShape
<1>8. \A e \in Drain : \E f \in Drain : drains'[e] = drains[f] \/ drains'[e].pc # "read"
  BY <1>4
<1> QED BY <1>2, <1>4, <1>5, <1>6, <1>7, <1>8, DrainsKeep

(* The pages of a resync whose details fail go on.                         *)
LEMMA DetailsFailKeeps ==
    ASSUME SyncInv, DetailsFail
    PROVE  SyncInv'
<1>1. SyncShape /\ RefsFit
  BY DEF SyncInv
<1>2. /\ drains["stray"].pc = "idle"
      /\ drains' = [drains EXCEPT !["resync"] = NoDrain, !["stray"] = drains["resync"]]
      /\ rs' = ResyncEnds("resync", rs) /\ Fails
      /\ UNCHANGED <<tasks, born, writes, view, link, net, timers, asked, answers, loading, moves,
                     generation, lost, skipped, raced>>
  BY DEF DetailsFail, serverVars, readVars, moveVars
<1>3. "resync" \in Drain /\ "stray" \in Drain
  BY DEF Drain
<1>4. drains \in [Drain -> Drains]
  BY <1>1 DEF SyncShape
<1>5. /\ drains' \in [Drain -> Drains] /\ drains'["resync"].pc = "idle" /\ drains'["stray"] = drains["resync"]
      /\ \A e \in Drain \ {"resync", "stray"} : drains'[e] = drains[e]
  BY <1>2, <1>3, <1>4, FirstPageIs
<1>6. \A e \in Drain \ {"resync"} : drains[e].pc # "idle" => drains'[e].pc # "idle"
  BY <1>2, <1>5
<1>7. /\ rs' \in Refs /\ RefsFit'
      /\ rs.timer \/ rs.queued => rs'.timer \/ rs'.queued
  BY <1>1, <1>2, <1>3, <1>6, EndedRefs
<1>8. failures' \in 0 .. MaxFailures /\ UNCHANGED drops
  BY <1>1, <1>2, SyncAssumption DEF SyncShape, Fails
<1>9. raced' \in BOOLEAN /\ (raced => raced') /\ loading' \in BOOLEAN
  BY <1>1, <1>2 DEF SyncShape
<1>10. \A e \in Drain : drains[e].pc # "idle" => \E f \in Drain : drains'[f] = drains[e]
  BY <1>2, <1>3, <1>5
<1>11. /\ FirstAsked => FirstAsked'
       /\ Renewed => Renewed'
       /\ \A t \in Tasks : InPages(t) => InPages(t)'
  BY <1>10 DEF FirstAsked, Renewed, InPages
<1>12. \A e \in Drain : \E f \in Drain : drains'[e] = drains[f] \/ drains'[e].pc # "read"
  BY <1>3, <1>5
<1> QED BY <1>2, <1>5, <1>7, <1>8, <1>9, <1>11, <1>12, DrainsKeep

(* A resync asks for the first page.                                       *)
LEMMA runResyncKeeps ==
    ASSUME SyncInv, runResync
    PROVE  SyncInv'
<1>1. SyncShape /\ RefsFit
  BY DEF SyncInv
<1>2. /\ rs.timer
      /\ rs' = [fresh |-> TRUE, timer |-> FALSE, running |-> TRUE, queued |-> FALSE]
      /\ drains' = [drains EXCEPT !["resync"] = FirstPage]
      /\ UNCHANGED <<tasks, born, writes, view, link, drops, failures, net, timers, asked, answers,
                     loading, moves, generation, lost, skipped, raced>>
  BY DEF runResync, serverVars, boundVars, readVars, moveVars
<1>3. PICK y \in BOOLEAN, n \in BOOLEAN : y = TRUE /\ n = FALSE
  OBVIOUS
<1>4. rs' = [fresh |-> y, timer |-> n, running |-> y, queued |-> n]
  BY <1>2, <1>3
<1>5. rs' \in Refs /\ rs'.fresh = y /\ rs'.timer = n /\ rs'.running = y /\ rs'.queued = n
  BY <1>4 DEF Refs
<1>6. rs'.running /\ ~rs'.timer /\ ~rs'.queued
  BY <1>3, <1>5
<1>7. "resync" \in Drain
  BY DEF Drain
<1>8. DrainsBut("resync", FirstPage)
  BY <1>1, <1>2, <1>7, DrainSet, FirstPageIs
<1>9. /\ drains' \in [Drain -> Drains] /\ drains'["resync"].pc = "asked" /\ drains'["resync"].cursor = 0
      /\ \A e \in Drain \ {"resync"} : drains'[e] = drains[e]
  BY <1>8, FirstPageIs DEF DrainsBut
<1>10. ~loading
  BY <1>1, <1>2 DEF RefsFit
<1>11. RefsFit'
  BY <1>1, <1>2, <1>6, <1>9, <1>10 DEF RefsFit
<1>12. Renewed' /\ FirstAsked'
  BY <1>7, <1>9 DEF Renewed, FirstAsked
<1>13. /\ raced' \in BOOLEAN /\ (raced => raced') /\ loading' \in BOOLEAN
       /\ failures' \in 0 .. MaxFailures
  BY <1>1, <1>2 DEF SyncShape
<1>14. \A e \in Drain : \E f \in Drain : drains'[e] = drains[f] \/ drains'[e].pc # "read"
  BY <1>7, <1>9
<1> QED BY <1>2, <1>5, <1>9, <1>11, <1>12, <1>13, <1>14, DrainsKeep

(* The end of the fresh window lets joins ask for a resync again.          *)
LEMMA FreshEndsKeeps ==
    ASSUME SyncInv, FreshEnds
    PROVE  SyncInv'
<1>1. SyncShape /\ RefsFit
  BY DEF SyncInv
<1>2. /\ rs' = [rs EXCEPT !.fresh = FALSE]
      /\ UNCHANGED <<tasks, born, writes, view, link, drops, failures, net, timers, asked, answers,
                     drains, loading, moves, generation, lost, skipped, raced>>
  BY DEF FreshEnds, serverVars, boundVars, readVars, moveVars
<1>3. PICK n \in BOOLEAN : n = FALSE
  OBVIOUS
<1>4. rs \in Refs
  BY <1>1 DEF SyncShape, Refs
<1>5. rs' = [rs EXCEPT !.fresh = n]
  BY <1>2, <1>3
<1>6. /\ rs' \in Refs /\ rs'.fresh = n /\ rs'.timer = rs.timer /\ rs'.running = rs.running
      /\ rs'.queued = rs.queued
  BY <1>4, <1>5 DEF Refs
<1>7. ~rs'.fresh
  BY <1>3, <1>6
<1>8. RefsFit'
  BY <1>1, <1>2, <1>6, <1>7 DEF RefsFit
<1>9. /\ raced' \in BOOLEAN /\ (raced => raced') /\ loading' \in BOOLEAN
      /\ failures' \in 0 .. MaxFailures /\ drains' \in [Drain -> Drains]
  BY <1>1, <1>2 DEF SyncShape
<1>10. (Renewed' <=> Renewed) /\ \A t : InPages(t) => InPages(t)'
  BY <1>2, PagesReach
<1>11. FirstAsked' <=> FirstAsked
  BY <1>2 DEF FirstAsked
<1>12. \A e \in Drain : \E f \in Drain : drains'[e] = drains[f] \/ drains'[e].pc # "read"
  BY <1>2
<1> QED BY <1>2, <1>6, <1>8, <1>9, <1>10, <1>11, <1>12, DrainsKeep

-----------------------------------------------------------------------------
(* The moves of this tab.                                                  *)

(* An optimistic move explains its row by itself, and its snapshot by what *)
(* explained the row before.                                               *)
LEMMA commitTaskMoveKeeps ==
    ASSUME SyncInv, NEW t \in Tasks, commitTaskMove(t)
    PROVE  SyncInv'
<1>1. SyncShape /\ MovesShape /\ EventsTrue /\ RefsFit /\ (\A d \in Drain : PageEnds(d))
  BY DEF SyncInv
<1>2. PICK g : g = generation + 1
  OBVIOUS
<1>3. PICK m : m = [NoMove EXCEPT !.pc = "sent", !.task = t, !.snap = view]
  OBVIOUS
<1>4. /\ g <= MaxMoves /\ WritesLeft > 0 /\ view[t] # Gone /\ generation' = g
      /\ moves' = [moves EXCEPT ![g] = m]
      /\ view' = [view EXCEPT ![t].pos = Guess]
      /\ UNCHANGED <<tasks, born, writes, link, drops, failures, net, timers, asked, answers, drains,
                     loading, rs, lost, skipped, raced>>
  <2>1. moves' = [moves EXCEPT ![g] = m]
    BY <1>2, <1>3, Zenon DEF commitTaskMove
  <2>2. /\ g <= MaxMoves /\ WritesLeft > 0 /\ view[t] # Gone /\ generation' = g
        /\ view' = [view EXCEPT ![t].pos = Guess]
    BY <1>2 DEF commitTaskMove
  <2>3. UNCHANGED <<tasks, born, writes, link, drops, failures, net, timers, asked, answers, drains,
                    loading, rs, lost, skipped, raced>>
    BY DEF commitTaskMove, serverVars, boundVars, readVars
  <2> QED BY <2>1, <2>2, <2>3
<1>5. generation \in 0 .. MaxMoves /\ MaxMoves \in Nat /\ g \in 1 .. MaxMoves /\ g > generation
  BY <1>1, <1>2, <1>4, SyncAssumption DEF MovesShape
<1>6. view \in Cache /\ MaxWrites \in Nat
  BY <1>1, SyncAssumption DEF SyncShape
<1>7. m \in Moves /\ m.pc = "sent" /\ m.task = t /\ m.snap = view
  <2>1. NoMove \in Moves
    BY DEF NoMove, Moves, Cache
  <2> QED BY <1>3, <1>6, <2>1 DEF Moves
<1>8. generation' \in 0 .. MaxMoves /\ generation' >= generation /\ g <= generation'
  BY <1>2, <1>4, <1>5
<1>9. MovesShape' /\ MovesBut(g, m)
  BY <1>1, <1>4, <1>5, <1>7, <1>8, MoveSet
<1>10. moves'[g] = m /\ \A h \in (1 .. MaxMoves) \ {g} : moves'[h] = moves[h]
  BY <1>9 DEF MovesBut
<1>11. PICK w : w = [view[t] EXCEPT !.pos = Guess]
  OBVIOUS
<1>12. w \in Rec /\ w # Gone /\ w.body = view[t].body
  <2>1. view[t] \in Rec
    BY <1>4, <1>6 DEF Cache
  <2> QED BY <1>6, <1>11, <2>1 DEF Rec, Gone, Guess
<1>13. view' = [view EXCEPT ![t] = w]
  BY <1>4, <1>6, <1>11 DEF Cache
<1>14. view' \in Cache /\ view'[t] = w /\ \A u \in Tasks \ {t} : view'[u] = view[u]
  BY <1>6, <1>12, <1>13 DEF Cache
<1>15. SyncShape'
  BY <1>1, <1>4, <1>14 DEF SyncShape
<1>16. EventsTrue' /\ RefsFit' /\ \A d \in Drain : PageEnds(d)'
  BY <1>1, <1>4, EventsStay, RefsStay, PagesStay
<1>17. ASSUME ~raced' PROVE AnswersTrue' /\ Chased' /\ Explained'
  <2>1. AnswersTrue /\ Chased /\ Explained
    BY <1>4, <1>17 DEF SyncInv
  <2>2. Chased'
    BY <1>4, <2>1, ChasedStays
  <2>3. AnswersTrue'
    <3>1. \A a \in answers' : a.rec = tasks'[a.task]
      BY <1>4, <2>1 DEF AnswersTrue
    <3>2. \A h \in 1 .. MaxMoves : moves'[h].pc = "answered" => moves'[h].rec = tasks'[moves'[h].task]
      BY <1>4, <1>7, <1>10, <2>1 DEF AnswersTrue
    <3>3. \A d \in Drain : PageTrue(d)'
      BY <1>4, <2>1 DEF AnswersTrue, PageTrue, Beyond
    <3> QED BY <3>1, <3>2, <3>3 DEF AnswersTrue
  <2>4. (Renewed' <=> Renewed) /\ \A u : InPages(u) => InPages(u)'
    BY <1>4, PagesReach
  <2>5. CASE lost \/ Renewed
    BY <1>4, <2>2, <2>3, <2>4, <2>5 DEF Explained
  <2>6. CASE ~lost /\ ~Renewed
    <3>1. \A u \in Tasks : Fits(view[u], u, 0)
      BY <2>1, <2>6 DEF Explained
    <3>2. \A u, k : Told(u, k) => Told(u, k)'
      BY <1>4, ToldStays
    <3>3. \A u : Coming(u) => Coming(u)'
      BY <1>4, <3>2 DEF Coming
    <3>4. moves[g].pc \notin Pending
      BY <1>1, <1>5 DEF MovesShape, Pending
    <3>5. \A u, but : Moving(u, but) => Moving(u, but)' /\ Moving(u, g)'
      BY <1>10, <3>4 DEF Moving
    <3>6. Moving(t, 0)'
      BY <1>5, <1>7, <1>10 DEF Moving, Pending
    <3>7. ASSUME NEW u \in Tasks PROVE Fits(view[u], u, 0)'
      <4>1. CASE u = t
        <5>1. Fits(view[t], t, 0) /\ view[t] # Gone /\ tasks'[t] = tasks[t]
          BY <1>4, <3>1
        <5> QED BY <1>12, <1>14, <3>2, <3>3, <3>6, <4>1, <5>1 DEF Fits
      <4>2. CASE u # t
        <5>1. Fits(view[u], u, 0) /\ view'[u] = view[u] /\ tasks'[u] = tasks[u]
          BY <1>4, <1>14, <3>1, <4>2
        <5> QED BY <2>4, <3>2, <3>3, <3>5, <5>1 DEF Fits
      <4> QED BY <4>1, <4>2
    <3>8. ASSUME NEW h \in 1 .. MaxMoves PROVE SnapFits(h)'
      <4>1. CASE h # g
        BY <1>4, <4>1 DEF SnapFits, Stands
      <4>2. CASE h = g
        <5>1. moves'[g].task = t /\ moves'[g].snap = view
          BY <1>7, <1>10
        <5>2. Fits(view[t], t, 0) /\ view[t] # Gone /\ tasks'[t] = tasks[t]
          BY <1>4, <3>1
        <5>3. PICK x : x = view[t]
          OBVIOUS
        <5>4. Fits(x, t, g)'
          BY <3>2, <3>3, <3>5, <5>2, <5>3 DEF Fits
        <5>5. moves'[g].snap[moves'[g].task] = x /\ x # Gone
          BY <5>1, <5>2, <5>3
        <5>6. Fits(moves[g].snap[moves[g].task], moves[g].task, g)'
          BY <5>1, <5>4, <5>5 DEF Fits
        <5> QED BY <4>2, <5>5, <5>6 DEF SnapFits
      <4> QED BY <4>1, <4>2
    <3>9. Explained'
      BY <3>7, <3>8 DEF Explained
    <3> QED BY <2>2, <2>3, <3>9
  <2> QED BY <2>5, <2>6
<1> QED BY <1>9, <1>15, <1>16, <1>17 DEF SyncInv

(* A refused move still holds its snapshot.                                *)
LEMMA MoveRefusedKeeps ==
    ASSUME SyncInv, NEW g \in 1 .. MaxMoves, MoveRefused(g)
    PROVE  SyncInv'
<1>1. SyncShape /\ MovesShape /\ EventsTrue /\ RefsFit /\ (\A d \in Drain : PageEnds(d))
  BY DEF SyncInv
<1>2. /\ moves[g].pc = "sent" /\ moves' = [moves EXCEPT ![g].pc = "failed"]
      /\ Fails \/ UNCHANGED <<drops, failures>>
      /\ UNCHANGED <<tasks, born, writes, view, link, net, timers, asked, answers, drains,
                     loading, rs, generation, lost, skipped, raced>>
  BY DEF MoveRefused, serverVars, boundVars, readVars
<1>3. PICK m : m = [moves[g] EXCEPT !.pc = "failed"]
  OBVIOUS
<1>4. moves \in [1 .. MaxMoves -> Moves] /\ moves[g] \in Moves /\ moves[g].task \in Tasks
  BY <1>1, <1>2 DEF MovesShape, Pending
<1>5. m \in Moves /\ m.pc = "failed" /\ m.task = moves[g].task /\ m.snap = moves[g].snap
  BY <1>3, <1>4 DEF Moves
<1>6. moves' = [moves EXCEPT ![g] = m]
  BY <1>2, <1>3, <1>4
<1>7. generation' \in 0 .. MaxMoves /\ generation' >= generation /\ g <= generation'
  BY <1>1, <1>2, SyncAssumption DEF MovesShape
<1>8. MovesShape' /\ MovesBut(g, m)
  BY <1>1, <1>2, <1>4, <1>5, <1>6, <1>7, MoveSet
<1>9. moves'[g] = m /\ \A h \in (1 .. MaxMoves) \ {g} : moves'[h] = moves[h]
  BY <1>8 DEF MovesBut
<1>10. failures' \in 0 .. MaxFailures /\ drops' = drops
  BY <1>1, <1>2, SyncAssumption DEF SyncShape, Fails
<1>11. SyncShape'
  BY <1>1, <1>2, <1>10 DEF SyncShape
<1>12. EventsTrue' /\ RefsFit' /\ \A d \in Drain : PageEnds(d)'
  BY <1>1, <1>2, EventsStay, RefsStay, PagesStay
<1>13. ASSUME ~raced' PROVE AnswersTrue' /\ Chased' /\ Explained'
  <2>1. AnswersTrue /\ Chased /\ Explained
    BY <1>2, <1>13 DEF SyncInv
  <2>2. Chased'
    BY <1>2, <2>1, ChasedStays
  <2>3. AnswersTrue'
    <3>1. \A a \in answers' : a.rec = tasks'[a.task]
      BY <1>2, <2>1 DEF AnswersTrue
    <3>2. \A h \in 1 .. MaxMoves : moves'[h].pc = "answered" => moves'[h].rec = tasks'[moves'[h].task]
      BY <1>2, <1>5, <1>9, <2>1 DEF AnswersTrue
    <3>3. \A d \in Drain : PageTrue(d)'
      BY <1>2, <2>1 DEF AnswersTrue, PageTrue, Beyond
    <3> QED BY <3>1, <3>2, <3>3 DEF AnswersTrue
  <2>4. (Renewed' <=> Renewed) /\ \A u : InPages(u) => InPages(u)'
    BY <1>2, PagesReach
  <2>5. \A u, k : Told(u, k) => Told(u, k)'
    BY <1>2, ToldStays
  <2>6. \A u : Coming(u) => Coming(u)'
    BY <1>2, <2>5 DEF Coming
  <2>7. \A u, but : Moving(u, but) => Moving(u, but)'
    <3>1. \A h \in 1 .. MaxMoves : moves[h].pc \in Pending => moves'[h].pc \in Pending /\ moves'[h].task = moves[h].task
      BY <1>5, <1>9 DEF Pending
    <3> QED BY <3>1 DEF Moving
  <2>8. ASSUME NEW u \in Tasks
        PROVE  view'[u] = view[u] /\ \A v, but : Fits(v, u, but) => Fits(v, u, but)'
    <3>1. tasks'[u] = tasks[u] /\ \A k \in {"created", "moved", "deleted"} : Told(u, {k}) => Told(u, {k})'
      BY <1>2, <2>5
    <3>2. \A v, but : Fits(v, u, but) => Fits(v, u, but)'
      BY <2>4, <2>6, <2>7, <3>1, FitsKeep
    <3> QED BY <1>2, <3>2
  <2>9. \A h \in 1 .. MaxMoves : h = generation' /\ moves'[h].pc \in {"sent", "failed"} =>
          /\ h = generation /\ moves[h].pc \in {"sent", "failed"}
          /\ moves'[h].task = moves[h].task /\ moves'[h].snap = moves[h].snap
    BY <1>2, <1>5, <1>9
  <2>10. ~lost' /\ ~Renewed' => ~lost /\ ~Renewed
    BY <1>2, <2>4
  <2>11. Explained'
    BY <1>1, <2>1, <2>8, <2>9, <2>10, Carried
  <2> QED BY <2>2, <2>3, <2>11
<1> QED BY <1>8, <1>11, <1>12, <1>13 DEF SyncInv

(* An answer that nothing overtook makes the moved row the server's.       *)
LEMMA MoveAnsweredKeeps ==
    ASSUME SyncInv, NEW g \in 1 .. MaxMoves, MoveAnswered(g)
    PROVE  SyncInv'
<1>1. SyncShape /\ MovesShape /\ EventsTrue /\ RefsFit /\ (\A d \in Drain : PageEnds(d))
  BY DEF SyncInv
<1>2. PICK t \in Tasks : t = moves[g].task
  BY <1>1 DEF MovesShape, Pending, MoveAnswered
<1>3. PICK m : m = [pc |-> "done", task |-> 0, snap |-> [u \in Tasks |-> Gone], rec |-> Gone]
  OBVIOUS
<1>4. PICK w : w = IF view[t] = Gone THEN Gone ELSE moves[g].rec
  OBVIOUS
<1>5. /\ moves[g].pc = "answered" /\ moves' = [moves EXCEPT ![g] = m]
      /\ view' = [view EXCEPT ![t] = w]
      /\ UNCHANGED <<tasks, born, writes, link, drops, failures, net, timers, asked, answers, drains,
                     loading, rs, generation, lost, skipped, raced>>
  <2>1. [NoMove EXCEPT !.pc = "done"] = m
    BY <1>3 DEF NoMove
  <2>2. view \in Cache
    BY <1>1 DEF SyncShape
  <2> QED BY <1>2, <1>4, <2>1, <2>2 DEF MoveAnswered, serverVars, boundVars, readVars, Cache
<1>6. moves \in [1 .. MaxMoves -> Moves] /\ moves[g] \in Moves /\ view \in Cache
      /\ MaxWrites \in Nat
  BY <1>1, SyncAssumption DEF MovesShape, SyncShape
<1>7. m \in Moves /\ m.pc = "done"
  BY <1>3 DEF Moves, Cache
<1>8. generation' \in 0 .. MaxMoves /\ generation' >= generation /\ g <= generation'
  BY <1>1, <1>5, SyncAssumption DEF MovesShape
<1>9. MovesShape' /\ MovesBut(g, m)
  BY <1>1, <1>5, <1>7, <1>8, MoveSet DEF Pending
<1>10. moves'[g] = m /\ \A h \in (1 .. MaxMoves) \ {g} : moves'[h] = moves[h]
  BY <1>9 DEF MovesBut
<1>11. w \in Rec \cup {Gone} /\ w.pos # Guess
  <2>1. moves[g].rec \in ServerRec \cup {Gone}
    BY <1>6 DEF Moves
  <2> QED BY <1>4, <1>6, <2>1 DEF ServerRec, Rec, Gone, Guess
<1>12. view' \in Cache /\ view'[t] = w /\ \A u \in Tasks \ {t} : view'[u] = view[u]
  BY <1>5, <1>6, <1>11 DEF Cache
<1>13. SyncShape'
  BY <1>1, <1>5, <1>12 DEF SyncShape
<1>14. EventsTrue' /\ RefsFit' /\ \A d \in Drain : PageEnds(d)'
  BY <1>1, <1>5, EventsStay, RefsStay, PagesStay
<1>15. ASSUME ~raced' PROVE AnswersTrue' /\ Chased' /\ Explained'
  <2>1. AnswersTrue /\ Chased /\ Explained
    BY <1>5, <1>15 DEF SyncInv
  <2>2. Chased'
    BY <1>5, <2>1, ChasedStays
  <2>3. AnswersTrue'
    <3>1. \A a \in answers' : a.rec = tasks'[a.task]
      BY <1>5, <2>1 DEF AnswersTrue
    <3>2. \A h \in 1 .. MaxMoves : moves'[h].pc = "answered" => moves'[h].rec = tasks'[moves'[h].task]
      BY <1>5, <1>7, <1>10, <2>1 DEF AnswersTrue
    <3>3. \A d \in Drain : PageTrue(d)'
      BY <1>5, <2>1 DEF AnswersTrue, PageTrue, Beyond
    <3> QED BY <3>1, <3>2, <3>3 DEF AnswersTrue
  <2>4. (Renewed' <=> Renewed) /\ \A u : InPages(u) => InPages(u)'
    BY <1>5, PagesReach
  <2>5. \A u, k : Told(u, k) => Told(u, k)'
    BY <1>5, ToldStays
  <2>6. \A u : Coming(u) => Coming(u)'
    BY <1>5, <2>5 DEF Coming
  <2>7. \A u \in Tasks \ {t} : \A but : Moving(u, but) => Moving(u, but)'
    BY <1>2, <1>10 DEF Moving
  <2>8. ASSUME NEW u \in Tasks \ {t}
        PROVE  view'[u] = view[u] /\ \A v, but : Fits(v, u, but) => Fits(v, u, but)'
    <3>1. tasks'[u] = tasks[u] /\ \A k \in {"created", "moved", "deleted"} : Told(u, {k}) => Told(u, {k})'
      BY <1>5, <2>5
    <3>2. \A v, but : Fits(v, u, but) => Fits(v, u, but)'
      BY <2>4, <2>6, <2>7, <3>1, FitsKeep
    <3> QED BY <1>12, <3>2
  <2>9. CASE lost \/ Renewed
    BY <1>5, <2>2, <2>3, <2>4, <2>9 DEF Explained
  <2>10. CASE ~lost /\ ~Renewed
    <3>1. Fits(view[t], t, 0)
      BY <2>1, <2>10 DEF Explained
    <3>2. Fits(view[t], t, 0)'
      <4>1. tasks'[t] = tasks[t]
        BY <1>5
      <4>2. CASE view[t] = Gone
        BY <1>4, <1>12, <2>4, <2>5, <2>6, <3>1, <4>1, <4>2 DEF Fits
      <4>3. CASE view[t] # Gone
        <5>1. w = tasks[t]
          BY <1>2, <1>4, <1>5, <2>1, <4>3 DEF AnswersTrue
        <5> QED BY <1>12, <4>1, <5>1 DEF Fits
      <4> QED BY <4>2, <4>3
    <3>3. \A u \in Tasks :
             \/ /\ view'[u] = view[u]
                /\ \A v, but : (v = Gone => view[u] = Gone) /\ Fits(v, u, but) => Fits(v, u, but)'
             \/ view'[u].pos # Guess /\ Fits(view[u], u, 0)'
      BY <1>11, <1>12, <2>8, <3>2
    <3>4. \A h \in 1 .. MaxMoves : h = generation' /\ moves'[h].pc \in {"sent", "failed"} =>
            /\ h = generation /\ moves[h].pc \in {"sent", "failed"}
            /\ moves'[h].task = moves[h].task /\ moves'[h].snap = moves[h].snap
      BY <1>5, <1>7, <1>10
    <3>5. Explained'
      BY <1>1, <2>1, <2>10, <3>3, <3>4, Carried
    <3> QED BY <2>2, <2>3, <3>5
  <2> QED BY <2>9, <2>10
<1> QED BY <1>9, <1>13, <1>14, <1>15 DEF SyncInv

(* The latest move that fails puts its snapshot back, which fits while the *)
(* move stands; an older one asks for the board.                           *)
LEMMA MoveFailedKeeps ==
    ASSUME SyncInv, NEW g \in 1 .. MaxMoves, MoveFailed(g)
    PROVE  SyncInv'
<1>1. SyncShape /\ MovesShape /\ EventsTrue /\ RefsFit /\ (\A d \in Drain : PageEnds(d))
  BY DEF SyncInv
<1>2. PICK t \in Tasks : t = moves[g].task
  BY <1>1 DEF MovesShape, Pending, MoveFailed
<1>3. PICK m : m = [pc |-> "done", task |-> 0, snap |-> [u \in Tasks |-> Gone], rec |-> Gone]
  OBVIOUS
<1>4. PICK snap : snap = moves[g].snap
  OBVIOUS
<1>5. /\ moves[g].pc = "failed" /\ moves' = [moves EXCEPT ![g] = m]
      /\ g = generation => /\ view' = snap
                           /\ raced' = (raced \/ view # [snap EXCEPT ![t].pos = Guess])
                           /\ UNCHANGED drains
      /\ g # generation => /\ drains' = [drains EXCEPT !["retry"] = FirstPage]
                           /\ UNCHANGED <<view, raced>>
      /\ UNCHANGED <<tasks, born, writes, link, drops, failures, net, timers, asked, answers,
                     loading, rs, generation, lost, skipped>>
  <2>1. [NoMove EXCEPT !.pc = "done"] = m
    BY <1>3 DEF NoMove
  <2> QED BY <1>2, <1>4, <2>1 DEF MoveFailed, serverVars, boundVars, readVars
<1>6. /\ moves \in [1 .. MaxMoves -> Moves] /\ moves[g] \in Moves /\ view \in Cache /\ snap \in Cache
      /\ MaxWrites \in Nat /\ drains \in [Drain -> Drains]
  BY <1>1, <1>4, SyncAssumption DEF MovesShape, SyncShape, Moves
<1>7. m \in Moves /\ m.pc = "done"
  BY <1>3 DEF Moves, Cache
<1>8. generation' \in 0 .. MaxMoves /\ generation' >= generation /\ g <= generation'
  BY <1>1, <1>5, SyncAssumption DEF MovesShape
<1>9. MovesShape' /\ MovesBut(g, m)
  BY <1>1, <1>5, <1>7, <1>8, MoveSet DEF Pending
<1>10. moves'[g] = m /\ \A h \in (1 .. MaxMoves) \ {g} : moves'[h] = moves[h]
  BY <1>9 DEF MovesBut
<1>11. EventsTrue'
  BY <1>1, <1>5, EventsStay
<1>12. CASE g = generation
  <2>1. raced' \in BOOLEAN
    <3>1. (raced \/ view # [snap EXCEPT ![t].pos = Guess]) \in BOOLEAN
      OBVIOUS
    <3>2. raced' = (raced \/ view # [snap EXCEPT ![t].pos = Guess])
      BY <1>5, <1>12
    <3> QED BY <3>1, <3>2, Zenon
  <2>2. SyncShape'
    BY <1>1, <1>5, <1>6, <1>12, <2>1 DEF SyncShape
  <2>3. RefsFit' /\ \A d \in Drain : PageEnds(d)'
    BY <1>1, <1>5, <1>12, RefsStay, PagesStay
  <2>4. ASSUME ~raced' PROVE AnswersTrue' /\ Chased' /\ Explained'
    <3>1. ~raced /\ view = [snap EXCEPT ![t].pos = Guess]
      BY <1>5, <1>12, <2>4
    <3>2. AnswersTrue /\ Chased /\ Explained
      BY <3>1 DEF SyncInv
    <3>3. Chased'
      BY <1>5, <1>12, <3>2, ChasedStays
    <3>4. AnswersTrue'
      <4>1. \A a \in answers' : a.rec = tasks'[a.task]
        BY <1>5, <3>2 DEF AnswersTrue
      <4>2. \A h \in 1 .. MaxMoves : moves'[h].pc = "answered" => moves'[h].rec = tasks'[moves'[h].task]
        BY <1>5, <1>7, <1>10, <3>2 DEF AnswersTrue
      <4>3. \A d \in Drain : PageTrue(d)'
        BY <1>5, <1>12, <3>2 DEF AnswersTrue, PageTrue, Beyond
      <4> QED BY <4>1, <4>2, <4>3 DEF AnswersTrue
    <3>5. (Renewed' <=> Renewed) /\ \A u : InPages(u) => InPages(u)'
      BY <1>5, <1>12, PagesReach
    <3>6. CASE lost \/ Renewed
      BY <1>5, <3>3, <3>4, <3>5, <3>6 DEF Explained
    <3>7. CASE ~lost /\ ~Renewed
      <4>1. /\ \A u \in Tasks : Fits(view[u], u, 0)
            /\ SnapFits(g)
        BY <3>2, <3>7 DEF Explained
      <4>2. \A u, k : Told(u, k) => Told(u, k)'
        BY <1>5, ToldStays
      <4>3. \A u : Coming(u) => Coming(u)'
        BY <1>5, <4>2 DEF Coming
      <4>4. /\ \A u \in Tasks \ {t} : view[u] = snap[u]
            /\ view[t] = [snap[t] EXCEPT !.pos = Guess]
        BY <1>6, <3>1 DEF Cache
      <4>5. snap[t] # Gone /\ Fits(snap[t], t, g)
        <5>1. Stands(g)
          BY <1>2, <1>4, <1>5, <1>12, <4>4 DEF Stands
        <5> QED BY <1>2, <1>4, <4>1, <5>1 DEF SnapFits
      <4>6. Moving(t, g) => Moving(t, 0)'
        BY <1>10 DEF Moving
      <4>7. \A u \in Tasks \ {t} : Moving(u, 0) => Moving(u, 0)'
        BY <1>2, <1>10 DEF Moving
      <4>8. ASSUME NEW u \in Tasks PROVE Fits(view[u], u, 0)'
        <5>1. CASE u = t
          <6>1. view'[t] = snap[t] /\ tasks'[t] = tasks[t]
            BY <1>5, <1>12
          <6> QED BY <4>2, <4>3, <4>5, <4>6, <5>1, <6>1 DEF Fits
        <5>2. CASE u # t
          <6>1. view'[u] = view[u] /\ tasks'[u] = tasks[u] /\ Fits(view[u], u, 0)
            BY <1>5, <1>12, <4>1, <4>4, <5>2
          <6>2. Moving(u, 0) => Moving(u, 0)'
            BY <4>7, <5>2
          <6> QED BY <3>5, <4>2, <4>3, <6>1, <6>2 DEF Fits
        <5> QED BY <5>1, <5>2
      <4>9. \A h \in 1 .. MaxMoves : SnapFits(h)'
        BY <1>5, <1>7, <1>10, <1>12 DEF SnapFits, Stands
      <4>10. Explained'
        BY <4>8, <4>9 DEF Explained
      <4> QED BY <3>3, <3>4, <4>10
    <3> QED BY <3>6, <3>7
  <2> QED BY <1>9, <1>11, <2>2, <2>3, <2>4 DEF SyncInv
<1>13. CASE g # generation
  <2>1. "retry" \in Drain
    BY DEF Drain
  <2>2. drains' = [drains EXCEPT !["retry"] = FirstPage] /\ UNCHANGED <<view, raced>>
    BY <1>5, <1>13
  <2>3. DrainsBut("retry", FirstPage)
    BY <1>1, <2>1, <2>2, DrainSet, FirstPageIs
  <2>4. /\ drains' \in [Drain -> Drains] /\ drains'["retry"].pc = "asked" /\ drains'["retry"].cursor = 0
        /\ \A e \in Drain \ {"retry"} : drains'[e] = drains[e]
    BY <2>3, FirstPageIs DEF DrainsBut
  <2>5. SyncShape'
    BY <1>1, <1>5, <2>2, <2>4 DEF SyncShape
  <2>6. RefsFit'
    <3>1. "resync" \in Drain /\ "resync" # "retry"
      BY DEF Drain
    <3> QED BY <1>1, <1>5, <2>4, <3>1 DEF RefsFit
  <2>7. ASSUME NEW e \in Drain PROVE PageEnds(e)'
    <3>1. PageEnds(e)
      BY <1>1
    <3> QED BY <2>4, <3>1 DEF PageEnds
  <2>8. ASSUME ~raced' PROVE AnswersTrue' /\ Chased' /\ Explained'
    <3>1. AnswersTrue
      BY <2>2, <2>8 DEF SyncInv
    <3>2. Chased'
      BY <2>1, <2>4 DEF Chased, FirstAsked
    <3>3. Explained'
      BY <2>1, <2>4 DEF Explained, Renewed
    <3>4. \A a \in answers' : a.rec = tasks'[a.task]
      BY <1>5, <3>1 DEF AnswersTrue
    <3>5. \A h \in 1 .. MaxMoves : moves'[h].pc = "answered" => moves'[h].rec = tasks'[moves'[h].task]
      BY <1>5, <1>7, <1>10, <3>1 DEF AnswersTrue
    <3>6. ASSUME NEW e \in Drain PROVE PageTrue(e)'
      <4>1. PageTrue(e)
        BY <3>1 DEF AnswersTrue
      <4> QED BY <1>5, <2>4, <4>1 DEF PageTrue, Beyond
    <3> QED BY <3>2, <3>3, <3>4, <3>5, <3>6 DEF AnswersTrue
  <2> QED BY <1>9, <1>11, <2>5, <2>6, <2>7, <2>8 DEF SyncInv
<1> QED BY <1>12, <1>13

-----------------------------------------------------------------------------
(* The whole.                                                              *)

(* Nothing changes.                                                        *)
LEMMA SyncStays ==
    ASSUME SyncInv, UNCHANGED syncVars
    PROVE  SyncInv'
<1>1. SyncShape /\ MovesShape /\ EventsTrue /\ RefsFit /\ (\A d \in Drain : PageEnds(d))
  BY DEF SyncInv
<1>2. UNCHANGED <<tasks, born, writes, view, link, drops, failures, net, timers, asked, answers, drains,
                  loading, rs, moves, generation, lost, skipped, raced>>
  BY DEF syncVars, serverVars, boundVars, readVars, moveVars
<1>3. SyncShape'
  BY <1>1, <1>2 DEF SyncShape
<1>4. MovesShape' /\ EventsTrue' /\ RefsFit' /\ \A d \in Drain : PageEnds(d)'
  BY <1>1, <1>2, MovesStay, EventsStay, RefsStay, PagesStay
<1>5. ASSUME ~raced' PROVE AnswersTrue' /\ Chased' /\ Explained'
  <2>1. AnswersTrue /\ Chased /\ Explained
    BY <1>2, <1>5 DEF SyncInv
  <2>2. AnswersTrue' /\ Chased'
    BY <1>2, <2>1, AnswersStay, ChasedStays
  <2>3. Explained'
    BY <1>2, <2>1 DEF Explained, Renewed, SnapFits, Stands, Fits, Coming, Told, Moving, InPages
  <2> QED BY <2>2, <2>3
<1> QED BY <1>3, <1>4, <1>5 DEF SyncInv

(* The page opens with its load under way.                                 *)
LEMMA SyncStarts ==
    ASSUME SyncInit
    PROVE  SyncInv
<1>1. /\ tasks = [t \in Tasks |-> IF t \in Seeded THEN [pos |-> 0, body |-> 0] ELSE Gone]
      /\ born = Seeded /\ writes = 0 /\ view = [t \in Tasks |-> Gone]
      /\ link = "off" /\ drops = 0 /\ failures = 0 /\ net = << >>
      /\ timers = {} /\ asked = [t \in Tasks |-> 0] /\ answers = {}
      /\ drains = [d \in Drain |-> IF d = "load" THEN FirstPage ELSE NoDrain]
      /\ loading = TRUE
      /\ rs = [fresh |-> TRUE, timer |-> FALSE, running |-> FALSE, queued |-> FALSE]
      /\ moves = [g \in 1 .. MaxMoves |-> NoMove] /\ generation = 0
      /\ lost = FALSE /\ skipped = FALSE /\ raced = FALSE
  BY DEF SyncInit
<1>2. /\ Seeded \subseteq Tasks /\ MaxWrites \in Nat /\ MaxDrops \in Nat /\ MaxFailures \in Nat
      /\ MaxMoves \in Nat /\ Tasks \subseteq Nat \ {0}
  BY SyncAssumption
<1>3. tasks \in Board /\ view \in Cache /\ \A t \in Tasks \ born : tasks[t] = Gone
  <2>1. [pos |-> 0, body |-> 0] \in ServerRec
    BY <1>2 DEF ServerRec
  <2> QED BY <1>1, <2>1 DEF Board, Cache
<1>4. net \in Seq(Events) /\ DOMAIN net = {}
  BY <1>1
<1>5. drains \in [Drain -> Drains] /\ "load" \in Drain
  BY <1>1, FirstPageIs DEF Drain
<1>6. /\ drains["load"].pc = "asked" /\ drains["load"].cursor = 0
      /\ \A d \in Drain : drains[d].pc # "read"
  BY <1>1, <1>5, FirstPageIs
<1>7. /\ rs \in Refs /\ ~rs.timer /\ ~rs.running /\ ~rs.queued
  <2>1. PICK y \in BOOLEAN, n \in BOOLEAN : y = TRUE /\ n = FALSE
    OBVIOUS
  <2>2. rs = [fresh |-> y, timer |-> n, running |-> n, queued |-> n]
    BY <1>1, <2>1
  <2>3. rs \in Refs /\ rs.timer = n /\ rs.running = n /\ rs.queued = n
    BY <2>2 DEF Refs
  <2> QED BY <2>1, <2>3
<1>8. loading \in BOOLEAN /\ lost \in BOOLEAN /\ skipped \in BOOLEAN /\ raced \in BOOLEAN
  BY <1>1
<1>9. ~lost /\ ~skipped
  BY <1>1
<1>10. SyncShape
  BY <1>1, <1>2, <1>3, <1>4, <1>5, <1>7, <1>8 DEF SyncShape, Refs
<1>11. NoMove \in Moves /\ NoMove.pc = "none"
  BY DEF NoMove, Moves, Cache
<1>12. MovesShape
  <2>1. moves \in [1 .. MaxMoves -> Moves] /\ \A g \in 1 .. MaxMoves : moves[g].pc = "none"
    BY <1>1, <1>11
  <2>2. {g \in 1 .. MaxMoves : moves[g].pc = "sent"} = {}
    BY <2>1
  <2>3. WritesLeft = MaxWrites - 0 - 0
    BY <1>1, <2>2, FS_EmptySet DEF WritesLeft
  <2> QED BY <1>1, <1>2, <2>1, <2>3 DEF MovesShape, Pending
<1>13. EventsTrue
  BY <1>4 DEF EventsTrue
<1>14. RefsFit
  BY <1>1, <1>7, <1>9 DEF RefsFit
<1>15. \A d \in Drain : PageEnds(d)
  BY <1>6 DEF PageEnds
<1>16. AnswersTrue
  <2>1. \A g \in 1 .. MaxMoves : moves[g].pc = "none"
    BY <1>1, <1>11
  <2> QED BY <1>1, <1>6, <2>1 DEF AnswersTrue, PageTrue
<1>17. Chased /\ Explained
  BY <1>5, <1>6, <1>9 DEF Chased, Explained, Renewed
<1> QED BY <1>10, <1>12, <1>13, <1>14, <1>15, <1>16, <1>17 DEF SyncInv

(* Every step keeps the invariant.                                         *)
LEMMA SyncSteps ==
    ASSUME SyncInv, [SyncNext]_syncVars
    PROVE  SyncInv'
<1>1. CASE DetailsFail
  BY <1>1, DetailsFailKeeps
<1>2. CASE Reveal
  BY <1>2, RevealKeeps
<1>3. ASSUME NEW t \in Tasks, RemoteWrite(t) \/ commitTaskMove(t) PROVE SyncInv'
  BY <1>3, RemoteWriteKeeps, commitTaskMoveKeeps
<1>4. CASE Join \/ Dropped \/ HandleEvent
  BY <1>4, JoinKeeps, DroppedKeeps, HandleEventKeeps
<1>5. CASE ReadStep
  BY <1>5, UpsertFiresKeeps, TaskReadKeeps, ApplyReadKeeps DEF ReadStep
<1>6. CASE DrainStep
  BY <1>6, ReadPageKeeps, ApplyPageKeeps, DrainFailsKeeps DEF DrainStep
<1>7. CASE runResync \/ FreshEnds
  BY <1>7, runResyncKeeps, FreshEndsKeeps
<1>8. CASE MoveStep
  BY <1>8, MoveCommitsKeeps, MoveRefusedKeeps, MoveAnsweredKeeps, MoveFailedKeeps DEF MoveStep
<1>9. CASE Quiet \/ UNCHANGED syncVars
  BY <1>9, SyncStays DEF Quiet
<1> QED BY <1>1, <1>2, <1>3, <1>4, <1>5, <1>6, <1>7, <1>8, <1>9 DEF SyncNext

(* A settled board has nothing left that could explain a difference.       *)
LEMMA SettledIsCurrent ==
    ASSUME SyncInv, Settled, ~skipped, ~raced
    PROVE  view = tasks
<1>1. SyncShape /\ RefsFit /\ Chased /\ Explained
  BY DEF SyncInv
<1>2. /\ link = "live" /\ net = << >> /\ timers = {} /\ answers = {}
      /\ \A t \in Tasks : asked[t] = 0
      /\ \A d \in Drain : drains[d].pc = "idle"
      /\ ~ loading /\ ~ rs.timer
      /\ \A g \in 1 .. MaxMoves : moves[g].pc \in {"none", "done"}
  BY DEF Settled
<1>3. "resync" \in Drain
  BY DEF Drain
<1>4. ~rs.queued /\ ~FirstAsked /\ ~Renewed
  BY <1>1, <1>2, <1>3 DEF RefsFit, FirstAsked, Renewed
<1>5. ~lost
  BY <1>1, <1>2, <1>4 DEF Chased
<1>6. \A t, k : ~Told(t, k)
  BY <1>2 DEF Told
<1>7. \A t \in Tasks : ~Coming(t)
  BY <1>2, <1>6 DEF Coming
<1>8. \A t : ~Moving(t, 0) /\ ~InPages(t)
  BY <1>2 DEF Moving, InPages, Pending
<1>9. ASSUME NEW t \in Tasks PROVE view[t] = tasks[t]
  <2>1. Fits(view[t], t, 0)
    BY <1>1, <1>4, <1>5 DEF Explained
  <2>2. \/ tasks[t] = Gone /\ view[t] = Gone
        \/ /\ tasks[t] # Gone /\ view[t] # Gone /\ view[t].body = tasks[t].body
           /\ view[t].pos = tasks[t].pos
    BY <1>6, <1>7, <1>8, <2>1 DEF Fits
  <2>3. view[t] \in Rec \cup {Gone} /\ tasks[t] \in ServerRec \cup {Gone}
    BY <1>1 DEF SyncShape, Cache, Board
  <2> QED BY <2>2, <2>3 DEF Rec, ServerRec
<1>10. view \in Cache /\ tasks \in Board
  BY <1>1 DEF SyncShape
<1> QED BY <1>9, <1>10 DEF Cache, Board

(* The invariant has the types.                                            *)
LEMMA SyncTypes ==
    ASSUME SyncInv
    PROVE  SyncTypeOK
<1>1. SyncShape /\ MovesShape
  BY DEF SyncInv
<1>2. MaxWrites \in Nat /\ MaxMoves \in Nat
  BY SyncAssumption
<1>3. ServerRec \subseteq Rec /\ Board \subseteq Cache
  <2>1. ServerRec \subseteq Rec
    BY <1>2 DEF ServerRec, Rec, Guess
  <2> QED BY <2>1 DEF Board, Cache
<1>4. writes \in 0 .. MaxWrites
  <2> DEFINE sent == {h \in 1 .. MaxMoves : moves[h].pc = "sent"}
  <2>1. Cardinality(sent) \in Nat
    <3>1. IsFiniteSet(1 .. MaxMoves)
      BY <1>2, FS_Interval
    <3>2. sent \subseteq 1 .. MaxMoves
      OBVIOUS
    <3> HIDE DEF sent
    <3> QED BY <3>1, <3>2, FS_Subset, FS_CardinalityType
  <2>2. MaxWrites - writes - Cardinality(sent) >= 0 /\ writes \in Nat
    BY <1>1 DEF MovesShape, WritesLeft
  <2> HIDE DEF sent
  <2> QED BY <1>2, <2>1, <2>2
<1>5. \A i \in DOMAIN net : net[i].type \in {"ack", "created", "updated", "moved", "deleted"}
  <2>1. \A i \in DOMAIN net : net[i] \in Events
    BY <1>1 DEF SyncShape
  <2> QED BY <2>1, EventIs
<1>6. answers \subseteq [task : Tasks, rec : Rec]
  BY <1>1, <1>3 DEF SyncShape
<1>7. \A d \in Drain : drains[d].pc \in {"idle", "asked", "read"} /\ drains[d].page \in Cache
  <2>1. \A d \in Drain : drains[d] \in Drains
    BY <1>1 DEF SyncShape
  <2> QED BY <1>3, <2>1 DEF Drains
<1>8. /\ \A g \in 1 .. MaxMoves : moves[g].pc \in {"none", "sent", "answered", "failed", "done"}
      /\ generation \in 0 .. MaxMoves
  BY <1>1 DEF MovesShape, Moves
<1> QED BY <1>1, <1>3, <1>4, <1>5, <1>6, <1>7, <1>8 DEF SyncShape, SyncTypeOK

(* A board that shows itself live and has nothing under way is the         *)
(* server's, unless a read or a move failed or was overtaken, or a join    *)
(* within the fresh window dropped its resync: an event that was missed is *)
(* always made up for by a drain, and what a row shows beside the server's *)
(* task is explained by something still on its way.                        *)
THEOREM BoardStaysInSync == SyncSpec => []SyncSound
<1>1. SyncInit => SyncInv
  BY SyncStarts
<1>2. SyncInv /\ [SyncNext]_syncVars => SyncInv'
  BY SyncSteps
<1>3. SyncInv => SyncSound
  BY SettledIsCurrent, SyncTypes DEF SyncSound, SettledBoardIsCurrent
<1> QED BY <1>1, <1>2, <1>3, PTL DEF SyncSpec
-----------------------------------------------------------------------------
(* The columns in a browser (BoardColumns).  Whatever the screen shows, the *)
(* version of the newest list it was given says whether it is behind; and   *)
(* while it is, an event or a read of the newest list is on its way.        *)

(* The board as it may start, without an answer on its way.                 *)
ColumnsSpec == ColumnsInit /\ [][ColumnsNext]_colsVars

Shown(g) == [id : 1 .. g, name : ColumnLabels, full : BOOLEAN]
Plain(g) == {x \in Shown(g) : ~x.full}
ListRead(g) == [ver : Nat, list : Seq(Shown(g)), seeds : BOOLEAN]
ColumnWrite(g) ==
    [kind : {"create", "rename", "delete", "move", "seed"},
     col : [id : Nat, name : ColumnLabels, full : BOOLEAN], after : Nat, before : Nat,
     rest : Seq(Shown(g)), from : Seq(Shown(g)), slot : Nat,
     phase : {"sent", "done", "refused", "failed"}, turn : Nat, ver : Nat, answer : Seq(Shown(g))]

ServerShape ==
    /\ given \in Nat /\ columns \in Seq(Plain(given)) /\ listVersion \in Nat
    /\ cardAt \in 0 .. given /\ (cardAt # Nowhere => cardAt \in Ids(columns))
    /\ colEvents \in Seq(0 .. given)

DialogHolds ==
    /\ dialog \in [kind : {"none", "create", "rename", "delete"}, col : 0 .. given,
                   name : ColumnLabels, blocked : BOOLEAN, pending : 0 .. MaxColumnWork]
    /\ dialog.kind \in {"rename", "delete"} => dialog.col # NoOne
ScreenShape ==
    /\ shownCols \in Seq(Shown(given))
    /\ cardShown \in 0 .. given /\ cardReads \subseteq 1 .. given
    /\ DialogHolds /\ colWork \in Nat
    /\ newestList \in Nat /\ newestList <= listVersion
    /\ overtaken \in BOOLEAN /\ cardMissed \in BOOLEAN

(* A read of the newest list found the list as it is.                       *)
ReadHolds(q) ==
    /\ q \in ListRead(given) /\ q.ver <= listVersion
    /\ q.ver = listVersion => Counted(q.list, NoOne) = columns

(* A deletion the server has done is of a column that is gone for good.     *)
WriteHolds(r) ==
    /\ r \in ColumnWrite(given) /\ r.ver <= listVersion
    /\ r.kind \in {"rename", "delete", "move"} => r.col.id \in 1 .. given
    /\ r.kind = "rename" => ~r.col.full
    /\ r.kind = "move" => r.slot \in 1 .. Len(r.rest) + 1
    /\ r.phase = "done" /\ r.kind \in {"rename", "move"} => 1 \in DOMAIN r.answer
    /\ r.phase = "done" /\ r.kind = "delete" => r.col.id \notin Ids(columns)

(* A screen that is behind will be told, or is reading what it misses.      *)
ToldOfList ==
    \/ newestList = listVersion \/ overtaken
    \/ \E k \in DOMAIN colEvents : colEvents[k] = NoOne
    \/ \E q \in listReads : q.ver = listVersion

(* A screen that is not behind shows the server's list.                     *)
UpToDate == ~overtaken /\ newestList = listVersion => Counted(shownCols, NoOne) = columns

(* The last move of the card is on its way, or was seen, or is being read.  *)
NoMoves == \A k \in DOMAIN colEvents : colEvents[k] = NoOne
LastPlace(k) == colEvents[k] = cardAt /\ \A l \in DOMAIN colEvents : l > k => colEvents[l] = NoOne
CardFollows ==
    \/ cardMissed
    \/ cardAt # Nowhere /\ \E k \in DOMAIN colEvents : LastPlace(k)
    \/ NoMoves /\ (cardShown = cardAt \/ cardAt \in cardReads)
NoCard == cardAt = Nowhere => cardShown = Nowhere /\ cardReads = {} /\ NoMoves

ColumnsInv ==
    /\ ServerShape /\ ScreenShape
    /\ \A q \in listReads : ReadHolds(q)
    /\ \A r \in own : WriteHolds(r)
    /\ ToldOfList /\ UpToDate /\ CardFollows /\ NoCard

(* Ids given later make room, and take none away.                           *)
LEMMA WiderLists ==
    ASSUME NEW g \in Nat, NEW h \in Nat, g <= h
    PROVE  /\ Seq(Plain(g)) \subseteq Seq(Plain(h)) /\ Seq(Shown(g)) \subseteq Seq(Shown(h))
           /\ Seq(0 .. g) \subseteq Seq(0 .. h) /\ Seq(Plain(g)) \subseteq Seq(Shown(g))
<1>1. Plain(g) \subseteq Plain(h) /\ Shown(g) \subseteq Shown(h) /\ Plain(g) \subseteq Shown(g)
  <2>1. Shown(g) \subseteq Shown(h)
    BY DEF Shown
  <2>2. Plain(g) \subseteq Plain(h)
    BY <2>1 DEF Plain
  <2> QED BY <2>1, <2>2 DEF Plain
<1>2. 0 .. g \subseteq 0 .. h
  OBVIOUS
<1>3. ASSUME NEW S, NEW T, S \subseteq T PROVE Seq(S) \subseteq Seq(T)
  <2> SUFFICES ASSUME NEW s \in Seq(S) PROVE s \in Seq(T)
    OBVIOUS
  <2>1. Len(s) \in Nat /\ s \in [1 .. Len(s) -> S] /\ DOMAIN s = 1 .. Len(s)
    BY LenProperties
  <2>2. s = [i \in 1 .. Len(s) |-> s[i]] /\ \A i \in 1 .. Len(s) : s[i] \in T
    BY <1>3, <2>1
  <2>3. [i \in 1 .. Len(s) |-> s[i]] \in Seq(T)
    BY <2>1, <2>2, IsASeq
  <2> QED BY <2>2, <2>3
<1> QED BY <1>1, <1>2, <1>3

(* A list without one of its columns, and without no other.                 *)
LEMMA WithoutOne ==
    ASSUME NEW S, NEW s \in Seq(S), NEW c
    PROVE  /\ Without(s, c) \in Seq(S) /\ Ids(Without(s, c)) = Ids(s) \ {c}
           /\ c \notin Ids(s) => Without(s, c) = s
<1> DEFINE kept == {i \in DOMAIN s : s[i].id # c}
           below(i) == {j \in kept : j < i}
           at(k) == CHOOSE i \in kept : Cardinality(below(i)) = k - 1
           n == Cardinality(kept)
           t == [k \in 1 .. n |-> s[at(k)]]
           f == [i \in kept |-> Cardinality(below(i)) + 1]
<1>1. DOMAIN s = 1 .. Len(s) /\ Len(s) \in Nat /\ \A i \in 1 .. Len(s) : s[i] \in S
  BY LenProperties
<1>2. Without(s, c) = t
  BY DEF Without
<1>3. IsFiniteSet(kept) /\ n \in Nat /\ kept \subseteq 1 .. Len(s)
  <2>1. IsFiniteSet(1 .. Len(s)) /\ kept \in SUBSET (1 .. Len(s))
    BY <1>1, FS_Interval
  <2>2. IsFiniteSet(kept)
    BY <2>1, FS_Subset
  <2> QED BY <2>1, <2>2, FS_CardinalityType
<1>4. ASSUME NEW i \in kept
      PROVE  IsFiniteSet(below(i)) /\ Cardinality(below(i)) \in Nat /\ Cardinality(below(i)) < n
  <2>1. below(i) \in SUBSET kept /\ i \notin below(i)
    BY <1>3
  <2>2. /\ IsFiniteSet(below(i)) /\ Cardinality(below(i)) <= n
        /\ n = Cardinality(below(i)) => kept = below(i)
    <3> HIDE DEF kept, below
    <3> QED BY <1>3, <2>1, FS_Subset
  <2>3. Cardinality(below(i)) \in Nat
    BY <2>2, FS_CardinalityType
  <2> HIDE DEF kept, below
  <2> QED BY <1>3, <2>1, <2>2, <2>3
<1>5. ASSUME NEW i \in kept, NEW j \in kept, i < j PROVE Cardinality(below(i)) < Cardinality(below(j))
  <2>1. below(i) \in SUBSET below(j) /\ i \in below(j) /\ i \notin below(i)
    BY <1>1, <1>3, <1>5
  <2>2. /\ Cardinality(below(i)) <= Cardinality(below(j))
        /\ Cardinality(below(j)) = Cardinality(below(i)) => below(j) = below(i)
    <3>1. IsFiniteSet(below(j))
      BY <1>4
    <3> HIDE DEF below
    <3> QED BY <2>1, <3>1, FS_Subset
  <2>3. Cardinality(below(i)) \in Nat /\ Cardinality(below(j)) \in Nat
    BY <1>4
  <2> HIDE DEF below, kept
  <2> QED BY <2>1, <2>2, <2>3
<1>6. f \in Injection(kept, 1 .. n)
  <2>1. f \in [kept -> 1 .. n] /\ DOMAIN f = kept
    <3>1. \A i \in kept : Cardinality(below(i)) + 1 \in 1 .. n
      <4> HIDE DEF kept, below
      <4> QED BY <1>3, <1>4
    <3> HIDE DEF kept, below
    <3> QED BY <3>1
  <2>2. ASSUME NEW i \in kept, NEW j \in kept, f[i] = f[j] PROVE i = j
    <3>1. i \in Int /\ j \in Int
      BY <1>1, <1>3
    <3>2. Cardinality(below(i)) = Cardinality(below(j))
      <4>1. Cardinality(below(i)) \in Nat /\ Cardinality(below(j)) \in Nat
        BY <1>4
      <4>2. Cardinality(below(i)) + 1 = Cardinality(below(j)) + 1
        BY <2>2
      <4> HIDE DEF kept, below
      <4> QED BY <4>1, <4>2
    <3>3. ~ (i < j) /\ ~ (j < i)
      <4>1. Cardinality(below(i)) \in Nat
        BY <1>4
      <4> HIDE DEF kept, below
      <4> QED BY <1>5, <3>2, <4>1
    <3> HIDE DEF kept
    <3> QED BY <3>1, <3>3
  <2> HIDE DEF f, kept, n
  <2> QED BY <2>1, <2>2 DEF Injection, IsInjective
<1>7. f \in Surjection(kept, 1 .. n)
  <2>1. IsFiniteSet(1 .. n) /\ Cardinality(1 .. n) = n
    BY <1>3, FS_Interval
  <2>2. Cardinality(kept) = Cardinality(1 .. n)
    BY <2>1
  <2> HIDE DEF f, kept, n
  <2> QED BY <1>6, <2>1, <2>2, FS_Injection
<1>8. ASSUME NEW k \in 1 .. n PROVE at(k) \in kept
  <2>1. PICK i \in kept : f[i] = k
    <3> HIDE DEF f, kept, n
    <3> QED BY <1>7 DEF Surjection
  <2>2. Cardinality(below(i)) \in Nat
    BY <1>4
  <2>3. Cardinality(below(i)) + 1 = k
    BY <2>1
  <2>4. Cardinality(below(i)) = k - 1
    <3> HIDE DEF kept, below, n
    <3> QED BY <2>2, <2>3
  <2> HIDE DEF kept, below
  <2> QED BY <2>4
<1>9. \A k \in 1 .. n : at(k) \in 1 .. Len(s) /\ s[at(k)] \in S /\ s[at(k)].id # c
  <2> TAKE k \in 1 .. n
  <2>1. at(k) \in 1 .. Len(s) /\ at(k) \in kept
    BY <1>3, <1>8
  <2>2. s[at(k)].id # c
    <3> HIDE DEF at
    <3> QED BY <2>1
  <2> HIDE DEF at, n
  <2> QED BY <1>1, <2>1, <2>2
<1>10. t \in Seq(S)
  <2> HIDE DEF at, n
  <2> QED BY <1>3, <1>9, IsASeq
<1>11. \A i \in kept : f[i] \in 1 .. n /\ at(f[i]) = i
  <2> TAKE i \in kept
  <2>1. f[i] \in 1 .. n /\ f[i] = Cardinality(below(i)) + 1
    <3>1. f \in [kept -> 1 .. n]
      <4> HIDE DEF f, kept, n
      <4> QED BY <1>7 DEF Surjection
    <3> HIDE DEF kept, n, below
    <3> QED BY <3>1
  <2>2. Cardinality(below(i)) \in Nat /\ Cardinality(below(i)) = f[i] - 1
    <3>1. Cardinality(below(i)) \in Nat
      BY <1>4
    <3> HIDE DEF kept, n, below, f
    <3> QED BY <2>1, <3>1
  <2>3. at(f[i]) \in kept /\ Cardinality(below(at(f[i]))) = f[i] - 1
    <3> HIDE DEF kept, n, below, f
    <3> QED BY <2>2
  <2>4. Cardinality(below(at(f[i]))) \in Nat
    BY <1>4, <2>3
  <2>5. ~ (i < at(f[i])) /\ ~ (at(f[i]) < i)
    <3> HIDE DEF kept, n, below, f, at
    <3> QED BY <1>5, <2>2, <2>3, <2>4
  <2>6. i \in Int /\ at(f[i]) \in Int
    BY <1>1, <1>3, <2>3
  <2> HIDE DEF kept, n, below, f, at
  <2> QED BY <2>1, <2>5, <2>6
<1>12. DOMAIN t = 1 .. n /\ \A k \in 1 .. n : t[k] = s[at(k)]
  OBVIOUS
<1>13. Ids(t) = Ids(s) \ {c}
  <2>1. ASSUME NEW k \in 1 .. n PROVE t[k].id \in Ids(s) \ {c}
    <3> HIDE DEF t, at, n
    <3> QED BY <1>1, <1>9, <1>12 DEF Ids
  <2>2. ASSUME NEW i \in DOMAIN s, s[i].id # c PROVE \E k \in 1 .. n : t[k].id = s[i].id
    <3>1. i \in kept
      BY <2>2
    <3> HIDE DEF t, at, n, f, kept
    <3> QED BY <1>11, <1>12, <3>1
  <2> HIDE DEF t, at, n
  <2> QED BY <1>12, <2>1, <2>2 DEF Ids
<1>14. ASSUME c \notin Ids(s) PROVE t = s
  <2>1. kept = 1 .. Len(s)
    BY <1>1, <1>14 DEF Ids
  <2>2. n = Len(s)
    <3>1. \A m \in Nat : Cardinality(1 .. m) = m
      BY FS_Interval
    <3>2. Cardinality(1 .. Len(s)) = Len(s)
      BY <1>1, <3>1
    <3> QED BY <2>1, <3>2
  <2>3. \A i \in 1 .. Len(s) : f[i] = i
    <3> TAKE i \in 1 .. Len(s)
    <3>1. below(i) = 1 .. i - 1
      BY <1>1, <2>1
    <3>2. i - 1 \in Int /\ i - 1 >= 0 /\ (i - 1) + 1 = i
      BY <1>1, <2>1
    <3>3. Cardinality(1 .. i - 1) = i - 1
      BY <3>2, FS_Interval
    <3>4. i \in kept
      BY <2>1
    <3>5. f[i] = Cardinality(below(i)) + 1
      <4> HIDE DEF below, kept
      <4> QED BY <3>4
    <3> HIDE DEF f, below, kept
    <3> QED BY <3>5, <3>1, <3>2, <3>3, <3>4
  <2>4. \A i \in 1 .. Len(s) : t[i] = s[i]
    <3> HIDE DEF t, at, n, f, kept
    <3> QED BY <1>11, <1>12, <2>1, <2>2, <2>3
  <2>5. Len(t) = n
    BY <1>3
  <2> HIDE DEF t, at, n
  <2> QED BY <1>10, <2>2, <2>4, <2>5, SeqEqual
<1> HIDE DEF t
<1> QED BY <1>2, <1>10, <1>13, <1>14

(* A column put into a list, before its end or behind it.                   *)
LEMMA InsertedOne ==
    ASSUME NEW S, NEW s \in Seq(S), NEW i \in 1 .. Len(s) + 1, NEW e \in S
    PROVE  /\ InsertAt(s, i, e) \in Seq(S)
           /\ Ids(InsertAt(s, i, e)) = Ids(s) \cup {e.id}
<1> DEFINE a == SubSeq(s, 1, i - 1)
           b == SubSeq(s, i, Len(s))
           t == (a \o <<e>>) \o b
<1>1. Len(s) \in Nat /\ DOMAIN s = 1 .. Len(s) /\ \A j \in 1 .. Len(s) : s[j] \in S
  BY LenProperties
<1>2. i \in Int /\ i - 1 \in Int /\ 1 <= i /\ i <= Len(s) + 1
  BY <1>1
<1>3. /\ a \in Seq(S) /\ Len(a) = i - 1
      /\ \A j \in 1 .. i - 1 : a[j] = s[j]
  <2>1. \A j \in 1 .. i - 1 : s[j] \in S
    BY <1>1, <1>2
  <2>2. /\ a \in Seq(S) /\ Len(a) = IF 1 <= i - 1 THEN (i - 1) - 1 + 1 ELSE 0
        /\ \A j \in 1 .. (i - 1) - 1 + 1 : a[j] = s[1 + j - 1]
    BY <1>2, <2>1, SubSeqProperties
  <2> HIDE DEF a
  <2> QED BY <1>2, <2>2
<1>4. /\ b \in Seq(S) /\ Len(b) = Len(s) - i + 1
      /\ \A j \in 1 .. Len(s) - i + 1 : b[j] = s[i + j - 1]
  <2>1. \A j \in i .. Len(s) : s[j] \in S
    BY <1>1, <1>2
  <2>2. /\ b \in Seq(S) /\ Len(b) = IF i <= Len(s) THEN Len(s) - i + 1 ELSE 0
        /\ \A j \in 1 .. Len(s) - i + 1 : b[j] = s[i + j - 1]
    BY <1>1, <1>2, <2>1, SubSeqProperties
  <2> HIDE DEF b
  <2> QED BY <1>1, <1>2, <2>2
<1>5. <<e>> \in Seq(S) /\ Len(<<e>>) = 1 /\ <<e>>[1] = e
  OBVIOUS
<1> HIDE DEF a, b
<1>6. /\ a \o <<e>> \in Seq(S) /\ Len(a \o <<e>>) = i
      /\ \A j \in 1 .. i : (a \o <<e>>)[j] = IF j <= i - 1 THEN a[j] ELSE <<e>>[j - (i - 1)]
  <2>1. /\ a \o <<e>> \in Seq(S) /\ Len(a \o <<e>>) = Len(a) + 1
        /\ \A j \in 1 .. Len(a) + 1 : (a \o <<e>>)[j] = IF j <= Len(a) THEN a[j] ELSE <<e>>[j - Len(a)]
    BY <1>3, <1>5, ConcatProperties
  <2> QED BY <1>2, <1>3, <2>1
<1> DEFINE c == a \o <<e>>
<1>7. /\ t \in Seq(S) /\ Len(t) = Len(s) + 1
      /\ \A j \in 1 .. Len(s) + 1 : t[j] = IF j <= i THEN c[j] ELSE b[j - i]
  <2>1. /\ c \in Seq(S) /\ Len(c) = i
    BY <1>6
  <2> HIDE DEF c
  <2>2. /\ c \o b \in Seq(S) /\ Len(c \o b) = Len(c) + Len(b)
        /\ \A j \in 1 .. Len(c) + Len(b) : (c \o b)[j] = IF j <= Len(c) THEN c[j] ELSE b[j - Len(c)]
    BY <1>4, <2>1, ConcatProperties
  <2>3. Len(c) + Len(b) = Len(s) + 1
    BY <1>1, <1>2, <1>4, <2>1
  <2>4. t = c \o b
    BY DEF c
  <2> QED BY <2>1, <2>2, <2>3, <2>4
<1>8. InsertAt(s, i, e) = t
  BY DEF InsertAt, a, b
<1>9. DOMAIN t = 1 .. Len(s) + 1
  BY <1>7, LenProperties
<1>10. t[i] = e
  BY <1>2, <1>5, <1>6, <1>7
<1>11. \A j \in 1 .. i - 1 : t[j] = s[j]
  <2> TAKE j \in 1 .. i - 1
  <2>1. j \in 1 .. i /\ j \in 1 .. Len(s) + 1 /\ j <= i - 1 /\ j <= i
    BY <1>1, <1>2
  <2> QED BY <1>3, <1>6, <1>7, <2>1
<1>12. \A j \in i .. Len(s) : t[j + 1] = s[j]
  <2> TAKE j \in i .. Len(s)
  <2>1. j + 1 \in 1 .. Len(s) + 1 /\ ~ (j + 1 <= i) /\ j + 1 - i \in 1 .. Len(s) - i + 1
    BY <1>1, <1>2
  <2>2. i + (j + 1 - i) - 1 = j
    BY <1>2
  <2>3. t[j + 1] = b[j + 1 - i]
    BY <1>7, <2>1
  <2> QED BY <1>4, <2>1, <2>2, <2>3
<1> HIDE DEF t
<1>13. \A j \in DOMAIN s : \E k \in DOMAIN t : t[k] = s[j]
  <2> TAKE j \in DOMAIN s
  <2>1. CASE j < i
    <3>1. j \in 1 .. i - 1 /\ j \in DOMAIN t
      BY <1>1, <1>2, <1>9, <2>1
    <3> QED BY <1>11, <3>1
  <2>2. CASE ~ (j < i)
    <3>1. j \in i .. Len(s) /\ j + 1 \in DOMAIN t
      BY <1>1, <1>2, <1>9, <2>2
    <3> QED BY <1>12, <3>1
  <2> QED BY <2>1, <2>2
<1>14. i \in DOMAIN t
  BY <1>9
<1>15. Ids(s) \subseteq Ids(t)
  BY <1>13 DEF Ids
<1>16. e.id \in Ids(t)
  BY <1>10, <1>14 DEF Ids
<1>17. \A k \in DOMAIN t : t[k] = e \/ \E j \in DOMAIN s : t[k] = s[j]
  <2> TAKE k \in DOMAIN t
  <2>1. CASE k < i
    <3>1. k \in 1 .. i - 1 /\ k \in DOMAIN s
      BY <1>1, <1>2, <1>9, <2>1
    <3> QED BY <1>11, <3>1
  <2>2. CASE k > i
    <3>1. k - 1 \in i .. Len(s) /\ k - 1 \in DOMAIN s /\ (k - 1) + 1 = k
      BY <1>1, <1>2, <1>9, <2>2
    <3> QED BY <1>12, <3>1
  <2>3. k \in Int
    BY <1>9
  <2> QED BY <1>2, <1>10, <2>1, <2>2, <2>3
<1>18. Ids(t) \subseteq Ids(s) \cup {e.id}
  BY <1>17 DEF Ids
<1> QED BY <1>7, <1>8, <1>15, <1>16, <1>18

(* The place a column is found at.                                          *)
LEMMA PlaceOf ==
    ASSUME NEW list, NEW c \in Ids(list)
    PROVE  ColAt(list, c) \in DOMAIN list /\ list[ColAt(list, c)].id = c
BY DEF Ids, ColAt

(* A renamed column keeps its place, and every other its name.              *)
LEMMA RenamedOne ==
    ASSUME NEW S, NEW s \in Seq(S), NEW e \in S
    PROVE  Renamed(s, e) \in Seq(S) /\ Ids(Renamed(s, e)) = Ids(s)
<1> DEFINE at(i) == IF s[i].id = e.id THEN e ELSE s[i]
<1>1. Len(s) \in Nat /\ DOMAIN s = 1 .. Len(s) /\ \A j \in 1 .. Len(s) : s[j] \in S
  BY LenProperties
<1>2. Renamed(s, e) = [i \in 1 .. Len(s) |-> at(i)]
  BY <1>1 DEF Renamed
<1>3. \A i \in 1 .. Len(s) : at(i) \in S /\ at(i).id = s[i].id
  BY <1>1
<1> HIDE DEF at
<1>4. [i \in 1 .. Len(s) |-> at(i)] \in Seq(S)
  BY <1>1, <1>3, IsASeq
<1>5. Ids(Renamed(s, e)) = Ids(s)
  BY <1>1, <1>2, <1>3 DEF Ids
<1> QED BY <1>2, <1>4, <1>5

(* A count is shown beside a column and changes nothing else of it.         *)
LEMMA CountedList ==
    ASSUME NEW g \in Nat, NEW at
    PROVE  /\ \A s \in Seq(Shown(g)) : Counted(s, at) \in Seq(Shown(g))
           /\ \A s \in Seq(Shown(g)) : DOMAIN Counted(s, at) = DOMAIN s
           /\ \A s \in Seq(Plain(g)) : Counted(Counted(s, at), NoOne) = s
<1>1. ASSUME NEW s \in Seq(Shown(g))
      PROVE  Counted(s, at) \in Seq(Shown(g)) /\ DOMAIN Counted(s, at) = DOMAIN s
  <2> DEFINE e(i) == [s[i] EXCEPT !.full = (s[i].id = at)]
  <2>1. Len(s) \in Nat /\ DOMAIN s = 1 .. Len(s) /\ \A j \in 1 .. Len(s) : s[j] \in Shown(g)
    BY LenProperties
  <2>2. Counted(s, at) = [i \in 1 .. Len(s) |-> e(i)]
    BY <2>1 DEF Counted
  <2>3. \A i \in 1 .. Len(s) : e(i) \in Shown(g)
    <3> TAKE i \in 1 .. Len(s)
    <3>1. s[i] \in Shown(g)
      BY <2>1
    <3> QED BY <3>1 DEF Shown
  <2> HIDE DEF e
  <2>4. [i \in 1 .. Len(s) |-> e(i)] \in Seq(Shown(g))
    BY <2>1, <2>3, IsASeq
  <2> QED BY <2>1, <2>2, <2>4
<1>2. ASSUME NEW s \in Seq(Plain(g)) PROVE Counted(Counted(s, at), NoOne) = s
  <2> DEFINE d(i) == [s[i] EXCEPT !.full = (s[i].id = at)]
  <2>1. /\ Len(s) \in Nat /\ DOMAIN s = 1 .. Len(s) /\ s \in [1 .. Len(s) -> Plain(g)]
        /\ \A j \in 1 .. Len(s) : s[j] \in Plain(g)
    BY LenProperties
  <2>2. Counted(s, at) = [i \in 1 .. Len(s) |-> d(i)]
    BY <2>1 DEF Counted
  <2>3. ASSUME NEW x \in Plain(g)
        PROVE  LET y == [x EXCEPT !.full = (x.id = at)] IN [y EXCEPT !.full = (y.id = NoOne)] = x
    <3>1. x \in Shown(g) /\ x.id # NoOne /\ ~x.full
      BY DEF Plain, Shown, NoOne
    <3> HIDE DEF Plain
    <3> DEFINE y == [x EXCEPT !.full = (x.id = at)]
               z == [y EXCEPT !.full = (y.id = NoOne)]
    <3>2. y \in Shown(g) /\ y.id = x.id /\ y.name = x.name
      BY <3>1 DEF Shown
    <3>3. z \in Shown(g) /\ z.id = x.id /\ z.name = x.name /\ ~z.full
      <4> HIDE DEF y
      <4> QED BY <3>1, <3>2 DEF Shown
    <3>4. \A u, v \in Shown(g) : u.id = v.id /\ u.name = v.name /\ ~u.full /\ ~v.full => u = v
      BY DEF Shown
    <3>5. z = x
      <4> HIDE DEF y, z
      <4> QED BY <3>1, <3>3, <3>4
    <3> QED BY <3>5
  <2>4. \A i \in 1 .. Len(s) : [d(i) EXCEPT !.full = (d(i).id = NoOne)] = s[i]
    BY <2>1, <2>3
  <2> HIDE DEF d
  <2>5. Counted(Counted(s, at), NoOne) = [i \in 1 .. Len(s) |-> [d(i) EXCEPT !.full = (d(i).id = NoOne)]]
    BY <2>2 DEF Counted
  <2>6. s = [i \in 1 .. Len(s) |-> s[i]]
    BY <2>1
  <2> QED BY <2>4, <2>5, <2>6
<1> QED BY <1>1, <1>2

(* A column put behind a list.                                              *)
LEMMA AppendedOne ==
    ASSUME NEW S, NEW s \in Seq(S), NEW e \in S
    PROVE  Append(s, e) \in Seq(S) /\ Ids(Append(s, e)) = Ids(s) \cup {e.id}
<1>1. /\ Append(s, e) \in Seq(S) /\ Len(Append(s, e)) = Len(s) + 1
      /\ \A i \in 1 .. Len(s) : Append(s, e)[i] = s[i]
      /\ Append(s, e)[Len(s) + 1] = e
  BY AppendProperties
<1>2. Len(s) \in Nat /\ DOMAIN s = 1 .. Len(s)
  BY LenProperties
<1>3. DOMAIN Append(s, e) = 1 .. Len(s) + 1
  BY <1>1, LenProperties
<1>4. \A k \in 1 .. Len(s) + 1 : k \in 1 .. Len(s) \/ k = Len(s) + 1
  BY <1>2
<1>5. Len(s) + 1 \in 1 .. Len(s) + 1 /\ 1 .. Len(s) \subseteq 1 .. Len(s) + 1
  BY <1>2
<1>6. Ids(Append(s, e)) \subseteq Ids(s) \cup {e.id}
  BY <1>1, <1>2, <1>3, <1>4 DEF Ids
<1>7. Ids(s) \subseteq Ids(Append(s, e)) /\ e.id \in Ids(Append(s, e))
  BY <1>1, <1>2, <1>3, <1>5 DEF Ids
<1> QED BY <1>1, <1>6, <1>7

(* What a write carries is still known when more ids have been given.       *)
LEMMA WiderWrites ==
    ASSUME NEW g \in Nat, NEW h \in Nat, g <= h
    PROVE  ColumnWrite(g) \subseteq ColumnWrite(h)
<1> DEFINE A == Seq(Shown(g))
           B == Seq(Shown(h))
<1>1. A \subseteq B
  BY WiderLists
<1>2. ASSUME NEW r \in ColumnWrite(g) PROVE r \in ColumnWrite(h)
  <2>1. r.rest \in A /\ r.from \in A /\ r.answer \in A
    BY DEF ColumnWrite
  <2>2. r.rest \in B /\ r.from \in B /\ r.answer \in B
    BY <1>1, <2>1
  <2> HIDE DEF A, B
  <2>3. r = [kind |-> r.kind, col |-> r.col, after |-> r.after, before |-> r.before, rest |-> r.rest,
             from |-> r.from, slot |-> r.slot, phase |-> r.phase, turn |-> r.turn, ver |-> r.ver,
             answer |-> r.answer]
    BY DEF ColumnWrite
  <2>4. /\ r.kind \in {"create", "rename", "delete", "move", "seed"} /\ r.after \in Nat /\ r.before \in Nat
        /\ r.col \in [id : Nat, name : ColumnLabels, full : BOOLEAN] /\ r.slot \in Nat
        /\ r.phase \in {"sent", "done", "refused", "failed"} /\ r.turn \in Nat /\ r.ver \in Nat
    BY DEF ColumnWrite
  <2> QED BY <2>2, <2>3, <2>4 DEF ColumnWrite, B
<1> QED BY <1>2

(* A moved column is in the list as before.                                 *)
LEMMA MovedIs ==
    ASSUME ServerShape, NEW c \in Ids(columns), NEW before, NEW after,
           {before, after} \ {NoOne} \subseteq Ids(columns) \ {c}
    PROVE  /\ MovedColumn(c, before, after) \in Seq(Plain(given))
           /\ Ids(MovedColumn(c, before, after)) = Ids(columns)
<1> DEFINE rest == Without(columns, c)
           slot == IF before # NoOne THEN ColAt(rest, before) + 1
                   ELSE IF after # NoOne THEN ColAt(rest, after) ELSE Len(rest) + 1
           e == columns[ColAt(columns, c)]
<1>1. columns \in Seq(Plain(given))
  BY DEF ServerShape
<1>2. rest \in Seq(Plain(given)) /\ Ids(rest) = Ids(columns) \ {c}
  BY <1>1, WithoutOne
<1>3. Len(rest) \in Nat /\ DOMAIN rest = 1 .. Len(rest)
  BY <1>2, LenProperties
<1>4. \A x \in Ids(rest) : ColAt(rest, x) \in 1 .. Len(rest)
  BY <1>3, PlaceOf
<1>5. e \in Plain(given) /\ e.id = c
  <2>1. ColAt(columns, c) \in DOMAIN columns /\ e.id = c
    BY PlaceOf
  <2>2. DOMAIN columns = 1 .. Len(columns)
    BY <1>1, LenProperties
  <2>3. ColAt(columns, c) \in 1 .. Len(columns)
    BY <2>1, <2>2
  <2> QED BY <1>1, <2>1, <2>3, ElementOfSeq
<1> HIDE DEF rest, e
<1>6. slot \in 1 .. Len(rest) + 1
  BY <1>2, <1>3, <1>4
<1> HIDE DEF slot
<1>7. /\ InsertAt(rest, slot, e) \in Seq(Plain(given))
      /\ Ids(InsertAt(rest, slot, e)) = Ids(rest) \cup {e.id}
  BY <1>2, <1>5, <1>6, InsertedOne
<1>8. MovedColumn(c, before, after) = InsertAt(rest, slot, e)
  BY DEF MovedColumn, rest, slot, e
<1> QED BY <1>2, <1>5, <1>7, <1>8

(* What a committed write leaves, and what the screen is then told.         *)
LEMMA CommitHolds ==
    ASSUME ColumnsInv, NEW list, NEW fresh \in Nat, NEW told \in Nat \ {0},
           CommitColumns(list, fresh, told), list \in Seq(Plain(given + fresh)),
           \A c \in Ids(list) : c \in Ids(columns) \/ c > given,
           cardAt # Nowhere => cardAt \in Ids(list),
           UNCHANGED <<board, listReads, cardReads, waiting, trust>>, colWork' \in Nat
    PROVE  /\ ServerShape' /\ ScreenShape' /\ ToldOfList' /\ UpToDate' /\ CardFollows' /\ NoCard'
           /\ \A q \in listReads' : ReadHolds(q)'
           /\ \A r \in own : WriteHolds(r)'
           /\ given' = given + fresh /\ columns' = list /\ listVersion' = listVersion + 1
           /\ cardAt' = cardAt
<1> DEFINE more == [i \in 1 .. told |-> NoOne]
<1>1. /\ columns' = list /\ listVersion' = listVersion + 1 /\ given' = given + fresh
      /\ colEvents' = colEvents \o more /\ cardAt' = cardAt
  BY DEF CommitColumns
<1>2. /\ shownCols' = shownCols /\ cardShown' = cardShown /\ listReads' = listReads
      /\ cardReads' = cardReads /\ dialog' = dialog /\ newestList' = newestList
      /\ overtaken' = overtaken /\ cardMissed' = cardMissed
  BY DEF board, waiting, trust, listTrust
<1>3. /\ given \in Nat /\ columns \in Seq(Plain(given)) /\ listVersion \in Nat
      /\ cardAt \in 0 .. given /\ colEvents \in Seq(0 .. given)
  BY DEF ColumnsInv, ServerShape
<1>4. given' \in Nat /\ given <= given' /\ 0 .. given \subseteq 0 .. given' /\ 1 .. given \subseteq 1 .. given'
  BY <1>1, <1>3
<1>5. /\ Seq(Shown(given)) \subseteq Seq(Shown(given')) /\ Seq(0 .. given) \subseteq Seq(0 .. given')
  BY <1>3, <1>4, WiderLists
<1>6. Len(colEvents) \in Nat /\ DOMAIN colEvents = 1 .. Len(colEvents)
  BY <1>3, LenProperties
<1>7. /\ more \in Seq(0 .. given) /\ Len(more) = told /\ \A i \in 1 .. told : more[i] = NoOne
  <2>1. NoOne \in 0 .. given
    BY <1>3 DEF NoOne
  <2>2. told \in Nat
    OBVIOUS
  <2>3. more \in Seq(0 .. given)
    BY <2>1, <2>2, IsASeq
  <2> QED BY <2>2, <2>3
<1> HIDE DEF more
<1>8. /\ colEvents' \in Seq(0 .. given) /\ Len(colEvents') = Len(colEvents) + told
      /\ \A i \in 1 .. Len(colEvents) + told :
            colEvents'[i] = IF i <= Len(colEvents) THEN colEvents[i] ELSE more[i - Len(colEvents)]
  BY <1>1, <1>3, <1>7, ConcatProperties
<1>9. DOMAIN colEvents' = 1 .. Len(colEvents) + told
  BY <1>8, LenProperties
<1>10. \A k \in DOMAIN colEvents : k \in DOMAIN colEvents' /\ colEvents'[k] = colEvents[k]
  BY <1>6, <1>8, <1>9
<1>11. \A k \in DOMAIN colEvents' : k \in DOMAIN colEvents \/ colEvents'[k] = NoOne
  <2> TAKE k \in DOMAIN colEvents'
  <2>1. CASE k <= Len(colEvents)
    BY <1>6, <1>9, <2>1
  <2>2. CASE ~ (k <= Len(colEvents))
    <3>1. k - Len(colEvents) \in 1 .. told
      BY <1>6, <1>9, <2>2
    <3> QED BY <1>7, <1>8, <1>9, <2>2, <3>1
  <2> QED BY <2>1, <2>2
<1>12. Len(colEvents) + 1 \in DOMAIN colEvents' /\ colEvents'[Len(colEvents) + 1] = NoOne
  <2>1. Len(colEvents) + 1 \in DOMAIN colEvents' /\ Len(colEvents) + 1 \notin DOMAIN colEvents
    BY <1>6, <1>9
  <2> QED BY <1>11, <2>1
<1>13. ServerShape'
  <2>1. cardAt' # Nowhere => cardAt' \in Ids(columns')
    BY <1>1
  <2>2. Plain(given)' = Plain(given')
    BY DEF Plain, Shown
  <2> QED BY <1>1, <1>3, <1>4, <1>5, <1>8, <2>1 DEF ServerShape
<1>14. ScreenShape'
  <2>1. ScreenShape
    BY DEF ColumnsInv
  <2>2. shownCols' \in Seq(Shown(given'))
    BY <1>2, <1>5, <2>1 DEF ScreenShape
  <2>3. DialogHolds'
    BY <1>2, <1>4, <2>1 DEF ScreenShape, DialogHolds
  <2>4. /\ newestList' \in Nat /\ newestList' <= listVersion'
    BY <1>1, <1>2, <1>3, <2>1 DEF ScreenShape
  <2>5. cardShown' \in 0 .. given' /\ cardReads' \subseteq 1 .. given' /\ overtaken' \in BOOLEAN /\ cardMissed' \in BOOLEAN
    BY <1>2, <1>4, <2>1 DEF ScreenShape
  <2> QED BY <2>2, <2>3, <2>4, <2>5 DEF ScreenShape
<1>15. ToldOfList'
  BY <1>12 DEF ToldOfList
<1>16. UpToDate'
  <2>1. newestList \in Nat /\ newestList <= listVersion
    BY DEF ColumnsInv, ScreenShape
  <2>2. newestList' # listVersion'
    BY <1>1, <1>2, <1>3, <2>1
  <2> QED BY <2>2 DEF UpToDate
<1>17. NoMoves => NoMoves'
  BY <1>10, <1>11 DEF NoMoves
<1>18. \A k \in DOMAIN colEvents : LastPlace(k) => LastPlace(k)'
  <2> SUFFICES ASSUME NEW k \in DOMAIN colEvents, LastPlace(k) PROVE LastPlace(k)'
    OBVIOUS
  <2>1. colEvents'[k] = cardAt'
    BY <1>1, <1>10 DEF LastPlace
  <2>2. ASSUME NEW l \in DOMAIN colEvents', l > k PROVE colEvents'[l] = NoOne
    BY <1>10, <1>11, <2>2 DEF LastPlace
  <2> QED BY <2>1, <2>2 DEF LastPlace
<1>19. CardFollows'
  <2>1. CardFollows
    BY DEF ColumnsInv
  <2>2. CASE cardMissed
    BY <1>2, <2>2 DEF CardFollows
  <2>3. CASE cardAt # Nowhere /\ \E k \in DOMAIN colEvents : LastPlace(k)
    <3>1. PICK k \in DOMAIN colEvents : LastPlace(k)
      BY <2>3
    <3>2. k \in DOMAIN colEvents' /\ LastPlace(k)' /\ cardAt' # Nowhere
      BY <1>1, <1>10, <1>18, <2>3, <3>1
    <3> QED BY <3>2 DEF CardFollows
  <2>4. CASE NoMoves /\ (cardShown = cardAt \/ cardAt \in cardReads)
    BY <1>1, <1>2, <1>17, <2>4 DEF CardFollows
  <2> QED BY <2>1, <2>2, <2>3, <2>4 DEF CardFollows
<1>20. NoCard'
  <2>1. NoCard
    BY DEF ColumnsInv
  <2> QED BY <1>1, <1>2, <1>17, <2>1 DEF NoCard
<1>21. \A q \in listReads' : ReadHolds(q)'
  <2> SUFFICES ASSUME NEW q \in listReads PROVE ReadHolds(q)'
    BY <1>2
  <2>1. q \in ListRead(given) /\ q.ver <= listVersion
    BY DEF ColumnsInv, ReadHolds
  <2>2. q \in ListRead(given')
    BY <1>5, <2>1 DEF ListRead
  <2>3. q.ver \in Nat
    BY <2>1 DEF ListRead
  <2>4. q.ver <= listVersion' /\ q.ver # listVersion'
    BY <1>1, <1>3, <2>1, <2>3
  <2> QED BY <2>2, <2>4 DEF ReadHolds
<1>22. \A r \in own : WriteHolds(r)'
  <2> SUFFICES ASSUME NEW r \in own PROVE WriteHolds(r)'
    OBVIOUS
  <2>1. WriteHolds(r)
    BY DEF ColumnsInv
  <2>2. r \in ColumnWrite(given')
    <3>1. r \in ColumnWrite(given)
      BY <2>1 DEF WriteHolds
    <3> QED BY <1>3, <1>4, <3>1, WiderWrites
  <2>3. r.ver \in Nat /\ r.ver <= listVersion'
    <3>1. r \in ColumnWrite(given) /\ r.ver <= listVersion
      BY <2>1 DEF WriteHolds
    <3>2. r.ver \in Nat
      BY <3>1 DEF ColumnWrite
    <3> QED BY <1>1, <1>3, <3>1, <3>2
  <2>4. r.kind \in {"rename", "delete", "move"} => r.col.id \in 1 .. given'
    BY <1>4, <2>1 DEF WriteHolds
  <2>5. r.phase = "done" /\ r.kind = "delete" => r.col.id \notin Ids(columns')
    <3>1. SUFFICES ASSUME r.phase = "done", r.kind = "delete" PROVE r.col.id \notin Ids(columns')
      OBVIOUS
    <3>2. r.col.id \in 1 .. given /\ r.col.id \notin Ids(columns)
      BY <2>1, <3>1 DEF WriteHolds
    <3>3. ~ (r.col.id > given)
      BY <1>3, <3>2
    <3> QED BY <1>1, <3>2, <3>3
  <2> QED BY <2>1, <2>2, <2>3, <2>4, <2>5 DEF WriteHolds
<1> QED BY <1>1, <1>13, <1>14, <1>15, <1>16, <1>19, <1>20, <1>21, <1>22

(* A name of the settings dialog, for a column nobody had.                  *)
LEMMA FreshColumn ==
    ASSUME NEW g \in Nat, NEW n \in ColumnLabels
    PROVE  Col(g + 1, n) \in Plain(g + 1) /\ Col(g + 1, n).id = g + 1
BY DEF Col, Plain, Shown

(* The label that stands for any is one.                                    *)
LEMMA SomeLabel == AnyLabel \in ColumnLabels
BY ColumnsAssumption DEF AnyLabel

(* What the server makes of an allowed write.                               *)
LEMMA EffectIs ==
    ASSUME ColumnsInv, NEW r \in own, Allowed(r)
    PROVE  /\ NewColumns(r) \in Nat /\ Effect(r) \in Seq(Plain(given + NewColumns(r)))
           /\ \A c \in Ids(Effect(r)) : c \in Ids(columns) \/ c > given
           /\ cardAt # Nowhere => cardAt \in Ids(Effect(r))
           /\ r.kind \in {"create", "rename", "move"} => WrittenColumn(r).id \in Ids(Effect(r))
           /\ r.kind = "delete" => r.col.id \notin Ids(Effect(r))
<1>1. /\ given \in Nat /\ columns \in Seq(Plain(given))
      /\ cardAt # Nowhere => cardAt \in Ids(columns)
  BY DEF ColumnsInv, ServerShape
<1>2. WriteHolds(r) /\ r \in ColumnWrite(given)
  BY DEF ColumnsInv, WriteHolds
<1>3. r.col \in [id : Nat, name : ColumnLabels, full : BOOLEAN]
  BY <1>2 DEF ColumnWrite
<1>4. r.kind \in {"create", "rename", "delete", "move", "seed"}
  BY <1>2 DEF ColumnWrite
<1>5. given + 0 = given /\ given + 1 \in Nat
  BY <1>1
<1>6. CASE r.kind = "create"
  <2> DEFINE e == Col(given + 1, r.col.name)
  <2>1. e \in Plain(given + 1) /\ e.id = given + 1
    BY <1>1, <1>3, FreshColumn
  <2>2. columns \in Seq(Plain(given + 1))
    BY <1>1, <1>5, WiderLists
  <2>3. WrittenColumn(r) = e
    BY <1>6 DEF WrittenColumn
  <2> HIDE DEF e
  <2>4. /\ CreatedColumn(e, r.after) \in Seq(Plain(given + 1))
        /\ Ids(CreatedColumn(e, r.after)) = Ids(columns) \cup {e.id}
    <3>1. CASE r.after = NoOne
      BY <2>1, <2>2, <3>1, AppendedOne DEF CreatedColumn
    <3>2. CASE r.after # NoOne
      <4>1. r.after \in Ids(columns)
        BY <1>6, <3>2 DEF Allowed
      <4>2. ColAt(columns, r.after) \in DOMAIN columns
        BY <4>1, PlaceOf
      <4>3. DOMAIN columns = 1 .. Len(columns) /\ Len(columns) \in Nat
        BY <1>1, LenProperties
      <4>4. ColAt(columns, r.after) + 1 \in 1 .. Len(columns) + 1
        BY <4>2, <4>3
      <4> QED BY <2>1, <2>2, <3>2, <4>4, InsertedOne DEF CreatedColumn
    <3> QED BY <3>1, <3>2
  <2>5. Effect(r) = CreatedColumn(e, r.after) /\ NewColumns(r) = 1
    BY <1>6, <2>3 DEF Effect, NewColumns
  <2>6. e.id > given
    BY <1>1, <2>1
  <2> QED BY <1>1, <1>6, <2>3, <2>4, <2>5, <2>6
<1>7. CASE r.kind = "rename"
  <2>1. r.col.id \in 1 .. given /\ ~r.col.full
    BY <1>2, <1>7 DEF WriteHolds
  <2>2. r.col \in Plain(given)
    BY <1>3, <2>1 DEF Plain, Shown
  <2>3. Renamed(columns, r.col) \in Seq(Plain(given)) /\ Ids(Renamed(columns, r.col)) = Ids(columns)
    BY <1>1, <2>2, RenamedOne
  <2>4. Effect(r) = Renamed(columns, r.col) /\ NewColumns(r) = 0 /\ WrittenColumn(r) = r.col
    BY <1>7 DEF Effect, NewColumns, WrittenColumn
  <2>5. r.col.id \in Ids(columns)
    BY <1>7 DEF Allowed
  <2> QED BY <1>1, <1>5, <1>7, <2>3, <2>4, <2>5
<1>8. CASE r.kind = "delete"
  <2>1. /\ Without(columns, r.col.id) \in Seq(Plain(given))
        /\ Ids(Without(columns, r.col.id)) = Ids(columns) \ {r.col.id}
    BY <1>1, WithoutOne
  <2>2. Effect(r) = Without(columns, r.col.id) /\ NewColumns(r) = 0
    BY <1>8 DEF Effect, NewColumns
  <2>3. r.col.id # cardAt
    BY <1>8 DEF Allowed
  <2> QED BY <1>1, <1>5, <1>8, <2>1, <2>2, <2>3
<1>9. CASE r.kind = "move"
  <2>1. Adjacent(r.col.id, r.before, r.after)
    BY <1>9 DEF Allowed
  <2>2. Ids(Without(columns, r.col.id)) = Ids(columns) \ {r.col.id}
    BY <1>1, WithoutOne
  <2>3. r.col.id \in Ids(columns) /\ {r.before, r.after} \ {NoOne} \subseteq Ids(columns) \ {r.col.id}
    BY <2>1, <2>2 DEF Adjacent
  <2>4. ServerShape
    BY DEF ColumnsInv
  <2>5. /\ MovedColumn(r.col.id, r.before, r.after) \in Seq(Plain(given))
        /\ Ids(MovedColumn(r.col.id, r.before, r.after)) = Ids(columns)
    BY <2>3, <2>4, MovedIs
  <2>6. /\ Effect(r) = MovedColumn(r.col.id, r.before, r.after) /\ NewColumns(r) = 0
        /\ WrittenColumn(r) = r.col
    BY <1>9 DEF Effect, NewColumns, WrittenColumn
  <2> QED BY <1>1, <1>5, <1>9, <2>3, <2>5, <2>6
<1>10. CASE r.kind = "seed"
  <2>1. columns = << >>
    BY <1>10 DEF Allowed
  <2>2. Ids(columns) = {}
    BY <2>1 DEF Ids
  <2>3. Effect(r) = Defaults /\ NewColumns(r) = SeedCount
    BY <1>10 DEF Effect, NewColumns
  <2>4. SeedCount \in Nat
    BY ColumnsAssumption
  <2>5. \A i \in 1 .. SeedCount : /\ Col(given + i, AnyLabel) \in Plain(given + SeedCount)
                                  /\ Col(given + i, AnyLabel).id > given
    BY <1>1, <2>4, SomeLabel DEF Col, Plain, Shown
  <2> DEFINE e(i) == Col(given + i, AnyLabel)
  <2>6. Defaults = [i \in 1 .. SeedCount |-> e(i)]
    BY DEF Defaults
  <2>7. \A i \in 1 .. SeedCount : e(i) \in Plain(given + SeedCount) /\ e(i).id > given
    BY <2>5
  <2> HIDE DEF e
  <2>8. Defaults \in Seq(Plain(given + SeedCount))
    BY <2>4, <2>6, <2>7, IsASeq
  <2>9. \A c \in Ids(Defaults) : c > given
    BY <2>6, <2>7 DEF Ids
  <2> QED BY <1>1, <1>10, <2>2, <2>3, <2>4, <2>8, <2>9
<1> QED BY <1>4, <1>6, <1>7, <1>8, <1>9, <1>10

(* Nothing of the screen and no answer depends on who wrote.                *)
LEMMA OthersHold == ColumnsInv /\ OthersWrite => ColumnsInv'
<1> SUFFICES ASSUME ColumnsInv, OthersWrite PROVE ColumnsInv'
  OBVIOUS
<1>1. /\ given \in Nat /\ columns \in Seq(Plain(given)) /\ listVersion \in Nat
      /\ cardAt \in 0 .. given /\ (cardAt # Nowhere => cardAt \in Ids(columns))
      /\ colEvents \in Seq(0 .. given)
  BY DEF ColumnsInv, ServerShape
<1>2. /\ columns # << >> /\ colWork' \in Nat
      /\ UNCHANGED <<board, listReads, cardReads, own, waiting, trust>>
  <2>1. colWork \in Nat
    BY DEF ColumnsInv, ScreenShape
  <2> QED BY <2>1 DEF OthersWrite, Worked
<1>3. given + 0 = given /\ given + 1 \in Nat /\ 1 \in Nat \ {0} /\ 0 \in Nat
  BY <1>1
<1>4. ASSUME NEW list, NEW fresh \in Nat, CommitColumns(list, fresh, 1),
             list \in Seq(Plain(given + fresh)), \A c \in Ids(list) : c \in Ids(columns) \/ c > given,
             cardAt # Nowhere => cardAt \in Ids(list)
      PROVE  ColumnsInv'
  <2>1. /\ ServerShape' /\ ScreenShape' /\ ToldOfList' /\ UpToDate' /\ CardFollows' /\ NoCard'
        /\ \A q \in listReads' : ReadHolds(q)'
        /\ \A r \in own : WriteHolds(r)'
    BY <1>2, <1>3, <1>4, CommitHolds
  <2>2. own' = own
    BY <1>2
  <2> QED BY <2>1, <2>2 DEF ColumnsInv
<1>5. CASE CommitColumns(Append(columns, Col(given + 1, AnyLabel)), 1, 1)
  <2> DEFINE e == Col(given + 1, AnyLabel)
  <2>1. e \in Plain(given + 1) /\ e.id = given + 1
    BY <1>1, SomeLabel, FreshColumn
  <2>2. columns \in Seq(Plain(given + 1))
    BY <1>1, <1>3, WiderLists
  <2> HIDE DEF e
  <2>3. Append(columns, e) \in Seq(Plain(given + 1)) /\ Ids(Append(columns, e)) = Ids(columns) \cup {e.id}
    BY <2>1, <2>2, AppendedOne
  <2>4. e.id > given
    BY <1>1, <2>1
  <2>5. CommitColumns(Append(columns, e), 1, 1)
    BY <1>5 DEF e
  <2> QED BY <1>1, <1>3, <1>4, <2>3, <2>4, <2>5
<1>6. ASSUME NEW c \in Ids(columns), c # columns[1].id, CommitColumns(MovedColumn(c, NoOne, columns[1].id), 0, 1)
      PROVE  ColumnsInv'
  <2>1. Len(columns) \in Nat \ {0} /\ DOMAIN columns = 1 .. Len(columns)
    BY <1>1, <1>2, EmptySeq, LenProperties
  <2>2. columns[1].id \in Ids(columns) \ {c}
    BY <1>6, <2>1 DEF Ids
  <2>3. ServerShape /\ {NoOne, columns[1].id} \ {NoOne} \subseteq Ids(columns) \ {c}
    BY <2>2 DEF ColumnsInv
  <2>4. /\ MovedColumn(c, NoOne, columns[1].id) \in Seq(Plain(given))
        /\ Ids(MovedColumn(c, NoOne, columns[1].id)) = Ids(columns)
    BY <1>6, <2>3, MovedIs
  <2> QED BY <1>1, <1>3, <1>4, <1>6, <2>4
<1>7. ASSUME NEW c \in Ids(columns), NEW n \in ColumnLabels, CommitColumns(Renamed(columns, Col(c, n)), 0, 1)
      PROVE  ColumnsInv'
  <2>1. PICK i \in DOMAIN columns : columns[i].id = c
    BY DEF Ids
  <2>2. i \in 1 .. Len(columns)
    BY <1>1, <2>1, LenProperties
  <2>3. columns[i] \in Plain(given)
    BY <1>1, <2>2, ElementOfSeq
  <2>4. c \in 1 .. given
    BY <2>1, <2>3 DEF Plain, Shown
  <2>5. Col(c, n) \in Plain(given)
    BY <2>4 DEF Col, Plain, Shown
  <2>6. Renamed(columns, Col(c, n)) \in Seq(Plain(given)) /\ Ids(Renamed(columns, Col(c, n))) = Ids(columns)
    BY <1>1, <2>5, RenamedOne
  <2> QED BY <1>1, <1>3, <1>4, <1>7, <2>6
<1>8. ASSUME NEW c \in Ids(columns) \ {cardAt}, CommitColumns(Without(columns, c), 0, 1)
      PROVE  ColumnsInv'
  <2>1. Without(columns, c) \in Seq(Plain(given)) /\ Ids(Without(columns, c)) = Ids(columns) \ {c}
    BY <1>1, WithoutOne
  <2> QED BY <1>1, <1>3, <1>4, <1>8, <2>1
<1>9. ASSUME NEW c \in Ids(columns) \ {cardAt}, cardAt # Nowhere, cardAt' = c,
             colEvents' = Append(colEvents, c), UNCHANGED <<columns, listVersion, given>>
      PROVE  ColumnsInv'
  <2>1. c \in 1 .. given
    <3>1. PICK i \in DOMAIN columns : columns[i].id = c
      BY DEF Ids
    <3>2. i \in 1 .. Len(columns)
      BY <1>1, <3>1, LenProperties
    <3>3. columns[i] \in Plain(given)
      BY <1>1, <3>2, ElementOfSeq
    <3> QED BY <3>1, <3>3 DEF Plain, Shown
  <2>2. /\ Append(colEvents, c) \in Seq(0 .. given) /\ Len(Append(colEvents, c)) = Len(colEvents) + 1
        /\ \A i \in 1 .. Len(colEvents) : Append(colEvents, c)[i] = colEvents[i]
        /\ Append(colEvents, c)[Len(colEvents) + 1] = c
    <3>1. c \in 0 .. given
      BY <2>1
    <3> QED BY <1>1, <3>1, AppendProperties
  <2>3. Len(colEvents) \in Nat /\ DOMAIN colEvents = 1 .. Len(colEvents)
    BY <1>1, LenProperties
  <2>4. DOMAIN colEvents' = 1 .. Len(colEvents) + 1
    BY <1>9, <2>2, LenProperties
  <2>5. /\ shownCols' = shownCols /\ cardShown' = cardShown /\ listReads' = listReads
        /\ cardReads' = cardReads /\ dialog' = dialog /\ newestList' = newestList
        /\ overtaken' = overtaken /\ cardMissed' = cardMissed /\ own' = own
        /\ columns' = columns /\ listVersion' = listVersion /\ given' = given
    BY <1>2, <1>9 DEF board, waiting, trust, listTrust
  <2>6. ServerShape'
    <3>1. c \in 0 .. given
      BY <2>1
    <3> QED BY <1>1, <1>9, <2>2, <2>5, <3>1 DEF ServerShape
  <2>7. ScreenShape'
    BY <1>2, <2>5 DEF ColumnsInv, ScreenShape, DialogHolds
  <2>8. \A q \in listReads' : ReadHolds(q)'
    BY <2>5 DEF ColumnsInv, ReadHolds
  <2>9. \A r \in own' : WriteHolds(r)'
    BY <2>5 DEF ColumnsInv, WriteHolds
  <2>10. ToldOfList'
    <3>1. \A k \in DOMAIN colEvents : k \in DOMAIN colEvents' /\ colEvents'[k] = colEvents[k]
      BY <1>9, <2>2, <2>3, <2>4
    <3>2. ToldOfList
      BY DEF ColumnsInv
    <3> QED BY <2>5, <3>1, <3>2 DEF ToldOfList
  <2>11. UpToDate'
    BY <2>5 DEF ColumnsInv, UpToDate
  <2>12. CardFollows'
    <3>1. PICK k \in Nat : k = Len(colEvents) + 1
      BY <2>3
    <3>2. k \in DOMAIN colEvents' /\ \A l \in DOMAIN colEvents' : ~ (l > k)
      BY <2>3, <2>4, <3>1
    <3>3. colEvents'[k] = cardAt' /\ cardAt' # Nowhere
      BY <1>9, <2>1, <2>2, <3>1 DEF Nowhere
    <3>4. LastPlace(k)'
      BY <3>2, <3>3 DEF LastPlace
    <3> QED BY <3>2, <3>3, <3>4 DEF CardFollows
  <2>13. NoCard'
    BY <1>9, <2>1 DEF NoCard, Nowhere
  <2> QED BY <2>6, <2>7, <2>8, <2>9, <2>10, <2>11, <2>12, <2>13 DEF ColumnsInv
<1> QED BY <1>5, <1>6, <1>7, <1>8, <1>9 DEF OthersWrite

(* A read finds the list of the moment it is sent.                          *)
LEMMA ReadFinds ==
    ASSUME ServerShape, NEW seeds \in BOOLEAN
    PROVE  ReadHolds(ReadList(seeds)) /\ ReadList(seeds).ver = listVersion
<1>1. given \in Nat /\ columns \in Seq(Plain(given)) /\ listVersion \in Nat
  BY DEF ServerShape
<1>2. columns \in Seq(Shown(given))
  BY <1>1, WiderLists
<1>3. Counted(columns, cardAt) \in Seq(Shown(given)) /\ Counted(Counted(columns, cardAt), NoOne) = columns
  BY <1>1, <1>2, CountedList
<1>4. ReadList(seeds) \in ListRead(given)
  BY <1>1, <1>3 DEF ReadList, ListRead
<1>5. ReadList(seeds).ver = listVersion /\ ReadList(seeds).list = Counted(columns, cardAt)
  BY DEF ReadList
<1> QED BY <1>1, <1>3, <1>4, <1>5 DEF ReadHolds

(* The server's answer to one of this tab's writes, or its refusal.         *)
LEMMA ServeHolds ==
    ASSUME ColumnsInv, NEW r \in own, ServeColumn(r) PROVE ColumnsInv'
<1>1. /\ WriteHolds(r) /\ r \in ColumnWrite(given)
      /\ given \in Nat /\ columns \in Seq(Plain(given)) /\ listVersion \in Nat
  BY DEF ColumnsInv, WriteHolds, ServerShape
<1>2. /\ UNCHANGED <<board, listReads, cardReads, waiting, trust>> /\ colWork' = colWork /\ colWork' \in Nat
  BY DEF ServeColumn, effort, ColumnsInv, ScreenShape
<1>3. CASE /\ Allowed(r) /\ CommitColumns(Effect(r), NewColumns(r), IF r.kind = "seed" THEN SeedCount ELSE 1)
           /\ own' = (own \ {r}) \cup {[r EXCEPT !.phase = "done", !.ver = listVersion',
                                         !.answer = IF r.kind = "delete" THEN << >> ELSE Taken(r)]}
  <2> DEFINE told == IF r.kind = "seed" THEN SeedCount ELSE 1
             answer == IF r.kind = "delete" THEN << >> ELSE Taken(r)
  <2>1. told \in Nat \ {0}
    BY ColumnsAssumption
  <2>2. /\ NewColumns(r) \in Nat /\ Effect(r) \in Seq(Plain(given + NewColumns(r)))
        /\ \A c \in Ids(Effect(r)) : c \in Ids(columns) \/ c > given
        /\ cardAt # Nowhere => cardAt \in Ids(Effect(r))
        /\ r.kind \in {"create", "rename", "move"} => WrittenColumn(r).id \in Ids(Effect(r))
        /\ r.kind = "delete" => r.col.id \notin Ids(Effect(r))
    BY <1>3, EffectIs
  <2>3. CommitColumns(Effect(r), NewColumns(r), told)
    BY <1>3
  <2>4. /\ ServerShape' /\ ScreenShape' /\ ToldOfList' /\ UpToDate' /\ CardFollows' /\ NoCard'
        /\ \A q \in listReads' : ReadHolds(q)'
        /\ \A x \in own : WriteHolds(x)'
        /\ given' = given + NewColumns(r) /\ columns' = Effect(r) /\ listVersion' = listVersion + 1
        /\ cardAt' = cardAt
    <3> HIDE DEF told
    <3> QED BY <1>2, <2>1, <2>2, <2>3, CommitHolds
  <2>5. /\ WriteHolds(r)' /\ r \in ColumnWrite(given') /\ given' \in Nat
        /\ columns' \in Seq(Plain(given'))
    BY <2>4 DEF WriteHolds, ServerShape
  <2>6. ASSUME NEW s \in Seq(Plain(given')) PROVE Counted(s, cardAt) \in Seq(Shown(given')) /\ DOMAIN Counted(s, cardAt) = DOMAIN s
    <3>1. s \in Seq(Shown(given'))
      BY <2>5, WiderLists
    <3> QED BY <2>5, <3>1, CountedList
  <2>7. answer \in Seq(Shown(given')) /\ (r.kind \in {"rename", "move"} => 1 \in DOMAIN answer)
    <3>1. CASE r.kind = "delete"
      BY <3>1
    <3>2. CASE r.kind = "seed"
      <4>1. Effect(r) = Defaults
        BY <3>2 DEF Effect
      <4>2. answer = Counted(Defaults, cardAt)
        BY <3>2 DEF Taken
      <4> QED BY <2>4, <2>5, <2>6, <3>2, <4>1, <4>2
    <3>3. CASE r.kind \notin {"delete", "seed"}
      <4>1. r.kind \in {"create", "rename", "move"}
        BY <1>1, <3>3 DEF ColumnWrite
      <4> DEFINE at == ColAt(columns', WrittenColumn(r).id)
      <4>2. at \in DOMAIN columns'
        BY <2>2, <2>4, <4>1, PlaceOf
      <4>3. at \in 1 .. Len(columns')
        BY <2>5, <4>2, LenProperties
      <4>4. columns'[at] \in Plain(given')
        BY <2>5, <4>3, ElementOfSeq
      <4>5. answer = Counted(<<columns'[at]>>, cardAt)
        BY <3>3 DEF Taken
      <4> HIDE DEF at, answer
      <4>6. <<columns'[at]>> \in Seq(Plain(given')) /\ DOMAIN <<columns'[at]>> = {1}
        BY <4>4
      <4> QED BY <2>6, <4>5, <4>6
    <3> QED BY <3>1, <3>2, <3>3
  <2> HIDE DEF answer
  <2>8. PICK v \in Nat, a \in Seq(Shown(given')) : v = listVersion' /\ a = answer
    <3>1. listVersion' \in Nat
      BY <1>1, <2>4
    <3> QED BY <2>7, <3>1
  <2>9. PICK done : done = [r EXCEPT !.phase = "done", !.ver = v, !.answer = a]
    OBVIOUS
  <2>10. own' = (own \ {r}) \cup {done}
    BY <1>3, <2>8, <2>9 DEF answer
  <2>11. /\ done \in ColumnWrite(given') /\ done.kind = r.kind /\ done.col = r.col /\ done.rest = r.rest
         /\ done.slot = r.slot /\ done.phase = "done" /\ done.ver = v /\ done.answer = a
    BY <2>5, <2>8, <2>9 DEF ColumnWrite
  <2>12. WriteHolds(done)'
    <3>1. done.kind = "delete" => done.col.id \notin Ids(columns')
      BY <2>2, <2>4, <2>11
    <3>2. done.ver <= listVersion'
      BY <2>8, <2>11
    <3>3. done.kind \in {"rename", "move"} => 1 \in DOMAIN done.answer
      BY <2>7, <2>8, <2>11
    <3> QED BY <2>5, <2>11, <3>1, <3>2, <3>3 DEF WriteHolds
  <2>13. \A x \in own' : WriteHolds(x)'
    BY <2>4, <2>10, <2>12
  <2> QED BY <2>4, <2>13 DEF ColumnsInv
<1>4. CASE ~Allowed(r) /\ own' = (own \ {r}) \cup {[r EXCEPT !.phase = "refused"]} /\ UNCHANGED columnStore
  <2> DEFINE no == [r EXCEPT !.phase = "refused"]
  <2>1. /\ shownCols' = shownCols /\ cardShown' = cardShown /\ listReads' = listReads
        /\ cardReads' = cardReads /\ dialog' = dialog /\ newestList' = newestList
        /\ overtaken' = overtaken /\ cardMissed' = cardMissed /\ colWork' = colWork
        /\ columns' = columns /\ cardAt' = cardAt /\ listVersion' = listVersion
        /\ colEvents' = colEvents /\ given' = given
    BY <1>2, <1>4 DEF board, waiting, trust, listTrust, columnStore
  <2>2. /\ no \in ColumnWrite(given) /\ no.kind = r.kind /\ no.col = r.col /\ no.rest = r.rest
        /\ no.slot = r.slot /\ no.phase = "refused" /\ no.ver = r.ver /\ no.answer = r.answer
    BY <1>1 DEF ColumnWrite
  <2>3. WriteHolds(no)
    <3> HIDE DEF no
    <3> QED BY <1>1, <2>2 DEF WriteHolds
  <2>4. own' = (own \ {r}) \cup {no}
    BY <1>4
  <2> HIDE DEF no
  <2>5. \A x \in own' : WriteHolds(x)
    BY <2>3, <2>4 DEF ColumnsInv
  <2>6. \A x \in own' : WriteHolds(x)'
    BY <2>1, <2>5 DEF WriteHolds
  <2>7. ServerShape' /\ ScreenShape' /\ ToldOfList' /\ UpToDate' /\ CardFollows' /\ NoCard'
    BY <2>1 DEF ColumnsInv, ServerShape, ScreenShape, DialogHolds, ToldOfList, UpToDate, CardFollows, NoCard, NoMoves, LastPlace
  <2>8. \A q \in listReads' : ReadHolds(q)'
    BY <2>1 DEF ColumnsInv, ReadHolds
  <2> QED BY <2>6, <2>7, <2>8 DEF ColumnsInv
<1> QED BY <1>3, <1>4 DEF ServeColumn

(* A step that touches only the dialog, the writes and the reads.           *)
LEMMA QuietHolds ==
    ASSUME ColumnsInv, UNCHANGED <<columnStore, board, cardReads, trust>>, colWork' \in Nat, DialogHolds',
           listReads \subseteq listReads', \A q \in listReads' : q \in listReads \/ ReadHolds(q),
           \A r \in own' : r \in own \/ WriteHolds(r)
    PROVE  ColumnsInv'
<1>1. /\ shownCols' = shownCols /\ cardShown' = cardShown
      /\ cardReads' = cardReads /\ newestList' = newestList
      /\ overtaken' = overtaken /\ cardMissed' = cardMissed
      /\ columns' = columns /\ cardAt' = cardAt /\ listVersion' = listVersion
      /\ colEvents' = colEvents /\ given' = given
  BY DEF board, trust, listTrust, columnStore
<1>2. \A r \in own' : WriteHolds(r)
  BY DEF ColumnsInv
<1>3. \A r \in own' : WriteHolds(r)'
  BY <1>1, <1>2 DEF WriteHolds
<1>4. \A q \in listReads' : ReadHolds(q)
  BY DEF ColumnsInv
<1>5. \A q \in listReads' : ReadHolds(q)'
  BY <1>1, <1>4 DEF ReadHolds
<1>6. ServerShape' /\ ScreenShape' /\ UpToDate' /\ CardFollows' /\ NoCard'
  BY <1>1 DEF ColumnsInv, ServerShape, ScreenShape, UpToDate, CardFollows, NoCard, NoMoves, LastPlace
<1>7. ToldOfList'
  BY <1>1 DEF ColumnsInv, ToldOfList
<1> QED BY <1>3, <1>5, <1>6, <1>7 DEF ColumnsInv

(* A new request carries what the screen and the dialog say.                *)
LEMMA ColumnRequestIs ==
    ASSUME ColumnsInv, NEW kind \in {"create", "rename", "delete", "move", "seed"},
           NEW col \in [id : Nat, name : ColumnLabels, full : BOOLEAN]
    PROVE  /\ ColumnRequest(kind, col) \in ColumnWrite(given)
           /\ ColumnRequest(kind, col).ver = 0 /\ ColumnRequest(kind, col).phase = "sent"
           /\ ColumnRequest(kind, col).kind = kind /\ ColumnRequest(kind, col).col = col
<1>1. colWork + 1 \in Nat /\ NoOne \in Nat /\ 0 \in Nat
  BY DEF ColumnsInv, ScreenShape, NoOne
<1>2. << >> \in Seq(Shown(given))
  OBVIOUS
<1> QED BY <1>1, <1>2 DEF ColumnRequest, ColumnWrite

(* Opening and closing a dialog, sending its form, moving a column and      *)
(* seeding the defaults ask for something and change nothing yet.           *)
LEMMA AsksHold ==
    ColumnsInv /\ (\/ OpenDialog \/ CloseDialog \/ SubmitDialog \/ seedDefaults
                   \/ \E i \in DOMAIN shownCols, direction \in {-1, 1} : moveColumn(i, direction))
        => ColumnsInv'
<1>1. ASSUME ColumnsInv
      PROVE  /\ shownCols \in Seq(Shown(given)) /\ DialogHolds /\ colWork \in Nat /\ given \in Nat
             /\ DOMAIN shownCols = 1 .. Len(shownCols) /\ Len(shownCols) \in Nat
             /\ \A i \in DOMAIN shownCols : shownCols[i] \in Shown(given)
             /\ listVersion \in Nat
  BY <1>1, LenProperties DEF ColumnsInv, ScreenShape, ServerShape
<1>2. ASSUME ColumnsInv, OpenDialog \/ CloseDialog PROVE ColumnsInv'
  <2>1. UNCHANGED <<columnStore, board, listReads, cardReads, own, trust, effort>>
    BY <1>2 DEF OpenDialog, CloseDialog
  <2>2. Closed \in [kind : {"none", "create", "rename", "delete"}, col : 0 .. given,
                    name : ColumnLabels, blocked : BOOLEAN, pending : 0 .. MaxColumnWork]
    BY <1>1, <1>2, SomeLabel, ColumnsAssumption DEF Closed, NoOne
  <2>3. given' = given /\ colWork' = colWork /\ listReads' = listReads /\ own' = own
    BY <2>1 DEF columnStore, effort
  <2>4. DialogHolds'
    <3>1. CASE dialog' = Closed
      BY <2>2, <2>3, <3>1 DEF DialogHolds, Closed
    <3>2. CASE dialog' = [Closed EXCEPT !.kind = "create"]
      BY <2>2, <2>3, <3>2 DEF DialogHolds
    <3>3. ASSUME NEW i \in DOMAIN shownCols, NEW kind \in {"rename", "delete"},
                 dialog' = [Closed EXCEPT !.kind = kind, !.col = shownCols[i].id, !.name = shownCols[i].name,
                                          !.blocked = kind = "delete" /\ shownCols[i].full]
          PROVE  DialogHolds'
      <4>1. shownCols[i].id \in 1 .. given /\ shownCols[i].name \in ColumnLabels
        BY <1>1, <1>2 DEF Shown
      <4>2. shownCols[i].id \in 0 .. given /\ shownCols[i].id # NoOne
        BY <4>1 DEF NoOne
      <4>3. PICK b, c, n : /\ b \in BOOLEAN /\ b = (kind = "delete" /\ shownCols[i].full)
                          /\ c = shownCols[i].id /\ n = shownCols[i].name
        OBVIOUS
      <4>4. dialog' = [Closed EXCEPT !.kind = kind, !.col = c, !.name = n, !.blocked = b]
        BY <3>3, <4>3
      <4>5. c \in 0 .. given /\ c # NoOne /\ n \in ColumnLabels /\ b \in BOOLEAN
        BY <4>1, <4>2, <4>3
      <4> QED BY <2>2, <2>3, <4>4, <4>5 DEF DialogHolds
    <3> QED BY <1>2, <3>1, <3>2, <3>3 DEF OpenDialog, CloseDialog
  <2>5. colWork' \in Nat
    BY <1>1, <1>2, <2>3
  <2> QED BY <1>2, <2>1, <2>3, <2>4, <2>5, QuietHolds
<1>3. ASSUME ColumnsInv, NEW r, WriteHolds(r), PostColumn(r), DialogHolds' PROVE ColumnsInv'
  <2>1. /\ UNCHANGED <<columnStore, board, cardReads, trust>> /\ colWork' \in Nat
        /\ listReads' = listReads /\ own' = own \cup {r}
    BY <1>1, <1>3 DEF PostColumn, Worked
  <2> QED BY <1>3, <2>1, QuietHolds
<1>4. ASSUME ColumnsInv, SubmitDialog PROVE ColumnsInv'
  <2>1. /\ dialog \in [kind : {"none", "create", "rename", "delete"}, col : 0 .. given,
                       name : ColumnLabels, blocked : BOOLEAN, pending : 0 .. MaxColumnWork]
        /\ dialog.kind \in {"rename", "delete"} => dialog.col # NoOne
    BY <1>1, <1>4 DEF DialogHolds
  <2>2. dialog.col \in 0 .. given /\ dialog.name \in ColumnLabels
    BY <2>1
  <2>3. ASSUME NEW n \in ColumnLabels
        PROVE  /\ Col(dialog.col, n) \in [id : Nat, name : ColumnLabels, full : BOOLEAN]
               /\ Col(dialog.col, n).id = dialog.col /\ ~Col(dialog.col, n).full
    BY <1>1, <1>4, <2>2 DEF Col
  <2>4. ASSUME NEW r, PostColumn(r) PROVE DialogHolds'
    <3>1. colWork < MaxColumnWork /\ given' = given
      BY <2>4 DEF PostColumn, Worked, columnStore
    <3>2. colWork + 1 \in 0 .. MaxColumnWork
      BY <1>1, <1>4, <3>1, ColumnsAssumption
    <3>3. dialog' = [dialog EXCEPT !.pending = colWork + 1]
      BY <1>4 DEF SubmitDialog
    <3> QED BY <2>1, <3>1, <3>2, <3>3 DEF DialogHolds
  <2>5. ASSUME NEW after,
               after = IF shownCols = << >> THEN NoOne ELSE shownCols[Len(shownCols)].id,
               PostColumn([ColumnRequest("create", Col(dialog.col, dialog.name)) EXCEPT !.after = after])
        PROVE  ColumnsInv'
    <3>1. PICK q : q = ColumnRequest("create", Col(dialog.col, dialog.name))
      OBVIOUS
    <3>2. q \in ColumnWrite(given) /\ q.ver = 0 /\ q.phase = "sent" /\ q.kind = "create"
      BY <1>4, <2>2, <2>3, <3>1, ColumnRequestIs
    <3>3. after \in Nat
      <4>1. CASE shownCols = << >>
        BY <2>5, <4>1 DEF NoOne
      <4>2. CASE shownCols # << >>
        <5>1. Len(shownCols) \in DOMAIN shownCols
          <6>1. Len(shownCols) \in Nat \ {0}
            BY <1>1, <1>4, <4>2, EmptySeq
          <6> QED BY <1>1, <1>4, <6>1
        <5>2. shownCols[Len(shownCols)] \in Shown(given)
          BY <1>1, <1>4, <5>1
        <5> QED BY <2>5, <4>2, <5>2 DEF Shown
      <4> QED BY <4>1, <4>2
    <3>4. PICK r : r = [q EXCEPT !.after = after]
      OBVIOUS
    <3>5. r \in ColumnWrite(given) /\ r.ver = 0 /\ r.phase = "sent" /\ r.kind = "create"
      BY <3>2, <3>3, <3>4 DEF ColumnWrite
    <3>6. WriteHolds(r)
      BY <1>1, <1>4, <3>5 DEF WriteHolds
    <3>7. PostColumn(r)
      BY <2>5, <3>1, <3>4
    <3> QED BY <1>3, <1>4, <2>4, <3>6, <3>7
  <2>6. ASSUME NEW kind \in {"rename", "delete"}, NEW n \in ColumnLabels, dialog.kind = kind,
               PostColumn(ColumnRequest(kind, Col(dialog.col, n)))
        PROVE  ColumnsInv'
    <3>1. PICK q : q = ColumnRequest(kind, Col(dialog.col, n))
      OBVIOUS
    <3>2. /\ q \in ColumnWrite(given) /\ q.ver = 0 /\ q.phase = "sent" /\ q.kind = kind
          /\ q.col = Col(dialog.col, n)
      BY <1>4, <2>3, <3>1, ColumnRequestIs
    <3>3. q.col.id = dialog.col /\ ~q.col.full
      BY <2>3, <3>2
    <3>4. dialog.col \in 1 .. given
      BY <1>1, <1>4, <2>1, <2>2, <2>6 DEF NoOne
    <3>5. WriteHolds(q)
      BY <1>1, <1>4, <3>2, <3>3, <3>4 DEF WriteHolds
    <3>6. PostColumn(q)
      BY <2>6, <3>1
    <3> QED BY <1>3, <1>4, <2>4, <3>5, <3>6
  <2> QED BY <1>4, <2>2, <2>5, <2>6 DEF SubmitDialog
<1>5. ASSUME ColumnsInv, seedDefaults PROVE ColumnsInv'
  <2>1. PICK q : q = ColumnRequest("seed", Col(NoOne, AnyLabel))
    OBVIOUS
  <2>2. Col(NoOne, AnyLabel) \in [id : Nat, name : ColumnLabels, full : BOOLEAN]
    BY SomeLabel DEF Col, NoOne
  <2>3. q \in ColumnWrite(given) /\ q.ver = 0 /\ q.phase = "sent" /\ q.kind = "seed"
    BY <1>5, <2>1, <2>2, ColumnRequestIs
  <2>4. WriteHolds(q)
    BY <1>1, <1>5, <2>3 DEF WriteHolds
  <2>5. PostColumn(q) /\ dialog' = dialog
    BY <1>5, <2>1 DEF seedDefaults
  <2>6. given' = given
    BY <2>5 DEF PostColumn, columnStore
  <2>7. DialogHolds'
    BY <1>1, <1>5, <2>5, <2>6 DEF DialogHolds
  <2> QED BY <1>3, <1>5, <2>4, <2>5, <2>7
<1>6. ASSUME ColumnsInv, NEW i \in DOMAIN shownCols, NEW direction \in {-1, 1}, moveColumn(i, direction)
      PROVE  ColumnsInv'
  <2> DEFINE target == i + direction
             rest == Without(shownCols, shownCols[i].id)
             before == IF target - 1 \in DOMAIN rest THEN rest[target - 1].id ELSE NoOne
             after == IF target \in DOMAIN rest THEN rest[target].id ELSE NoOne
             slot == IF target > Len(rest) THEN Len(rest) + 1 ELSE target
  <2>1. shownCols[i] \in Shown(given) /\ shownCols \in Seq(Shown(given))
    BY <1>1, <1>6
  <2>2. rest \in Seq(Shown(given))
    BY <2>1, WithoutOne
  <2>3. target \in DOMAIN shownCols
    BY <1>6 DEF moveColumn
  <2>4. target \in Nat \ {0}
    BY <1>1, <1>6, <2>3
  <2> HIDE DEF rest, target
  <2>5. Len(rest) \in Nat /\ DOMAIN rest = 1 .. Len(rest) /\ \A k \in 1 .. Len(rest) : rest[k] \in Shown(given)
    BY <2>2, LenProperties
  <2>6. slot \in 1 .. Len(rest) + 1 /\ slot \in Nat
    BY <2>4, <2>5
  <2>7. before \in Nat /\ after \in Nat
    BY <2>5 DEF Shown, NoOne
  <2>8. PICK q : q = ColumnRequest("move", shownCols[i])
    OBVIOUS
  <2>9. /\ q \in ColumnWrite(given) /\ q.ver = 0 /\ q.phase = "sent" /\ q.kind = "move"
        /\ q.col = shownCols[i]
    <3>1. shownCols[i] \in [id : Nat, name : ColumnLabels, full : BOOLEAN]
      BY <2>1 DEF Shown
    <3> QED BY <1>6, <2>8, <3>1, ColumnRequestIs
  <2> HIDE DEF before, after, slot
  <2>10. PICK r : r = [q EXCEPT !.before = before, !.after = after, !.rest = rest, !.from = shownCols, !.slot = slot]
    OBVIOUS
  <2>11. /\ r \in ColumnWrite(given) /\ r.ver = 0 /\ r.phase = "sent" /\ r.kind = "move"
         /\ r.col = shownCols[i] /\ r.slot = slot /\ r.rest = rest
    BY <2>1, <2>2, <2>6, <2>7, <2>9, <2>10 DEF ColumnWrite
  <2>12. r.col.id \in 1 .. given
    BY <2>1, <2>11 DEF Shown
  <2>13. WriteHolds(r)
    BY <1>1, <1>6, <2>6, <2>11, <2>12 DEF WriteHolds
  <2>14. PostColumn(r) /\ UNCHANGED waiting
    BY <1>6, <2>8, <2>10 DEF moveColumn, before, after, slot, rest, target
  <2>15. given' = given /\ dialog' = dialog
    BY <2>14 DEF PostColumn, columnStore, waiting
  <2>16. DialogHolds'
    BY <1>1, <1>6, <2>15 DEF DialogHolds
  <2> QED BY <1>3, <1>6, <2>13, <2>14, <2>16
<1> QED BY <1>2, <1>4, <1>5, <1>6

(* A request is lost, or a refusal is read.                                 *)
LEMMA RefusalsHold ==
    ASSUME ColumnsInv, NEW r \in own, RequestFails(r) \/ RefusalArrives(r) PROVE ColumnsInv'
<1>1. /\ WriteHolds(r) /\ r \in ColumnWrite(given) /\ DialogHolds /\ ServerShape /\ colWork \in Nat
  BY DEF ColumnsInv, WriteHolds, ScreenShape
<1>2. CASE RequestFails(r)
  <2>1. PICK no : no = [r EXCEPT !.phase = "failed"]
    OBVIOUS
  <2>2. /\ no \in ColumnWrite(given) /\ no.kind = r.kind /\ no.col = r.col /\ no.rest = r.rest
        /\ no.slot = r.slot /\ no.phase = "failed" /\ no.ver = r.ver /\ no.answer = r.answer
    BY <1>1, <2>1 DEF ColumnWrite
  <2>3. WriteHolds(no)
    BY <1>1, <2>2 DEF WriteHolds
  <2>4. /\ own' = (own \ {r}) \cup {no} /\ listReads' = listReads /\ dialog' = dialog /\ colWork' = colWork
        /\ given' = given /\ UNCHANGED <<columnStore, board, cardReads, trust>>
    BY <1>2, <2>1 DEF RequestFails, Faulted, waiting, columnStore
  <2>5. DialogHolds'
    BY <1>1, <2>4 DEF DialogHolds
  <2>6. colWork' \in Nat
    BY <1>1, <2>4
  <2> QED BY <2>3, <2>4, <2>5, <2>6, QuietHolds
<1>3. CASE RefusalArrives(r)
  <2>1. /\ own' = own \ {r} /\ UNCHANGED <<columnStore, board, cardReads, trust>>
        /\ listReads \subseteq listReads' /\ \A q \in listReads' : q \in listReads \/ q = ReadList(TRUE)
    BY <1>3 DEF RefusalArrives
  <2>2. given' = given /\ colWork' = colWork
    BY <1>3 DEF RefusalArrives, columnStore, effort
  <2>3. DialogHolds'
    <3>1. dialog' = dialog \/ dialog' = [dialog EXCEPT !.pending = 0]
      BY <1>3 DEF RefusalArrives
    <3>2. 0 \in 0 .. MaxColumnWork
      BY ColumnsAssumption
    <3> QED BY <1>1, <2>2, <3>1, <3>2 DEF DialogHolds
  <2>4. ReadHolds(ReadList(TRUE))
    BY <1>1, ReadFinds
  <2>5. colWork' \in Nat
    BY <1>1, <2>2
  <2> QED BY <2>1, <2>3, <2>4, <2>5, QuietHolds
<1> QED BY <1>2, <1>3

(* A count beside a column does not make it another column.                 *)
LEMMA CountedIds ==
    ASSUME NEW g \in Nat, NEW s \in Seq(Shown(g)), NEW at
    PROVE  Ids(Counted(s, at)) = Ids(s)
<1>1. DOMAIN s = 1 .. Len(s) /\ \A i \in 1 .. Len(s) : s[i] \in Shown(g)
  BY LenProperties
<1>2. ASSUME NEW x \in Shown(g), NEW b PROVE [x EXCEPT !.full = b].id = x.id
  BY DEF Shown
<1>3. \A i \in DOMAIN s : Counted(s, at)[i].id = s[i].id
  BY <1>1, <1>2 DEF Counted
<1>4. DOMAIN Counted(s, at) = DOMAIN s
  BY DEF Counted
<1> QED BY <1>3, <1>4 DEF Ids

(* An answer put over the list is late, or it is of a column long gone.     *)
LEMMA AnswerHolds ==
    ASSUME ColumnsInv, NEW r \in own, AnswerArrives(r) PROVE ColumnsInv'
<1>1. /\ WriteHolds(r) /\ r \in ColumnWrite(given) /\ ServerShape /\ ScreenShape
      /\ given \in Nat /\ r.phase = "done" /\ listVersion \in Nat
  BY DEF ColumnsInv, WriteHolds, AnswerArrives, ServerShape
<1>2. /\ shownCols \in Seq(Shown(given)) /\ columns \in Seq(Plain(given))
      /\ newestList \in Nat /\ newestList <= listVersion
  BY <1>1 DEF ServerShape, ScreenShape
<1>3. /\ own' = own \ {r} /\ shownCols' = Put(r) /\ overtaken' = (overtaken \/ LateAnswer(r))
      /\ cardShown' = IF r.kind = "delete" /\ cardShown = r.col.id THEN Nowhere ELSE cardShown
      /\ dialog' = IF dialog.kind = r.kind THEN Closed ELSE dialog
      /\ listReads' = listReads /\ cardReads' = cardReads /\ newestList' = newestList
      /\ cardMissed' = cardMissed /\ colWork' = colWork
      /\ columns' = columns /\ cardAt' = cardAt /\ listVersion' = listVersion
      /\ colEvents' = colEvents /\ given' = given
  BY DEF AnswerArrives, columnStore, effort
<1>4. /\ r.answer \in Seq(Shown(given)) /\ r.rest \in Seq(Shown(given)) /\ r.ver \in Nat
      /\ r.kind \in {"create", "rename", "delete", "move", "seed"}
  BY <1>1 DEF ColumnWrite
<1>5. Put(r) \in Seq(Shown(given))
  <2>1. CASE r.kind = "create"
    BY <1>2, <1>4, <2>1, ConcatProperties DEF Put
  <2>2. ASSUME r.kind \in {"rename", "move"} PROVE r.answer[1] \in Shown(given)
    <3>1. 1 \in DOMAIN r.answer
      BY <1>1, <2>2 DEF WriteHolds
    <3>2. 1 \in 1 .. Len(r.answer)
      BY <1>4, <3>1, LenProperties
    <3> QED BY <1>4, <3>2, ElementOfSeq
  <2>3. CASE r.kind = "rename"
    BY <1>2, <2>2, <2>3, RenamedOne DEF Put
  <2>4. CASE r.kind = "delete"
    BY <1>2, <2>4, WithoutOne DEF Put
  <2>5. CASE r.kind = "move"
    <3>1. r.slot \in 1 .. Len(r.rest) + 1
      BY <1>1, <2>5 DEF WriteHolds
    <3>2. Put(r) = InsertAt(r.rest, r.slot, r.answer[1])
      BY <2>5 DEF Put
    <3> QED BY <1>4, <2>2, <2>5, <3>1, <3>2, InsertedOne
  <2>6. CASE r.kind = "seed"
    BY <1>4, <2>6 DEF Put
  <2> QED BY <1>4, <2>1, <2>3, <2>4, <2>5, <2>6
<1>6. ServerShape' /\ ToldOfList'
  BY <1>1, <1>3 DEF ServerShape, ColumnsInv, ToldOfList
<1>7. DialogHolds'
  <2>1. Closed \in [kind : {"none", "create", "rename", "delete"}, col : 0 .. given,
                    name : ColumnLabels, blocked : BOOLEAN, pending : 0 .. MaxColumnWork]
    BY <1>1, SomeLabel, ColumnsAssumption DEF Closed, NoOne
  <2>2. Closed.kind = "none"
    BY DEF Closed
  <2>3. DialogHolds
    BY <1>1 DEF ScreenShape
  <2> QED BY <1>3, <2>1, <2>2, <2>3 DEF DialogHolds
<1>8. ScreenShape'
  <2>1. overtaken' \in BOOLEAN
    <3>1. LateAnswer(r) \in BOOLEAN
      BY DEF LateAnswer
    <3> QED BY <1>1, <1>3, <3>1 DEF ScreenShape
  <2>2. cardShown' \in 0 .. given'
    BY <1>1, <1>3 DEF ScreenShape, Nowhere
  <2> QED BY <1>1, <1>3, <1>5, <1>7, <2>1, <2>2 DEF ScreenShape
<1>9. UpToDate'
  <2>1. SUFFICES ASSUME ~overtaken', newestList' = listVersion' PROVE Counted(shownCols', NoOne) = columns'
    BY DEF UpToDate
  <2>2. ~overtaken /\ ~LateAnswer(r) /\ newestList = listVersion
    BY <1>3, <2>1
  <2>3. r.ver <= listVersion
    BY <1>1 DEF WriteHolds
  <2>4. r.kind = "delete"
    BY <2>2, <2>3 DEF LateAnswer
  <2>5. r.col.id \notin Ids(columns)
    BY <1>1, <2>4 DEF WriteHolds
  <2>6. Counted(shownCols, NoOne) = columns
    BY <2>2 DEF ColumnsInv, UpToDate
  <2>7. r.col.id \notin Ids(shownCols)
    BY <1>1, <1>2, <2>5, <2>6, CountedIds
  <2>8. Put(r) = shownCols
    BY <1>2, <2>4, <2>7, WithoutOne DEF Put
  <2> QED BY <1>3, <2>6, <2>8
<1>10. cardAt # Nowhere \/ cardShown = Nowhere => (cardShown = cardAt => cardShown' = cardAt)
  <2> SUFFICES ASSUME cardShown = cardAt PROVE cardShown' = cardAt
    OBVIOUS
  <2>1. CASE r.kind = "delete" /\ cardShown = r.col.id
    <3>1. r.col.id \in 1 .. given /\ r.col.id \notin Ids(columns)
      BY <1>1, <2>1 DEF WriteHolds
    <3>2. cardAt # Nowhere
      BY <2>1, <3>1 DEF Nowhere
    <3> QED BY <1>1, <2>1, <3>1, <3>2 DEF ServerShape
  <2>2. CASE ~(r.kind = "delete" /\ cardShown = r.col.id)
    BY <1>3, <2>2
  <2> QED BY <2>1, <2>2
<1>11. NoCard /\ (NoMoves' <=> NoMoves)
  BY <1>3 DEF ColumnsInv, NoMoves
<1>12. NoCard'
  BY <1>3, <1>11 DEF NoCard
<1>13. CardFollows'
  <2>1. CardFollows
    BY DEF ColumnsInv
  <2>2. CASE cardMissed
    BY <1>3, <2>2 DEF CardFollows
  <2>3. CASE cardAt # Nowhere /\ \E k \in DOMAIN colEvents : LastPlace(k)
    BY <1>3, <2>3 DEF CardFollows, LastPlace
  <2>4. CASE NoMoves /\ cardShown = cardAt
    <3>1. cardShown' = cardAt
      BY <1>10, <1>11, <2>4 DEF NoCard
    <3> QED BY <1>3, <1>11, <2>4, <3>1 DEF CardFollows
  <2>5. CASE NoMoves /\ cardAt \in cardReads
    BY <1>3, <1>11, <2>5 DEF CardFollows
  <2> QED BY <2>1, <2>2, <2>3, <2>4, <2>5 DEF CardFollows
<1>14. \A q \in listReads' : ReadHolds(q)'
  BY <1>3 DEF ColumnsInv, ReadHolds
<1>15. \A x \in own' : WriteHolds(x)'
  BY <1>3 DEF ColumnsInv, WriteHolds
<1> QED BY <1>6, <1>8, <1>9, <1>12, <1>13, <1>14, <1>15 DEF ColumnsInv

(* An event starts a read of the newest list, or says where the card is.    *)
LEMMA ArrivalHolds ==
    ASSUME ColumnsInv, ColumnEventArrives PROVE ColumnsInv'
<1>1. /\ ServerShape /\ ScreenShape /\ colEvents # << >> /\ colEvents \in Seq(0 .. given)
      /\ given \in Nat /\ listVersion \in Nat /\ NoCard
  BY DEF ColumnsInv, ServerShape, ColumnEventArrives
<1>2. /\ colEvents' = Tail(colEvents) /\ columns' = columns /\ cardAt' = cardAt
      /\ listVersion' = listVersion /\ given' = given /\ shownCols' = shownCols /\ own' = own
      /\ dialog' = dialog /\ newestList' = newestList /\ overtaken' = overtaken
      /\ cardMissed' = cardMissed /\ colWork' = colWork
  BY DEF ColumnEventArrives, waiting, trust, listTrust, effort
<1>3. /\ Head(colEvents) \in 0 .. given /\ colEvents' \in Seq(0 .. given)
      /\ Len(colEvents') = Len(colEvents) - 1
      /\ \A i \in 1 .. Len(colEvents') : colEvents'[i] = colEvents[i + 1]
  BY <1>1, <1>2, HeadTailProperties
<1>4. Len(colEvents) \in Nat \ {0} /\ DOMAIN colEvents = 1 .. Len(colEvents)
  BY <1>1, EmptySeq, LenProperties
<1>5. DOMAIN colEvents' = 1 .. Len(colEvents) - 1
  BY <1>3, LenProperties
<1>6. Head(colEvents) = colEvents[1]
  OBVIOUS
<1>7. \A k \in DOMAIN colEvents' : k + 1 \in DOMAIN colEvents /\ colEvents'[k] = colEvents[k + 1]
  BY <1>3, <1>4, <1>5
<1>8. \A k \in DOMAIN colEvents : k # 1 => k - 1 \in DOMAIN colEvents' /\ colEvents'[k - 1] = colEvents[k]
  <2> SUFFICES ASSUME NEW k \in DOMAIN colEvents, k # 1
               PROVE  k - 1 \in DOMAIN colEvents' /\ colEvents'[k - 1] = colEvents[k]
    OBVIOUS
  <2>1. k - 1 \in DOMAIN colEvents' /\ (k - 1) + 1 = k
    BY <1>4, <1>5
  <2> QED BY <1>7, <2>1
<1>9. ServerShape'
  BY <1>1, <1>2, <1>3 DEF ServerShape
<1>10. UpToDate' /\ \A x \in own' : WriteHolds(x)'
  BY <1>2 DEF ColumnsInv, UpToDate, WriteHolds
<1>11. NoMoves => NoMoves'
  BY <1>7 DEF NoMoves
<1>12. ASSUME NEW k \in DOMAIN colEvents, k # 1, LastPlace(k)
       PROVE  \E l \in DOMAIN colEvents' : LastPlace(l)'
  <2>1. PICK l : l = k - 1
    OBVIOUS
  <2>2. l \in DOMAIN colEvents' /\ colEvents'[l] = cardAt'
    BY <1>2, <1>8, <1>12, <2>1 DEF LastPlace
  <2>3. ASSUME NEW m \in DOMAIN colEvents', m > l PROVE colEvents'[m] = NoOne
    <3>1. m + 1 \in DOMAIN colEvents /\ colEvents'[m] = colEvents[m + 1]
      BY <1>7
    <3>2. m + 1 > k
      BY <1>4, <1>5, <2>1, <2>3
    <3> QED BY <1>12, <3>1, <3>2 DEF LastPlace
  <2> QED BY <2>2, <2>3 DEF LastPlace
<1>13. ASSUME LastPlace(1) PROVE NoMoves'
  <2> SUFFICES ASSUME NEW k \in DOMAIN colEvents' PROVE colEvents'[k] = NoOne
    BY DEF NoMoves
  <2>1. k + 1 \in DOMAIN colEvents /\ colEvents'[k] = colEvents[k + 1] /\ k + 1 > 1
    BY <1>5, <1>7
  <2> QED BY <1>13, <2>1 DEF LastPlace
<1>14. CASE Head(colEvents) = NoOne /\ onColumnChanged /\ UNCHANGED <<cardShown, cardReads>>
  <2>1. listReads' = listReads \cup {ReadList(FALSE)}
    BY <1>14 DEF onColumnChanged
  <2>2. ReadHolds(ReadList(FALSE)) /\ ReadList(FALSE).ver = listVersion
    BY <1>1, ReadFinds
  <2>3. \A q \in listReads' : ReadHolds(q)
    BY <2>1, <2>2 DEF ColumnsInv
  <2>4. \A q \in listReads' : ReadHolds(q)'
    BY <1>2, <2>3 DEF ReadHolds
  <2>5. ToldOfList'
    <3>1. PICK q : q = ReadList(FALSE)
      OBVIOUS
    <3>2. q \in listReads' /\ q.ver = listVersion'
      BY <1>2, <2>1, <2>2, <3>1
    <3> QED BY <3>2 DEF ToldOfList
  <2>6. ScreenShape'
    BY <1>1, <1>2, <1>14 DEF ScreenShape, DialogHolds
  <2>7. CardFollows'
    <3>1. CardFollows
      BY DEF ColumnsInv
    <3>2. CASE cardMissed
      BY <1>2, <3>2 DEF CardFollows
    <3>3. CASE cardAt # Nowhere /\ \E k \in DOMAIN colEvents : LastPlace(k)
      <4>1. PICK k \in DOMAIN colEvents : LastPlace(k)
        BY <3>3
      <4>2. k # 1
        BY <1>6, <1>14, <3>3, <4>1 DEF LastPlace, NoOne, Nowhere
      <4>3. \E l \in DOMAIN colEvents' : LastPlace(l)'
        BY <1>12, <4>1, <4>2
      <4> QED BY <1>2, <3>3, <4>3 DEF CardFollows
    <3>4. CASE NoMoves /\ (cardShown = cardAt \/ cardAt \in cardReads)
      BY <1>2, <1>11, <1>14, <3>4 DEF CardFollows
    <3> QED BY <3>1, <3>2, <3>3, <3>4 DEF CardFollows
  <2>8. NoCard'
    BY <1>1, <1>2, <1>11, <1>14 DEF NoCard
  <2> QED BY <1>9, <1>10, <2>4, <2>5, <2>6, <2>7, <2>8 DEF ColumnsInv
<1>15. CASE Head(colEvents) # NoOne /\ onCardMoved(Head(colEvents)) /\ UNCHANGED listReads
  <2>1. 1 \in DOMAIN colEvents /\ ~NoMoves
    BY <1>4, <1>6, <1>15 DEF NoMoves
  <2>2. cardAt # Nowhere /\ cardAt \in 1 .. given
    BY <1>1, <2>1 DEF NoCard, ServerShape, Nowhere
  <2>3. /\ cardShown = Nowhere => cardReads' = cardReads \cup {cardAt} /\ cardShown' = cardShown
        /\ cardShown # Nowhere => cardShown' = Head(colEvents) /\ cardReads' = cardReads
    BY <1>15 DEF onCardMoved
  <2>4. ScreenShape'
    <3>1. cardShown' \in 0 .. given' /\ cardReads' \subseteq 1 .. given'
      BY <1>1, <1>2, <1>3, <2>2, <2>3 DEF ScreenShape
    <3> QED BY <1>1, <1>2, <3>1 DEF ScreenShape, DialogHolds
  <2>5. \A q \in listReads' : ReadHolds(q)'
    BY <1>2, <1>15 DEF ColumnsInv, ReadHolds
  <2>6. ToldOfList'
    <3>1. ToldOfList
      BY DEF ColumnsInv
    <3>2. ASSUME NEW k \in DOMAIN colEvents, colEvents[k] = NoOne
          PROVE  \E l \in DOMAIN colEvents' : colEvents'[l] = NoOne
      BY <1>6, <1>8, <1>15, <3>2
    <3>3. CASE \E k \in DOMAIN colEvents : colEvents[k] = NoOne
      <4>1. \E l \in DOMAIN colEvents' : colEvents'[l] = NoOne
        BY <3>2, <3>3
      <4> QED BY <4>1 DEF ToldOfList
    <3>4. CASE newestList = listVersion \/ overtaken \/ \E q \in listReads : q.ver = listVersion
      <4>1. listReads' = listReads
        BY <1>15
      <4> QED BY <1>2, <3>4, <4>1 DEF ToldOfList
    <3> QED BY <3>1, <3>3, <3>4 DEF ToldOfList
  <2>7. CardFollows'
    <3>1. CardFollows
      BY DEF ColumnsInv
    <3>2. CASE cardMissed
      BY <1>2, <3>2 DEF CardFollows
    <3>3. CASE \E k \in DOMAIN colEvents : LastPlace(k)
      <4>1. PICK k \in DOMAIN colEvents : LastPlace(k)
        BY <3>3
      <4>2. CASE k # 1
        BY <1>2, <1>12, <2>2, <4>1, <4>2 DEF CardFollows
      <4>3. CASE k = 1
        <5>1. NoMoves' /\ Head(colEvents) = cardAt
          BY <1>6, <1>13, <4>1, <4>3 DEF LastPlace
        <5> QED BY <1>2, <2>3, <5>1 DEF CardFollows
      <4> QED BY <4>2, <4>3
    <3> QED BY <2>1, <3>1, <3>2, <3>3 DEF CardFollows
  <2>8. NoCard'
    BY <1>2, <2>2 DEF NoCard
  <2> QED BY <1>9, <1>10, <2>4, <2>5, <2>6, <2>7, <2>8 DEF ColumnsInv
<1> QED BY <1>14, <1>15 DEF ColumnEventArrives

(* A read puts the list it found on the screen, or is lost.                 *)
LEMMA ReadsHold ==
    ASSUME ColumnsInv, NEW q \in listReads, ReadArrives(q) \/ ReadFails(q) PROVE ColumnsInv'
<1>1. /\ ServerShape /\ ScreenShape /\ ReadHolds(q) /\ q \in ListRead(given) /\ ToldOfList
      /\ listVersion \in Nat /\ newestList \in Nat /\ newestList <= listVersion
  BY DEF ColumnsInv, ReadHolds, ServerShape, ScreenShape
<1>2. q.ver \in Nat /\ q.ver <= listVersion /\ q.list \in Seq(Shown(given))
  BY <1>1 DEF ReadHolds, ListRead
<1>3. /\ listReads' = listReads \ {q} /\ columns' = columns /\ cardAt' = cardAt
      /\ listVersion' = listVersion /\ colEvents' = colEvents /\ given' = given
      /\ cardShown' = cardShown /\ cardReads' = cardReads /\ own' = own /\ dialog' = dialog
      /\ cardMissed' = cardMissed /\ colWork' = colWork
  BY DEF ReadArrives, ReadFails, Faulted, columnStore, board, effort
<1>4. ServerShape' /\ CardFollows' /\ NoCard'
  BY <1>3 DEF ColumnsInv, ServerShape, CardFollows, NoCard, NoMoves, LastPlace
<1>5. /\ \A x \in own' : WriteHolds(x)'
      /\ \A p \in listReads' : ReadHolds(p)'
  BY <1>3 DEF ColumnsInv, WriteHolds, ReadHolds
<1>6. CASE ReadArrives(q)
  <2>1. /\ shownCols' = q.list /\ overtaken' = (overtaken \/ q.ver < newestList)
        /\ newestList' = IF q.ver > newestList THEN q.ver ELSE newestList
    BY <1>6 DEF ReadArrives
  <2>2. newestList' \in Nat /\ newestList' <= listVersion'
    BY <1>1, <1>2, <1>3, <2>1
  <2>3. ScreenShape'
    BY <1>1, <1>2, <1>3, <2>1, <2>2 DEF ScreenShape, DialogHolds
  <2>4. UpToDate'
    <3>1. SUFFICES ASSUME ~overtaken', newestList' = listVersion' PROVE Counted(shownCols', NoOne) = columns'
      BY DEF UpToDate
    <3>2. ~ (q.ver < newestList)
      BY <2>1, <3>1
    <3>3. q.ver = listVersion
      BY <1>1, <1>2, <1>3, <2>1, <3>1, <3>2
    <3> QED BY <1>1, <1>3, <2>1, <3>3 DEF ReadHolds
  <2>5. ToldOfList'
    <3>1. CASE newestList = listVersion
      <4>1. newestList' = listVersion'
        BY <1>1, <1>2, <1>3, <2>1, <3>1
      <4> QED BY <4>1 DEF ToldOfList
    <3>2. CASE overtaken \/ \E k \in DOMAIN colEvents : colEvents[k] = NoOne
      BY <1>3, <2>1, <3>2 DEF ToldOfList
    <3>3. ASSUME NEW p \in listReads, p.ver = listVersion PROVE ToldOfList'
      <4>1. CASE p = q
        <5>1. newestList' = listVersion'
          BY <1>1, <1>2, <1>3, <2>1, <3>3, <4>1
        <5> QED BY <5>1 DEF ToldOfList
      <4>2. CASE p # q
        <5>1. p \in listReads' /\ p.ver = listVersion'
          BY <1>3, <3>3, <4>2
        <5> QED BY <5>1 DEF ToldOfList
      <4> QED BY <4>1, <4>2
    <3> QED BY <1>1, <3>1, <3>2, <3>3 DEF ToldOfList
  <2> QED BY <1>4, <1>5, <2>3, <2>4, <2>5 DEF ColumnsInv
<1>7. CASE ReadFails(q)
  <2>1. shownCols' = shownCols /\ overtaken' = TRUE /\ newestList' = newestList
    BY <1>7 DEF ReadFails, board
  <2>2. ScreenShape' /\ UpToDate' /\ ToldOfList'
    BY <1>1, <1>3, <2>1 DEF ScreenShape, DialogHolds, UpToDate, ToldOfList
  <2> QED BY <1>4, <1>5, <2>2 DEF ColumnsInv
<1> QED BY <1>6, <1>7

(* A read of the card puts it where it was found, or is lost.               *)
LEMMA CardReadsHold ==
    ASSUME ColumnsInv, NEW at \in cardReads, CardReadArrives(at) \/ CardReadFails(at) PROVE ColumnsInv'
<1>1. /\ ServerShape /\ ScreenShape /\ NoCard /\ CardFollows /\ at \in 1 .. given /\ cardAt # Nowhere
  BY DEF ColumnsInv, ScreenShape, NoCard
<1>2. /\ cardReads' = cardReads \ {at} /\ columns' = columns /\ cardAt' = cardAt
      /\ listVersion' = listVersion /\ colEvents' = colEvents /\ given' = given
      /\ shownCols' = shownCols /\ listReads' = listReads /\ own' = own /\ dialog' = dialog
      /\ newestList' = newestList /\ overtaken' = overtaken /\ colWork' = colWork
  BY DEF CardReadArrives, CardReadFails, Faulted, columnStore, board, effort, waiting, listTrust
<1>3. ServerShape' /\ ToldOfList' /\ UpToDate'
  BY <1>2 DEF ColumnsInv, ServerShape, ToldOfList, UpToDate
<1>4. /\ \A x \in own' : WriteHolds(x)'
      /\ \A p \in listReads' : ReadHolds(p)'
  BY <1>2 DEF ColumnsInv, WriteHolds, ReadHolds
<1>5. NoCard' /\ (NoMoves' <=> NoMoves)
  BY <1>1, <1>2 DEF NoCard, NoMoves
<1>6. CASE CardReadArrives(at)
  <2>1. cardShown' = at /\ cardMissed' = (cardMissed \/ (cardShown # Nowhere /\ at # cardAt))
    BY <1>6 DEF CardReadArrives
  <2>2. ScreenShape'
    <3>1. cardShown' \in 0 .. given' /\ cardReads' \subseteq 1 .. given' /\ cardMissed' \in BOOLEAN
      BY <1>1, <1>2, <2>1 DEF ScreenShape
    <3> QED BY <1>1, <1>2, <3>1 DEF ScreenShape, DialogHolds
  <2>3. CardFollows'
    <3>1. CASE cardMissed
      BY <2>1, <3>1 DEF CardFollows
    <3>2. CASE \E k \in DOMAIN colEvents : LastPlace(k)
      BY <1>1, <1>2, <3>2 DEF CardFollows, LastPlace
    <3>3. CASE NoMoves /\ cardShown = cardAt
      BY <1>1, <1>2, <1>5, <2>1, <3>3 DEF CardFollows
    <3>4. CASE NoMoves /\ cardAt \in cardReads
      BY <1>1, <1>2, <1>5, <2>1, <3>4 DEF CardFollows
    <3> QED BY <1>1, <3>1, <3>2, <3>3, <3>4 DEF CardFollows
  <2> QED BY <1>3, <1>4, <1>5, <2>2, <2>3 DEF ColumnsInv
<1>7. CASE CardReadFails(at)
  <2>1. cardShown' = cardShown /\ cardMissed' = TRUE
    BY <1>7 DEF CardReadFails, board
  <2>2. ScreenShape' /\ CardFollows'
    BY <1>1, <1>2, <2>1 DEF ScreenShape, DialogHolds, CardFollows
  <2> QED BY <1>3, <1>4, <1>5, <2>2 DEF ColumnsInv
<1> QED BY <1>6, <1>7

(* The board as loaded.                                                     *)
LEMMA ColumnsBegin == ColumnsInit => ColumnsInv
<1> SUFFICES ASSUME ColumnsInit PROVE ColumnsInv
  OBVIOUS
<1>1. /\ columns \in StartLists /\ given = Len(columns) /\ listVersion = 0 /\ colEvents = << >>
      /\ cardAt \in (IF columns = << >> THEN {Nowhere} ELSE Ids(columns)) /\ cardShown = cardAt
      /\ shownCols = (IF columns = << >> THEN << >> ELSE Counted(columns, columns[1].id))
      /\ listReads = {} /\ cardReads = {} /\ own = {} /\ dialog = Closed
      /\ newestList = 0 /\ overtaken = FALSE /\ cardMissed = FALSE /\ colWork = 0
  BY DEF ColumnsInit
<1>2. /\ columns \in Seq([id : Nat, name : ColumnLabels, full : BOOLEAN])
      /\ \A i \in DOMAIN columns : columns[i].id \in 1 .. Len(columns) /\ ~columns[i].full
  BY <1>1, ColumnsAssumption
<1>3. /\ Len(columns) \in Nat /\ DOMAIN columns = 1 .. Len(columns)
      /\ columns = [i \in 1 .. Len(columns) |-> columns[i]]
      /\ \A i \in 1 .. Len(columns) : columns[i] \in [id : Nat, name : ColumnLabels, full : BOOLEAN]
  BY <1>2, LenProperties
<1>4. given \in Nat
  BY <1>1, <1>3
<1>5. \A i \in 1 .. Len(columns) : columns[i] \in Plain(given)
  BY <1>1, <1>2, <1>3 DEF Plain, Shown
<1>6. columns \in Seq(Plain(given))
  <2>1. [i \in 1 .. Len(columns) |-> columns[i]] \in Seq(Plain(given))
    BY <1>3, <1>5, IsASeq
  <2> QED BY <1>3, <2>1
<1>7. columns \in Seq(Shown(given))
  BY <1>4, <1>6, WiderLists
<1>8. shownCols \in Seq(Shown(given)) /\ Counted(shownCols, NoOne) = columns
  <2>1. CASE columns = << >>
    <3>1. shownCols = << >> /\ DOMAIN << >> = {}
      BY <1>1, <2>1
    <3>2. Counted(<< >>, NoOne) = [i \in {} |-> << >>[i]]
      BY <3>1 DEF Counted
    <3>3. [i \in {} |-> << >>[i]] = << >>
      OBVIOUS
    <3> QED BY <1>7, <2>1, <3>1, <3>2, <3>3
  <2>2. CASE columns # << >>
    BY <1>1, <1>4, <1>6, <1>7, <2>2, CountedList
  <2> QED BY <2>1, <2>2
<1>9. cardAt \in 0 .. given /\ (cardAt # Nowhere => cardAt \in Ids(columns))
  <2>1. \A i \in DOMAIN columns : columns[i].id \in 0 .. given
    BY <1>1, <1>2
  <2>2. Ids(columns) \subseteq 0 .. given /\ Nowhere \in 0 .. given
    BY <1>4, <2>1 DEF Ids, Nowhere
  <2> QED BY <1>1, <2>2
<1>10. ServerShape
  BY <1>1, <1>4, <1>6, <1>9 DEF ServerShape
<1>11. DialogHolds
  <2>1. /\ Closed \in [kind : {"none", "create", "rename", "delete"}, col : {0},
                      name : ColumnLabels, blocked : BOOLEAN, pending : {0}]
        /\ Closed.kind = "none"
    BY SomeLabel DEF Closed, NoOne
  <2>2. 0 \in 0 .. given /\ 0 \in 0 .. MaxColumnWork
    BY <1>4, ColumnsAssumption
  <2> HIDE DEF Closed
  <2>3. Closed \in [kind : {"none", "create", "rename", "delete"}, col : 0 .. given,
                    name : ColumnLabels, blocked : BOOLEAN, pending : 0 .. MaxColumnWork]
    BY <2>1, <2>2
  <2> QED BY <1>1, <2>1, <2>3 DEF DialogHolds
<1>12. ScreenShape
  <2>1. cardShown \in 0 .. given /\ cardReads \subseteq 1 .. given
    BY <1>1, <1>9
  <2>2. colWork \in Nat /\ newestList \in Nat /\ newestList <= listVersion
    BY <1>1
  <2>3. overtaken \in BOOLEAN /\ cardMissed \in BOOLEAN
    BY <1>1
  <2> QED BY <1>8, <1>11, <2>1, <2>2, <2>3 DEF ScreenShape
<1>13. NoMoves
  BY <1>1 DEF NoMoves
<1> QED BY <1>1, <1>8, <1>10, <1>12, <1>13 DEF ColumnsInv, ToldOfList, UpToDate, CardFollows, NoCard

(* What the screen shows of the columns and the card follows.               *)
LEMMA ColumnsAreSound == ColumnsInv => ShownColumnsSound
<1> SUFFICES ASSUME ColumnsInv PROVE ShownColumnsSound
  OBVIOUS
<1>1. ServerShape /\ ScreenShape /\ DialogHolds
  BY DEF ColumnsInv, ScreenShape
<1>2. ASSUME NEW s \in Seq(Shown(given)) PROVE Ids(s) \subseteq 1 .. given
  <2>1. DOMAIN s = 1 .. Len(s) /\ \A i \in 1 .. Len(s) : s[i] \in Shown(given)
    BY LenProperties
  <2> QED BY <2>1 DEF Ids, Shown
<1>3. ColumnsTypeOK
  <2>1. columns \in Seq(Shown(given)) /\ shownCols \in Seq(Shown(given))
    BY <1>1, WiderLists DEF ServerShape, ScreenShape
  <2>2. Ids(columns) \cup Ids(shownCols) \subseteq 1 .. given
    BY <1>2, <2>1
  <2>3. {cardAt, cardShown} \subseteq 0 .. given
    BY <1>1 DEF ServerShape, ScreenShape
  <2>4. dialog.pending \in 0 .. MaxColumnWork /\ newestList <= listVersion
    BY <1>1 DEF ScreenShape, DialogHolds
  <2>5. \A r \in own : r.phase \in {"sent", "done", "refused", "failed"}
    BY DEF ColumnsInv, WriteHolds, ColumnWrite
  <2> QED BY <2>2, <2>3, <2>4, <2>5 DEF ColumnsTypeOK
<1>4. QuietColumnsAreCurrent
  BY DEF ColumnsInv, ToldOfList, UpToDate, QuietColumnsAreCurrent
<1>5. CardOutlivesColumn
  BY DEF ColumnsInv, CardFollows, CardOutlivesColumn
<1> QED BY <1>3, <1>4, <1>5 DEF ShownColumnsSound

(* Every step keeps what explains the screen.                               *)
LEMMA ColumnsKept == ColumnsInv /\ [ColumnsNext]_colsVars => ColumnsInv'
<1> SUFFICES ASSUME ColumnsInv, [ColumnsNext]_colsVars PROVE ColumnsInv'
  OBVIOUS
<1>1. CASE UNCHANGED colsVars
  <2>1. /\ UNCHANGED <<columnStore, board, cardReads, trust>> /\ listReads' = listReads /\ own' = own
        /\ colWork' = colWork /\ dialog' = dialog /\ given' = given
    BY <1>1 DEF colsVars, columnStore, board, trust, listTrust
  <2>2. DialogHolds' /\ colWork' \in Nat
    BY <2>1 DEF ColumnsInv, ScreenShape, DialogHolds
  <2> QED BY <2>1, <2>2, QuietHolds
<1>2. CASE Travels
  BY <1>2, ServeHolds, AnswerHolds, RefusalsHold, ReadsHold, ArrivalHolds, CardReadsHold DEF Travels
<1>3. CASE OthersWrite
  BY <1>3, OthersHold
<1>4. CASE \/ OpenDialog \/ CloseDialog \/ SubmitDialog \/ seedDefaults
           \/ \E i \in DOMAIN shownCols, direction \in {-1, 1} : moveColumn(i, direction)
  BY <1>4, AsksHold
<1>5. CASE \E r \in own : RequestFails(r)
  BY <1>5, RefusalsHold
<1>6. CASE \E q \in listReads : ReadFails(q)
  BY <1>6, ReadsHold
<1>7. CASE \E at \in cardReads : CardReadFails(at)
  BY <1>7, CardReadsHold
<1> QED BY <1>1, <1>2, <1>3, <1>4, <1>5, <1>6, <1>7 DEF ColumnsNext

(* Once nothing is under way the screen has the server's columns, in its    *)
(* order and under its names, and the card is where the server has it,      *)
(* unless an older answer or a failed read left it behind.                  *)
THEOREM ColumnsStaySound == ColumnsSpec => []ShownColumnsSound
<1>1. ColumnsInit => ColumnsInv
  BY ColumnsBegin
<1>2. ColumnsInv /\ [ColumnsNext]_colsVars => ColumnsInv'
  BY ColumnsKept
<1>3. ColumnsInv => ShownColumnsSound
  BY ColumnsAreSound
<1> QED BY <1>1, <1>2, <1>3, PTL DEF ColumnsSpec
=============================================================================
