----------------------------- MODULE BoardDrag -----------------------------
(***************************************************************************)
(* Dragging the cards of a board (use-board-task-dnd.ts, commitTaskMove of *)
(* use-board-mutations.ts, task-composer.tsx): where a drop lands, what is *)
(* sent of it, how the server places the row and what the tabs of others   *)
(* and of the mover make of the announcement.  Unlike BoardSync, where a   *)
(* position is the number of a write, positions are compared here: a move  *)
(* that lands in too narrow a gap renumbers the column it lands in.        *)
(***************************************************************************)
EXTENDS FractionalIndex, Sequences

CONSTANTS Cards, BoardCols,
          CardSeed,    \* the server's rows at first
          MaxDragWork, \* bound: drops, creations, writes of others
          MaxDragFaults \* bound: requests and answers lost

Off == [col |-> "", pos |-> 0]       \* no such card
Drop(col, pos) == [col |-> col, pos |-> pos]

ASSUME DragAssumption ==
    /\ Cards \subseteq Nat \ {NoId} /\ IsFiniteSet(Cards) /\ "" \notin BoardCols
    /\ \A t \in Cards : CardSeed[t] = Off \/ CardSeed[t].col \in BoardCols
    /\ {MaxDragWork, MaxDragFaults} \subseteq Nat

VARIABLES places,   \* the server's cards
          known,    \* ids ever used
          shown,    \* the tasks cache
          twice,    \* cards the cache holds two copies of
          dragged,  \* the card in the air
          posts,    \* PATCHes and POSTs, by their generation
          generationRef,
          feed,     \* room events on their way
          gets,     \* reads of a card, and of the board after a failed move
          offer,    \* the failed move whose toast offers a retry
          renumbered, \* history: a column was rebalanced
          shaken,   \* history: an answer, a read or a rollback was overtaken
          dragWork, dragFaults

dragVars == <<places, known, shown, twice, dragged, posts, generationRef, feed, gets,
              offer, renumbered, shaken, dragWork, dragFaults>>

NoPost == [kind |-> "none", gen |-> 0, card |-> NoId, to |-> Off, before |-> NoId,
           after |-> NoId, phase |-> "", prev |-> CardSeed, hit |-> FALSE]

DragInit ==
    /\ places = CardSeed /\ shown = CardSeed /\ twice = {}
    /\ known = {t \in Cards : CardSeed[t] # Off}
    /\ dragged = NoId /\ posts = {} /\ generationRef = 0 /\ feed = << >> /\ gets = {}
    /\ offer = NoPost /\ renumbered = FALSE /\ shaken = FALSE
    /\ dragWork = 0 /\ dragFaults = 0

SpendDrag == dragWork < MaxDragWork /\ dragWork' = dragWork + 1 /\ UNCHANGED dragFaults
SpendFault == dragFaults < MaxDragFaults /\ dragFaults' = dragFaults + 1 /\ UNCHANGED dragWork

InColumn(board, c) == {t \in Cards : board[t] # Off /\ board[t].col = c}
Positions(board) == [t \in Cards |-> board[t].pos]
CardBefore(board, x, y) == Before(Positions(board), x, y)
IndexIn(board, c, t) == Cardinality({x \in InColumn(board, c) : CardBefore(board, x, t)})

-----------------------------------------------------------------------------
(* The drop: over a card, or over the column itself (NoId).                 *)

(* The slot the rail marks, counted in the list the column renders.         *)
dropSlotIndex(c, over) ==
    IF over # NoId THEN IndexIn(shown, c, over) ELSE Cardinality(InColumn(shown, c))

(* Faulty variant: a card dragged down lands before the one it is over.     *)
insertionIndexAbove(t, c, over) ==
    LET column == InColumn(shown, c) \ {t}
    IN IF over \notin column THEN Cardinality(column)
       ELSE Cardinality({x \in column : CardBefore(shown, x, over)})

insertionIndex(t, c, over) ==
    LET column == InColumn(shown, c) \ {t}
        overIndex == Cardinality({x \in column : CardBefore(shown, x, over)})
    IN IF over \notin column THEN Cardinality(column)
       ELSE IF shown[t].col = c /\ shown[t].pos < shown[over].pos THEN overIndex + 1
       ELSE overIndex

(* applyMove: the neighbours of that place, and the board with the card     *)
(* halfway between them.                                                    *)
At(column, i) ==
    IF \E x \in column : Cardinality({y \in column : CardBefore(shown, y, x)}) = i
    THEN CHOOSE x \in column : Cardinality({y \in column : CardBefore(shown, y, x)}) = i
    ELSE NoId

applyMove(t, c, over) ==
    LET column == InColumn(shown, c) \ {t}
        i == insertionIndex(t, c, over)
        before == At(column, i - 1)
        after == At(column, i)
    IN [before |-> before, after |-> after,
        next |-> [shown EXCEPT ![t] = Drop(c, midpoint(Positions(shown), before, after))]]

onDragStart(t) ==
    /\ dragged = NoId /\ shown[t] # Off /\ dragged' = t
    /\ UNCHANGED <<places, known, shown, twice, posts, generationRef, feed, gets, offer,
                   renumbered, shaken, dragWork, dragFaults>>

onDragCancel ==
    /\ dragged # NoId /\ dragged' = NoId
    /\ UNCHANGED <<places, known, shown, twice, posts, generationRef, feed, gets, offer,
                   renumbered, shaken, dragWork, dragFaults>>

CommitMove(t, to, before, after, next) ==
    /\ generationRef' = generationRef + 1 /\ SpendDrag
    /\ posts' = posts \cup {[NoPost EXCEPT !.kind = "move", !.gen = generationRef + 1,
                               !.card = t, !.to = to, !.before = before, !.after = after,
                               !.phase = "sent", !.prev = shown]}
    /\ shown' = next

(* A drop on itself, in no column or where it already is does nothing.      *)
Lands(t, c, over) ==
    /\ over # NoId => (shown[over] # Off /\ shown[over].col = c)
    /\ shown[t] # Off /\ t # over
    /\ applyMove(t, c, over).next[t] # shown[t]

onDragEnd(c, over) ==
    LET t == dragged
        m == applyMove(t, c, over)
    IN /\ t # NoId /\ Lands(t, c, over) /\ dragged' = NoId
       /\ CommitMove(t, m.next[t], m.before, m.after, m.next)
       /\ UNCHANGED <<places, known, twice, feed, gets, offer, renumbered, shaken>>

(* The toast's retry: the same neighbours and the same place again.         *)
RetryMove ==
    LET o == offer
    IN /\ o # NoPost /\ offer' = NoPost
       /\ CommitMove(o.card, o.to, o.before, o.after,
                 [shown EXCEPT ![o.card] = IF shown[o.card] = Off THEN Off ELSE o.to])
       /\ UNCHANGED <<places, known, twice, dragged, feed, gets, renumbered, shaken>>

(* TaskComposer.create, one at a time.                                      *)
create(t, c) ==
    /\ t \notin known /\ \A p \in posts : p.kind # "create"
    /\ known' = known \cup {t} /\ SpendDrag
    /\ posts' = posts \cup {[NoPost EXCEPT !.kind = "create", !.card = t,
                               !.to = Drop(c, 0), !.phase = "sent"]}
    /\ UNCHANGED <<places, shown, twice, dragged, generationRef, feed, gets, offer,
                   renumbered, shaken>>

-----------------------------------------------------------------------------
(* The server: TaskService.move, create and remove, each one commit (their  *)
(* statements are TaskOrder's).                                             *)
Place(t, c, prev, next) ==
    LET column == InColumn(places, c) \ {t}
        pos == Positions(places)
    IN IF needsRebalance(pos, prev, next)
       THEN [x \in Cards |->
               IF x = t THEN Drop(c, rebalancedRow(column, pos, prev))
               ELSE IF x \in column THEN Drop(c, rebalancedSibling(column, pos, prev, x))
               ELSE places[x]]
       ELSE [places EXCEPT ![t] = Drop(c, midpoint(pos, prev, next))]

(* A move to its own place keeps the board; any commit announces the moved  *)
(* card alone.                                                              *)
Announce(kind, t, own) ==
    feed' = Append(feed, [kind |-> kind, card |-> t, own |-> own, to |-> places'[t]])

Overtaken(t) == \/ \E p \in posts : p.phase = "ok" /\ p.card = t
                \/ \E g \in gets : g.phase = "ok"

MoveTo(t, c, before, after, own) ==
    /\ places[t] # Off
    /\ \E prev, next \in Cards \cup {NoId} :
          /\ resolveMoveNeighbors(InColumn(places, c) \ {t}, Positions(places),
                                  before, after, prev, next)
          /\ places' = Place(t, c, prev, next)
          /\ renumbered' = (renumbered \/ needsRebalance(Positions(places), prev, next))
    /\ Announce("moved", t, own) /\ shaken' = (shaken \/ Overtaken(t))

Refusable(p) ==
    \/ places[p.card] = Off
    \/ ~\E prev, next \in Cards \cup {NoId} :
          resolveMoveNeighbors(InColumn(places, p.to.col) \ {p.card}, Positions(places),
                               p.before, p.after, prev, next)

Turn(p, ph, row) == posts' = (posts \ {p}) \cup {[p EXCEPT !.phase = ph, !.to = row]}

ServeCard(p) ==
    /\ p.phase = "sent"
    /\ \/ p.kind = "move" /\ MoveTo(p.card, p.to.col, p.before, p.after, TRUE)
       \/ /\ p.kind = "create"
          /\ \E prev \in Cards \cup {NoId} :
                /\ resolveCreateNeighbors(InColumn(places, p.to.col), Positions(places),
                                          NoId, prev, NoId)
                /\ places' = Place(p.card, p.to.col, prev, NoId)
          /\ Announce("created", p.card, TRUE) /\ UNCHANGED renumbered
          /\ shaken' = (shaken \/ Overtaken(p.card))
    /\ \/ Turn(p, "ok", places'[p.card]) /\ UNCHANGED <<dragWork, dragFaults>>
       \/ SpendFault /\ Turn(p, "lost", p.to)
    /\ UNCHANGED <<known, shown, twice, dragged, generationRef, gets, offer>>

RefuseCard(p) ==
    /\ p.phase = "sent" /\ Turn(p, "failed", p.to)
    /\ \/ p.kind = "move" /\ Refusable(p) /\ UNCHANGED <<dragWork, dragFaults>>
       \/ SpendFault
    /\ UNCHANGED <<places, known, shown, twice, dragged, generationRef, feed, gets, offer,
                   renumbered, shaken>>

(* Another user drags a card, or removes it.                                *)
OtherWrite(t) ==
    /\ SpendDrag
    /\ \/ \E c \in BoardCols, before \in Cards \cup {NoId} :
             before # t /\ MoveTo(t, c, before, NoId, FALSE)
       \/ /\ places[t] # Off /\ places' = [places EXCEPT ![t] = Off]
          /\ Announce("deleted", t, FALSE) /\ UNCHANGED renumbered
          /\ shaken' = (shaken \/ Overtaken(t))
    /\ UNCHANGED <<known, shown, twice, dragged, posts, generationRef, gets, offer>>

-----------------------------------------------------------------------------
(* What comes back.                                                         *)
(* A failed move: refused, or committed and its answer lost.               *)
GaveUp(p) == p.kind = "move" /\ p.phase \in {"failed", "lost"}

(* History: what came back while these were out is not in their snapshots.  *)
Hit(ps) == {[p EXCEPT !.hit = TRUE] : p \in ps}

CardRead(t) == [card |-> t, phase |-> "timer", rows |-> CardSeed]

(* Faulty variant: the old generation's failure is only reported.           *)
DropFailedQuietly(p) ==
    /\ GaveUp(p) /\ posts' = Hit(posts \ {p})
    /\ IF p.gen = generationRef
       THEN shown' = p.prev /\ twice' = {} /\ shaken' = (shaken \/ p.hit)
       ELSE UNCHANGED <<shown, twice, shaken>>
    /\ offer' = [NoPost EXCEPT !.card = p.card, !.to = p.to,
                              !.before = p.before, !.after = p.after]
    /\ UNCHANGED <<places, known, dragged, generationRef, feed, gets, renumbered,
                   dragWork, dragFaults>>

(* The latest move restores its snapshot, an older one reads the board.     *)
DropFailed(p) ==
    /\ GaveUp(p) /\ posts' = Hit(posts \ {p})
    /\ IF p.gen = generationRef
       THEN /\ shown' = p.prev /\ twice' = {}
            /\ shaken' = (shaken \/ p.hit) /\ UNCHANGED gets
       ELSE /\ gets' = gets \cup {[CardRead(NoId) EXCEPT !.phase = "sent"]}
            /\ UNCHANGED <<shown, twice, shaken>>
    /\ offer' = [NoPost EXCEPT !.card = p.card, !.to = p.to,
                              !.before = p.before, !.after = p.after]
    /\ UNCHANGED <<places, known, dragged, generationRef, feed, renumbered,
                   dragWork, dragFaults>>

DropAnswered(p) ==
    /\ p.kind = "move" /\ p.phase = "ok" /\ posts' = Hit(posts \ {p})
    /\ shown' = IF shown[p.card] = Off THEN shown ELSE [shown EXCEPT ![p.card] = p.to]
    /\ UNCHANGED <<places, known, twice, dragged, generationRef, feed, gets, offer,
                   renumbered, shaken, dragWork, dragFaults>>

(* appendTask adds the row whether or not an event's read brought it.       *)
CreateAnswered(p) ==
    /\ p.kind = "create" /\ p.phase # "sent" /\ posts' = Hit(posts \ {p})
    /\ IF p.phase = "ok"
       THEN /\ twice' = IF shown[p.card] = Off THEN twice ELSE twice \cup {p.card}
            /\ shown' = [shown EXCEPT ![p.card] = p.to]
       ELSE UNCHANGED <<shown, twice>>
    /\ UNCHANGED <<places, known, dragged, generationRef, feed, gets, offer, renumbered,
                   shaken, dragWork, dragFaults>>

TaskMovedSeen(e) ==
    /\ shown' = IF shown[e.card] = Off THEN shown ELSE [shown EXCEPT ![e.card] = e.to]
    /\ dragged' = IF e.own THEN dragged ELSE NoId
    /\ gets' = gets \cup {CardRead(t) : t \in {x \in {e.card} : ~e.own /\ shown[x] = Off}}

EventArrives ==
    /\ feed # << >> /\ feed' = Tail(feed) /\ posts' = Hit(posts)
    /\ LET e == Head(feed) IN
       \/ e.kind = "moved" /\ TaskMovedSeen(e) /\ UNCHANGED twice
       \/ /\ e.kind = "created" /\ UNCHANGED <<shown, twice, dragged>>
          /\ gets' = gets \cup {CardRead(t) : t \in {x \in {e.card} : shown[x] = Off}}
       \/ /\ e.kind = "deleted" /\ UNCHANGED <<dragged, gets>>
          /\ shown' = [shown EXCEPT ![e.card] = Off] /\ twice' = twice \ {e.card}
    /\ UNCHANGED <<places, known, generationRef, offer, renumbered, shaken,
                   dragWork, dragFaults>>

(* The debounced read of one card, or the board read again.                 *)
ReadSent(g) ==
    /\ g.phase = "timer" /\ gets' = (gets \ {g}) \cup {[g EXCEPT !.phase = "sent"]}
    /\ UNCHANGED <<places, known, shown, twice, dragged, posts, generationRef, feed,
                   offer, renumbered, shaken, dragWork, dragFaults>>

ReadServed(g) ==
    /\ g.phase = "sent"
    /\ \/ /\ gets' = (gets \ {g}) \cup {[g EXCEPT !.phase = "ok", !.rows = places]}
          /\ UNCHANGED <<shaken, dragWork, dragFaults>>
       \/ SpendFault /\ gets' = gets \ {g} /\ shaken' = TRUE
    /\ UNCHANGED <<places, known, shown, twice, dragged, posts, generationRef, feed,
                   offer, renumbered>>

ReadApplied(g) ==
    /\ g.phase = "ok" /\ gets' = gets \ {g} /\ posts' = Hit(posts)
    /\ IF g.card = NoId THEN shown' = g.rows /\ twice' = {}
       ELSE /\ shown' = IF g.rows[g.card] = Off THEN shown
                        ELSE [shown EXCEPT ![g.card] = g.rows[g.card]]
            /\ UNCHANGED twice
    /\ shaken' = (shaken \/ \E p \in posts : p.phase = "ok")
    /\ UNCHANGED <<places, known, dragged, generationRef, feed, offer, renumbered,
                   dragWork, dragFaults>>

DragNext ==
    \/ onDragCancel \/ RetryMove \/ EventArrives
    \/ \E t \in Cards : onDragStart(t) \/ OtherWrite(t)
    \/ \E c \in BoardCols : \/ \E over \in Cards \cup {NoId} : onDragEnd(c, over)
                            \/ \E t \in Cards : create(t, c)
    \/ \E p \in posts : \/ ServeCard(p) \/ RefuseCard(p)
                        \/ DropFailed(p) \/ DropAnswered(p) \/ CreateAnswered(p)
    \/ \E g \in gets : ReadSent(g) \/ ReadServed(g) \/ ReadApplied(g)

-----------------------------------------------------------------------------
(* The boards, the requests and the events keep their shape.                *)
DragTypeOK ==
    /\ \A t \in Cards : {places[t].col, shown[t].col} \subseteq BoardCols \cup {""}
    /\ {t \in Cards : places[t] # Off} \subseteq known /\ dragged \in Cards \cup {NoId}
    /\ twice \subseteq {t \in Cards : shown[t] # Off}
    /\ \A p \in posts : p.gen <= generationRef
    /\ Cardinality({p \in posts : p.kind = "create"}) <= 1

SameOrder(a, b) ==
    /\ \A t \in Cards : a[t].col = b[t].col
    /\ \A x, y \in Cards : (a[x] # Off /\ a[x].col = a[y].col) =>
          (CardBefore(a, x, y) <=> CardBefore(b, x, y))

DragIdle == posts = {} /\ feed = << >> /\ gets = {}

(* A board at rest shows every column in the server's order, through        *)
(* overlapping drags, refused, lost and retried moves and the moves of      *)
(* others (testing.md: "The order is the contract"), unless an answer, a    *)
(* read or a rollback was overtaken or a column renumbered; and it lists no *)
(* card twice.                                                              *)
QuietBoardInOrder ==
    DragIdle /\ ~shaken /\ ~renumbered => SameOrder(shown, places) /\ twice = {}

(* The same, renumbered columns included: README.md, "board changes         *)
(* propagate live via Socket.io".                                           *)
RenumberedOrderShown == DragIdle /\ ~shaken => SameOrder(shown, places)

Untied(board, c) == \A x, y \in InColumn(board, c) : board[x].pos = board[y].pos => x = y

(* A drop lands in the slot the rail marks, "whichever direction the card   *)
(* came from" (use-board-task-dnd.ts:37), or last when the rail is at the   *)
(* end, unless two cards of the column tie (use-board-task-dnd.ts:71        *)
(* compares positions alone).                                               *)
DropTakesTheGap ==
    [][dragged # NoId /\ dragged' = NoId => \A c \in BoardCols, over \in Cards \cup {NoId} :
          (onDragEnd(c, over) /\ Untied(shown, c) /\ Untied(shown', c)) =>
              LET slot == dropSlotIndex(c, over)
                  last == Cardinality(InColumn(shown', c)) - 1
              IN IndexIn(shown', c, dragged) = IF slot > last THEN last ELSE slot]_dragVars

(* The cards keep their types and a board at rest is in the server's       *)
(* order.                                                                  *)
DragSound == DragTypeOK /\ QuietBoardInOrder
=============================================================================
