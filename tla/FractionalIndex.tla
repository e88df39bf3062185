-------------------------- MODULE FractionalIndex --------------------------
(***************************************************************************)
(* Ordering by fractional positions: common/position/fractional-index.ts   *)
(* and common/position/apply-insertion.ts.                                 *)
(*                                                                         *)
(* The code keeps positions as doubles.  Here a position is an integer     *)
(* number of units so fine that a gap of MIN_GAP (0.000001 in the code)    *)
(* is at least two units, and the average rounds down to a unit as the     *)
(* double average rounds to a representable number.                        *)
(*                                                                         *)
(* The sorted array of siblings is represented by the set S of their ids   *)
(* and the function pos of their positions.  Ids are natural numbers, so   *)
(* that the (position, id) order of the queries is a total order; NoId     *)
(* stands for null and undefined.                                          *)
(***************************************************************************)
EXTENDS Integers, FiniteSets

CONSTANTS POSITION_GAP, MIN_GAP

ASSUME GapAssumption == /\ POSITION_GAP \in Nat
                        /\ MIN_GAP \in Nat
                        /\ MIN_GAP >= 2
                        /\ POSITION_GAP >= MIN_GAP

NoId == 0

-----------------------------------------------------------------------------
(* The position of a row landing between the rows prev and next.           *)

midpoint(pos, prev, next) ==
    CASE prev = NoId /\ next = NoId -> POSITION_GAP
      [] prev = NoId /\ next # NoId -> pos[next] - POSITION_GAP
      [] prev # NoId /\ next = NoId -> pos[prev] + POSITION_GAP
      [] prev # NoId /\ next # NoId -> (pos[prev] + pos[next]) \div 2

needsRebalance(pos, prev, next) ==
    /\ prev # NoId
    /\ next # NoId
    /\ pos[next] - pos[prev] < MIN_GAP

-----------------------------------------------------------------------------
(* ORDER BY position ASC, id ASC.                                          *)

Before(pos, x, y) == \/ pos[x] < pos[y]
                     \/ pos[x] = pos[y] /\ x < y

AtOrBefore(pos, x, y) == x = y \/ Before(pos, x, y)

(* x lies on the left, or on the right, of the slot between prev and next. *)
LeftOf(pos, x, prev)  == prev # NoId /\ AtOrBefore(pos, x, prev)
RightOf(pos, x, next) == next # NoId /\ AtOrBefore(pos, next, x)

(* sliceSlot: prev and next are consecutive in S, or an end of it.         *)
IsSlot(S, pos, prev, next) ==
    /\ prev \in S \cup {NoId}
    /\ next \in S \cup {NoId}
    /\ prev # NoId /\ next # NoId => Before(pos, prev, next)
    /\ \A x \in S : LeftOf(pos, x, prev) \/ RightOf(pos, x, next)

(* The slot resolveMoveNeighbors returns for the named neighbours, of which *)
(* either may be NoId.  No slot qualifies exactly when the code throws      *)
(* NotFoundException: a named neighbour is not in S, or the two named ones  *)
(* are not adjacent.                                                        *)
resolveMoveNeighbors(S, pos, prevId, nextId, prev, next) ==
    /\ IsSlot(S, pos, prev, next)
    /\ prevId # NoId => prev = prevId
    /\ nextId # NoId => next = nextId
    /\ prevId = NoId /\ nextId = NoId => next = NoId

(* resolveCreateNeighbors: append unless a previous sibling is named.      *)
resolveCreateNeighbors(S, pos, prevId, prev, next) ==
    /\ IsSlot(S, pos, prev, next)
    /\ IF prevId # NoId THEN prev = prevId ELSE next = NoId

-----------------------------------------------------------------------------
(* rebalancePositions: the i-th row of the new order gets i * POSITION_GAP. *)

Rank(S, pos, x) == Cardinality({y \in S : AtOrBefore(pos, y, x)})

(* A sibling's new position: those right of the slot make room for the row. *)
rebalancedSibling(S, pos, prev, x) ==
    (IF LeftOf(pos, x, prev) THEN Rank(S, pos, x) ELSE Rank(S, pos, x) + 1)
        * POSITION_GAP

(* The inserted row's position: insertionIndex siblings precede it.        *)
rebalancedRow(S, pos, prev) ==
    (Cardinality({y \in S : LeftOf(pos, y, prev)}) + 1) * POSITION_GAP
=============================================================================
