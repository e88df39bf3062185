-------------------------- MODULE RowOrder_proofs --------------------------
(***************************************************************************)
(* The lists that positions keep in order, for every number of rows,       *)
(* requests and gaps: first the arithmetic of positions, then the tasks    *)
(* and the columns of a board, the checklists of a task, and the pages a   *)
(* list is read in.                                                        *)
(***************************************************************************)
EXTENDS TaskOrder, BoardLayout, ChecklistOrder, PagedList, FiniteSetTheorems,
        WellFoundedInduction, TLAPS

-----------------------------------------------------------------------------
(***************************************************************************)
(* What the position arithmetic guarantees, for every gap and every set of *)
(* siblings: a row lands strictly inside its slot, and rebalancing keeps   *)
(* the order and opens the slot.                                           *)
(***************************************************************************)

(* Multiplying by a positive gap keeps a strict order of the indices.      *)
LEMMA GapMonotone ==
    ASSUME NEW i \in Nat, NEW j \in Nat, i < j
    PROVE  i * POSITION_GAP < j * POSITION_GAP
<1>1. PICK d \in Nat : j = i + 1 + d
  <2>1. j - i - 1 \in Nat
    OBVIOUS
  <2>2. j = i + 1 + (j - i - 1)
    OBVIOUS
  <2> QED BY <2>1, <2>2
<1>2. j * POSITION_GAP = i * POSITION_GAP + POSITION_GAP + d * POSITION_GAP
  BY <1>1, GapAssumption
<1>3. d * POSITION_GAP >= 0
  BY GapAssumption
<1>4. i * POSITION_GAP \in Int /\ j * POSITION_GAP \in Int /\ d * POSITION_GAP \in Int
  BY GapAssumption
<1>5. POSITION_GAP > 0
  BY GapAssumption
<1> QED BY <1>2, <1>3, <1>4, <1>5, GapAssumption

(* Of finitely many rows, one has the greatest position: the one with the  *)
(* least set of rows above it.                                             *)
LEMMA LastRow ==
    ASSUME NEW T, NEW pos \in [T -> Int], NEW S \in SUBSET T, IsFiniteSet(S), S # {}
    PROVE  \E m \in S : \A x \in S : pos[x] <= pos[m]
<1> DEFINE above(x) == {y \in S : pos[y] > pos[x]}
           Above == {above(x) : x \in S}
<1>1. Above \subseteq FiniteSubsetsOf(S) /\ Above # {}
  <2>1. \A x \in S : above(x) \in SUBSET S
    OBVIOUS
  <2>2. FiniteSubsetsOf(S) = SUBSET S
    BY FS_FiniteSubsetsOfFinite
  <2>3. \A x \in S : above(x) \in FiniteSubsetsOf(S)
    BY <2>1, <2>2
  <2> HIDE DEF above
  <2> QED BY <2>3
<1>2. PICK A \in Above : \A B \in Above : <<B, A>> \notin StrictSubsetOrdering(S)
  <2> HIDE DEF Above
  <2> QED BY <1>1, FS_StrictSubsetOrderingWellFounded, WFMin
<1>3. PICK m \in S : A = above(m)
  OBVIOUS
<1>4. ASSUME NEW x \in S, ~ (pos[x] <= pos[m]) PROVE FALSE
  <2>1. pos[x] \in Int /\ pos[m] \in Int /\ pos[m] < pos[x]
    BY <1>4
  <2>2. above(x) \subseteq above(m)
    BY <2>1
  <2>3. x \in above(m) /\ x \notin above(x)
    BY <2>1
  <2>4. <<above(x), above(m)>> \in StrictSubsetOrdering(S)
    BY <2>2, <2>3 DEF StrictSubsetOrdering
  <2>5. above(x) \in Above
    OBVIOUS
  <2> HIDE DEF above, Above
  <2> QED BY <1>2, <1>3, <2>4, <2>5
<1> QED BY <1>4

(* midpoint puts a row strictly between the siblings left of the slot and  *)
(* those right of it, whenever needsRebalance does not ask for a rebalance. *)
LEMMA MidpointInSlot ==
    ASSUME NEW T \in SUBSET (Nat \ {NoId}), NEW pos \in [T -> Int],
           NEW S \in SUBSET T, NEW prev, NEW next,
           IsSlot(S, pos, prev, next),
           ~ needsRebalance(pos, prev, next)
    PROVE  /\ midpoint(pos, prev, next) \in Int
           /\ \A x \in S : LeftOf(pos, x, prev) => pos[x] < midpoint(pos, prev, next)
           /\ \A x \in S : ~ LeftOf(pos, x, prev) => midpoint(pos, prev, next) < pos[x]
<1> USE GapAssumption DEF IsSlot, LeftOf, RightOf, AtOrBefore, Before, NoId
<1>1. CASE prev = NoId /\ next = NoId
  BY <1>1 DEF midpoint
<1>2. CASE prev = NoId /\ next # NoId
  <2>1. next \in S /\ pos[next] \in Int
    BY <1>2
  <2>2. midpoint(pos, prev, next) = pos[next] - POSITION_GAP
    BY <1>2 DEF midpoint
  <2>3. \A x \in S : pos[next] <= pos[x]
    BY <1>2, <2>1
  <2> QED BY <1>2, <2>1, <2>2, <2>3
<1>3. CASE prev # NoId /\ next = NoId
  <2>1. prev \in S /\ pos[prev] \in Int
    BY <1>3
  <2>2. midpoint(pos, prev, next) = pos[prev] + POSITION_GAP
    BY <1>3 DEF midpoint
  <2>3. \A x \in S : LeftOf(pos, x, prev) /\ pos[x] <= pos[prev]
    BY <1>3, <2>1
  <2> QED BY <1>3, <2>1, <2>2, <2>3
<1>4. CASE prev # NoId /\ next # NoId
  <2>1. prev \in S /\ next \in S /\ pos[prev] \in Int /\ pos[next] \in Int
    BY <1>4
  <2>2. pos[next] - pos[prev] >= 2
    BY <1>4, <2>1 DEF needsRebalance
  <2>3. midpoint(pos, prev, next) = (pos[prev] + pos[next]) \div 2
    BY <1>4 DEF midpoint
  <2>4. /\ midpoint(pos, prev, next) \in Int
        /\ pos[prev] < midpoint(pos, prev, next)
        /\ midpoint(pos, prev, next) < pos[next]
    BY <2>1, <2>2, <2>3
  <2>5. \A x \in S : LeftOf(pos, x, prev) => pos[x] <= pos[prev]
    BY <1>4, <2>1
  <2>6. \A x \in S : ~ LeftOf(pos, x, prev) => pos[next] <= pos[x]
    BY <1>4, <2>1
  <2>7. \A x \in S : pos[x] \in Int
    OBVIOUS
  <2> QED BY <2>1, <2>4, <2>5, <2>6, <2>7
<1> QED BY <1>1, <1>2, <1>3, <1>4

(* The (position, id) order of the queries is a strict total order.        *)
LEMMA BeforeOrder ==
    ASSUME NEW T \in SUBSET (Nat \ {NoId}), NEW pos \in [T -> Int]
    PROVE  /\ \A x, y, z \in T :
                 Before(pos, x, y) /\ Before(pos, y, z) => Before(pos, x, z)
           /\ \A x, y \in T : Before(pos, x, y) => ~ Before(pos, y, x)
           /\ \A x, y \in T : x = y \/ Before(pos, x, y) \/ Before(pos, y, x)
<1>1. \A x \in T : pos[x] \in Int /\ x \in Int
  OBVIOUS
<1> QED BY <1>1 DEF Before

(* Ranks count siblings, and grow strictly along the order.                *)
LEMMA RankMonotone ==
    ASSUME NEW T \in SUBSET (Nat \ {NoId}), NEW pos \in [T -> Int],
           NEW S \in SUBSET T, IsFiniteSet(S)
    PROVE  /\ \A x \in S : Rank(S, pos, x) \in Nat
           /\ \A x, y \in S : Before(pos, x, y) => Rank(S, pos, x) < Rank(S, pos, y)
<1> DEFINE Upto(x) == {y \in S : AtOrBefore(pos, y, x)}
<1>1. \A x \in S : IsFiniteSet(Upto(x)) /\ Cardinality(Upto(x)) \in Nat
  BY FS_Subset, FS_CardinalityType
<1>2. ASSUME NEW x \in S, NEW y \in S, Before(pos, x, y)
      PROVE  Cardinality(Upto(x)) < Cardinality(Upto(y))
  <2>1. Upto(x) \subseteq Upto(y)
    BY <1>2, BeforeOrder DEF AtOrBefore
  <2>2. y \in Upto(y) /\ y \notin Upto(x)
    BY <1>2, BeforeOrder DEF AtOrBefore
  <2>3. Upto(x) # Upto(y)
    BY <2>2
  <2> QED BY <1>1, <2>1, <2>3, FS_Subset
<1> QED BY <1>1, <1>2 DEF Rank

(* rebalancePositions keeps the siblings' order and leaves the new row a   *)
(* place of its own between the two sides of its slot.                     *)
LEMMA RebalanceOpensSlot ==
    ASSUME NEW T \in SUBSET (Nat \ {NoId}), NEW pos \in [T -> Int],
           NEW S \in SUBSET T, IsFiniteSet(S), NEW prev, NEW next,
           IsSlot(S, pos, prev, next)
    PROVE  /\ rebalancedRow(S, pos, prev) \in Int
           /\ \A x \in S : rebalancedSibling(S, pos, prev, x) \in Int
           /\ \A x, y \in S : Before(pos, x, y) =>
                 rebalancedSibling(S, pos, prev, x) < rebalancedSibling(S, pos, prev, y)
           /\ \A x \in S : LeftOf(pos, x, prev) =>
                 rebalancedSibling(S, pos, prev, x) < rebalancedRow(S, pos, prev)
           /\ \A x \in S : ~ LeftOf(pos, x, prev) =>
                 rebalancedRow(S, pos, prev) < rebalancedSibling(S, pos, prev, x)
<1> DEFINE Left == {y \in S : LeftOf(pos, y, prev)}
           Upto(x) == {y \in S : AtOrBefore(pos, y, x)}
           Index(x) == IF LeftOf(pos, x, prev) THEN Rank(S, pos, x)
                                               ELSE Rank(S, pos, x) + 1
<1>0. prev \in T \/ prev = NoId
  BY DEF IsSlot
<1>1. IsFiniteSet(Left) /\ Cardinality(Left) \in Nat
  BY FS_Subset, FS_CardinalityType
<1>2. \A x \in S : Rank(S, pos, x) \in Nat
  BY RankMonotone
<1>3. \A x, y \in S : Before(pos, x, y) => Rank(S, pos, x) < Rank(S, pos, y)
  BY RankMonotone
<1>4. \A x \in S : IsFiniteSet(Upto(x)) /\ Rank(S, pos, x) = Cardinality(Upto(x))
  BY FS_Subset DEF Rank
<1>5. \A x \in S : Index(x) \in Nat
  BY <1>2
<1>6. ASSUME NEW x \in S, NEW y \in S, Before(pos, x, y)
      PROVE  Index(x) < Index(y)
  <2>1. LeftOf(pos, y, prev) => LeftOf(pos, x, prev)
    BY <1>0, <1>6, BeforeOrder DEF LeftOf, AtOrBefore
  <2> QED BY <1>2, <1>3, <1>6, <2>1
<1>7. ASSUME NEW x \in S, LeftOf(pos, x, prev)
      PROVE  Index(x) < Cardinality(Left) + 1
  <2>1. Upto(x) \subseteq Left
    BY <1>0, <1>7, BeforeOrder DEF LeftOf, AtOrBefore
  <2>2. Cardinality(Upto(x)) <= Cardinality(Left)
    BY <1>1, <2>1, FS_Subset
  <2> QED BY <1>1, <1>2, <1>4, <1>7, <2>2
<1>8. ASSUME NEW x \in S, ~ LeftOf(pos, x, prev)
      PROVE  Cardinality(Left) + 1 < Index(x)
  <2>1. Left \subseteq Upto(x)
    BY <1>0, <1>8, BeforeOrder DEF LeftOf, AtOrBefore
  <2>2. x \in Upto(x) /\ x \notin Left
    BY <1>8 DEF AtOrBefore
  <2>3. Cardinality(Left) < Cardinality(Upto(x))
    <3>1. Left # Upto(x)
      BY <2>2
    <3> QED BY <1>1, <1>2, <1>4, <2>1, <3>1, FS_Subset
  <2> QED BY <1>1, <1>2, <1>4, <1>8, <2>3
<1>9. Cardinality(Left) + 1 \in Nat
  BY <1>1
<1>10. \A x \in S : rebalancedSibling(S, pos, prev, x) = Index(x) * POSITION_GAP
  BY DEF rebalancedSibling
<1>11. rebalancedRow(S, pos, prev) = (Cardinality(Left) + 1) * POSITION_GAP
  BY DEF rebalancedRow
<1> HIDE DEF Index, Left
<1>12. rebalancedRow(S, pos, prev) \in Int
  BY <1>9, <1>11, GapAssumption
<1>13. \A x \in S : rebalancedSibling(S, pos, prev, x) \in Int
  BY <1>5, <1>10, GapAssumption
<1>14. \A x, y \in S : Before(pos, x, y) =>
          rebalancedSibling(S, pos, prev, x) < rebalancedSibling(S, pos, prev, y)
  BY <1>5, <1>6, <1>10, GapMonotone
<1>15. \A x \in S : LeftOf(pos, x, prev) =>
          rebalancedSibling(S, pos, prev, x) < rebalancedRow(S, pos, prev)
  BY <1>5, <1>7, <1>9, <1>10, <1>11, GapMonotone
<1>16. \A x \in S : ~ LeftOf(pos, x, prev) =>
          rebalancedRow(S, pos, prev) < rebalancedSibling(S, pos, prev, x)
  BY <1>5, <1>8, <1>9, <1>10, <1>11, GapMonotone
<1> QED BY <1>12, <1>13, <1>14, <1>15, <1>16

-----------------------------------------------------------------------------
(***************************************************************************)
(* Safety of task ordering for every board, every number of concurrent     *)
(* requests and every gap: the inductive invariant IndInv of TaskOrder and *)
(* what follows from it; then the events it announces, and the abstract    *)
(* specification OrderedLists that it implements.                          *)
(***************************************************************************)

(* The columns start with the seeded tasks, which satisfy the invariant.   *)
LEMMA InitIndInv == Init => IndInv
<1> SUFFICES ASSUME Init PROVE IndInv
  OBVIOUS
<1>1. TypeOK
  BY SeedAssumption, TasksAssumption
     DEF Init, TypeOK, Requests, NoRequest, Ids, Slots, NoSlot, Statements
<1>2. LockedSnapshot
  BY DEF Init, LockedSnapshot, RequestFits, HoldsColumn, SnapshotCurrent,
         SlotResolved, Holding
<1>3. DistinctPositions
  BY SeedAssumption DEF Init, DistinctPositions
<1>4. TaskHasColumn
  BY SeedAssumption DEF Init, TaskHasColumn
<1> QED BY <1>1, <1>2, <1>3, <1>4 DEF IndInv

-----------------------------------------------------------------------------
(* Admitting a request changes only its own request record.                *)
LEMMA BeginKeeps ==
    ASSUME IndInv, NEW p \in Procs, Begin(p)
    PROVE  IndInv'
<1> USE DEF IndInv
<1>1. PICK r \in Requests, stmt \in {"lock", "delete", "drop"} :
         /\ Admit(p, r, stmt)
         /\ stmt = "lock" => /\ r.op \in {"create", "move"}
                             /\ r.task \in Tasks /\ r.column \in Columns
                             /\ r.op = "create" => r.next = NoId
         /\ stmt = "delete" => r.op = "remove" /\ r.task \in Tasks
         /\ stmt = "drop" => r.op = "removeColumn" /\ r.column \in Columns
         /\ UNCHANGED <<rows, locks, plan, announced>>
  <2>1. CASE BeginCreate(p)
    BY <2>1, RequestAssumption DEF BeginCreate, TypeOK, Requests, Ids
  <2>2. CASE BeginMove(p)
    BY <2>2, RequestAssumption DEF BeginMove, TypeOK, Requests, Ids
  <2>3. CASE BeginRemove(p)
    BY <2>3 DEF BeginRemove, TypeOK, Requests, Ids
  <2>4. CASE BeginRemoveColumn(p)
    BY <2>4 DEF BeginRemoveColumn, TypeOK, Requests, Ids
  <2> QED BY <2>1, <2>2, <2>3, <2>4 DEF Begin
<1>2. UNCHANGED <<columnId, position, columns, columnLock, rowLock, slot,
                  siblings, snapshot, created, stubs, announced>>
  BY <1>1 DEF rows, locks, plan
<1>3. TypeOK'
  BY <1>1, <1>2, RequestAssumption DEF TypeOK, Admit, Statements
<1>4. LockedSnapshot'
  <2> SUFFICES ASSUME NEW q \in Procs
               PROVE  (/\ RequestFits(q) /\ HoldsColumn(q)
                       /\ SnapshotCurrent(q) /\ SlotResolved(q))'
    BY DEF LockedSnapshot
  <2>1. CASE q = p
    <3>1. pc'[q] = stmt /\ req'[q] = r
      BY <1>1, <2>1 DEF Admit, TypeOK
    <3> QED BY <1>1, <3>1
          DEF RequestFits, HoldsColumn, SnapshotCurrent, SlotResolved, Holding
  <2>2. CASE q # p
    <3>1. pc'[q] = pc[q] /\ req'[q] = req[q]
      BY <1>1, <2>2 DEF Admit, TypeOK
    <3> QED BY <1>2, <3>1 DEF LockedSnapshot, RequestFits, HoldsColumn,
                              SnapshotCurrent, SlotResolved, Holding
  <2> QED BY <2>1, <2>2
<1>5. DistinctPositions' /\ TaskHasColumn'
  BY <1>2 DEF DistinctPositions, TaskHasColumn
<1> QED BY <1>3, <1>4, <1>5

(* A request that is not holding, and whose fields fit, asks nothing of    *)
(* the rest of the state.                                                  *)
LEMMA NotHolding ==
    ASSUME NEW p \in Procs, ~ Holding(p)
    PROVE  HoldsColumn(p) /\ SnapshotCurrent(p) /\ SlotResolved(p)
BY DEF HoldsColumn, SnapshotCurrent, SlotResolved

-----------------------------------------------------------------------------
(* Ending p's transaction leaves every other request's lock and plan alone. *)
LEMMA ReleaseType ==
    ASSUME TypeOK, NEW p \in Procs, Release(p)
    PROVE  /\ columnLock' \in [Columns -> Procs \cup {NoProc}]
           /\ rowLock' \in [Tasks -> Procs \cup {NoProc}]
           /\ slot' \in [Procs -> Slots]
           /\ siblings' \in [Procs -> SUBSET Tasks]
           /\ snapshot' \in [Procs -> [Tasks -> Int]]
           /\ \A q \in Procs : q # p =>
                 /\ slot'[q] = slot[q]
                 /\ siblings'[q] = siblings[q]
                 /\ snapshot'[q] = snapshot[q]
                 /\ \A c \in Columns : columnLock[c] = q => columnLock'[c] = q
BY DEF Release, TypeOK, Slots, NoSlot, Ids

(* A rollback writes nothing, so what it releases disturbs nobody.         *)
LEMMA RollbackKeeps ==
    ASSUME IndInv, NEW p \in Procs, Rollback(p)
    PROVE  IndInv'
<1> USE DEF IndInv
<1>1. Release(p) /\ UNCHANGED <<columnId, position, columns, created, stubs,
                                announced, requests>>
  BY DEF Rollback, rows
<1>2. TypeOK'
  BY <1>1, ReleaseType DEF TypeOK, Rollback, Statements, NoRequest, Requests, Ids
<1>3. LockedSnapshot'
  <2> SUFFICES ASSUME NEW q \in Procs
               PROVE  (/\ RequestFits(q) /\ HoldsColumn(q)
                       /\ SnapshotCurrent(q) /\ SlotResolved(q))'
    BY DEF LockedSnapshot
  <2>1. CASE q = p
    <3>1. pc'[q] = "idle"
      BY <2>1 DEF Rollback, TypeOK
    <3> QED BY <3>1
          DEF RequestFits, HoldsColumn, SnapshotCurrent, SlotResolved, Holding
  <2>2. CASE q # p
    <3>1. pc'[q] = pc[q] /\ req'[q] = req[q]
      BY <2>2 DEF Rollback, TypeOK
    <3>2. RequestFits(q)'
      BY <3>1 DEF LockedSnapshot, RequestFits
    <3>3. HoldsColumn(q)'
      BY <1>1, <2>2, <3>1, ReleaseType
         DEF LockedSnapshot, RequestFits, HoldsColumn, Holding
    <3>4. SnapshotCurrent(q)' /\ SlotResolved(q)'
      BY <1>1, <2>2, <3>1, ReleaseType
         DEF LockedSnapshot, SnapshotCurrent, SlotResolved, Holding
    <3> QED BY <3>2, <3>3, <3>4
  <2> QED BY <2>1, <2>2
<1>4. DistinctPositions' /\ TaskHasColumn'
  BY <1>1 DEF DistinctPositions, TaskHasColumn
<1> QED BY <1>2, <1>3, <1>4

(* Taking the lock: nobody else holds the column, so the snapshot is all   *)
(* of it, and the positions read are distinct because the rows' are.       *)
LEMMA LockColumnKeeps ==
    ASSUME IndInv, NEW p \in Procs, LockColumn(p)
    PROVE  IndInv'
<1> USE DEF IndInv
<1> DEFINE r == req[p]
<1>1. /\ pc[p] = "lock" /\ r.column \in columns /\ columnLock[r.column] = NoProc
      /\ r \in Requests /\ r.task \in Tasks /\ r.column \in Columns
      /\ r.op \in {"create", "move"} /\ (r.op = "create" => r.next = NoId)
  BY DEF LockColumn, TypeOK, LockedSnapshot, RequestFits
<1>2. PICK prev \in Ids, next \in Ids :
         /\ Resolved(r, prev, next)
         /\ slot' = [slot EXCEPT ![p] = [prev |-> prev, next |-> next]]
  BY DEF LockColumn
<1>3. UNCHANGED <<columnId, position, columns, created, stubs, rowLock, req,
                  announced, requests>>
  BY DEF LockColumn, rows
<1>4. /\ columnLock' = [columnLock EXCEPT ![r.column] = p]
      /\ siblings' = [siblings EXCEPT ![p] = Siblings(r)]
      /\ snapshot' = [snapshot EXCEPT ![p] = position]
      /\ pc' = [pc EXCEPT ![p] = "write"]
  BY DEF LockColumn
<1>5. TypeOK'
  BY <1>1, <1>2, <1>3, <1>4 DEF TypeOK, Slots, Siblings, Statements
<1>6. LockedSnapshot'
  <2> SUFFICES ASSUME NEW q \in Procs
               PROVE  (/\ RequestFits(q) /\ HoldsColumn(q)
                       /\ SnapshotCurrent(q) /\ SlotResolved(q))'
    BY DEF LockedSnapshot
  <2>1. CASE q = p
    <3>1. /\ pc'[p] = "write" /\ siblings'[p] = Siblings(r)
          /\ snapshot'[p] = position /\ columnLock'[r.column] = p
          /\ slot'[p].prev = prev /\ slot'[p].next = next
      BY <1>1, <1>2, <1>4 DEF TypeOK
    <3>2. IsSlot(Siblings(r), position, prev, next)
      BY <1>2 DEF Resolved, resolveCreateNeighbors, resolveMoveNeighbors
    <3>3. /\ r.prev # NoId => prev = r.prev
          /\ r.next # NoId => next = r.next
          /\ r.prev = NoId /\ r.next = NoId => next = NoId
      BY <1>1, <1>2 DEF Resolved, resolveCreateNeighbors, resolveMoveNeighbors
    <3>4. RequestFits(p)' /\ HoldsColumn(p)'
      BY <1>1, <1>3, <3>1 DEF RequestFits, HoldsColumn
    <3>5. SnapshotCurrent(p)'
      <4>1. \A x, y \in Siblings(r) : x # y => position[x] # position[y]
        BY <1>1, NullAssumption DEF Siblings, DistinctPositions
      <4>2. \A x \in Tasks : columnId[x] = r.column /\ x # r.task => x \in Siblings(r)
        BY DEF Siblings
      <4>3. r.task \notin Siblings(r)
        BY DEF Siblings
      <4> QED BY <1>3, <3>1, <4>1, <4>2, <4>3 DEF SnapshotCurrent
    <3>6. SlotResolved(p)'
      BY <1>3, <3>1, <3>2, <3>3 DEF SlotResolved
    <3> QED BY <2>1, <3>4, <3>5, <3>6
  <2>2. CASE q # p
    <3>1. /\ pc'[q] = pc[q] /\ siblings'[q] = siblings[q]
          /\ snapshot'[q] = snapshot[q] /\ slot'[q] = slot[q]
      BY <1>2, <1>4, <2>2 DEF TypeOK
    <3>2. RequestFits(q)'
      BY <1>3, <3>1 DEF LockedSnapshot, RequestFits
    <3>3. HoldsColumn(q)'
      BY <1>1, <1>3, <1>4, <3>1, NullAssumption, PoolAssumption
         DEF LockedSnapshot, RequestFits, HoldsColumn, Holding, TypeOK
    <3>4. SnapshotCurrent(q)' /\ SlotResolved(q)'
      BY <1>3, <3>1 DEF LockedSnapshot, SnapshotCurrent, SlotResolved, Holding
    <3> QED BY <3>2, <3>3, <3>4
  <2> QED BY <2>1, <2>2
<1>7. DistinctPositions' /\ TaskHasColumn'
  BY <1>3 DEF DistinctPositions, TaskHasColumn
<1> QED BY <1>5, <1>6, <1>7

(* The first write of a rebalancing move only locks its own row.           *)
LEMMA UpdateMovedKeeps ==
    ASSUME IndInv, NEW p \in Procs, UpdateMoved(p)
    PROVE  IndInv'
<1> USE DEF IndInv
<1>1. /\ pc[p] = "write" /\ req[p].op = "move" /\ req[p].task \in Tasks
      /\ rowLock' = [rowLock EXCEPT ![req[p].task] = p]
      /\ pc' = [pc EXCEPT ![p] = "batch"]
      /\ UNCHANGED <<columnId, position, columns, created, stubs, columnLock, req,
                     slot, siblings, snapshot, announced, requests>>
  BY DEF UpdateMoved, rows, plan, LockedSnapshot, RequestFits
<1>2. TypeOK'
  BY <1>1 DEF TypeOK, Statements
<1>3. LockedSnapshot'
  BY <1>1 DEF LockedSnapshot, RequestFits, HoldsColumn, SnapshotCurrent,
              SlotResolved, Holding, TypeOK
<1>4. DistinctPositions' /\ TaskHasColumn'
  BY <1>1 DEF DistinctPositions, TaskHasColumn
<1> QED BY <1>2, <1>3, <1>4

(* Announcing a committed write touches no row and no plan.                *)
LEMMA EmitKeeps ==
    ASSUME IndInv, NEW p \in Procs, Emit(p)
    PROVE  IndInv'
<1> USE DEF IndInv
<1>1. /\ pc[p] = "emit"
      /\ pc' = [pc EXCEPT ![p] = "idle"]
      /\ req' = [req EXCEPT ![p] = NoRequest]
      /\ announced' = announced \cup {Event(req[p])}
      /\ UNCHANGED <<columnId, position, columns, created, stubs, columnLock,
                     rowLock, slot, siblings, snapshot, requests>>
  BY DEF Emit, rows, locks, plan
<1>2. Event(req[p]) \in Events
  <2>1. /\ req[p].op \in {"create", "move", "remove", "removeColumn"}
        /\ IF req[p].op = "removeColumn" THEN req[p].column \in Columns
                                         ELSE req[p].task \in Tasks
    BY <1>1 DEF LockedSnapshot, RequestFits, TypeOK, Requests
  <2> QED BY <2>1 DEF Event, Events
<1>3. TypeOK'
  BY <1>1, <1>2 DEF TypeOK, Statements, NoRequest, Requests, Ids
<1>4. LockedSnapshot'
  BY <1>1 DEF LockedSnapshot, RequestFits, HoldsColumn, SnapshotCurrent,
              SlotResolved, Holding, TypeOK
<1>5. DistinctPositions' /\ TaskHasColumn'
  BY <1>1 DEF DistinctPositions, TaskHasColumn
<1> QED BY <1>3, <1>4, <1>5

-----------------------------------------------------------------------------
(* A commit by p keeps every other plan valid if it writes into no column  *)
(* another request holds: tasks may only leave such a column.              *)
LEMMA CommitKeepsPlans ==
    ASSUME IndInv, NEW p \in Procs, Commit(p), RequestFits(p), pc[p] # "idle",
           \A q \in Procs : q # p /\ Holding(q) =>
              /\ req[q].column \in columns'
              /\ \A x \in Tasks : columnId'[x] = req[q].column /\ x # req[q].task =>
                    columnId[x] = req[q].column /\ position'[x] = position[x]
    PROVE  LockedSnapshot'
<1> USE DEF IndInv
<1> SUFFICES ASSUME NEW q \in Procs
             PROVE  (/\ RequestFits(q) /\ HoldsColumn(q)
                     /\ SnapshotCurrent(q) /\ SlotResolved(q))'
  BY DEF LockedSnapshot
<1>1. Release(p) /\ req' = req /\ pc' = [pc EXCEPT ![p] = "emit"]
  BY DEF Commit
<1>2. CASE q = p
  <2>1. pc'[q] = "emit" /\ req'[q] = req[q]
    BY <1>1, <1>2 DEF TypeOK
  <2>2. pc[q] \in Statements \ {"idle"}
    BY <1>2 DEF TypeOK
  <2>3. RequestFits(q)'
    BY <1>2, <2>1, <2>2 DEF RequestFits, Statements
  <2> QED BY <2>1, <2>3 DEF HoldsColumn, SnapshotCurrent, SlotResolved, Holding
<1>3. CASE q # p
  <2>1. pc'[q] = pc[q] /\ req'[q] = req[q]
    BY <1>1, <1>3 DEF TypeOK
  <2>2. /\ slot'[q] = slot[q] /\ siblings'[q] = siblings[q]
        /\ snapshot'[q] = snapshot[q]
        /\ \A c \in Columns : columnLock[c] = q => columnLock'[c] = q
    BY <1>1, <1>3, ReleaseType
  <2>3. RequestFits(q)'
    BY <2>1 DEF LockedSnapshot, RequestFits
  <2>4. HoldsColumn(q)'
    BY <1>3, <2>1, <2>2 DEF LockedSnapshot, RequestFits, HoldsColumn, Holding
  <2>5. SnapshotCurrent(q)'
    BY <1>3, <2>1, <2>2 DEF LockedSnapshot, SnapshotCurrent, Holding
  <2>6. SlotResolved(q)'
    BY <2>1, <2>2 DEF LockedSnapshot, SlotResolved, Holding
  <2> QED BY <2>3, <2>4, <2>5, <2>6
<1> QED BY <1>2, <1>3

(* Two requests never hold the same column.                                *)
LEMMA HoldersDiffer ==
    ASSUME IndInv, NEW p \in Procs, NEW q \in Procs, p # q, Holding(p), Holding(q)
    PROVE  req[p].column # req[q].column
BY DEF IndInv, LockedSnapshot, HoldsColumn

(* Placing a task: the new row takes a position of its own among those it  *)
(* read, and only the column it holds is written.                          *)
LEMMA PlaceKeeps ==
    ASSUME IndInv, NEW p \in Procs, Holding(p), Commit(p),
           NEW newPosition \in [Tasks -> Int], PlaceTask(p, newPosition),
           \A x \in Tasks : newPosition[x] # position[x] =>
              columnId[x] = req[p].column \/ x = req[p].task,
           \A x, y \in Tasks :
              /\ x # y
              /\ columnId[x] = req[p].column \/ x = req[p].task
              /\ columnId[y] = req[p].column \/ y = req[p].task
              => newPosition[x] # newPosition[y]
    PROVE  IndInv'
<1> USE DEF IndInv
<1> DEFINE t == req[p].task
           c == req[p].column
<1>1. /\ t \in Tasks /\ c \in Columns /\ c \in columns /\ c # NoColumn
      /\ RequestFits(p) /\ pc[p] # "idle"
  BY NullAssumption DEF LockedSnapshot, RequestFits, HoldsColumn, Holding
<1>2. /\ columnId' = [columnId EXCEPT ![t] = c]
      /\ position' = newPosition
      /\ created' = created \cup {t}
      /\ UNCHANGED <<columns, stubs, req, announced, requests>>
  BY DEF PlaceTask, Commit
<1>3. Release(p) /\ pc' = [pc EXCEPT ![p] = "emit"]
  BY DEF Commit
<1>4. TypeOK'
  BY <1>1, <1>2, <1>3, ReleaseType DEF TypeOK, Statements
<1>5. LockedSnapshot'
  <2>1. ASSUME NEW q \in Procs, q # p, Holding(q)
        PROVE  /\ req[q].column \in columns'
               /\ \A x \in Tasks : columnId'[x] = req[q].column /\ x # req[q].task =>
                     columnId[x] = req[q].column /\ position'[x] = position[x]
    <3>1. req[q].column # c
      BY <2>1, HoldersDiffer
    <3>2. req[q].column \in columns'
      BY <1>2, <2>1 DEF LockedSnapshot, HoldsColumn
    <3>3. ASSUME NEW x \in Tasks, columnId'[x] = req[q].column
          PROVE  columnId[x] = req[q].column /\ position'[x] = position[x]
      <4>1. x # t
        BY <1>1, <1>2, <3>1, <3>3 DEF TypeOK
      <4>2. columnId[x] = req[q].column
        BY <1>2, <3>3, <4>1 DEF TypeOK
      <4> QED BY <1>2, <3>1, <4>1, <4>2
    <3> QED BY <3>2, <3>3
  <2> QED BY <1>1, <2>1, CommitKeepsPlans
<1>6. DistinctPositions'
  <2> SUFFICES ASSUME NEW x \in Tasks, NEW y \in Tasks, x # y,
                      columnId'[x] = columnId'[y], columnId'[x] # NoColumn
               PROVE  position'[x] # position'[y]
    BY DEF DistinctPositions
  <2>1. CASE columnId'[x] = c
    BY <1>1, <1>2, <2>1 DEF TypeOK
  <2>2. CASE columnId'[x] # c
    <3>1. x # t /\ y # t
      BY <1>1, <1>2, <2>2 DEF TypeOK
    <3>2. columnId[x] = columnId'[x] /\ columnId[y] = columnId'[y]
      BY <1>2, <3>1 DEF TypeOK
    <3>3. position'[x] = position[x] /\ position'[y] = position[y]
      BY <1>2, <2>2, <3>1, <3>2
    <3> QED BY <3>2, <3>3 DEF DistinctPositions
  <2> QED BY <2>1, <2>2
<1>7. TaskHasColumn'
  BY <1>1, <1>2 DEF TaskHasColumn, TypeOK
<1> QED BY <1>4, <1>5, <1>6, <1>7

(* What a holder knows of its plan, in the form the lemmas on positions use. *)
LEMMA PlanFacts ==
    ASSUME IndInv, NEW p \in Procs, Holding(p)
    PROVE  /\ Tasks \in SUBSET (Nat \ {NoId})
           /\ snapshot[p] \in [Tasks -> Int]
           /\ siblings[p] \in SUBSET Tasks
           /\ IsFiniteSet(siblings[p])
           /\ IsSlot(siblings[p], snapshot[p], slot[p].prev, slot[p].next)
           /\ req[p].task \in Tasks /\ req[p].column \in Columns
           /\ req[p].task \notin siblings[p]
           /\ \A x \in Tasks : columnId[x] = req[p].column /\ x # req[p].task =>
                 x \in siblings[p] /\ position[x] = snapshot[p][x]
           /\ \A x, y \in siblings[p] : x # y => snapshot[p][x] # snapshot[p][y]
BY TasksAssumption, FS_Subset
   DEF IndInv, TypeOK, LockedSnapshot, RequestFits, SnapshotCurrent, SlotResolved,
       Holding

(* A placement that writes one row (placeTask without a rebalance).        *)
LEMMA CommitMidpointKeeps ==
    ASSUME IndInv, NEW p \in Procs, CommitMidpoint(p)
    PROVE  IndInv'
<1> DEFINE t == req[p].task
           mid == midpoint(snapshot[p], slot[p].prev, slot[p].next)
           newPosition == [position EXCEPT ![t] = mid]
<1>1. /\ Holding(p) /\ Commit(p) /\ PlaceTask(p, newPosition)
      /\ ~ needsRebalance(snapshot[p], slot[p].prev, slot[p].next)
  BY DEF CommitMidpoint, Holding, Rebalancing
<1>2. /\ mid \in Int
      /\ \A x \in siblings[p] : snapshot[p][x] # mid
  <2>1. \A x \in siblings[p] : snapshot[p][x] \in Int
    BY <1>1, PlanFacts
  <2> HIDE DEF mid
  <2>2. /\ mid \in Int
        /\ \A x \in siblings[p] : LeftOf(snapshot[p], x, slot[p].prev) => snapshot[p][x] < mid
        /\ \A x \in siblings[p] : ~ LeftOf(snapshot[p], x, slot[p].prev) => mid < snapshot[p][x]
    BY <1>1, PlanFacts, MidpointInSlot DEF mid
  <2> QED BY <2>1, <2>2
<1>3. newPosition \in [Tasks -> Int]
  BY <1>2 DEF IndInv, TypeOK
<1>4. /\ newPosition[t] = mid
      /\ \A x \in Tasks : x # t => newPosition[x] = position[x]
  BY <1>1, PlanFacts DEF IndInv, TypeOK
<1> HIDE DEF newPosition, mid
<1>5. \A x, y \in Tasks :
         /\ x # y
         /\ columnId[x] = req[p].column \/ x = t
         /\ columnId[y] = req[p].column \/ y = t
         => newPosition[x] # newPosition[y]
  BY <1>1, <1>2, <1>4, PlanFacts
<1> QED BY <1>1, <1>3, <1>4, <1>5, PlaceKeeps

(* A placement that writes every sibling too (rebalance).                  *)
LEMMA CommitRebalanceKeeps ==
    ASSUME IndInv, NEW p \in Procs, CommitRebalance(p)
    PROVE  IndInv'
<1> DEFINE t == req[p].task
           row == rebalancedRow(siblings[p], snapshot[p], slot[p].prev)
           sib(x) == rebalancedSibling(siblings[p], snapshot[p], slot[p].prev, x)
           newPosition == [x \in Tasks |->
               IF x = t THEN row ELSE IF x \in BatchRows(p) THEN sib(x) ELSE position[x]]
<1>1. Holding(p) /\ Commit(p) /\ PlaceTask(p, newPosition)
  BY DEF CommitRebalance, Holding
<1>2. /\ row \in Int
      /\ \A x \in siblings[p] : sib(x) \in Int
      /\ \A x, y \in siblings[p] : Before(snapshot[p], x, y) => sib(x) < sib(y)
      /\ \A x \in siblings[p] : sib(x) < row \/ row < sib(x)
  <2> HIDE DEF row, sib
  <2>1. /\ row \in Int
        /\ \A x \in siblings[p] : sib(x) \in Int
        /\ \A x, y \in siblings[p] : Before(snapshot[p], x, y) => sib(x) < sib(y)
        /\ \A x \in siblings[p] : LeftOf(snapshot[p], x, slot[p].prev) => sib(x) < row
        /\ \A x \in siblings[p] : ~ LeftOf(snapshot[p], x, slot[p].prev) => row < sib(x)
    BY <1>1, PlanFacts, RebalanceOpensSlot DEF row, sib
  <2> QED BY <2>1
<1>3. \A x, y \in siblings[p] : x # y => sib(x) # sib(y)
  <2> HIDE DEF sib
  <2>1. \A x, y \in siblings[p] :
          x = y \/ Before(snapshot[p], x, y) \/ Before(snapshot[p], y, x)
    BY <1>1, PlanFacts, BeforeOrder
  <2> QED BY <1>2, <2>1
<1>4. \A x \in Tasks : x \in BatchRows(p) <=> columnId[x] = req[p].column /\ x # t
  BY <1>1, PlanFacts DEF BatchRows
<1>5. newPosition \in [Tasks -> Int]
  BY <1>1, <1>2, PlanFacts DEF BatchRows, IndInv, TypeOK
<1>6. /\ newPosition[t] = row
      /\ \A x \in Tasks : columnId[x] = req[p].column /\ x # t =>
            x \in siblings[p] /\ newPosition[x] = sib(x)
      /\ \A x \in Tasks : columnId[x] # req[p].column /\ x # t =>
            newPosition[x] = position[x]
  BY <1>1, <1>4, PlanFacts
<1> HIDE DEF newPosition, row, sib
<1>7. \A x, y \in Tasks :
         /\ x # y
         /\ columnId[x] = req[p].column \/ x = t
         /\ columnId[y] = req[p].column \/ y = t
         => newPosition[x] # newPosition[y]
  BY <1>2, <1>3, <1>6
<1>8. \A x \in Tasks : newPosition[x] # position[x] =>
         columnId[x] = req[p].column \/ x = t
  BY <1>6
<1> QED BY <1>1, <1>5, <1>7, <1>8, PlaceKeeps

(* A task goes, and every snapshot that still counts goes without it.      *)
LEMMA DeleteTaskKeeps ==
    ASSUME IndInv, NEW p \in Procs, DeleteTask(p)
    PROVE  IndInv'
<1> USE DEF IndInv
<1> DEFINE t == req[p].task
<1>1. /\ pc[p] = "delete" /\ t \in Tasks /\ RequestFits(p)
      /\ columnId' = [columnId EXCEPT ![t] = NoColumn]
      /\ stubs' = [stubs EXCEPT ![t] = @ + 1]
      /\ UNCHANGED <<position, columns, created>>
      /\ Commit(p)
  BY DEF DeleteTask, LockedSnapshot, RequestFits
<1>2. Release(p) /\ pc' = [pc EXCEPT ![p] = "emit"]
         /\ UNCHANGED <<req, announced, requests>>
  BY <1>1 DEF Commit
<1>3. TypeOK'
  BY <1>1, <1>2, ReleaseType DEF TypeOK, Statements
<1>4. \A q \in Procs : q # p /\ Holding(q) =>
         /\ req[q].column \in columns'
         /\ \A x \in Tasks : columnId'[x] = req[q].column /\ x # req[q].task =>
               columnId[x] = req[q].column /\ position'[x] = position[x]
  BY <1>1, NullAssumption
     DEF LockedSnapshot, RequestFits, HoldsColumn, Holding, TypeOK
<1>5. LockedSnapshot'
  BY <1>1, <1>4, CommitKeepsPlans
<1>6. DistinctPositions' /\ TaskHasColumn'
  BY <1>1 DEF DistinctPositions, TaskHasColumn, TypeOK
<1> QED BY <1>3, <1>5, <1>6

(* A column goes with its tasks (onDelete: Cascade).                       *)
LEMMA DeleteColumnKeeps ==
    ASSUME IndInv, NEW p \in Procs, DeleteColumn(p)
    PROVE  IndInv'
<1> USE DEF IndInv
<1> DEFINE c == req[p].column
<1>1. /\ pc[p] = "drop" /\ c \in Columns /\ RequestFits(p)
      /\ columnLock[c] = NoProc
      /\ columns' = columns \ {c}
      /\ columnId' = [t \in Tasks |-> IF columnId[t] = c THEN NoColumn ELSE columnId[t]]
      /\ stubs' = [stubs EXCEPT ![c] = @ + 1]
      /\ UNCHANGED <<position, created>>
      /\ Commit(p)
  BY DEF DeleteColumn, LockedSnapshot, RequestFits
<1>2. Release(p) /\ pc' = [pc EXCEPT ![p] = "emit"]
         /\ UNCHANGED <<req, announced, requests>>
  BY <1>1 DEF Commit
<1>3. TypeOK'
  BY <1>1, <1>2, ReleaseType DEF TypeOK, Statements
<1>4. \A q \in Procs : q # p /\ Holding(q) =>
         /\ req[q].column \in columns'
         /\ \A x \in Tasks : columnId'[x] = req[q].column /\ x # req[q].task =>
               columnId[x] = req[q].column /\ position'[x] = position[x]
  BY <1>1, NullAssumption, PoolAssumption
     DEF LockedSnapshot, RequestFits, HoldsColumn, Holding, TypeOK
<1>5. LockedSnapshot'
  BY <1>1, <1>4, CommitKeepsPlans
<1>6. DistinctPositions' /\ TaskHasColumn'
  BY <1>1 DEF DistinctPositions, TaskHasColumn, TypeOK
<1> QED BY <1>3, <1>5, <1>6

-----------------------------------------------------------------------------
(* Every step of every request keeps the invariant.                        *)
LEMMA NextIndInv == IndInv /\ [Next]_vars => IndInv'
<1> SUFFICES ASSUME IndInv, [Next]_vars PROVE IndInv'
  OBVIOUS
<1>1. CASE UNCHANGED vars
  BY <1>1 DEF vars, IndInv, TypeOK, LockedSnapshot, RequestFits, HoldsColumn,
              SnapshotCurrent, SlotResolved, Holding, DistinctPositions, TaskHasColumn
<1>2. ASSUME NEW p \in Procs, Begin(p) \/ Serve(p) \/ Abort(p)
      PROVE  IndInv'
  <2>1. CASE Begin(p)
    BY <2>1, BeginKeeps
  <2>2. CASE Rollback(p)
    BY <2>2, RollbackKeeps
  <2>3. CASE LockColumn(p)
    BY <2>3, LockColumnKeeps
  <2>4. CASE CommitMidpoint(p)
    BY <2>4, CommitMidpointKeeps
  <2>5. CASE UpdateMoved(p)
    BY <2>5, UpdateMovedKeeps
  <2>6. CASE CommitRebalance(p)
    BY <2>6, CommitRebalanceKeeps
  <2>7. CASE DeleteTask(p)
    BY <2>7, DeleteTaskKeeps
  <2>8. CASE DeleteColumn(p)
    BY <2>8, DeleteColumnKeeps
  <2>9. CASE Emit(p)
    BY <2>9, EmitKeeps
  <2> QED BY <1>2, <2>1, <2>2, <2>3, <2>4, <2>5, <2>6, <2>7, <2>8, <2>9
          DEF Serve, Abort, Reject, MovedTaskGone, NothingDeleted, AbortDeadlock
<1> QED BY <1>1, <1>2 DEF Next, Quiescent

(* The inductive invariant holds in every reachable state.                 *)
THEOREM IndInvHolds == Spec => []IndInv
BY InitIndInv, NextIndInv, PTL DEF Spec

(* Type correctness of the task tables, locks and plans.                   *)
THEOREM TypeCorrect == Spec => []TypeOK
<1>1. IndInv => TypeOK
  BY DEF IndInv
<1> QED BY <1>1, IndInvHolds, PTL

(* No interleaving of creates, moves, removals and aborts gives two tasks  *)
(* of a column the same position.                                          *)
THEOREM PositionsDistinct == Spec => []DistinctPositions
<1>1. IndInv => DistinctPositions
  BY DEF IndInv
<1> QED BY <1>1, IndInvHolds, PTL

(* No interleaving leaves a task in a column that has been removed.        *)
THEOREM TasksHaveColumns == Spec => []TaskHasColumn
<1>1. IndInv => TaskHasColumn
  BY DEF IndInv
<1> QED BY <1>1, IndInvHolds, PTL

(* What a request read under its lock stays good until it commits.         *)
THEOREM SnapshotsStayGood == Spec => []LockedSnapshot
<1>1. IndInv => LockedSnapshot
  BY DEF IndInv
<1> QED BY <1>1, IndInvHolds, PTL

-----------------------------------------------------------------------------
(* A step that is not the commit of a placement rewrites no position.      *)
LEMMA OnlyPlacementsMove ==
    ASSUME IndInv, NEW p \in Procs, Begin(p) \/ Serve(p) \/ Abort(p),
           ~ CommitMidpoint(p), ~ CommitRebalance(p)
    PROVE  position' = position
BY DEF Begin, BeginCreate, BeginMove, BeginRemove, BeginRemoveColumn, Serve, Abort,
       LockColumn, Reject, UpdateMoved, MovedTaskGone, DeleteTask, DeleteColumn,
       NothingDeleted, Emit, AbortDeadlock, Rollback, rows

(* Rebalancing keeps the siblings' order: in its column by the ranks, in   *)
(* the others because the batch update is scoped.                          *)
LEMMA RebalanceKeepsOrder ==
    ASSUME IndInv, NEW p \in Procs, CommitRebalance(p),
           NEW x \in Tasks, NEW y \in Tasks, x # req[p].task, y # req[p].task,
           columnId[x] = columnId[y], Before(position, x, y)
    PROVE  Before(position', x, y)
<1> DEFINE sib(z) == rebalancedSibling(siblings[p], snapshot[p], slot[p].prev, z)
<1>1. /\ Holding(p)
      /\ \A z \in Tasks : z # req[p].task =>
            position'[z] = IF z \in BatchRows(p) THEN sib(z) ELSE position[z]
  BY DEF CommitRebalance, PlaceTask, Holding
<1> HIDE DEF sib
<1>2. CASE columnId[x] = req[p].column
  <2>1. /\ x \in BatchRows(p) /\ y \in BatchRows(p)
        /\ x \in siblings[p] /\ y \in siblings[p]
        /\ position[x] = snapshot[p][x] /\ position[y] = snapshot[p][y]
    BY <1>1, <1>2, PlanFacts DEF BatchRows
  <2>2. Before(snapshot[p], x, y)
    BY <2>1 DEF Before
  <2>3. sib(x) < sib(y)
    BY <1>1, <2>1, <2>2, PlanFacts, RebalanceOpensSlot DEF sib
  <2> QED BY <1>1, <2>1, <2>3 DEF Before
<1>3. CASE columnId[x] # req[p].column
  <2>1. x \notin BatchRows(p) /\ y \notin BatchRows(p)
    BY <1>3 DEF BatchRows
  <2> QED BY <1>1, <2>1 DEF Before
<1> QED BY <1>2, <1>3

(* No step swaps two siblings that both stay in their column.              *)
LEMMA StepKeepsOrder ==
    ASSUME IndInv, [Next]_vars
    PROVE  KeepsSiblingOrder \/ UNCHANGED vars
<1> SUFFICES ASSUME NEW x \in Tasks, NEW y \in Tasks, ~ UNCHANGED vars,
                    columnId[x] = columnId[y], columnId[x] # NoColumn,
                    Before(position, x, y), ~ Before(position', x, y)
             PROVE  \E p \in Procs : Places(p) /\ req[p].task \in {x, y}
  BY DEF KeepsSiblingOrder
<1>1. PICK p \in Procs : Begin(p) \/ Serve(p) \/ Abort(p)
  BY DEF Next, Quiescent
<1>2. position' # position
  BY DEF Before
<1>3. CASE CommitMidpoint(p)
  <2>1. Places(p)
    BY <1>3 DEF CommitMidpoint, Commit, Places, IndInv, TypeOK
  <2>2. \A z \in Tasks : z # req[p].task => position'[z] = position[z]
    BY <1>3 DEF CommitMidpoint, PlaceTask, IndInv, TypeOK
  <2> QED BY <2>1, <2>2 DEF Before
<1>4. CASE CommitRebalance(p)
  <2>1. Places(p)
    BY <1>4 DEF CommitRebalance, Commit, Places, IndInv, TypeOK
  <2> QED BY <1>4, <2>1, RebalanceKeepsOrder
<1> QED BY <1>1, <1>2, <1>3, <1>4, OnlyPlacementsMove

(* Moving or creating a task never swaps two others, whichever rebalance   *)
(* it needs and whatever moves out of the column meanwhile.                *)
THEOREM OrderKept == Spec => SiblingOrderKept
<1>1. IndInv /\ [Next]_vars => [KeepsSiblingOrder]_vars
  BY StepKeepsOrder
<1> QED BY <1>1, IndInvHolds, PTL DEF Spec, SiblingOrderKept

-----------------------------------------------------------------------------
(* After a placement the column is ordered as its plan says: the row       *)
(* between the two sides of its slot, the siblings as they were.           *)
LEMMA PlacementOrder ==
    ASSUME IndInv, NEW p \in Procs, CommitMidpoint(p) \/ CommitRebalance(p)
    PROVE  /\ Holding(p)
           /\ columnId'[req[p].task] = req[p].column
           /\ position' \in [Tasks -> Int]
           /\ \A x \in Tasks : x # req[p].task /\ columnId'[x] = req[p].column =>
                 /\ x \in siblings[p]
                 /\ LeftOf(snapshot[p], x, slot[p].prev) =>
                       position'[x] < position'[req[p].task]
                 /\ ~ LeftOf(snapshot[p], x, slot[p].prev) =>
                       position'[req[p].task] < position'[x]
           /\ \A x, y \in Tasks :
                 /\ x # req[p].task /\ columnId'[x] = req[p].column
                 /\ y # req[p].task /\ columnId'[y] = req[p].column
                 /\ Before(snapshot[p], x, y)
                 => position'[x] < position'[y]
<1> DEFINE t == req[p].task
           c == req[p].column
           prev == slot[p].prev
<1>1. Holding(p)
  BY DEF CommitMidpoint, CommitRebalance, Holding
<1>2. columnId' = [columnId EXCEPT ![t] = c]
  BY DEF CommitMidpoint, CommitRebalance, PlaceTask
<1>3. /\ columnId'[t] = c
      /\ \A x \in Tasks : x # t /\ columnId'[x] = c =>
            columnId[x] = c /\ x \in siblings[p] /\ position[x] = snapshot[p][x]
  BY <1>1, <1>2, PlanFacts DEF IndInv, TypeOK
<1>4. position' \in [Tasks -> Int]
  BY CommitMidpointKeeps, CommitRebalanceKeeps DEF IndInv, TypeOK
<1>5. \A x \in siblings[p] : snapshot[p][x] \in Int
  BY <1>1, PlanFacts
<1>6. CASE CommitMidpoint(p)
  <2> DEFINE mid == midpoint(snapshot[p], prev, slot[p].next)
  <2>1. /\ position'[t] = mid
        /\ \A x \in Tasks : x # t => position'[x] = position[x]
    BY <1>1, <1>6, PlanFacts DEF CommitMidpoint, PlaceTask, IndInv, TypeOK
  <2>2. ~ needsRebalance(snapshot[p], prev, slot[p].next)
    BY <1>6 DEF CommitMidpoint, Rebalancing
  <2> HIDE DEF mid
  <2>3. /\ \A x \in siblings[p] : LeftOf(snapshot[p], x, prev) => snapshot[p][x] < mid
        /\ \A x \in siblings[p] : ~ LeftOf(snapshot[p], x, prev) => mid < snapshot[p][x]
    BY <1>1, <2>2, PlanFacts, MidpointInSlot DEF mid
  <2>4. \A x, y \in siblings[p] : Before(snapshot[p], x, y) =>
           snapshot[p][x] < snapshot[p][y]
    BY <1>1, <1>5, PlanFacts DEF Before
  <2> QED BY <1>1, <1>3, <1>4, <2>1, <2>3, <2>4
<1>7. CASE CommitRebalance(p)
  <2> DEFINE row == rebalancedRow(siblings[p], snapshot[p], prev)
             sib(x) == rebalancedSibling(siblings[p], snapshot[p], prev, x)
  <2>1. /\ position'[t] = row
        /\ \A x \in Tasks : x # t =>
              position'[x] = IF x \in BatchRows(p) THEN sib(x) ELSE position[x]
    BY <1>1, <1>7, PlanFacts DEF CommitRebalance, PlaceTask
  <2> HIDE DEF row, sib
  <2>2. \A x \in Tasks : x # t /\ columnId'[x] = c => position'[x] = sib(x)
    BY <1>3, <2>1 DEF BatchRows
  <2>3. /\ \A x, y \in siblings[p] : Before(snapshot[p], x, y) => sib(x) < sib(y)
        /\ \A x \in siblings[p] : LeftOf(snapshot[p], x, prev) => sib(x) < row
        /\ \A x \in siblings[p] : ~ LeftOf(snapshot[p], x, prev) => row < sib(x)
    BY <1>1, PlanFacts, RebalanceOpensSlot DEF row, sib
  <2> QED BY <1>1, <1>3, <1>4, <2>1, <2>2, <2>3
<1> QED BY <1>6, <1>7

(* So the task stands next to the neighbours its request named.            *)
LEMMA PlacementLands ==
    ASSUME IndInv, NEW p \in Procs, CommitMidpoint(p) \/ CommitRebalance(p)
    PROVE  LandsNextTo(req[p].task, req[p].column, req[p].prev, req[p].next)
<1> DEFINE t == req[p].task
           c == req[p].column
           snap == snapshot[p]
           In(x) == x \in Tasks /\ x # t /\ columnId'[x] = c
<1>1. /\ Holding(p) /\ columnId'[t] = c /\ position' \in [Tasks -> Int]
      /\ t \in Tasks
  BY PlacementOrder, PlanFacts
<1>2. \A x : In(x) => /\ x \in siblings[p]
                      /\ LeftOf(snap, x, slot[p].prev) => position'[x] < position'[t]
                      /\ ~ LeftOf(snap, x, slot[p].prev) => position'[t] < position'[x]
  BY PlacementOrder
<1>3. \A x, y : In(x) /\ In(y) /\ Before(snap, x, y) => position'[x] < position'[y]
  BY PlacementOrder
<1>4. /\ IsSlot(siblings[p], snap, slot[p].prev, slot[p].next)
      /\ req[p].prev # NoId => slot[p].prev = req[p].prev
      /\ req[p].next # NoId => slot[p].next = req[p].next
      /\ req[p].prev = NoId /\ req[p].next = NoId => slot[p].next = NoId
  BY <1>1 DEF IndInv, LockedSnapshot, SlotResolved
<1>5. /\ \A x : In(x) => position'[x] \in Int /\ x \in Nat /\ x # NoId
      /\ position'[t] \in Int
  BY <1>1, TasksAssumption
<1>6. \A x, y \in siblings[p] : Before(snap, x, y) => ~ Before(snap, y, x) /\ x # y
  BY <1>1, PlanFacts, BeforeOrder
<1>7. ASSUME In(req[p].prev)
      PROVE  /\ Before(position', req[p].prev, t)
             /\ \A x : In(x) =>
                   ~ (Before(position', req[p].prev, x) /\ Before(position', x, t))
  <2>1. slot[p].prev = req[p].prev /\ LeftOf(snap, req[p].prev, slot[p].prev)
    BY <1>4, <1>5, <1>7 DEF LeftOf, AtOrBefore
  <2>2. Before(position', req[p].prev, t)
    BY <1>2, <1>7, <2>1 DEF Before
  <2>3. ASSUME NEW x, In(x), Before(position', req[p].prev, x), Before(position', x, t)
        PROVE  FALSE
    <3>1. LeftOf(snap, x, slot[p].prev)
      BY <1>2, <1>5, <2>3 DEF Before
    <3>2. x = req[p].prev \/ position'[x] < position'[req[p].prev]
      BY <1>3, <1>7, <2>1, <2>3, <3>1 DEF LeftOf, AtOrBefore
    <3> QED BY <1>5, <1>7, <2>3, <3>2 DEF Before
  <2> QED BY <2>2, <2>3
<1>8. ASSUME In(req[p].next)
      PROVE  /\ Before(position', t, req[p].next)
             /\ \A x : In(x) =>
                   ~ (Before(position', t, x) /\ Before(position', x, req[p].next))
  <2>1. slot[p].next = req[p].next /\ slot[p].next # NoId /\ req[p].next \in siblings[p]
    BY <1>2, <1>4, <1>5, <1>8
  <2>2. ~ LeftOf(snap, req[p].next, slot[p].prev)
    BY <1>4, <1>6, <2>1 DEF IsSlot, LeftOf, AtOrBefore
  <2>3. Before(position', t, req[p].next)
    BY <1>2, <1>8, <2>2 DEF Before
  <2>4. ASSUME NEW x, In(x), Before(position', t, x), Before(position', x, req[p].next)
        PROVE  FALSE
    <3>1. ~ LeftOf(snap, x, slot[p].prev)
      BY <1>2, <1>5, <2>4 DEF Before
    <3>2. RightOf(snap, x, slot[p].next)
      BY <1>2, <1>4, <2>4, <3>1 DEF IsSlot
    <3>3. x = req[p].next \/ position'[req[p].next] < position'[x]
      BY <1>3, <1>8, <2>1, <2>4, <3>2 DEF RightOf, AtOrBefore
    <3> QED BY <1>5, <1>8, <2>4, <3>3 DEF Before
  <2> QED BY <2>3, <2>4
<1>9. ASSUME req[p].prev = NoId, req[p].next = NoId, NEW x, In(x)
      PROVE  Before(position', x, t)
  <2>1. LeftOf(snap, x, slot[p].prev)
    BY <1>2, <1>4, <1>9 DEF IsSlot, RightOf
  <2> QED BY <1>2, <1>9, <2>1 DEF Before
<1> QED BY <1>1, <1>7, <1>8, <1>9 DEF LandsNextTo

(* Only the two commits place a task.                                      *)
LEMMA PlacingSteps ==
    ASSUME IndInv, [Next]_vars, NEW p \in Procs, Places(p)
    PROVE  CommitMidpoint(p) \/ CommitRebalance(p)
<1>1. pc[p] \in {"write", "batch"} /\ pc'[p] = "emit"
  BY DEF Places
<1>2. PICK q \in Procs : Begin(q) \/ Serve(q) \/ Abort(q)
  BY <1>1 DEF Next, Quiescent, vars
<1>3. q = p
  BY <1>1, <1>2 DEF IndInv, TypeOK, Begin, BeginCreate, BeginMove, BeginRemove,
       BeginRemoveColumn, Admit, Serve, Abort, LockColumn, Reject, CommitMidpoint,
       CommitRebalance, UpdateMoved, MovedTaskGone, DeleteTask, DeleteColumn,
       NothingDeleted, Emit, AbortDeadlock, Rollback, Commit
<1> QED BY <1>1, <1>2, <1>3 DEF IndInv, TypeOK, Begin, BeginCreate, BeginMove,
       BeginRemove, BeginRemoveColumn, Admit, Serve, Abort, LockColumn, Reject,
       UpdateMoved, MovedTaskGone, DeleteTask, DeleteColumn, NothingDeleted, Emit,
       AbortDeadlock, Rollback

(* A committed create or move stands immediately next to the neighbours it *)
(* named that are still in the column, and last when it named none.        *)
THEOREM LandsWhereAsked == Spec => LandsInSlot
<1>1. IndInv /\ [Next]_vars => [PlacedAsAsked]_vars
  BY PlacingSteps, PlacementLands DEF PlacedAsAsked
<1> QED BY <1>1, IndInvHolds, PTL DEF Spec, LandsInSlot

-----------------------------------------------------------------------------
(* What the rest of the system is told of a board is true, and the board    *)
(* with its positions, locks and rebalances is one of ordered lists.        *)

(* Nothing is asked, locked or announced at first.                         *)
LEMMA InitEvents == Init => EventInv
<1> SUFFICES ASSUME Init PROVE EventInv
  OBVIOUS
<1>1. \A p \in Procs : OwnId(p) /\ KeepsRow(p) /\ HasCommitted(p)
  BY DEF Init, OwnId, KeepsRow, HasCommitted
<1>2. \A t \in Tasks : columnId[t] # NoColumn \/ stubs[t] = 1 => t \in created
  BY DEF Init
<1>3. EventsAreTrue
  BY DEF Init, EventsAreTrue, DeletionRecordedOnce, AnnouncedIsCommitted
<1> QED BY <1>1, <1>2, <1>3 DEF EventInv

(* An admitted request names a row that is there, or an id of its own.     *)
LEMMA BeginEvents ==
    ASSUME IndInv, EventInv, NEW p \in Procs, Begin(p)
    PROVE  EventInv'
<1>1. PICK r, stmt :
         /\ Admit(p, r, stmt)
         /\ stmt \in {"lock", "delete", "drop"}
         /\ r.op = "create" => /\ r.task \notin created
                               /\ \A q \in Procs : req[q].task # r.task
         /\ r.task \in created \/ r.task = NoId \/ r.op = "create"
         /\ UNCHANGED <<rows, locks, plan, announced>>
  <2>1. CASE BeginCreate(p)
    BY <2>1 DEF BeginCreate
  <2>2. CASE BeginMove(p)
    BY <2>2 DEF BeginMove, EventInv
  <2>3. CASE BeginRemove(p)
    BY <2>3 DEF BeginRemove, EventInv
  <2>4. CASE BeginRemoveColumn(p)
    BY <2>4 DEF BeginRemoveColumn
  <2> QED BY <2>1, <2>2, <2>3, <2>4 DEF Begin
<1>2. /\ UNCHANGED <<columnId, rowLock, created, stubs, announced, columns>>
      /\ pc' = [pc EXCEPT ![p] = stmt] /\ req' = [req EXCEPT ![p] = r]
      /\ pc[p] = "idle"
  BY <1>1 DEF rows, locks, Admit
<1>3. ASSUME NEW q \in Procs PROVE (OwnId(q) /\ KeepsRow(q) /\ HasCommitted(q))'
  <2>1. CASE q = p
    <3>1. pc'[q] = stmt /\ req'[q] = r /\ \A s \in Procs \ {p} : req'[s] = req[s]
      BY <1>2, <2>1 DEF IndInv, TypeOK
    <3> QED BY <1>1, <1>2, <2>1, <3>1 DEF OwnId, KeepsRow, HasCommitted
  <2>2. CASE q # p
    <3>1. /\ pc'[q] = pc[q] /\ req'[q] = req[q] /\ req'[p] = r
          /\ \A s \in Procs \ {p} : req'[s] = req[s]
      BY <1>2, <2>2 DEF IndInv, TypeOK
    <3>2. OwnId(q) /\ KeepsRow(q) /\ HasCommitted(q)
      BY DEF EventInv
    <3>3. KeepsRow(q)' /\ HasCommitted(q)'
      BY <1>2, <3>1, <3>2 DEF KeepsRow, HasCommitted
    <3>4. OwnId(q)'
      <4> SUFFICES ASSUME pc[q] \in {"lock", "write"}, req[q].op = "create"
                   PROVE  r.task # req[q].task
        BY <1>2, <3>1, <3>2 DEF OwnId
      <4>1. req[q].task \in Tasks /\ req[q].task # NoId
        BY TasksAssumption DEF IndInv, LockedSnapshot, RequestFits
      <4>2. req[q].task \notin created
        BY <3>2 DEF OwnId
      <4> QED BY <1>1, <4>1, <4>2
    <3> QED BY <3>3, <3>4
  <2> QED BY <2>1, <2>2
<1>4. EventsAreTrue'
  BY <1>2 DEF EventInv, EventsAreTrue, DeletionRecordedOnce, AnnouncedIsCommitted
<1> QED BY <1>2, <1>3, <1>4 DEF EventInv

(* The end of p's request, with nothing written but what p announces.      *)
LEMMA EndEvents ==
    ASSUME IndInv, EventInv, NEW p \in Procs, Rollback(p) \/ Emit(p)
    PROVE  EventInv'
<1>1. /\ UNCHANGED <<columnId, created, stubs, columns>>
      /\ pc' = [pc EXCEPT ![p] = "idle"] /\ req' = [req EXCEPT ![p] = NoRequest]
      /\ \A t \in Tasks : \A q \in Procs : q # p /\ rowLock[t] = q => rowLock'[t] = q
  BY DEF Rollback, Emit, Release, rows, locks
<1>2. ASSUME NEW q \in Procs PROVE (OwnId(q) /\ KeepsRow(q) /\ HasCommitted(q))'
  <2>1. CASE q = p
    BY <1>1, <2>1 DEF OwnId, KeepsRow, HasCommitted, IndInv, TypeOK
  <2>2. CASE q # p
    <3>1. /\ pc'[q] = pc[q] /\ req'[q] = req[q] /\ req'[p].task = NoId
          /\ \A s \in Procs \ {p} : req'[s] = req[s]
      BY <1>1, <2>2 DEF IndInv, TypeOK, NoRequest
    <3>2. OwnId(q) /\ KeepsRow(q) /\ HasCommitted(q)
      BY DEF EventInv
    <3>3. pc[q] \in {"lock", "write", "batch"} => req[q].task \in Tasks /\ req[q].task # NoId
      BY TasksAssumption DEF IndInv, LockedSnapshot, RequestFits
    <3> QED BY <1>1, <2>2, <3>1, <3>2, <3>3 DEF OwnId, KeepsRow, HasCommitted
  <2> QED BY <2>1, <2>2
<1>3. AnnouncedIsCommitted'
  <2>1. CASE Rollback(p)
    BY <2>1 DEF Rollback, rows, EventInv, EventsAreTrue, AnnouncedIsCommitted
  <2>2. CASE Emit(p)
    <3>1. /\ announced' = announced \cup {Event(req[p])} /\ pc[p] = "emit"
          /\ HasCommitted(p) /\ RequestFits(p)
      BY <2>2 DEF Emit, EventInv, IndInv, LockedSnapshot
    <3>2. req[p].op \in {"create", "move", "remove", "removeColumn"}
      BY DEF IndInv, TypeOK, Requests
    <3>3. ASSUME NEW t \in Tasks
          PROVE  /\ Event(req[p]) = <<"TASK_CREATED", t>> => t \in created
                 /\ Event(req[p]) = <<"TASK_DELETED", t>> => stubs[t] = 1
      BY <3>1, <3>2 DEF Event, HasCommitted
    <3> QED BY <1>1, <3>1, <3>3 DEF EventInv, EventsAreTrue, AnnouncedIsCommitted
  <2> QED BY <2>1, <2>2
<1>4. DeletionRecordedOnce'
  BY <1>1 DEF EventInv, EventsAreTrue, DeletionRecordedOnce
<1> QED BY <1>1, <1>2, <1>3, <1>4 DEF EventInv, EventsAreTrue

(* Locking a column or a row writes nothing yet.                           *)
LEMMA LockEvents ==
    ASSUME IndInv, EventInv, NEW p \in Procs, LockColumn(p) \/ UpdateMoved(p)
    PROVE  EventInv'
<1>1. /\ UNCHANGED <<columnId, created, stubs, columns, announced, req>>
      /\ \A q \in Procs \ {p} : pc'[q] = pc[q]
      /\ \/ pc[p] = "lock" /\ pc'[p] = "write" /\ rowLock' = rowLock
         \/ /\ pc[p] = "write" /\ pc'[p] = "batch" /\ req[p].op = "move"
            /\ rowLock' = [rowLock EXCEPT ![req[p].task] = p]
            /\ rowLock[req[p].task] = NoProc /\ columnId[req[p].task] # NoColumn
  BY DEF LockColumn, UpdateMoved, OwnRowReady, rows, plan, IndInv, TypeOK
<1>2. RequestFits(p)
  BY DEF IndInv, LockedSnapshot
<1>3. ASSUME NEW q \in Procs PROVE (OwnId(q) /\ KeepsRow(q) /\ HasCommitted(q))'
  <2>1. OwnId(q) /\ KeepsRow(q) /\ HasCommitted(q)
    BY DEF EventInv
  <2>2. CASE q = p
    BY <1>1, <1>2, <2>1, <2>2 DEF OwnId, KeepsRow, HasCommitted, RequestFits, IndInv, TypeOK
  <2>3. CASE q # p
    <3>0. RequestFits(q)
      BY DEF IndInv, LockedSnapshot
    <3>1. KeepsRow(q)'
      BY <1>1, <1>2, <2>1, <2>3, <3>0, NullAssumption, PoolAssumption
         DEF KeepsRow, RequestFits, IndInv, TypeOK
    <3> QED BY <1>1, <2>1, <2>3, <3>1 DEF OwnId, HasCommitted
  <2> QED BY <2>2, <2>3
<1>4. EventsAreTrue'
  BY <1>1 DEF EventInv, EventsAreTrue, DeletionRecordedOnce, AnnouncedIsCommitted
<1> QED BY <1>1, <1>3, <1>4 DEF EventInv

(* A commit lets the other requests go on if it takes no id of theirs and  *)
(* deletes no row that another has written.                                *)
LEMMA CommitEvents ==
    ASSUME IndInv, EventInv, NEW p \in Procs, Commit(p), pc[p] # "idle",
           \A q \in Procs \ {p} :
              /\ OwnId(q) /\ pc[q] \in {"lock", "write"} /\ req[q].op = "create" =>
                    req[q].task \notin created'
              /\ pc[q] = "batch" => columnId'[req[q].task] # NoColumn,
           created \subseteq created',
           \A t \in Tasks : stubs[t] = 1 => stubs'[t] = 1,
           req[p].op = "create" => req[p].task \in created',
           req[p].op = "remove" => stubs'[req[p].task] = 1,
           \A t \in Tasks : columnId'[t] # NoColumn \/ stubs'[t] = 1 => t \in created',
           DeletionRecordedOnce'
    PROVE  EventInv'
<1>1. /\ Release(p) /\ pc' = [pc EXCEPT ![p] = "emit"]
      /\ req' = req /\ announced' = announced
  BY DEF Commit
<1>2. \A t \in Tasks : \A q \in Procs : q # p /\ rowLock[t] = q => rowLock'[t] = q
  BY <1>1 DEF Release
<1>3. ASSUME NEW q \in Procs PROVE (OwnId(q) /\ KeepsRow(q) /\ HasCommitted(q))'
  <2>1. CASE q = p
    BY <1>1, <2>1 DEF OwnId, KeepsRow, HasCommitted, IndInv, TypeOK
  <2>2. CASE q # p
    <3>1. OwnId(q) /\ KeepsRow(q) /\ HasCommitted(q) /\ RequestFits(q)
      BY DEF EventInv, IndInv, LockedSnapshot
    <3>2. pc'[q] = pc[q]
      BY <1>1, <2>2 DEF IndInv, TypeOK
    <3>3. OwnId(q)'
      BY <1>1, <2>2, <3>1, <3>2 DEF OwnId
    <3>4. KeepsRow(q)'
      BY <1>1, <1>2, <2>2, <3>1, <3>2 DEF KeepsRow, RequestFits
    <3>5. req[q].op \in {"create", "move", "remove", "removeColumn"}
      BY DEF IndInv, TypeOK, Requests
    <3>6. HasCommitted(q)'
      BY <1>1, <2>2, <3>1, <3>2, <3>5 DEF HasCommitted, RequestFits
    <3> QED BY <3>3, <3>4, <3>6
  <2> QED BY <2>1, <2>2
<1>4. AnnouncedIsCommitted'
  BY <1>1 DEF EventInv, EventsAreTrue, AnnouncedIsCommitted
<1> QED BY <1>3, <1>4 DEF EventInv, EventsAreTrue

(* A placement takes an id that is the request's own, or a row that is     *)
(* there, so it brings no deleted task back.                               *)
LEMMA PlaceEvents ==
    ASSUME IndInv, EventInv, NEW p \in Procs, CommitMidpoint(p) \/ CommitRebalance(p)
    PROVE  /\ EventInv'
           /\ IF req[p].op = "create" THEN req[p].task \notin created
                                      ELSE columnId[req[p].task] # NoColumn
<1> DEFINE t == req[p].task
           c == req[p].column
<1>1. /\ Commit(p) /\ pc[p] \in {"write", "batch"}
      /\ columnId' = [columnId EXCEPT ![t] = c]
      /\ created' = created \cup {t} /\ UNCHANGED <<columns, stubs>>
      /\ RequestFits(p) /\ OwnId(p) /\ KeepsRow(p)
  BY DEF CommitMidpoint, CommitRebalance, PlaceTask, EventInv, IndInv, LockedSnapshot
<1>2. /\ t \in Tasks /\ c \in Columns /\ c # NoColumn /\ req[p].op \in {"create", "move"}
  BY <1>1, NullAssumption DEF RequestFits
<1>3. IF req[p].op = "create" THEN t \notin created ELSE columnId[t] # NoColumn
  BY <1>1, <1>2 DEF CommitMidpoint, CommitRebalance, OwnRowReady, OwnId, KeepsRow, RequestFits
<1>4. stubs[t] # 1 /\ \A x \in Tasks : stubs[x] = 1 => columnId'[x] = NoColumn
  BY <1>1, <1>2, <1>3 DEF EventInv, EventsAreTrue, DeletionRecordedOnce, IndInv, TypeOK
<1>5. ASSUME NEW q \in Procs \ {p}
      PROVE  /\ OwnId(q) /\ pc[q] \in {"lock", "write"} /\ req[q].op = "create" =>
                   req[q].task \notin created'
             /\ pc[q] = "batch" => columnId'[req[q].task] # NoColumn
  <2>1. KeepsRow(q) /\ RequestFits(q)
    BY DEF EventInv, IndInv, LockedSnapshot
  <2> QED BY <1>1, <1>2, <2>1 DEF OwnId, KeepsRow, RequestFits, IndInv, TypeOK
<1>6. \A x \in Tasks : columnId'[x] # NoColumn \/ stubs'[x] = 1 => x \in created'
  BY <1>1 DEF EventInv, IndInv, TypeOK
<1>7. DeletionRecordedOnce'
  BY <1>1, <1>4 DEF EventInv, EventsAreTrue, DeletionRecordedOnce
<1>8. EventInv'
  BY <1>1, <1>2, <1>5, <1>6, <1>7, CommitEvents
<1> QED BY <1>3, <1>8

(* A deletion is recorded and announced by the transaction that removes    *)
(* the row.                                                                *)
LEMMA DeleteEvents ==
    ASSUME IndInv, EventInv, NEW p \in Procs, DeleteTask(p) \/ DeleteColumn(p)
    PROVE  EventInv'
<1> DEFINE t == req[p].task
           c == req[p].column
<1>0. RequestFits(p)
  BY DEF IndInv, LockedSnapshot
<1>1. /\ stubs \in [Tasks \cup Columns -> Nat] /\ columnId \in [Tasks -> Columns \cup {NoColumn}]
      /\ DeletionRecordedOnce
      /\ \A x \in Tasks : columnId[x] # NoColumn \/ stubs[x] = 1 => x \in created
  BY DEF IndInv, TypeOK, EventInv, EventsAreTrue
<1>2. ASSUME NEW q \in Procs \ {p}
      PROVE  /\ OwnId(q) /\ KeepsRow(q)
             /\ pc[q] = "batch" => req[q].task \in Tasks /\ rowLock[req[q].task] # NoProc
  BY NullAssumption, PoolAssumption DEF EventInv, KeepsRow, IndInv, LockedSnapshot, RequestFits
<1>3. CASE DeleteTask(p)
  <2>1. /\ pc[p] = "delete" /\ rowLock[t] = NoProc /\ columnId[t] # NoColumn
        /\ columnId' = [columnId EXCEPT ![t] = NoColumn]
        /\ stubs' = [stubs EXCEPT ![t] = @ + 1]
        /\ UNCHANGED <<columns, created>> /\ Commit(p)
        /\ t \in Tasks /\ req[p].op = "remove"
    BY <1>0, <1>3 DEF DeleteTask, RequestFits
  <2>2. stubs[t] = 0 /\ stubs'[t] = 1 /\ \A x \in (Tasks \cup Columns) \ {t} : stubs'[x] = stubs[x]
    BY <1>1, <2>1 DEF DeletionRecordedOnce
  <2>3. \A x \in Tasks : columnId'[x] = IF x = t THEN NoColumn ELSE columnId[x]
    BY <1>1, <2>1
  <2>4. \A q \in Procs \ {p} : pc[q] = "batch" => columnId'[req[q].task] # NoColumn
    BY <1>2, <2>1, <2>3 DEF KeepsRow
  <2>5. DeletionRecordedOnce'
    BY <1>1, <2>1, <2>2, <2>3, IdsAssumption DEF DeletionRecordedOnce
  <2>6. \A x \in Tasks : columnId'[x] # NoColumn \/ stubs'[x] = 1 => x \in created'
    BY <1>1, <2>1, <2>2, <2>3
  <2> QED BY <1>2, <2>1, <2>2, <2>4, <2>5, <2>6, CommitEvents DEF OwnId
<1>4. CASE DeleteColumn(p)
  <2>1. /\ pc[p] = "drop" /\ c \in columns
        /\ \A x \in Tasks : columnId[x] = c => rowLock[x] = NoProc
        /\ columns' = columns \ {c}
        /\ columnId' = [x \in Tasks |-> IF columnId[x] = c THEN NoColumn ELSE columnId[x]]
        /\ stubs' = [stubs EXCEPT ![c] = @ + 1]
        /\ created' = created /\ Commit(p)
        /\ c \in Columns /\ req[p].op = "removeColumn"
    BY <1>0, <1>4 DEF DeleteColumn, RequestFits
  <2>2. stubs[c] = 0 /\ stubs'[c] = 1 /\ \A x \in (Tasks \cup Columns) \ {c} : stubs'[x] = stubs[x]
    BY <1>1, <2>1 DEF DeletionRecordedOnce
  <2>3. \A q \in Procs \ {p} : pc[q] = "batch" => columnId'[req[q].task] # NoColumn
    BY <1>2, <2>1 DEF KeepsRow
  <2>4. DeletionRecordedOnce'
    BY <1>1, <2>1, <2>2, IdsAssumption DEF DeletionRecordedOnce
  <2>5. \A x \in Tasks : columnId'[x] # NoColumn \/ stubs'[x] = 1 => x \in created'
    BY <1>1, <2>1, <2>2, IdsAssumption
  <2>6. \A x \in Tasks : stubs[x] = 1 => stubs'[x] = 1
    BY <2>2, IdsAssumption, <2>1
  <2> QED BY <1>2, <2>1, <2>3, <2>4, <2>5, <2>6, CommitEvents DEF OwnId
<1> QED BY <1>3, <1>4

(* Every step keeps the events and the trail true.                         *)
LEMMA NextEvents == IndInv /\ EventInv /\ [Next]_vars => EventInv'
<1> SUFFICES ASSUME IndInv, EventInv, [Next]_vars PROVE EventInv'
  OBVIOUS
<1>1. CASE UNCHANGED vars
  BY <1>1 DEF vars, EventInv, OwnId, KeepsRow, HasCommitted, EventsAreTrue,
              DeletionRecordedOnce, AnnouncedIsCommitted
<1>2. ASSUME NEW p \in Procs, Begin(p) \/ Serve(p) \/ Abort(p) PROVE EventInv'
  BY <1>2, BeginEvents, EndEvents, LockEvents, PlaceEvents, DeleteEvents
     DEF Serve, Abort, Reject, MovedTaskGone, NothingDeleted, AbortDeadlock
<1> QED BY <1>1, <1>2 DEF Next, Quiescent

(* A deletion is recorded once however many requests race for it, no move  *)
(* brings a deleted task back, and no event is sent of what rolled back    *)
(* (remove, create and emitToBoard in task.service.ts).                    *)
THEOREM EventsHold == Spec => []EventsAreTrue
<1>1. EventInv => EventsAreTrue
  BY DEF EventInv
<1> QED BY <1>1, InitEvents, NextEvents, IndInvHolds, PTL DEF Spec

-----------------------------------------------------------------------------
(* Positions, with ids to break ties, list every column once.              *)
LEMMA AheadIs ==
    ASSUME NEW col, NEW pos, NEW x, NEW y
    PROVE  <<x, y>> \in AheadBy(col, pos)
               <=> /\ x \in Tasks /\ y \in Tasks /\ col[x] = col[y] /\ col[x] # NoColumn
                   /\ Before(pos, x, y)
BY DEF AheadBy

(* Rows ahead of one another by position are a listing of their column.    *)
LEMMA ListingIs ==
    ASSUME NEW col, NEW pos \in [Tasks -> Int]
    PROVE  Board!Listing(col, AheadBy(col, pos))
<1> DEFINE o == AheadBy(col, pos)
<1>0. /\ \A x, y, z \in Tasks : Before(pos, x, y) /\ Before(pos, y, z) => Before(pos, x, z)
      /\ \A x, y \in Tasks : Before(pos, x, y) => ~ Before(pos, y, x)
      /\ \A x, y \in Tasks : x = y \/ Before(pos, x, y) \/ Before(pos, y, x)
  BY TasksAssumption, BeforeOrder
<1>1. \A pair \in o : pair \in Tasks \X Tasks /\ pair = <<pair[1], pair[2]>>
  BY DEF AheadBy
<1>2. o \subseteq Board!Pairs(col)
  BY <1>0 DEF AheadBy, Board!Pairs
<1>3. ASSUME NEW pair \in Board!Pairs(col)
      PROVE  pair \in o <=> <<pair[2], pair[1]>> \notin o
  <2>1. /\ pair \in Tasks \X Tasks /\ pair[1] # pair[2] /\ col[pair[1]] = col[pair[2]]
        /\ col[pair[1]] # NoColumn /\ pair = <<pair[1], pair[2]>>
    BY DEF Board!Pairs
  <2>2. PICK x \in Tasks, y \in Tasks : pair = <<x, y>>
    BY <2>1
  <2> QED BY <1>0, <2>1, <2>2, AheadIs
<1>4. ASSUME NEW p \in o, NEW q \in o, p[2] = q[1] PROVE <<p[1], q[2]>> \in o
  <2>1. PICK x \in Tasks, y \in Tasks, z \in Tasks : p = <<x, y>> /\ q = <<y, z>>
    BY <1>1, <1>4
  <2>2. <<x, y>> \in o /\ <<y, z>> \in o
    BY <2>1
  <2>3. /\ col[x] = col[y] /\ col[y] = col[z] /\ col[x] # NoColumn
        /\ Before(pos, x, y) /\ Before(pos, y, z)
    BY <2>2, AheadIs
  <2>4. <<x, z>> \in o
    BY <1>0, <2>3, AheadIs
  <2> QED BY <2>1, <2>4
<1> QED BY <1>2, <1>3, <1>4 DEF Board!Listing

(* The seeded board is a list per column.                                  *)
LEMMA InitIsLists == Init => Board!ListInit
<1> SUFFICES ASSUME Init PROVE Board!ListInit
  OBVIOUS
<1>1. columnId = SeedColumn /\ position = SeedPosition /\ columns = Columns
      /\ created = {t \in Tasks : SeedColumn[t] # NoColumn}
  BY DEF Init
<1>2. Board!Listing(columnId, AheadBy(columnId, position))
  BY <1>1, SeedAssumption, ListingIs
<1> QED BY <1>1, <1>2 DEF Board!ListInit

(* Nothing the lists are about is written.                                 *)
LEMMA ListsUntouched ==
    ASSUME UNCHANGED <<columnId, position, columns, created>>
    PROVE  UNCHANGED Board!listVars
BY DEF Board!listVars, AheadBy, Before

(* Tasks that go out of their columns leave the order of the others.       *)
LEMMA TakenOut ==
    ASSUME NEW S \in SUBSET Tasks, position' = position, created' = created,
           columnId' = [x \in Tasks |-> IF x \in S THEN NoColumn ELSE columnId[x]]
    PROVE  Board!TakeOut(S)
<1> DEFINE o == AheadBy(columnId, position)
           kept == {pair \in o : pair[1] \notin S /\ pair[2] \notin S}
<1>1. ASSUME NEW pair \in Tasks \X Tasks
      PROVE  pair \in AheadBy(columnId', position') <=> pair \in kept
  BY NullAssumption DEF AheadBy, Before
<1>2. AheadBy(columnId', position') \subseteq Tasks \X Tasks /\ kept \subseteq Tasks \X Tasks
  BY DEF AheadBy
<1>3. AheadBy(columnId', position') = kept
  BY <1>1, <1>2
<1> QED BY <1>3 DEF Board!TakeOut

(* A placement leaves the order of every two other tasks.                  *)
LEMMA PlacementKeepsOrder ==
    ASSUME IndInv, NEW p \in Procs, CommitMidpoint(p) \/ CommitRebalance(p),
           NEW x \in Tasks, NEW y \in Tasks, x # req[p].task, y # req[p].task,
           columnId[x] = columnId[y], Before(position, x, y)
    PROVE  Before(position', x, y)
<1>1. CASE CommitMidpoint(p)
  <2>1. \A z \in Tasks : z # req[p].task => position'[z] = position[z]
    BY <1>1 DEF CommitMidpoint, PlaceTask, IndInv, TypeOK
  <2> QED BY <2>1 DEF Before
<1>2. CASE CommitRebalance(p)
  BY <1>2, RebalanceKeepsOrder
<1> QED BY <1>1, <1>2

(* A placement is the insertion of its task in a slot of the list.         *)
LEMMA PlacementPutsIn ==
    ASSUME IndInv, IndInv', NEW p \in Procs, CommitMidpoint(p) \/ CommitRebalance(p)
    PROVE  Board!PutIn(req[p].task, req[p].column)
<1> DEFINE t == req[p].task
           c == req[p].column
           o == AheadBy(columnId, position)
           now == AheadBy(columnId', position')
<1>1. /\ Holding(p) /\ columnId' = [columnId EXCEPT ![t] = c] /\ columns' = columns
  BY DEF CommitMidpoint, CommitRebalance, PlaceTask, Holding
<1>2. t \in Tasks /\ c \in columns
  BY <1>1 DEF IndInv, LockedSnapshot, RequestFits, HoldsColumn, Holding
<1>3. position \in [Tasks -> Int] /\ position' \in [Tasks -> Int]
      /\ columnId \in [Tasks -> Columns \cup {NoColumn}]
  BY DEF IndInv, TypeOK
<1>4. Board!Listing(columnId', now)
  BY <1>3, ListingIs
<1>5. now \subseteq Tasks \X Tasks /\ o \subseteq Tasks \X Tasks
  BY DEF AheadBy
<1>6. ASSUME NEW x \in Tasks, NEW y \in Tasks, x # t, y # t
      PROVE  <<x, y>> \in now <=> <<x, y>> \in o
  <2>1. columnId'[x] = columnId[x] /\ columnId'[y] = columnId[y]
    BY <1>1, <1>3, <1>6
  <2>2. ASSUME columnId[x] = columnId[y]
        PROVE  Before(position', x, y) <=> Before(position, x, y)
    <3>1. Before(position, x, y) => Before(position', x, y)
      BY <1>6, <2>2, PlacementKeepsOrder
    <3>2. Before(position, y, x) => Before(position', y, x)
      BY <1>6, <2>2, PlacementKeepsOrder
    <3> QED BY <1>3, <3>1, <3>2, TasksAssumption, BeforeOrder
  <2> QED BY <2>1, <2>2, AheadIs
<1>7. Board!Others(t, now) = Board!Others(t, o)
  <2>1. ASSUME NEW pair \in Tasks \X Tasks
        PROVE  pair \in Board!Others(t, now) <=> pair \in Board!Others(t, o)
    <3>1. PICK x \in Tasks, y \in Tasks : pair = <<x, y>>
      OBVIOUS
    <3> QED BY <1>6, <3>1 DEF Board!Others
  <2> QED BY <1>5, <2>1 DEF Board!Others
<1> QED BY <1>1, <1>2, <1>4, <1>5, <1>7 DEF Board!PutIn

(* Each step is one operation on the lists, or none.                       *)
LEMMA StepIsList ==
    ASSUME IndInv, EventInv, IndInv', [Next]_vars
    PROVE  [Board!ListNext]_(Board!listVars)
<1>1. CASE UNCHANGED vars
  BY <1>1, ListsUntouched DEF vars
<1>2. ASSUME NEW p \in Procs, CommitMidpoint(p) \/ CommitRebalance(p)
      PROVE  [Board!ListNext]_(Board!listVars)
  <2> DEFINE t == req[p].task
             c == req[p].column
  <2>1. Board!PutIn(t, c) /\ t \in Tasks /\ c \in Columns /\ req[p].op \in {"create", "move"}
    BY <1>2, PlacementPutsIn
       DEF CommitMidpoint, CommitRebalance, IndInv, LockedSnapshot, RequestFits
  <2>2. created' = created \cup {t} /\ columnId' = [columnId EXCEPT ![t] = c] /\ columns' = columns
    BY <1>2 DEF CommitMidpoint, CommitRebalance, PlaceTask
  <2>3. CASE req[p].op = "create"
    <3>1. Board!Insert(t, c)
      BY <1>2, <2>1, <2>2, <2>3, PlaceEvents DEF Board!Insert
    <3> QED BY <2>1, <3>1 DEF Board!ListNext
  <2>4. CASE req[p].op = "move"
    <3>1. columnId[t] # NoColumn
      BY <1>2, <2>4, PlaceEvents
    <3>2. created' = created
      BY <2>1, <2>2, <3>1 DEF EventInv
    <3>3. CASE columnId[t] = c /\ AheadBy(columnId', position') = AheadBy(columnId, position)
      <4>1. columnId' = columnId
        BY <2>2, <3>3 DEF IndInv, TypeOK
      <4> QED BY <2>2, <3>2, <3>3, <4>1 DEF Board!listVars
    <3>4. CASE ~ (columnId[t] = c /\ AheadBy(columnId', position') = AheadBy(columnId, position))
      <4>1. Board!Move(t, c)
        BY <2>1, <3>1, <3>2, <3>4 DEF Board!Move
      <4> QED BY <2>1, <4>1 DEF Board!ListNext
    <3> QED BY <3>3, <3>4
  <2> QED BY <2>1, <2>3, <2>4
<1>3. ASSUME NEW p \in Procs, DeleteTask(p)
      PROVE  [Board!ListNext]_(Board!listVars)
  <2> DEFINE t == req[p].task
  <2>1. /\ t \in Tasks /\ columnId[t] # NoColumn
        /\ columnId' = [columnId EXCEPT ![t] = NoColumn]
        /\ UNCHANGED <<position, columns, created>>
    BY <1>3 DEF DeleteTask, IndInv, LockedSnapshot, RequestFits
  <2>2. columnId' = [x \in Tasks |-> IF x \in {t} THEN NoColumn ELSE columnId[x]]
    BY <2>1 DEF IndInv, TypeOK
  <2>3. Board!TakeOut({t})
    BY <2>1, <2>2, TakenOut
  <2> QED BY <2>1, <2>3 DEF Board!Remove, Board!ListNext
<1>4. ASSUME NEW p \in Procs, DeleteColumn(p)
      PROVE  [Board!ListNext]_(Board!listVars)
  <2> DEFINE c == req[p].column
             S == {x \in Tasks : columnId[x] = c}
  <2>1. /\ c \in Columns /\ c \in columns /\ columns' = columns \ {c}
        /\ columnId' = [x \in Tasks |-> IF columnId[x] = c THEN NoColumn ELSE columnId[x]]
        /\ UNCHANGED <<position, created>>
    BY <1>4 DEF DeleteColumn, IndInv, LockedSnapshot, RequestFits
  <2>2. columnId' = [x \in Tasks |-> IF x \in S THEN NoColumn ELSE columnId[x]]
    BY <2>1
  <2>3. Board!TakeOut(S)
    BY <2>1, <2>2, TakenOut
  <2> QED BY <2>1, <2>3 DEF Board!Close, Board!ListNext
<1>5. ASSUME NEW p \in Procs, Begin(p) \/ Rollback(p) \/ Emit(p) \/ LockColumn(p) \/ UpdateMoved(p)
      PROVE  UNCHANGED Board!listVars
  <2>1. UNCHANGED <<columnId, position, columns, created>>
    BY <1>5 DEF Begin, BeginCreate, BeginMove, BeginRemove, BeginRemoveColumn, Rollback, Emit,
       LockColumn, UpdateMoved, rows
  <2> QED BY <2>1, ListsUntouched
<1>6. ASSUME NEW p \in Procs, Begin(p) \/ Serve(p) \/ Abort(p)
      PROVE  [Board!ListNext]_(Board!listVars)
  BY <1>2, <1>3, <1>4, <1>5, <1>6
     DEF Serve, Abort, Reject, MovedTaskGone, NothingDeleted, AbortDeadlock
<1> QED BY <1>1, <1>6 DEF Next, Quiescent

(* The tables, locks and two-statement rebalances of a board implement its *)
(* ordered lists: every commit puts one task somewhere, takes one out or   *)
(* closes a column, and no other step is seen (task.service.ts).           *)
THEOREM ImplementsLists == Spec => ColumnsAreLists
<1>1. Spec => []EventInv
  BY InitEvents, NextEvents, IndInvHolds, PTL DEF Spec
<1>2. IndInv /\ EventInv /\ IndInv' /\ [Next]_vars => [Board!ListNext]_(Board!listVars)
  BY StepIsList
<1> QED BY <1>1, <1>2, InitIsLists, IndInvHolds, PTL DEF Spec, ColumnsAreLists, Board!ListSpec

-----------------------------------------------------------------------------
(***************************************************************************)
(* The columns of a board for any number of columns, requests and gaps: no *)
(* two share a position, none outlives the board, and each lands where its *)
(* request asked.                                                          *)
(***************************************************************************)

(* The board starts without requests and with its columns in order.        *)
LEMMA InitLayout == LayoutInit => LayoutInv
<1> SUFFICES ASSUME LayoutInit PROVE LayoutInv
  OBVIOUS
<1>1. AnyName \in ColumnNames
  BY LayoutAssumption DEF AnyName
<1>2. NoJob \in ColumnJobs
  BY <1>1 DEF NoJob, ColumnJobs, ColIds
<1>3. colRows \subseteq ColumnIds /\ colUsed = colRows
  BY LayoutAssumption DEF LayoutInit
<1>4. colPos \in [ColumnIds -> Int] /\ \A c \in ColumnIds : colPos[c] = c
  BY LayoutAssumption DEF LayoutInit
<1>5. LayoutTypeOK
  BY <1>1, <1>2, <1>3, <1>4, PoolAssumption DEF LayoutInit, LayoutTypeOK
<1>6. ColumnPositionsDistinct /\ NoColumnWithoutBoard
  BY <1>3, <1>4 DEF LayoutInit, ColumnPositionsDistinct, NoColumnWithoutBoard
<1>7. \A p \in Procs : JobFits(p) /\ PlanStands(p)
  BY DEF LayoutInit, JobFits, PlanStands, Placing, NoJob
<1> QED BY <1>5, <1>6, <1>7 DEF LayoutInv

(* A request at rest, or one that ends, fits.                              *)
LEMMA NoJobFits == /\ NoJob \in ColumnJobs /\ NoJob.made = {} /\ NoJob.step = "idle"
                   /\ NoJob.op = "none" /\ NoJob.col = NoId /\ NoJob.next = NoId
<1>1. AnyName \in ColumnNames
  BY LayoutAssumption DEF AnyName
<1> QED BY <1>1 DEF NoJob, ColumnJobs, ColIds

(* A request that moves leaves the others' plans standing, unless it       *)
(* writes what they have read.                                             *)
LEMMA OthersStand ==
    ASSUME LayoutInv, NEW p \in Procs,
           LayoutTypeOK', ColumnPositionsDistinct', NoColumnWithoutBoard',
           \A q \in Procs \ {p} :
              /\ colJob'[q] = colJob[q]
              /\ boardLock = q => boardLock' = q
              /\ Placing(q) => colPos' = colPos /\ colRows' \subseteq colRows,
           colUsed \subseteq colUsed', JobFits(p)', PlanStands(p)'
    PROVE  LayoutInv'
<1>1. ASSUME NEW q \in Procs \ {p} PROVE JobFits(q)' /\ PlanStands(q)'
  <2>1. JobFits(q) /\ PlanStands(q) /\ colJob'[q] = colJob[q]
    BY DEF LayoutInv
  <2>2. JobFits(q)'
    BY <2>1 DEF JobFits
  <2>3. CASE ~ Placing(q)
    BY <2>1, <2>2, <2>3 DEF Placing, PlanStands
  <2>4. CASE Placing(q)
    <3>1. colPos' = colPos /\ colRows' \subseteq colRows /\ (boardLock = q => boardLock' = q)
      BY <2>4
    <3> QED BY <2>1, <2>2, <2>4, <3>1 DEF Placing, PlanStands
  <2> QED BY <2>3, <2>4
<1> QED BY <1>1 DEF LayoutInv

(* A request is admitted.                                                  *)
LEMMA Admits ==
    ASSUME LayoutInv, NEW p \in Procs,
           \/ ColumnCreate(p) \/ ColumnMove(p) \/ ColumnUpdate(p)
           \/ ColumnRemove(p) \/ BoardRemove(p)
    PROVE  LayoutInv'
<1>0. /\ colRows \subseteq ColIds /\ colUsed \cup {NoId} \subseteq ColIds /\ NoId \in ColIds
      /\ \A c \in colRows : colName[c] \in ColumnNames
  BY DEF LayoutInv, LayoutTypeOK, ColIds
<1>1. PICK job \in ColumnJobs :
         /\ AdmitColumn(p, job) /\ job.made = {}
         /\ ~ (job.step = "write" /\ job.op \in {"create", "defaults", "move"})
         /\ job.op = "create" => job.col = NoId /\ job.next = NoId
  <2>1. CASE ColumnCreate(p)
    <3>1. PICK after \in ColIds, op \in {"create", "defaults"} :
             AdmitColumn(p, [NoJob EXCEPT !.op = op, !.step = "lock", !.prev = after])
      BY <1>0, <2>1 DEF ColumnCreate
    <3> DEFINE j == [NoJob EXCEPT !.op = op, !.step = "lock",
                              !.prev = after]
    <3>2. j \in ColumnJobs /\ j.made = {} /\ j.step = "lock" /\ j.col = NoId /\ j.next = NoId
      BY NoJobFits DEF ColumnJobs
    <3> HIDE DEF j
    <3>3. AdmitColumn(p, j)
      BY <3>1 DEF j
    <3> QED BY <3>2, <3>3
  <2>2. CASE ColumnMove(p)
    <3>1. PICK c \in ColIds, before \in ColIds, after \in ColIds :
             AdmitColumn(p, [NoJob EXCEPT !.op = "move", !.step = "lock", !.col = c,
                                          !.prev = before, !.next = after])
      BY <1>0, <2>2 DEF ColumnMove
    <3> DEFINE j == [NoJob EXCEPT !.op = "move", !.step = "lock", !.col = c,
                              !.prev = before, !.next = after]
    <3>2. j \in ColumnJobs /\ j.made = {} /\ j.step = "lock" /\ j.op = "move"
      BY NoJobFits DEF ColumnJobs
    <3> HIDE DEF j
    <3>3. AdmitColumn(p, j)
      BY <3>1 DEF j
    <3> QED BY <3>2, <3>3
  <2>3. CASE ColumnUpdate(p)
    <3>1. PICK c \in ColIds, n \in ColumnNames, m \in ColumnNames :
             AdmitColumn(p, [NoJob EXCEPT !.op = "rename", !.step = "write", !.col = c,
                                          !.name = n, !.seen = m])
      BY <1>0, <2>3 DEF ColumnUpdate
    <3> DEFINE j == [NoJob EXCEPT !.op = "rename", !.step = "write", !.col = c,
                              !.name = n, !.seen = m]
    <3>2. j \in ColumnJobs /\ j.made = {} /\ j.op = "rename"
      BY NoJobFits DEF ColumnJobs
    <3> HIDE DEF j
    <3>3. AdmitColumn(p, j)
      BY <3>1 DEF j
    <3> QED BY <3>2, <3>3
  <2>4. CASE ColumnRemove(p)
    <3>1. PICK c \in ColIds :
             AdmitColumn(p, [NoJob EXCEPT !.op = "drop", !.step = "write", !.col = c])
      BY <1>0, <2>4 DEF ColumnRemove
    <3> DEFINE j == [NoJob EXCEPT !.op = "drop", !.step = "write", !.col = c]
    <3>2. j \in ColumnJobs /\ j.made = {} /\ j.op = "drop"
      BY NoJobFits DEF ColumnJobs
    <3> HIDE DEF j
    <3>3. AdmitColumn(p, j)
      BY <3>1 DEF j
    <3> QED BY <3>2, <3>3
  <2>5. CASE BoardRemove(p)
    <3> DEFINE j == [NoJob EXCEPT !.op = "dropBoard", !.step = "write"]
    <3>1. j \in ColumnJobs /\ j.made = {} /\ j.op = "dropBoard"
      BY NoJobFits DEF ColumnJobs
    <3>2. AdmitColumn(p, j)
      BY <2>5 DEF BoardRemove
    <3> QED BY <3>1, <3>2
  <2> QED BY <2>1, <2>2, <2>3, <2>4, <2>5
<1>2. /\ UNCHANGED <<boardLive, colPos, colRows, colName, colUsed, boardLock, colTrail, colRoom>>
      /\ colJob' = [colJob EXCEPT ![p] = job]
      /\ colRequests' \in 0 .. MaxRequests
  BY <1>1, PoolAssumption DEF AdmitColumn, layoutRows, LayoutInv, LayoutTypeOK
<1>3. colJob' \in [Procs -> ColumnJobs] /\ colJob'[p] = job
      /\ \A q \in Procs \ {p} : colJob'[q] = colJob[q]
  BY <1>2 DEF LayoutInv, LayoutTypeOK
<1>4. LayoutTypeOK'
  BY <1>2, <1>3 DEF LayoutInv, LayoutTypeOK
<1>5. ColumnPositionsDistinct' /\ NoColumnWithoutBoard'
  BY <1>2 DEF LayoutInv, ColumnPositionsDistinct, NoColumnWithoutBoard
<1>6. JobFits(p)' /\ PlanStands(p)'
  BY <1>1, <1>3 DEF JobFits, PlanStands, Placing
<1> QED BY <1>2, <1>3, <1>4, <1>5, <1>6, OthersStand

(* A transaction that writes nothing ends, whatever ended it.              *)
LEMMA Refuses ==
    ASSUME LayoutInv, NEW p \in Procs, ColumnRefused(p)
    PROVE  LayoutInv'
<1>1. /\ UNCHANGED <<boardLive, colPos, colRows, colName, colUsed, colTrail, colRoom, colRequests>>
      /\ colJob' = [colJob EXCEPT ![p] = NoJob] /\ boardLock' = FreedLock(p)
  BY DEF ColumnRefused, layoutRows
<1>2. /\ boardLock' \in Procs \cup {NoProc}
      /\ \A q \in Procs \ {p} : boardLock = q => boardLock' = q
      /\ boardLock = NoProc => boardLock' = NoProc
  BY <1>1 DEF FreedLock, LayoutInv, LayoutTypeOK
<1>3. /\ colJob' \in [Procs -> ColumnJobs] /\ colJob'[p] = NoJob
      /\ \A q \in Procs \ {p} : colJob'[q] = colJob[q]
  BY <1>1, NoJobFits DEF LayoutInv, LayoutTypeOK
<1>4. LayoutTypeOK'
  BY <1>1, <1>2, <1>3 DEF LayoutInv, LayoutTypeOK
<1>5. ColumnPositionsDistinct' /\ NoColumnWithoutBoard'
  BY <1>1, <1>2 DEF LayoutInv, ColumnPositionsDistinct, NoColumnWithoutBoard
<1>6. JobFits(p)' /\ PlanStands(p)'
  BY <1>3, NoJobFits DEF JobFits, PlanStands, Placing
<1> QED BY <1>1, <1>2, <1>3, <1>4, <1>5, <1>6, OthersStand

(* A create, a move or a seeding gets the board and reads its columns.     *)
LEMMA Locks ==
    ASSUME LayoutInv, NEW p \in Procs, LockBoard(p)
    PROVE  LayoutInv'
<1>1. PICK job : job = colJob[p]
  OBVIOUS
<1>2. PICK prev \in ColIds, next \in ColIds :
         /\ IF job.op = "defaults" THEN prev = NoId /\ next = NoId
            ELSE ResolvedColumn(job, prev, next)
         /\ colJob' = [colJob EXCEPT ![p].step = "write", ![p].slotPrev = prev,
                          ![p].slotNext = next, ![p].siblings = ColumnSiblings(job)]
  BY <1>1 DEF LockBoard
<1>3. /\ UNCHANGED <<boardLive, colPos, colRows, colName, colUsed, colTrail, colRoom, colRequests>>
      /\ boardLock' = p /\ boardLock = NoProc /\ boardLive
      /\ job.op = "defaults" => colRows = {}
  BY <1>1 DEF LockBoard, layoutRows, ColumnAdmissible
<1>4. job \in ColumnJobs /\ JobFits(p) /\ colRows \subseteq ColumnIds
  BY <1>1 DEF LayoutInv, LayoutTypeOK
<1>5. /\ colJob'[p] = [job EXCEPT !.step = "write", !.slotPrev = prev,
                                  !.slotNext = next, !.siblings = ColumnSiblings(job)]
      /\ \A q \in Procs \ {p} : colJob'[q] = colJob[q]
      /\ colJob' \in [Procs -> ColumnJobs]
  <2>1. ColumnSiblings(job) \subseteq ColumnIds
    BY <1>4 DEF ColumnSiblings
  <2>2. [job EXCEPT !.step = "write", !.slotPrev = prev, !.slotNext = next,
                    !.siblings = ColumnSiblings(job)] \in ColumnJobs
    BY <1>4, <2>1 DEF ColumnJobs
  <2> QED BY <1>1, <1>2, <2>2 DEF LayoutInv, LayoutTypeOK
<1>6. LayoutTypeOK'
  BY <1>3, <1>5 DEF LayoutInv, LayoutTypeOK
<1>7. ColumnPositionsDistinct' /\ NoColumnWithoutBoard'
  BY <1>3 DEF LayoutInv, ColumnPositionsDistinct, NoColumnWithoutBoard
<1>8. PICK new : new = colJob'[p]
  OBVIOUS
<1>9. /\ new.step = "write" /\ new.slotPrev = prev /\ new.slotNext = next
      /\ new.siblings = colRows \ {job.col} /\ new.op = job.op /\ new.col = job.col
      /\ new.prev = job.prev /\ new.next = job.next /\ new.made = job.made
  BY <1>4, <1>5, <1>8 DEF ColumnJobs, ColumnSiblings
<1>10. JobFits(p)'
  BY <1>1, <1>3, <1>4, <1>8, <1>9 DEF JobFits
<1>11. ASSUME job.op \in {"create", "move"}
       PROVE  /\ IsSlot(new.siblings, colPos, prev, next)
              /\ job.prev # NoId => prev = job.prev
              /\ job.next # NoId => next = job.next
  <2>1. ResolvedColumn(job, prev, next)
    BY <1>2, <1>11
  <2>2. CASE job.op = "move"
    BY <1>9, <2>1, <2>2 DEF ResolvedColumn, resolveMoveNeighbors, ColumnSiblings
  <2>3. CASE job.op = "create"
    <3>1. job.next = NoId
      BY <1>1, <1>4, <2>3 DEF JobFits
    <3> QED BY <1>9, <2>1, <2>3, <3>1 DEF ResolvedColumn, resolveCreateNeighbors, ColumnSiblings
  <2> QED BY <1>11, <2>2, <2>3
<1>12. PlanStands(p)'
  BY <1>3, <1>8, <1>9, <1>11 DEF PlanStands, Placing
<1>13. \A q \in Procs \ {p} : boardLock # q
  BY <1>3, PoolAssumption
<1> QED BY <1>3, <1>5, <1>6, <1>7, <1>10, <1>12, <1>13, OthersStand

-----------------------------------------------------------------------------
(* Where a placement puts its column: between the two sides of its slot,   *)
(* the others in the order they had.                                       *)
LEMMA PlacementIs ==
    ASSUME LayoutInv, NEW p \in Procs, Placing(p), colJob[p].op # "defaults",
           NEW c \in ColumnIds, colRows \ {c} \subseteq colRows \ {colJob[p].col},
           NEW P, P = PlacedPositions(colJob[p], c)
    PROVE  /\ P \in [ColumnIds -> Int]
           /\ \A x \in colRows \ {c} :
                 /\ LeftOf(colPos, x, colJob[p].slotPrev) => P[x] < P[c]
                 /\ ~ LeftOf(colPos, x, colJob[p].slotPrev) => P[c] < P[x]
           /\ \A x, y \in colRows \ {c} : Before(colPos, x, y) => P[x] < P[y]
<1>1. PICK S, prev, next : S = colJob[p].siblings /\ prev = colJob[p].slotPrev /\ next = colJob[p].slotNext
  OBVIOUS
<1>2. /\ IsSlot(S, colPos, prev, next) /\ colRows \ {c} \subseteq S
      /\ S \subseteq ColumnIds /\ colPos \in [ColumnIds -> Int]
      /\ colRows \subseteq ColumnIds
  BY <1>1 DEF LayoutInv, PlanStands, LayoutTypeOK, ColumnJobs
<1>3. IsFiniteSet(S) /\ ColumnIds \in SUBSET (Nat \ {NoId})
  BY <1>2, LayoutAssumption, FS_Subset
<1>4. \A x, y \in colRows \ {c} : Before(colPos, x, y) => colPos[x] < colPos[y]
  <2> SUFFICES ASSUME NEW x \in colRows, NEW y \in colRows, Before(colPos, x, y)
               PROVE  colPos[x] < colPos[y]
    OBVIOUS
  <2>1. x # y
    BY <1>2, <1>3, BeforeOrder
  <2> QED BY <2>1 DEF Before, LayoutInv, ColumnPositionsDistinct
<1>5. CASE needsRebalance(colPos, prev, next)
  <2>1. /\ rebalancedRow(S, colPos, prev) \in Int
        /\ \A x \in S : rebalancedSibling(S, colPos, prev, x) \in Int
        /\ \A x, y \in S : Before(colPos, x, y) =>
              rebalancedSibling(S, colPos, prev, x) < rebalancedSibling(S, colPos, prev, y)
        /\ \A x \in S : LeftOf(colPos, x, prev) =>
              rebalancedSibling(S, colPos, prev, x) < rebalancedRow(S, colPos, prev)
        /\ \A x \in S : ~ LeftOf(colPos, x, prev) =>
              rebalancedRow(S, colPos, prev) < rebalancedSibling(S, colPos, prev, x)
    BY <1>2, <1>3, RebalanceOpensSlot
  <2>2. P = [x \in ColumnIds |->
               IF x = c THEN rebalancedRow(S, colPos, prev)
               ELSE IF x \in S \cap colRows
               THEN rebalancedSibling(S, colPos, prev, x)
               ELSE colPos[x]]
    BY <1>1, <1>5 DEF PlacedPositions
  <2>3. P[c] = rebalancedRow(S, colPos, prev)
    BY <2>2
  <2>4. \A x \in colRows \ {c} : x \in S /\ P[x] = rebalancedSibling(S, colPos, prev, x)
    BY <1>2, <2>2
  <2>5. P \in [ColumnIds -> Int]
    BY <1>2, <2>1, <2>2
  <2> QED BY <1>1, <2>1, <2>3, <2>4, <2>5
<1>6. CASE ~ needsRebalance(colPos, prev, next)
  <2>1. /\ midpoint(colPos, prev, next) \in Int
        /\ \A x \in S : LeftOf(colPos, x, prev) => colPos[x] < midpoint(colPos, prev, next)
        /\ \A x \in S : ~ LeftOf(colPos, x, prev) => midpoint(colPos, prev, next) < colPos[x]
    BY <1>2, <1>3, <1>6, MidpointInSlot
  <2>2. P = [colPos EXCEPT ![c] = midpoint(colPos, prev, next)]
    BY <1>1, <1>6 DEF PlacedPositions
  <2>3. P[c] = midpoint(colPos, prev, next) /\ \A x \in ColumnIds \ {c} : P[x] = colPos[x]
    BY <1>2, <2>2
  <2>4. P \in [ColumnIds -> Int]
    BY <1>2, <2>1, <2>2
  <2> QED BY <1>1, <1>2, <1>4, <2>1, <2>3, <2>4
<1> QED BY <1>5, <1>6

(* A request goes on past its transaction.                                 *)
LEMMA EndsTx ==
    ASSUME LayoutInv, NEW p \in Procs, NEW step \in {"record", "emit"},
           NEW made \in SUBSET ColumnIds, EndColumnTx(p, step, made)
    PROVE  /\ colJob' \in [Procs -> ColumnJobs]
           /\ colJob'[p].made = made /\ colJob'[p].step = step
           /\ colJob'[p].op = colJob[p].op /\ colJob'[p].col = colJob[p].col
           /\ colJob'[p].next = colJob[p].next
           /\ \A q \in Procs \ {p} : colJob'[q] = colJob[q]
           /\ boardLock' \in Procs \cup {NoProc}
           /\ \A q \in Procs \ {p} : boardLock = q => boardLock' = q
           /\ boardLock = NoProc => boardLock' = NoProc
           /\ UNCHANGED <<colRoom, colRequests>>
<1>1. /\ boardLock' = FreedLock(p) /\ UNCHANGED <<colRoom, colRequests>>
      /\ colJob' = [colJob EXCEPT ![p].step = step, ![p].siblings = {},
                        ![p].slotPrev = NoId, ![p].slotNext = NoId, ![p].made = made]
  BY DEF EndColumnTx
<1>2. PICK job \in ColumnJobs : job = colJob[p]
  BY DEF LayoutInv, LayoutTypeOK
<1>3. /\ colJob'[p] = [job EXCEPT !.step = step, !.siblings = {}, !.slotPrev = NoId,
                                  !.slotNext = NoId, !.made = made]
      /\ \A q \in Procs \ {p} : colJob'[q] = colJob[q]
  BY <1>1, <1>2 DEF LayoutInv, LayoutTypeOK
<1>4. PICK new : new = colJob'[p]
  OBVIOUS
<1>5. /\ new \in ColumnJobs /\ new.made = made /\ new.step = step /\ new.op = job.op
      /\ new.col = job.col /\ new.next = job.next
  BY <1>2, <1>3, <1>4 DEF ColumnJobs, ColIds
<1>6. colJob' \in [Procs -> ColumnJobs]
  BY <1>1, <1>4, <1>5 DEF LayoutInv, LayoutTypeOK
<1>7. /\ boardLock' \in Procs \cup {NoProc}
      /\ \A q \in Procs \ {p} : boardLock = q => boardLock' = q
      /\ boardLock = NoProc => boardLock' = NoProc
  BY <1>1 DEF FreedLock, LayoutInv, LayoutTypeOK
<1> QED BY <1>1, <1>2, <1>3, <1>4, <1>5, <1>6, <1>7

(* New ids are ids nobody has had.                                         *)
LEMMA NewIdsAre == ASSUME NEW n PROVE NewIds(n) \subseteq ColumnIds \ colUsed
BY DEF NewIds

(* A column is created between the ones it was to go between, or moved.    *)
LEMMA ColumnPlaces ==
    ASSUME LayoutInv, NEW p \in Procs, CommitCreate(p) \/ CommitMove(p)
    PROVE  LayoutInv' /\ Placing(p) /\ colJob[p].op # "defaults"
           /\ \E c \in ColumnIds : /\ colPos' = PlacedPositions(colJob[p], c)
                                  /\ colRows \ {c} \subseteq colRows \ {colJob[p].col}
                                  /\ colRows' = colRows \cup {c} /\ colJob'[p].made = {c}
<1>1. PICK c \in ColumnIds, step \in {"record", "emit"} :
         /\ colPos' = PlacedPositions(colJob[p], c)
         /\ colRows' = colRows \cup {c} /\ colUsed' = colUsed \cup {c}
         /\ colRows \ {c} \subseteq colRows \ {colJob[p].col}
         /\ EndColumnTx(p, step, {c})
  <2>1. CASE CommitCreate(p)
    <3>1. PICK c \in NewIds(1) :
             /\ colJob[p].op = "create"
             /\ colPos' = PlacedPositions(colJob[p], c)
             /\ colRows' = colRows \cup {c} /\ colUsed' = colUsed \cup {c}
             /\ EndColumnTx(p, "record", {c})
      BY <2>1 DEF CommitCreate
    <3>2. c \in ColumnIds /\ colRows \subseteq ColumnIds
      BY <3>1, NewIdsAre DEF LayoutInv, LayoutTypeOK
    <3>3. colJob[p].col = NoId /\ NoId \notin ColumnIds
      BY <3>1, LayoutAssumption DEF LayoutInv, JobFits
    <3> QED BY <3>1, <3>2, <3>3
  <2>2. CASE CommitMove(p)
    <3>1. /\ colJob[p].col \in colRows
          /\ colPos' = PlacedPositions(colJob[p], colJob[p].col)
          /\ colRows' = colRows /\ colUsed' = colUsed
          /\ EndColumnTx(p, "emit", {colJob[p].col})
      BY <2>2 DEF CommitMove
    <3>2. colRows \subseteq colUsed /\ colUsed \subseteq ColumnIds
      BY DEF LayoutInv, LayoutTypeOK
    <3> QED BY <3>1, <3>2
  <2> QED BY <2>1, <2>2
<1>2. /\ Placing(p) /\ colJob[p].op \in {"create", "move"}
      /\ UNCHANGED <<boardLive, colName, colTrail>>
  BY DEF CommitCreate, CommitMove, Placing
<1>3. /\ colPos' \in [ColumnIds -> Int]
      /\ \A x \in colRows \ {c} :
            /\ LeftOf(colPos, x, colJob[p].slotPrev) => colPos'[x] < colPos'[c]
            /\ ~ LeftOf(colPos, x, colJob[p].slotPrev) => colPos'[c] < colPos'[x]
      /\ \A x, y \in colRows \ {c} : Before(colPos, x, y) => colPos'[x] < colPos'[y]
  BY <1>1, <1>2, PlacementIs
<1>4. /\ colRows \subseteq colUsed /\ colUsed \subseteq ColumnIds
      /\ colPos \in [ColumnIds -> Int] /\ ColumnIds \in SUBSET (Nat \ {NoId})
  BY LayoutAssumption DEF LayoutInv, LayoutTypeOK
<1>5. ColumnPositionsDistinct'
  <2> SUFFICES ASSUME NEW x \in colRows', NEW y \in colRows', x # y
               PROVE  colPos'[x] # colPos'[y]
    BY DEF ColumnPositionsDistinct
  <2>1. x \in ColumnIds /\ y \in ColumnIds /\ colPos'[x] \in Int /\ colPos'[y] \in Int
    BY <1>1, <1>3, <1>4
  <2>2. ASSUME NEW z \in colRows \ {c} PROVE colPos'[z] # colPos'[c]
    <3>1. colPos'[z] \in Int /\ colPos'[c] \in Int
      BY <1>1, <1>3, <1>4
    <3> QED BY <1>3, <3>1
  <2>3. CASE x \in colRows \ {c} /\ y \in colRows \ {c}
    <3>1. Before(colPos, x, y) \/ Before(colPos, y, x)
      BY <1>4, <2>1, BeforeOrder
    <3> QED BY <1>3, <2>1, <2>3, <3>1
  <2>4. CASE x = c \/ y = c
    BY <1>1, <2>2, <2>4
  <2> QED BY <1>1, <2>3, <2>4
<1>6. PlanStands(p) /\ boardLock = p /\ boardLive
  BY <1>2, PoolAssumption DEF LayoutInv, PlanStands, NoColumnWithoutBoard, LayoutTypeOK
<1>7. NoColumnWithoutBoard'
  BY <1>2, <1>6 DEF NoColumnWithoutBoard
<1>8. /\ colJob' \in [Procs -> ColumnJobs]
      /\ colJob'[p].made = {c} /\ colJob'[p].step = step
      /\ colJob'[p].op = colJob[p].op /\ colJob'[p].col = colJob[p].col
      /\ colJob'[p].next = colJob[p].next
      /\ \A q \in Procs \ {p} : colJob'[q] = colJob[q]
      /\ boardLock' \in Procs \cup {NoProc}
      /\ \A q \in Procs \ {p} : boardLock = q => boardLock' = q
      /\ UNCHANGED <<colRoom, colRequests>>
  BY <1>1, EndsTx
<1>9. LayoutTypeOK'
  BY <1>1, <1>2, <1>3, <1>4, <1>8 DEF LayoutInv, LayoutTypeOK
<1>10. JobFits(p)' /\ PlanStands(p)'
  <2>1. JobFits(p)
    BY DEF LayoutInv
  <2>2. JobFits(p)'
    BY <1>1, <1>8, <2>1 DEF JobFits
  <2>3. ~ Placing(p)'
    BY <1>8 DEF Placing
  <2> QED BY <2>2, <2>3 DEF PlanStands, Placing
<1>11. \A q \in Procs \ {p} : ~ Placing(q)
  BY <1>6 DEF LayoutInv, PlanStands
<1>12. LayoutInv'
  BY <1>1, <1>5, <1>7, <1>8, <1>9, <1>10, <1>11, OthersStand
<1> QED BY <1>1, <1>2, <1>8, <1>12

(* The default columns: the board they are written to is empty.            *)
LEMMA Seeds ==
    ASSUME LayoutInv, NEW p \in Procs, CommitDefaults(p)
    PROVE  LayoutInv' /\ colRows = {}
<1>1. PICK S : S = NewIds(DefaultCount)
  OBVIOUS
<1>2. /\ Placing(p) /\ colJob[p].op = "defaults"
      /\ colRows' = colRows \cup S /\ colUsed' = colUsed \cup S
      /\ colPos' = [x \in ColumnIds |->
                      IF x \in S THEN Cardinality({y \in S : y <= x}) * POSITION_GAP
                      ELSE colPos[x]]
      /\ colTrail' = colTrail \cup ({"created"} \X S)
      /\ UNCHANGED <<boardLive, colName>>
      /\ EndColumnTx(p, "emit", S)
  BY <1>1 DEF CommitDefaults, Placing
<1>3. /\ boardLock = p /\ colRows = {} /\ boardLive
  BY <1>2, PoolAssumption DEF LayoutInv, PlanStands, NoColumnWithoutBoard
<1>4. S \subseteq ColumnIds /\ IsFiniteSet(S) /\ ColumnIds \subseteq Nat
  BY <1>1, NewIdsAre, LayoutAssumption, FS_Subset
<1> DEFINE Upto(x) == {y \in S : y <= x}
<1>5. \A x \in S : IsFiniteSet(Upto(x)) /\ Cardinality(Upto(x)) \in Nat
  BY <1>4, FS_Subset, FS_CardinalityType
<1>6. \A x \in S : colPos'[x] = Cardinality(Upto(x)) * POSITION_GAP
  BY <1>2, <1>4
<1>7. ASSUME NEW x \in S, NEW y \in S, x < y PROVE colPos'[x] < colPos'[y]
  <2>0. x \in Nat /\ y \in Nat /\ \A z \in S : z \in Nat
    BY <1>4
  <2>1a. \A z \in S : z <= x => z <= y
    BY <1>7, <2>0
  <2>1b. y <= y /\ ~ (y <= x)
    BY <1>7, <2>0
  <2>1. Upto(x) \subseteq Upto(y) /\ y \in Upto(y) /\ y \notin Upto(x)
    BY <2>1a, <2>1b
  <2> HIDE DEF Upto
  <2>2. Cardinality(Upto(x)) < Cardinality(Upto(y))
    <3>1. Upto(x) # Upto(y)
      BY <2>1
    <3>2. IsFiniteSet(Upto(y)) /\ Cardinality(Upto(x)) \in Nat /\ Cardinality(Upto(y)) \in Nat
      BY <1>5
    <3> QED BY <2>1, <3>1, <3>2, FS_Subset
  <2> QED BY <1>5, <1>6, <2>2, GapMonotone
<1>8. colPos' \in [ColumnIds -> Int]
  <2>1. \A x \in S : Cardinality(Upto(x)) * POSITION_GAP \in Int
    BY <1>5, GapAssumption
  <2> QED BY <1>2, <2>1 DEF LayoutInv, LayoutTypeOK
<1> HIDE DEF Upto
<1>9. ColumnPositionsDistinct'
  <2> SUFFICES ASSUME NEW x \in colRows', NEW y \in colRows', x # y
               PROVE  colPos'[x] # colPos'[y]
    BY DEF ColumnPositionsDistinct
  <2>1. x \in S /\ y \in S
    BY <1>2, <1>3
  <2>2. colPos'[x] \in Int /\ colPos'[y] \in Int /\ x \in Nat /\ y \in Nat
    BY <1>4, <1>8, <2>1
  <2>3. CASE x < y
    BY <1>7, <2>1, <2>2, <2>3
  <2>4. CASE y < x
    BY <1>7, <2>1, <2>2, <2>4
  <2> QED BY <2>2, <2>3, <2>4
<1>10. /\ colJob' \in [Procs -> ColumnJobs]
       /\ colJob'[p].made = S /\ colJob'[p].step = "emit"
       /\ colJob'[p].op = colJob[p].op /\ colJob'[p].col = colJob[p].col
       /\ colJob'[p].next = colJob[p].next
       /\ \A q \in Procs \ {p} : colJob'[q] = colJob[q]
       /\ boardLock' \in Procs \cup {NoProc}
       /\ \A q \in Procs \ {p} : boardLock = q => boardLock' = q
       /\ UNCHANGED <<colRoom, colRequests>>
  BY <1>2, <1>4, EndsTx
<1>11. LayoutTypeOK'
  BY <1>2, <1>4, <1>8, <1>10 DEF LayoutInv, LayoutTypeOK
<1>12. NoColumnWithoutBoard'
  BY <1>2, <1>3 DEF NoColumnWithoutBoard
<1>13. JobFits(p)' /\ PlanStands(p)'
  BY <1>2, <1>10 DEF JobFits, PlanStands, Placing, LayoutInv
<1>14. \A q \in Procs \ {p} : ~ Placing(q)
  BY <1>3 DEF LayoutInv, PlanStands
<1> QED BY <1>2, <1>3, <1>9, <1>10, <1>11, <1>12, <1>13, <1>14, OthersStand

(* A rename and a removal hold no lock; a removal only takes columns away. *)
LEMMA ColumnUnlocked ==
    ASSUME LayoutInv, NEW p \in Procs, CommitRename(p) \/ CommitDrop(p)
    PROVE  LayoutInv'
<1>1. PICK c : c = colJob[p].col
  OBVIOUS
<1>2. /\ c \in colRows /\ c \in colUsed /\ c \in ColumnIds
      /\ colRows' \subseteq colRows /\ EndColumnTx(p, "emit", {c})
      /\ UNCHANGED <<boardLive, colPos, colUsed>>
      /\ colTrail' \subseteq {"created", "deleted"} \X colUsed
      /\ colName' \in [ColumnIds -> ColumnNames]
  <2>1. /\ colRows \subseteq colUsed /\ colUsed \subseteq ColumnIds
        /\ colName \in [ColumnIds -> ColumnNames] /\ colJob[p].name \in ColumnNames
        /\ colTrail \subseteq {"created", "deleted"} \X colUsed
    BY DEF LayoutInv, LayoutTypeOK, ColumnJobs
  <2>2. CASE CommitRename(p)
    BY <1>1, <2>1, <2>2 DEF CommitRename
  <2>3. CASE CommitDrop(p)
    <3>1. /\ c \in colRows /\ colRows' = colRows \ {c} /\ EndColumnTx(p, "emit", {c})
          /\ UNCHANGED <<boardLive, colPos, colUsed, colName>>
          /\ colTrail' = colTrail \cup {<<"deleted", c>>}
      BY <1>1, <2>3 DEF CommitDrop
    <3> QED BY <2>1, <3>1
  <2> QED BY <2>2, <2>3
<1>3. colJob[p].op \notin {"create", "defaults", "move"}
  BY DEF CommitRename, CommitDrop
<1>4. /\ colJob' \in [Procs -> ColumnJobs]
      /\ colJob'[p].made = {c} /\ colJob'[p].step = "emit"
      /\ colJob'[p].op = colJob[p].op
      /\ \A q \in Procs \ {p} : colJob'[q] = colJob[q]
      /\ boardLock' \in Procs \cup {NoProc}
      /\ \A q \in Procs \ {p} : boardLock = q => boardLock' = q
      /\ boardLock = NoProc => boardLock' = NoProc
      /\ UNCHANGED <<colRoom, colRequests>>
  BY <1>2, EndsTx
<1>5. LayoutTypeOK'
  BY <1>2, <1>4 DEF LayoutInv, LayoutTypeOK
<1>6. ColumnPositionsDistinct' /\ NoColumnWithoutBoard'
  <2>1. ColumnPositionsDistinct'
    BY <1>2 DEF LayoutInv, ColumnPositionsDistinct
  <2>2. NoColumnWithoutBoard'
    BY <1>2, <1>4 DEF LayoutInv, NoColumnWithoutBoard
  <2> QED BY <2>1, <2>2
<1>7. JobFits(p)' /\ PlanStands(p)'
  BY <1>2, <1>3, <1>4 DEF JobFits, PlanStands, Placing
<1> QED BY <1>2, <1>4, <1>5, <1>6, <1>7, OthersStand

(* The board goes with its columns, once nobody holds it.                  *)
LEMMA DropsBoard ==
    ASSUME LayoutInv, NEW p \in Procs, CommitDropBoard(p)
    PROVE  LayoutInv'
<1>1. /\ boardLock = NoProc /\ boardLive' = FALSE /\ colRows' = {}
      /\ colJob' = [colJob EXCEPT ![p] = NoJob]
      /\ UNCHANGED <<colPos, colName, colUsed, boardLock, colTrail, colRoom, colRequests>>
  BY DEF CommitDropBoard
<1>2. /\ colJob' \in [Procs -> ColumnJobs] /\ colJob'[p] = NoJob
      /\ \A q \in Procs \ {p} : colJob'[q] = colJob[q]
  BY <1>1, NoJobFits DEF LayoutInv, LayoutTypeOK
<1>3. LayoutTypeOK'
  BY <1>1, <1>2 DEF LayoutInv, LayoutTypeOK
<1>4. ColumnPositionsDistinct' /\ NoColumnWithoutBoard'
  BY <1>1 DEF ColumnPositionsDistinct, NoColumnWithoutBoard
<1>5. JobFits(p)' /\ PlanStands(p)'
  BY <1>2, NoJobFits DEF JobFits, PlanStands, Placing
<1> QED BY <1>1, <1>2, <1>3, <1>4, <1>5, OthersStand

(* What follows the transaction: the activity row and the event.           *)
LEMMA Tells ==
    ASSUME LayoutInv, NEW p \in Procs, RecordCreate(p) \/ EmitChanged(p)
    PROVE  LayoutInv'
<1>0. /\ colJob[p] \in ColumnJobs /\ JobFits(p)
      /\ colTrail \subseteq {"created", "deleted"} \X colUsed /\ colRoom \subseteq colUsed
  BY DEF LayoutInv, LayoutTypeOK
<1>1. PICK job \in ColumnJobs :
         /\ colJob' = [colJob EXCEPT ![p] = job]
         /\ job.made \subseteq colUsed /\ job.step # "write"
         /\ job.op = "create" => job.col = NoId /\ job.next = NoId
  <2>1. CASE RecordCreate(p)
    <3> DEFINE j == [colJob[p] EXCEPT !.step = "emit"]
    <3>1. /\ j \in ColumnJobs /\ j.made = colJob[p].made /\ j.step = "emit" /\ j.op = colJob[p].op
          /\ j.col = colJob[p].col /\ j.next = colJob[p].next
      BY <1>0 DEF ColumnJobs
    <3>2. colJob' = [colJob EXCEPT ![p] = j]
      <4>1. colJob' = [colJob EXCEPT ![p].step = "emit"]
        BY <2>1 DEF RecordCreate
      <4> QED BY <4>1
    <3> HIDE DEF j
    <3> QED BY <1>0, <3>1, <3>2 DEF JobFits
  <2>2. CASE EmitChanged(p)
    <3>1. colJob' = [colJob EXCEPT ![p] = NoJob]
      BY <2>2 DEF EmitChanged
    <3>2. NoJob.made \subseteq colUsed /\ NoJob.step # "write" /\ NoJob.op # "create"
      BY NoJobFits
    <3> QED BY <3>1, <3>2, NoJobFits
  <2> QED BY <2>1, <2>2
<1>2. /\ UNCHANGED <<boardLive, colPos, colRows, colName, colUsed, boardLock, colRequests>>
      /\ colTrail' \subseteq {"created", "deleted"} \X colUsed /\ colRoom' \subseteq colUsed
  BY <1>0 DEF RecordCreate, EmitChanged, layoutRows, JobFits
<1>3. /\ colJob' \in [Procs -> ColumnJobs] /\ colJob'[p] = job
      /\ \A q \in Procs \ {p} : colJob'[q] = colJob[q]
  BY <1>1 DEF LayoutInv, LayoutTypeOK
<1>4. LayoutTypeOK'
  BY <1>2, <1>3 DEF LayoutInv, LayoutTypeOK
<1>5. ColumnPositionsDistinct' /\ NoColumnWithoutBoard'
  BY <1>2 DEF LayoutInv, ColumnPositionsDistinct, NoColumnWithoutBoard
<1>6. JobFits(p)' /\ PlanStands(p)'
  BY <1>1, <1>2, <1>3 DEF JobFits, PlanStands, Placing
<1> QED BY <1>2, <1>3, <1>4, <1>5, <1>6, OthersStand

(* Every step on a board keeps the invariant.                              *)
LEMMA NextLayout == LayoutInv /\ [LayoutNext]_layoutVars => LayoutInv'
<1> SUFFICES ASSUME LayoutInv, [LayoutNext]_layoutVars PROVE LayoutInv'
  OBVIOUS
<1>1. CASE UNCHANGED layoutVars
  <2>1. UNCHANGED <<boardLive, colPos, colRows, colName, colUsed, boardLock, colJob,
                    colTrail, colRoom, colRequests>>
    BY <1>1 DEF layoutVars
  <2> QED BY <2>1 DEF LayoutInv, LayoutTypeOK, ColumnPositionsDistinct, NoColumnWithoutBoard,
                      JobFits, PlanStands, Placing
<1>2. ASSUME NEW p \in Procs, RefuseColumn(p) \/ ColumnGone(p) \/ ColumnAbort(p)
      PROVE  LayoutInv'
  <2>1. ColumnRefused(p)
    BY <1>2 DEF RefuseColumn, ColumnGone, ColumnAbort
  <2> QED BY <2>1, Refuses
<1> QED BY <1>1, <1>2, Admits, Locks, ColumnPlaces, Seeds, ColumnUnlocked, DropsBoard, Tells DEF LayoutNext

(* However creates, moves, seedings, renames and removals of columns, and  *)
(* the removal of the board itself, overlap, fail or die: no two columns   *)
(* share a position, and no column and no lock outlives the board          *)
(* (column.service.ts, BoardService.remove).                               *)
THEOREM LayoutStaysSound == LayoutSpec => []LayoutSound
<1>1. LayoutInv => LayoutSound
  BY DEF LayoutInv, LayoutSound
<1> QED BY <1>1, InitLayout, NextLayout, PTL DEF LayoutSpec

-----------------------------------------------------------------------------
(* Only the three commits place columns.                                   *)
LEMMA ColumnPlacingSteps ==
    ASSUME LayoutInv, LayoutNext, NEW p \in Procs, NEW op \in {"create", "move", "defaults"},
           CommitsColumn(p, op)
    PROVE  IF op = "defaults" THEN CommitDefaults(p) ELSE CommitCreate(p) \/ CommitMove(p)
<1>1. /\ colJob[p].op = op /\ colJob[p].step = "write" /\ colJob'[p].step \in {"record", "emit"}
      /\ colJob[p].step # colJob'[p].step
  BY DEF CommitsColumn
<1>2. PICK q \in Procs :
         \/ ColumnCreate(q) \/ ColumnMove(q) \/ ColumnUpdate(q) \/ ColumnRemove(q)
         \/ BoardRemove(q) \/ LockBoard(q) \/ RefuseColumn(q)
         \/ CommitCreate(q) \/ CommitDefaults(q) \/ CommitMove(q) \/ CommitRename(q)
         \/ CommitDrop(q) \/ CommitDropBoard(q) \/ ColumnGone(q)
         \/ RecordCreate(q) \/ EmitChanged(q) \/ ColumnAbort(q)
  BY DEF LayoutNext
<1>3. colJob \in [Procs -> ColumnJobs]
  BY DEF LayoutInv, LayoutTypeOK
<1>4. \A job : AdmitColumn(q, job) => q # p /\ colJob'[p] = colJob[p]
  BY <1>1, <1>3 DEF AdmitColumn
<1>5. CASE ColumnCreate(q) \/ ColumnMove(q) \/ ColumnUpdate(q) \/ ColumnRemove(q) \/ BoardRemove(q)
  BY <1>1, <1>4, <1>5 DEF ColumnCreate, ColumnMove, ColumnUpdate, ColumnRemove, BoardRemove
<1>6. CASE RefuseColumn(q) \/ ColumnGone(q) \/ ColumnAbort(q) \/ CommitDropBoard(q) \/ EmitChanged(q)
  <2>1. colJob' = [colJob EXCEPT ![q] = NoJob]
    BY <1>6 DEF RefuseColumn, ColumnGone, ColumnAbort, CommitDropBoard, EmitChanged, ColumnRefused
  <2>2. colJob'[p] = NoJob \/ colJob'[p] = colJob[p]
    BY <1>3, <2>1
  <2> QED BY <1>1, <2>2, NoJobFits
<1>7. CASE LockBoard(q) \/ RecordCreate(q)
  <2>1. colJob[q].step # "write" /\ \A r \in Procs \ {q} : colJob'[r] = colJob[r]
    BY <1>3, <1>7 DEF LockBoard, RecordCreate
  <2> QED BY <1>1, <2>1
<1>8. CASE CommitRename(q) \/ CommitDrop(q) \/ CommitCreate(q) \/ CommitMove(q) \/ CommitDefaults(q)
  <2>1. \A r \in Procs \ {q} : colJob'[r] = colJob[r]
    BY <1>3, <1>8 DEF CommitRename, CommitDrop, CommitCreate, CommitMove, CommitDefaults, EndColumnTx
  <2>2. q = p
    BY <1>1, <2>1
  <2> QED BY <1>1, <1>8, <2>2 DEF CommitRename, CommitDrop, CommitCreate, CommitMove, CommitDefaults
<1> QED BY <1>2, <1>5, <1>6, <1>7, <1>8

(* So a column lands between the neighbours its request named.             *)
LEMMA PlacedLands ==
    ASSUME LayoutInv, NEW p \in Procs, CommitCreate(p) \/ CommitMove(p)
    PROVE  LandsBetween(p)
<1>1. /\ Placing(p) /\ colJob[p].op # "defaults" /\ LayoutInv'
      /\ \E x \in ColumnIds : /\ colPos' = PlacedPositions(colJob[p], x)
                             /\ colRows \ {x} \subseteq colRows \ {colJob[p].col}
                             /\ colJob'[p].made = {x}
  BY ColumnPlaces
<1>2. PICK c \in ColumnIds : /\ colPos' = PlacedPositions(colJob[p], c)
                             /\ colRows \ {c} \subseteq colRows \ {colJob[p].col}
                             /\ colJob'[p].made = {c}
  BY <1>1
<1>3. PICK S, prev, next, left, right :
         /\ S = colJob[p].siblings /\ prev = colJob[p].slotPrev /\ next = colJob[p].slotNext
         /\ left = colJob[p].prev /\ right = colJob[p].next
  OBVIOUS
<1>4. PICK others : others = colRows \ {c}
  OBVIOUS
<1>5. /\ colPos' \in [ColumnIds -> Int]
      /\ \A x \in others : /\ LeftOf(colPos, x, prev) => colPos'[x] < colPos'[c]
                           /\ ~ LeftOf(colPos, x, prev) => colPos'[c] < colPos'[x]
      /\ \A x, y \in others : Before(colPos, x, y) => colPos'[x] < colPos'[y]
  BY <1>1, <1>2, <1>3, <1>4, PlacementIs
<1>6. /\ IsSlot(S, colPos, prev, next) /\ colRows \ {colJob[p].col} \subseteq S
      /\ left # NoId => prev = left
      /\ right # NoId => next = right
      /\ S \subseteq ColumnIds /\ colPos \in [ColumnIds -> Int]
  BY <1>1, <1>3 DEF LayoutInv, PlanStands, LayoutTypeOK, ColumnJobs
<1>7. others \subseteq S /\ ColumnIds \in SUBSET (Nat \ {NoId})
  BY <1>2, <1>4, <1>6, LayoutAssumption
<1>8. /\ \A x, y \in ColumnIds : Before(colPos, x, y) => ~ Before(colPos, y, x) /\ x # y
      /\ \A x, y \in ColumnIds : x = y \/ Before(colPos, x, y) \/ Before(colPos, y, x)
  BY <1>6, <1>7, BeforeOrder
<1>9. ASSUME left \in others PROVE prev = left /\ prev \in ColumnIds /\ prev # NoId
  BY <1>6, <1>7, <1>9
<1>10. \A x, y : colPos'[x] < colPos'[y] => Before(colPos', x, y)
  BY DEF Before
<1>11. left \in others => Before(colPos', left, c)
  <2>1. left \in others => LeftOf(colPos, left, prev)
    BY <1>9 DEF LeftOf, AtOrBefore
  <2> QED BY <1>5, <1>10, <2>1
<1>12. right \in others => Before(colPos', c, right)
  <2> SUFFICES ASSUME right \in others PROVE Before(colPos', c, right)
    OBVIOUS
  <2>1. next = right /\ next \in ColumnIds /\ next # NoId
    BY <1>6, <1>7
  <2>2. ~ LeftOf(colPos, right, prev)
    <3>1. prev # NoId => prev \in ColumnIds /\ Before(colPos, prev, right)
      BY <1>6, <2>1 DEF IsSlot
    <3> QED BY <1>8, <2>1, <3>1 DEF LeftOf, AtOrBefore
  <2> QED BY <1>5, <1>10, <2>2
<1>13. ASSUME NEW x \in others, x # left
       PROVE  \/ left \in others /\ Before(colPos, x, left) /\ Before(colPos', x, c)
              \/ left \in others /\ Before(colPos, left, x) /\ Before(colPos', c, x)
              \/ left \notin others
  <2>1. CASE left \in others /\ Before(colPos, x, left)
    <3>1. LeftOf(colPos, x, prev)
      BY <1>9, <2>1 DEF LeftOf, AtOrBefore
    <3> QED BY <1>5, <1>10, <2>1, <3>1
  <2>2. CASE left \in others /\ Before(colPos, left, x)
    <3>1. ~ LeftOf(colPos, x, prev)
      BY <1>6, <1>7, <1>8, <1>9, <1>13, <2>2 DEF LeftOf, AtOrBefore
    <3> QED BY <1>5, <1>10, <2>2, <3>1
  <2> QED BY <1>6, <1>7, <1>8, <1>13, <2>1, <2>2
<1>14. \A x, y \in others : Before(colPos, x, y) => Before(colPos', x, y)
  BY <1>5, <1>10
<1>15. c = CHOOSE x \in colJob'[p].made : TRUE
  BY <1>2
<1> QED BY <1>3, <1>4, <1>11, <1>12, <1>13, <1>14, <1>15 DEF LandsBetween

(* Default columns go only into an empty board, and a column that is       *)
(* created or moved lands between the neighbours its request named, the    *)
(* order of the others untouched (createDefaults, create, move).           *)
THEOREM ColumnsLandWhereAsked == LayoutSpec => DefaultsOnlyIntoEmpty /\ ColumnLandsInSlot
<1>1. LayoutInv /\ [LayoutNext]_layoutVars =>
         [\A p \in Procs : CommitsColumn(p, "defaults") => colRows = {}]_layoutVars
  BY ColumnPlacingSteps, Seeds
<1>2. LayoutInv /\ [LayoutNext]_layoutVars =>
         [\A p \in Procs : \A op \in {"create", "move"} :
             CommitsColumn(p, op) => LandsBetween(p)]_layoutVars
  BY ColumnPlacingSteps, PlacedLands
<1>3. LayoutSpec => []LayoutInv
  BY InitLayout, NextLayout, PTL DEF LayoutSpec
<1> QED BY <1>1, <1>2, <1>3, PTL DEF LayoutSpec, DefaultsOnlyIntoEmpty, ColumnLandsInSlot

-----------------------------------------------------------------------------
(* The checklists of a task and their items.                                *)

-----------------------------------------------------------------------------
(* An append goes behind every row below its parent.                       *)
LEMMA AppendsBehind ==
    ASSUME ChecklistTypeOK, NEW q
    PROVE  /\ AppendPosition(q) \in Int
           /\ \A x \in ChildrenOf(q) : checkPos[x] < AppendPosition(q)
<1> DEFINE below == ChildrenOf(q)
           tops == {m \in {checkPos[x] : x \in below} : \A x \in below : checkPos[x] <= m}
<1>1. below \subseteq CheckRows /\ checkPos \in [CheckRows -> Int] /\ POSITION_GAP \in Nat
      /\ POSITION_GAP > 0
  BY GapAssumption DEF ChildrenOf, ChecklistTypeOK
<1>2. CASE below = {}
  BY <1>1, <1>2 DEF AppendPosition
<1>3. CASE below # {}
  <2>1. IsFiniteSet(below)
    BY <1>1, ChecklistAssumption, FS_Subset
  <2>2. PICK m \in below : \A x \in below : checkPos[x] <= checkPos[m]
    BY <1>1, <1>3, <2>1, LastRow
  <2>3. checkPos[m] \in {checkPos[x] : x \in below}
    BY <2>2
  <2> DEFINE top == CHOOSE n \in {checkPos[x] : x \in below} : \A x \in below : checkPos[x] <= n
  <2>4. top \in {checkPos[x] : x \in below} /\ \A x \in below : checkPos[x] <= top
    BY <2>2, <2>3
  <2>5. AppendPosition(q) = top + POSITION_GAP
    BY <1>3 DEF AppendPosition
  <2>6. top \in Int /\ \A x \in below : checkPos[x] \in Int
    BY <1>1, <2>4
  <2> HIDE DEF top
  <2> QED BY <1>1, <2>4, <2>5, <2>6
<1> QED BY <1>2, <1>3

(* A request at rest, or one that has the room to tell, is a job.          *)
LEMMA IdleCheckJob ==
    /\ NoCheckJob \in CheckJobs
    /\ NoCheckJob.step = "idle"
    /\ [NoCheckJob EXCEPT !.step = "emit"] \in CheckJobs
    /\ [NoCheckJob EXCEPT !.step = "emit"].step = "emit"
BY DEF NoCheckJob, CheckJobs, Parents

(* Ids are positive.                                                       *)
LEMMA RowsAreNumbers ==
    /\ CheckRows \subseteq Nat \ {NoId} /\ IsFiniteSet(CheckRows)
    /\ CheckRows = 1 .. Cardinality(CheckRows) /\ Cardinality(CheckRows) \in Nat
    /\ TaskRow \notin CheckRows /\ NoParent \notin CheckRows /\ NoParent # TaskRow
    /\ NoProc \notin Procs
<1>1. Cardinality(CheckRows) \in Nat
  BY ChecklistAssumption, FS_CardinalityType
<1>2. NoProc \notin Procs
  BY PoolAssumption
<1> QED BY <1>1, <1>2, ChecklistAssumption DEF NoId, Parents

(* The task starts with what was appended one after the other.             *)
LEMMA InitChecklists == ChecklistInit => ChecklistInv
<1> SUFFICES ASSUME ChecklistInit PROVE ChecklistInv
  OBVIOUS
<1> DEFINE upto(x) == {y \in CheckRows : StartParent[y] = StartParent[x] /\ y <= x}
<1>1. \A x \in CheckRows : Cardinality(upto(x)) \in Nat /\ IsFiniteSet(upto(x))
  BY ChecklistAssumption, FS_Subset, FS_CardinalityType
<1>2. /\ checkPos = [x \in CheckRows |-> Cardinality(upto(x)) * POSITION_GAP]
      /\ parent = StartParent /\ isDone = {} /\ checkLock = [q \in Parents |-> NoProc]
      /\ checkJob = [p \in Procs |-> NoCheckJob] /\ movedRows = {} /\ roomCurrent = TRUE
      /\ madeAt = [x \in CheckRows |-> IF StartParent[x] = NoParent THEN 0 ELSE x]
  BY DEF ChecklistInit
<1> HIDE DEF upto
<1>3. checkPos \in [CheckRows -> Int]
  BY <1>1, <1>2, GapAssumption
<1>4. madeAt \in [CheckRows -> Nat]
  BY <1>2, RowsAreNumbers
<1>5. ChecklistTypeOK
  BY <1>2, <1>3, <1>4, IdleCheckJob, ChecklistAssumption DEF ChecklistTypeOK
<1>6. ItemsHaveChecklist
  BY <1>2, ChecklistAssumption DEF ItemsHaveChecklist
<1>7. AppendsKeepOrder
  <2> SUFFICES ASSUME NEW x \in CheckRows, NEW y \in CheckRows, parent[x] = parent[y],
                      parent[x] # NoParent, madeAt[x] < madeAt[y]
               PROVE  checkPos[x] < checkPos[y]
    BY DEF AppendsKeepOrder
  <2>1. x \in Nat /\ y \in Nat /\ x < y
    BY <1>2, RowsAreNumbers
  <2>2. upto(x) \subseteq upto(y) /\ y \in upto(y) /\ y \notin upto(x)
    BY <1>2, <2>1, RowsAreNumbers DEF upto
  <2>3. Cardinality(upto(x)) <= Cardinality(upto(y)) /\ Cardinality(upto(x)) # Cardinality(upto(y))
    BY <1>1, <2>2, FS_Subset
  <2>4. Cardinality(upto(x)) < Cardinality(upto(y))
    BY <1>1, <2>3
  <2> QED BY <1>1, <1>2, <2>4, GapMonotone
<1>8. RowsAreMade
  BY <1>2, ChecklistAssumption, RowsAreNumbers DEF RowsAreMade
<1>9. RoomIsOwed /\ \A p \in Procs : AppendStands(p)
  BY <1>2, IdleCheckJob DEF RoomIsOwed, AppendStands
<1> QED BY <1>5, <1>6, <1>7, <1>8, <1>9 DEF ChecklistInv

-----------------------------------------------------------------------------
(* A step that writes no row leaves every other append as it stood.        *)
LEMMA OthersUndisturbed ==
    ASSUME ChecklistInv, NEW p \in Procs, NEW q \in Procs \ {p},
           UNCHANGED <<parent, checkPos, madeAt, movedRows>>,
           checkJob'[q] = checkJob[q],
           \A u \in Parents : checkLock[u] = q => checkLock'[u] = q
    PROVE  AppendStands(q)'
<1>1. AppendStands(q)
  BY DEF ChecklistInv
<1>2. checkJob[q].step = "insert" => checkJob[q].under \in Parents
  BY <1>1 DEF AppendStands, Parents
<1> QED BY <1>1, <1>2 DEF AppendStands

(* A step that writes no row and takes on or ends a request.               *)
LEMMA RowsUntouched ==
    ASSUME ChecklistInv, NEW p \in Procs, NEW job \in CheckJobs,
           checkJob' = [checkJob EXCEPT ![p] = job],
           UNCHANGED <<parent, checkPos, isDone, madeAt, movedRows>>,
           roomCurrent' \in BOOLEAN, checkLock' \in [Parents -> Procs \cup {NoProc}],
           \A u \in Parents, q \in Procs \ {p} : checkLock[u] = q => checkLock'[u] = q,
           RoomIsOwed', AppendStands(p)'
    PROVE  ChecklistInv'
<1>1. checkJob' \in [Procs -> CheckJobs] /\ \A q \in Procs \ {p} : checkJob'[q] = checkJob[q]
  BY DEF ChecklistInv, ChecklistTypeOK
<1>2. ChecklistTypeOK'
  BY <1>1 DEF ChecklistInv, ChecklistTypeOK, Live
<1>3. ItemsHaveChecklist' /\ AppendsKeepOrder' /\ RowsAreMade'
  BY DEF ChecklistInv, ItemsHaveChecklist, AppendsKeepOrder, RowsAreMade
<1>4. \A q \in Procs : AppendStands(q)'
  BY <1>1, OthersUndisturbed
<1> QED BY <1>2, <1>3, <1>4 DEF ChecklistInv

(* The room stays owed while the process that owes it has yet to tell it.  *)
LEMMA StillOwed ==
    ASSUME ChecklistInv, NEW p \in Procs, NEW job,
           checkJob' = [checkJob EXCEPT ![p] = job], checkJob[p].step # "emit",
           roomCurrent' = roomCurrent
    PROVE  RoomIsOwed'
BY DEF ChecklistInv, RoomIsOwed, ChecklistTypeOK

(* A row that is there was made.                                           *)
LEMMA LiveIsMade ==
    ASSUME ChecklistInv, NEW x \in CheckRows, Live(x)
    PROVE  madeAt[x] # 0 /\ parent[x] # NoParent
BY RowsAreNumbers DEF ChecklistInv, RowsAreMade, Live

(* A request is admitted.                                                  *)
LEMMA BeginsKeep ==
    ASSUME ChecklistInv, NEW p \in Procs,
           BeginChecklist(p) \/ BeginItem(p) \/ BeginMoveRow(p)
    PROVE  ChecklistInv'
<1>1. checkJob[p].step = "idle"
      /\ UNCHANGED <<parent, checkPos, isDone, checkLock, madeAt, movedRows, roomCurrent>>
  BY DEF BeginChecklist, BeginItem, BeginMoveRow
<1>2. \E job \in CheckJobs :
         /\ checkJob' = [checkJob EXCEPT ![p] = job]
         /\ job.step \in {"append", "put"}
         /\ job.step = "put" => job.row \in CheckRows
         /\ job.step = "append" =>
               \/ job.under = TaskRow
               \/ /\ job.under \in CheckRows /\ madeAt[job.under] # 0
                  /\ parent[job.under] \in {TaskRow, NoParent}
  <2>1. CASE BeginChecklist(p)
    <3> DEFINE job == [NoCheckJob EXCEPT !.step = "append", !.under = TaskRow]
    <3>1. job \in CheckJobs /\ job.step = "append" /\ job.under = TaskRow
      BY IdleCheckJob DEF CheckJobs, Parents
    <3>2. checkJob' = [checkJob EXCEPT ![p] = job]
      BY <2>1 DEF BeginChecklist
    <3> QED BY <3>1, <3>2
  <2>2. CASE BeginItem(p)
    <3>1. PICK u \in CheckRows :
             /\ IsChecklist(u)
             /\ checkJob' = [checkJob EXCEPT ![p] =
                    [NoCheckJob EXCEPT !.step = "append", !.under = u]]
      BY <2>2 DEF BeginItem
    <3>2. parent[u] = TaskRow /\ madeAt[u] # 0
      BY <3>1, LiveIsMade, RowsAreNumbers DEF IsChecklist, Live
    <3> DEFINE job == [NoCheckJob EXCEPT !.step = "append", !.under = u]
    <3>3. job \in CheckJobs /\ job.step = "append" /\ job.under = u
      BY IdleCheckJob DEF CheckJobs, Parents
    <3>4. checkJob' = [checkJob EXCEPT ![p] = job]
      BY <3>1
    <3> HIDE DEF job
    <3> QED BY <3>2, <3>3, <3>4
  <2>3. CASE BeginMoveRow(p)
    <3>1. PICK x \in CheckRows, after \in CheckRows \cup {NoId}, next \in CheckRows \cup {NoId} :
             checkJob' = [checkJob EXCEPT ![p] =
              [NoCheckJob EXCEPT !.step = "put", !.row = x, !.under = parent[x],
                  !.prev = after, !.next = next, !.pos = midpoint(checkPos, after, next)]]
      BY <2>3 DEF BeginMoveRow, SlotAfter
    <3>2. midpoint(checkPos, after, next) \in Int
      <4>1. \A y \in CheckRows : checkPos[y] \in Int
        BY DEF ChecklistInv, ChecklistTypeOK
      <4> QED BY <4>1, GapAssumption DEF midpoint
    <3>3. parent[x] \in Parents \cup {NoParent}
      BY DEF ChecklistInv, ChecklistTypeOK
    <3> DEFINE m == midpoint(checkPos, after, next)
               job == [NoCheckJob EXCEPT !.step = "put", !.row = x, !.under = parent[x],
                                         !.prev = after, !.next = next, !.pos = m]
    <3> HIDE DEF m
    <3>4. m \in Int
      BY <3>2 DEF m
    <3>5. job \in CheckJobs /\ job.step = "put" /\ job.row = x
      BY <3>3, <3>4, IdleCheckJob DEF CheckJobs
    <3>6. checkJob' = [checkJob EXCEPT ![p] = job]
      BY <3>1 DEF m
    <3> HIDE DEF job
    <3> QED BY <3>5, <3>6
  <2> QED BY <2>1, <2>2, <2>3
<1>3. PICK job \in CheckJobs :
         /\ checkJob' = [checkJob EXCEPT ![p] = job]
         /\ job.step \in {"append", "put"}
         /\ job.step = "put" => job.row \in CheckRows
         /\ job.step = "append" =>
               \/ job.under = TaskRow
               \/ /\ job.under \in CheckRows /\ madeAt[job.under] # 0
                  /\ parent[job.under] \in {TaskRow, NoParent}
  BY <1>2
<1>4. checkJob'[p] = job
  BY <1>3 DEF ChecklistInv, ChecklistTypeOK
<1>5. AppendStands(p)'
  BY <1>1, <1>3, <1>4 DEF AppendStands
<1>6. RoomIsOwed'
  BY <1>1, <1>3, StillOwed
<1>7. checkLock' \in [Parents -> Procs \cup {NoProc}] /\ roomCurrent' \in BOOLEAN
  BY <1>1 DEF ChecklistInv, ChecklistTypeOK
<1> QED BY <1>1, <1>3, <1>5, <1>6, <1>7, RowsUntouched

(* The room is told, or an append gives up.                                *)
LEMMA EndsKeep ==
    ASSUME ChecklistInv, NEW p \in Procs, EmitUpdated(p) \/ InsertRefused(p)
    PROVE  ChecklistInv'
<1>1. /\ checkJob' = [checkJob EXCEPT ![p] = NoCheckJob]
      /\ UNCHANGED <<parent, checkPos, isDone, madeAt, movedRows>>
  BY DEF EmitUpdated, InsertRefused, CheckDone
<1>2. roomCurrent' \in BOOLEAN /\ RoomIsOwed'
  <2>1. CASE EmitUpdated(p)
    BY <2>1 DEF EmitUpdated, RoomIsOwed
  <2>2. CASE InsertRefused(p)
    <3>1. checkJob[p].step # "emit" /\ roomCurrent' = roomCurrent
      BY <2>2 DEF InsertRefused
    <3> QED BY <1>1, <3>1, StillOwed DEF ChecklistInv, ChecklistTypeOK
  <2> QED BY <2>1, <2>2
<1>3. /\ checkLock' \in [Parents -> Procs \cup {NoProc}]
      /\ \A u \in Parents, q \in Procs \ {p} : checkLock[u] = q => checkLock'[u] = q
  BY DEF EmitUpdated, InsertRefused, Unlocked, ChecklistInv, ChecklistTypeOK
<1>4. checkJob'[p] = NoCheckJob
  BY <1>1 DEF ChecklistInv, ChecklistTypeOK
<1>5. AppendStands(p)'
  BY <1>4, IdleCheckJob DEF AppendStands
<1> QED BY <1>1, <1>2, <1>3, <1>5, IdleCheckJob, RowsUntouched

(* An append takes the parent's lock and reads its last row.               *)
LEMMA ReadLastKeeps ==
    ASSUME ChecklistInv, NEW p \in Procs, ReadLast(p)
    PROVE  ChecklistInv'
<1> DEFINE u == checkJob[p].under
           pos == AppendPosition(u)
           job == [checkJob[p] EXCEPT !.step = "insert", !.pos = pos]
<1>1. checkJob[p] \in CheckJobs /\ checkJob[p].step = "append" /\ checkLock[u] = NoProc
      /\ checkLock' = [checkLock EXCEPT ![u] = p]
      /\ UNCHANGED <<parent, checkPos, isDone, madeAt, movedRows, roomCurrent>>
      /\ checkJob' = [checkJob EXCEPT ![p].step = "insert", ![p].pos = pos]
  BY DEF ReadLast, ChecklistInv, ChecklistTypeOK
<1>2. pos \in Int /\ \A x \in ChildrenOf(u) : checkPos[x] < pos
  BY AppendsBehind DEF ChecklistInv
<1> HIDE DEF pos
<1>3. job \in CheckJobs /\ job.step = "insert" /\ job.under = u /\ job.pos = pos
  BY <1>1, <1>2 DEF CheckJobs
<1>4. checkJob' = [checkJob EXCEPT ![p] = job] /\ checkJob'[p] = job
  BY <1>1 DEF ChecklistInv, ChecklistTypeOK
<1>5. u = TaskRow \/ (u \in CheckRows /\ madeAt[u] # 0 /\ parent[u] \in {TaskRow, NoParent})
  BY <1>1 DEF ChecklistInv, AppendStands
<1>6. /\ u \in Parents /\ checkLock' \in [Parents -> Procs \cup {NoProc}]
      /\ checkLock'[u] = p
      /\ \A v \in Parents, q \in Procs \ {p} : checkLock[v] = q => checkLock'[v] = q
  BY <1>1, <1>5, RowsAreNumbers DEF ChecklistInv, ChecklistTypeOK, Parents
<1> HIDE DEF u, job
<1>7. AppendStands(p)'
  BY <1>1, <1>2, <1>3, <1>4, <1>5, <1>6 DEF AppendStands, ChildrenOf
<1>8. RoomIsOwed' /\ roomCurrent' \in BOOLEAN
  BY <1>1, <1>4, StillOwed DEF ChecklistInv, ChecklistTypeOK
<1> QED BY <1>1, <1>3, <1>4, <1>6, <1>7, <1>8, RowsUntouched

-----------------------------------------------------------------------------
(* A write that commits: the job goes on to tell the room.                 *)
LEMMA WrittenFacts ==
    ASSUME ChecklistInv, NEW p \in Procs, Written(p)
    PROVE  /\ checkJob' \in [Procs -> CheckJobs] /\ RoomIsOwed' /\ roomCurrent' \in BOOLEAN
           /\ checkJob'[p].step = "emit"
           /\ \A q \in Procs \ {p} : checkJob'[q] = checkJob[q]
BY IdleCheckJob DEF Written, ChecklistInv, ChecklistTypeOK, RoomIsOwed

(* The first id nobody used is the number of rows made so far, plus one.   *)
LEMMA NextIdIsNext ==
    ASSUME ChecklistInv, NEW x \in CheckRows,
           madeAt[x] = 0, \A y \in CheckRows : madeAt[y] = 0 => x <= y
    PROVE  Cardinality({y \in CheckRows : madeAt[y] > 0}) + 1 = x
<1>1. \A y \in CheckRows : madeAt[y] > 0 <=> y < x
  <2> SUFFICES ASSUME NEW y \in CheckRows PROVE madeAt[y] > 0 <=> y < x
    OBVIOUS
  <2>1. x \in Nat /\ y \in Nat /\ y # 0
    BY RowsAreNumbers DEF NoId
  <2>2. madeAt[y] \in {0, y}
    BY DEF ChecklistInv, RowsAreMade
  <2>3. x <= y => madeAt[y] = 0
    BY DEF ChecklistInv, RowsAreMade
  <2> QED BY <2>1, <2>2, <2>3
<1>2. {y \in CheckRows : madeAt[y] > 0} = 1 .. x - 1
  <2> DEFINE n == Cardinality(CheckRows)
  <2>1. x \in 1 .. n /\ n \in Nat /\ CheckRows = 1 .. n
    BY RowsAreNumbers
  <2> HIDE DEF n
  <2>2. \A y \in 1 .. n : madeAt[y] > 0 <=> y < x
    BY <1>1, <2>1
  <2> QED BY <1>1, <2>1, <2>2
<1>3. Cardinality(1 .. x - 1) = x - 1
  <2>1. x \in Nat /\ x # 0
    BY RowsAreNumbers DEF NoId
  <2>2. x - 1 \in Int /\ (1 > x - 1 => x - 1 = 0)
    BY <2>1
  <2> QED BY <2>1, <2>2, FS_Interval
<1>4. x \in Nat /\ (x - 1) + 1 = x
  BY RowsAreNumbers
<1>5. Cardinality({y \in CheckRows : madeAt[y] > 0}) = x - 1
  BY <1>2, <1>3, Zenon
<1> QED BY <1>4, <1>5

(* The append is inserted behind what nobody moved, and locks are let go.  *)
LEMMA InsertRowKeeps ==
    ASSUME ChecklistInv, NEW p \in Procs, InsertRow(p)
    PROVE  ChecklistInv'
<1>1. PICK x \in CheckRows :
        /\ checkJob[p].step = "insert" /\ Live(checkJob[p].under)
        /\ madeAt[x] = 0 /\ \A y \in CheckRows : madeAt[y] = 0 => x <= y
        /\ parent' = [parent EXCEPT ![x] = checkJob[p].under]
        /\ checkPos' = [checkPos EXCEPT ![x] = checkJob[p].pos]
        /\ madeAt' = [madeAt EXCEPT ![x] = Cardinality({y \in CheckRows : madeAt[y] > 0}) + 1]
        /\ checkLock' = Unlocked(p) /\ Written(p) /\ UNCHANGED <<isDone, movedRows>>
  BY DEF InsertRow
<1>2. madeAt' = [madeAt EXCEPT ![x] = x]
  BY <1>1, NextIdIsNext
<1> DEFINE u == checkJob[p].under
<1>3. /\ u = TaskRow \/ (u \in CheckRows /\ madeAt[u] # 0 /\ parent[u] = TaskRow /\ u # x)
      /\ checkLock[u] = p /\ u \in Parents /\ checkJob[p].pos \in Int
      /\ \A y \in CheckRows \ movedRows : parent[y] = u => checkPos[y] < checkJob[p].pos
  <2>1. AppendStands(p) /\ checkJob[p] \in CheckJobs
    BY DEF ChecklistInv, ChecklistTypeOK
  <2>2. u # TaskRow => parent[u] # NoParent
    BY <1>1 DEF Live
  <2> QED BY <1>1, <2>1, <2>2 DEF AppendStands, Parents, CheckJobs
<1>4. x \in Nat /\ x # 0 /\ parent[x] = NoParent /\ x \notin movedRows /\ x # TaskRow
  BY <1>1, RowsAreNumbers DEF ChecklistInv, RowsAreMade, NoId
<1>5. parent'[x] = u /\ checkPos'[x] = checkJob[p].pos /\ madeAt'[x] = x
      /\ \A y \in CheckRows \ {x} : /\ parent'[y] = parent[y] /\ checkPos'[y] = checkPos[y]
                                   /\ madeAt'[y] = madeAt[y]
  BY <1>1, <1>2 DEF ChecklistInv, ChecklistTypeOK
<1>6. ChecklistTypeOK'
  <2>1. /\ parent' \in [CheckRows -> Parents \cup {NoParent}] /\ checkPos' \in [CheckRows -> Int]
        /\ madeAt' \in [CheckRows -> Nat]
        /\ checkLock' \in [Parents -> Procs \cup {NoProc}]
        /\ movedRows' \subseteq CheckRows
    BY <1>1, <1>2, <1>3, <1>4 DEF ChecklistInv, ChecklistTypeOK, Unlocked
  <2>2. \A y \in isDone' : y \in CheckRows /\ Live(y)'
    <3>1. \A y \in isDone : y \in CheckRows /\ y # TaskRow /\ parent[y] # NoParent
      BY RowsAreNumbers DEF ChecklistInv, ChecklistTypeOK, Live
    <3> QED BY <1>1, <1>4, <1>5, <3>1 DEF Live
  <2> QED BY <1>1, <2>1, <2>2, WrittenFacts DEF ChecklistTypeOK
<1>7. ItemsHaveChecklist'
  <2> SUFFICES ASSUME NEW y \in CheckRows, parent'[y] \in CheckRows
               PROVE  parent'[parent'[y]] = TaskRow
    BY DEF ItemsHaveChecklist
  <2>1. CASE y = x
    BY <1>3, <1>5, <2>1, RowsAreNumbers
  <2>2. CASE y # x
    <3>1. parent'[y] = parent[y] /\ parent[parent[y]] = TaskRow
      BY <1>5, <2>2 DEF ChecklistInv, ItemsHaveChecklist
    <3>2. parent[y] # x
      BY <1>4, <3>1, RowsAreNumbers
    <3> QED BY <1>5, <3>1, <3>2
  <2> QED BY <2>1, <2>2
<1>8. AppendsKeepOrder'
  <2> SUFFICES ASSUME NEW y \in CheckRows \ movedRows, NEW z \in CheckRows \ movedRows,
                      parent'[y] = parent'[z], parent'[y] # NoParent, madeAt'[y] < madeAt'[z]
               PROVE  checkPos'[y] < checkPos'[z]
    BY <1>1 DEF AppendsKeepOrder
  <2>1. CASE y = x
    <3>1. z # x /\ madeAt[z] \in {0, z} /\ x < madeAt[z] /\ madeAt[x] = 0
      BY <1>1, <1>4, <1>5, <2>1 DEF ChecklistInv, RowsAreMade
    <3>2. z \in Nat
      BY RowsAreNumbers
    <3>3. x <= z /\ madeAt[z] # 0
      BY <1>4, <3>1, <3>2
    <3> QED BY <3>1, <3>3 DEF ChecklistInv, RowsAreMade
  <2>2. CASE y # x /\ z = x
    BY <1>3, <1>5, <2>2
  <2>3. CASE y # x /\ z # x
    BY <1>5, <2>3 DEF ChecklistInv, AppendsKeepOrder
  <2> QED BY <2>1, <2>2, <2>3
<1>9. RowsAreMade'
  <2>1. \A y \in CheckRows : madeAt'[y] \in {0, y}
    BY <1>5 DEF ChecklistInv, RowsAreMade
  <2>2. ASSUME NEW y \in CheckRows, NEW z \in CheckRows, y <= z, madeAt'[z] # 0
        PROVE  madeAt'[y] # 0
    <3>1. y \in Nat /\ z \in Nat /\ x \in Nat
      BY RowsAreNumbers
    <3>2. CASE y = x
      BY <1>4, <1>5, <3>2
    <3>3. CASE y # x /\ z = x
      <4>1. ~ (x <= y)
        BY <2>2, <3>1, <3>3
      <4> QED BY <1>1, <1>5, <3>3, <4>1
    <3>4. CASE y # x /\ z # x
      BY <1>5, <2>2, <3>4 DEF ChecklistInv, RowsAreMade
    <3> QED BY <3>2, <3>3, <3>4
  <2>3. \A y \in CheckRows : madeAt'[y] = 0 => parent'[y] = NoParent /\ y \notin movedRows'
    BY <1>1, <1>4, <1>5 DEF ChecklistInv, RowsAreMade
  <2> QED BY <2>1, <2>2, <2>3 DEF RowsAreMade
<1>10. ASSUME NEW q \in Procs PROVE AppendStands(q)'
  <2>1. CASE q = p
    BY <1>1, <2>1, WrittenFacts DEF AppendStands
  <2>2. CASE q # p
    <3>1. AppendStands(q) /\ checkJob'[q] = checkJob[q]
      BY <1>1, <2>2, WrittenFacts DEF ChecklistInv
    <3> DEFINE v == checkJob[q].under
    <3>2. v \in CheckRows /\ madeAt[v] # 0 => v # x /\ parent'[v] = parent[v] /\ madeAt'[v] = madeAt[v]
      BY <1>1, <1>5
    <3>3. CASE checkJob[q].step = "insert"
      <4>1. checkLock[v] = q /\ v \in Parents /\ v # u
        BY <1>3, <2>2, <3>1, <3>3 DEF AppendStands, Parents
      <4>2. checkLock'[v] = q
        BY <1>1, <2>2, <4>1, PoolAssumption DEF Unlocked
      <4>3. \A y \in CheckRows \ movedRows : parent'[y] = v => checkPos'[y] < checkJob[q].pos
        BY <1>5, <3>1, <3>3, <4>1 DEF AppendStands
      <4> QED BY <1>1, <3>1, <3>2, <3>3, <4>2, <4>3 DEF AppendStands
    <3>4. CASE checkJob[q].step # "insert"
      BY <3>1, <3>2, <3>4 DEF AppendStands
    <3> QED BY <3>3, <3>4
  <2> QED BY <2>1, <2>2
<1> QED BY <1>1, <1>6, <1>7, <1>8, <1>9, <1>10, WrittenFacts DEF ChecklistInv

(* A move writes the position of a row, that no append counts on any more. *)
LEMMA PutRowKeeps ==
    ASSUME ChecklistInv, NEW p \in Procs, PutRow(p)
    PROVE  ChecklistInv'
<1> DEFINE x == checkJob[p].row
<1>1. x \in CheckRows /\ checkJob[p] \in CheckJobs /\ checkJob[p].step = "put"
      /\ UNCHANGED <<parent, isDone, checkLock, madeAt>>
  BY DEF PutRow, ChecklistInv, ChecklistTypeOK, AppendStands
<1>2. CASE ~ Live(x)
  <2>1. checkJob' = [checkJob EXCEPT ![p] = NoCheckJob] /\ UNCHANGED <<checkPos, movedRows, roomCurrent>>
    BY <1>2 DEF PutRow, CheckDone
  <2>2. AppendStands(p)'
    BY <2>1, IdleCheckJob DEF AppendStands, ChecklistInv, ChecklistTypeOK
  <2>3. RoomIsOwed'
    BY <1>1, <2>1, StillOwed
  <2> QED BY <1>1, <2>1, <2>2, <2>3, IdleCheckJob, RowsUntouched DEF ChecklistInv, ChecklistTypeOK
<1>3. CASE Live(x)
  <2>1. /\ checkPos' = [checkPos EXCEPT ![x] = checkJob[p].pos]
        /\ movedRows' = movedRows \cup {x} /\ Written(p)
    BY <1>3 DEF PutRow
  <2>2. checkPos' \in [CheckRows -> Int] /\ \A y \in CheckRows \ movedRows' : checkPos'[y] = checkPos[y]
    BY <1>1, <2>1 DEF CheckJobs, ChecklistInv, ChecklistTypeOK
  <2>3. ChecklistTypeOK' /\ ItemsHaveChecklist'
    BY <1>1, <2>1, <2>2, WrittenFacts
    DEF ChecklistInv, ChecklistTypeOK, ItemsHaveChecklist, Live
  <2>4. AppendsKeepOrder'
    BY <1>1, <2>1, <2>2 DEF ChecklistInv, AppendsKeepOrder
  <2>5. RowsAreMade'
    <3>1. madeAt[x] # 0
      BY <1>1, <1>3, LiveIsMade
    <3> QED BY <1>1, <2>1, <3>1 DEF ChecklistInv, RowsAreMade
  <2>6. ASSUME NEW q \in Procs PROVE AppendStands(q)'
    <3>1. CASE q = p
      BY <2>1, <3>1, WrittenFacts DEF AppendStands
    <3>2. CASE q # p
      <4>1. AppendStands(q) /\ checkJob'[q] = checkJob[q]
        BY <2>1, <3>2, WrittenFacts DEF ChecklistInv
      <4> QED BY <1>1, <2>1, <2>2, <4>1 DEF AppendStands
    <3> QED BY <3>1, <3>2
  <2> QED BY <2>1, <2>3, <2>4, <2>5, <2>6, WrittenFacts DEF ChecklistInv
<1> QED BY <1>2, <1>3

(* A tick or a removal writes no position and makes no row.                *)
LEMMA EditsKeep ==
    ASSUME ChecklistInv, NEW p \in Procs, SetDone(p) \/ RemoveRow(p)
    PROVE  ChecklistInv'
<1>1. Written(p) /\ UNCHANGED <<checkPos, checkLock, madeAt, movedRows>>
  BY DEF SetDone, RemoveRow
<1>2. /\ parent' \in [CheckRows -> Parents \cup {NoParent}]
      /\ \A y \in CheckRows : parent'[y] = parent[y] \/ parent'[y] = NoParent
      /\ \A y \in CheckRows : parent[y] \in CheckRows /\ parent'[y] # NoParent =>
                                  parent'[parent[y]] = parent[parent[y]]
      /\ \A y \in isDone' : y \in CheckRows /\ Live(y)'
  <2>1. CASE SetDone(p)
    <3>1. PICK x \in CheckRows : Live(x) /\ isDone' \subseteq isDone \cup {x}
      BY <2>1 DEF SetDone
    <3>2. parent' = parent
      BY <2>1 DEF SetDone
    <3> QED BY <3>1, <3>2 DEF ChecklistInv, ChecklistTypeOK, Live
  <2>2. CASE RemoveRow(p)
    <3>1. PICK x \in CheckRows :
             /\ parent' = [y \in CheckRows |->
                             IF y = x \/ parent[y] = x THEN NoParent ELSE parent[y]]
             /\ isDone' = {y \in isDone : y # x /\ parent[y] # x}
      BY <2>2 DEF RemoveRow
    <3>2. \A y \in CheckRows : parent[y] \in CheckRows /\ parent'[y] # NoParent =>
                                  parent'[parent[y]] = parent[parent[y]]
      <4> SUFFICES ASSUME NEW y \in CheckRows, parent[y] \in CheckRows, parent'[y] # NoParent
                   PROVE  parent'[parent[y]] = parent[parent[y]]
        OBVIOUS
      <4>1. parent[y] # x
        BY <3>1
      <4>2. parent[parent[y]] = TaskRow
        BY DEF ChecklistInv, ItemsHaveChecklist
      <4> QED BY <3>1, <4>1, <4>2, RowsAreNumbers
    <3> QED BY <3>1, <3>2, RowsAreNumbers DEF ChecklistInv, ChecklistTypeOK, Live
  <2> QED BY <2>1, <2>2
<1>3. ChecklistTypeOK'
  BY <1>1, <1>2, WrittenFacts DEF ChecklistInv, ChecklistTypeOK
<1>4. ItemsHaveChecklist' /\ AppendsKeepOrder' /\ RowsAreMade'
  BY <1>1, <1>2, RowsAreNumbers
  DEF ChecklistInv, ItemsHaveChecklist, AppendsKeepOrder, RowsAreMade
<1>5. ASSUME NEW q \in Procs PROVE AppendStands(q)'
  <2>1. CASE q = p
    BY <1>1, <2>1, WrittenFacts DEF AppendStands
  <2>2. CASE q # p
    <3>1. AppendStands(q) /\ checkJob'[q] = checkJob[q]
      BY <1>1, <2>2, WrittenFacts DEF ChecklistInv
    <3>2. \A y \in CheckRows : checkJob[q].step = "insert" /\ parent'[y] = checkJob[q].under
                                 => parent[y] = checkJob[q].under
      BY <1>2, <3>1, RowsAreNumbers DEF AppendStands
    <3> QED BY <1>1, <1>2, <3>1, <3>2 DEF AppendStands
  <2> QED BY <2>1, <2>2
<1> QED BY <1>1, <1>3, <1>4, <1>5, WrittenFacts DEF ChecklistInv

(* Every step of the checklists keeps the invariant.                       *)
LEMMA NextChecklists == ChecklistInv /\ [ChecklistNext]_checkVars => ChecklistInv'
<1>1. ASSUME ChecklistInv, UNCHANGED checkVars PROVE ChecklistInv'
  BY <1>1 DEF checkVars, ChecklistInv, ChecklistTypeOK, ItemsHaveChecklist, AppendsKeepOrder,
              RowsAreMade, RoomIsOwed, AppendStands, Live
<1>2. ASSUME ChecklistInv, ChecklistNext PROVE ChecklistInv'
  <2>1. PICK p \in Procs :
           \/ BeginChecklist(p) \/ BeginItem(p) \/ ReadLast(p) \/ InsertRow(p)
           \/ EmitUpdated(p) \/ InsertRefused(p) \/ BeginMoveRow(p) \/ PutRow(p)
           \/ SetDone(p) \/ RemoveRow(p)
    BY <1>2 DEF ChecklistNext
  <2> QED BY <1>2, <2>1, BeginsKeep, EndsKeep, ReadLastKeeps, InsertRowKeeps, PutRowKeeps, EditsKeep
<1> QED BY <1>1, <1>2

(* What the checklists promise follows from the invariant.                 *)
LEMMA ChecklistsAreSound == ChecklistInv => ChecklistsSound
<1>1. ChecklistInv => QuietRoomIsTold
  BY DEF ChecklistInv, RoomIsOwed, QuietRoomIsTold
<1> QED BY <1>1 DEF ChecklistInv, ChecklistsSound

(* However appends, moves, ticks and removals overlap, no item is left     *)
(* without its checklist, rows nobody moved stand in the order they were   *)
(* made in, and the room has been told once requests rest.                 *)
THEOREM ChecklistsStaySound == ChecklistSpec => []ChecklistsSound
<1> QED BY InitChecklists, NextChecklists, ChecklistsAreSound, PTL DEF ChecklistSpec

(* A move into a slot whose neighbours are apart lands inside it.          *)
LEMMA QuietMove ==
    ASSUME ChecklistInv, [ChecklistNext]_checkVars, NEW p \in Procs,
           checkJob[p].step = "put", checkJob'[p].step = "emit"
    PROVE  /\ checkPos' = [checkPos EXCEPT ![checkJob[p].row] = checkJob[p].pos]
           /\ checkJob[p].row \in CheckRows
<1>0. checkJob[p].row \in CheckRows
  BY DEF ChecklistInv, AppendStands
<1>1. checkJob' # checkJob
  OBVIOUS
<1>2. PICK q \in Procs :
         \/ BeginChecklist(q) \/ BeginItem(q) \/ ReadLast(q) \/ InsertRow(q)
         \/ EmitUpdated(q) \/ InsertRefused(q) \/ BeginMoveRow(q) \/ PutRow(q)
         \/ SetDone(q) \/ RemoveRow(q)
  BY <1>1 DEF ChecklistNext, checkVars
<1>3. checkJob \in [Procs -> CheckJobs]
  BY DEF ChecklistInv, ChecklistTypeOK
<1>4. q = p
  BY <1>2, <1>3 DEF BeginChecklist, BeginItem, ReadLast, InsertRow, EmitUpdated, InsertRefused,
     BeginMoveRow, PutRow, SetDone, RemoveRow, CheckDone, Written
<1>5. PutRow(p)
  BY <1>2, <1>4 DEF BeginChecklist, BeginItem, ReadLast, InsertRow, EmitUpdated, InsertRefused,
     BeginMoveRow, SetDone, RemoveRow
<1>6. Live(checkJob[p].row)
  BY <1>3, <1>5, IdleCheckJob DEF PutRow, CheckDone
<1> QED BY <1>0, <1>5, <1>6 DEF PutRow

(* The midpoint of a slot whose neighbours are more than a unit apart lies *)
(* between them, and without a neighbour before it, before every sibling.  *)
LEMMA MidpointOfWideSlot ==
    ASSUME NEW T \in SUBSET (Nat \ {NoId}), NEW pos \in [T -> Int], NEW S \in SUBSET T,
           NEW prev, NEW next, IsSlot(S, pos, prev, next),
           prev # NoId /\ next # NoId => pos[next] - pos[prev] > 1
    PROVE  /\ prev # NoId => pos[prev] < midpoint(pos, prev, next)
           /\ next # NoId => midpoint(pos, prev, next) < pos[next]
           /\ prev = NoId => \A y \in S : midpoint(pos, prev, next) < pos[y]
<1>1. /\ prev # NoId => prev \in S /\ pos[prev] \in Int
      /\ next # NoId => next \in S /\ pos[next] \in Int
      /\ POSITION_GAP \in Nat /\ POSITION_GAP > 0
  BY GapAssumption DEF IsSlot
<1>2. prev # NoId => pos[prev] < midpoint(pos, prev, next)
  BY <1>1 DEF midpoint
<1>3. next # NoId => midpoint(pos, prev, next) < pos[next]
  BY <1>1 DEF midpoint
<1>4. ASSUME prev = NoId, NEW y \in S PROVE midpoint(pos, prev, next) < pos[y]
  <2>1. next # NoId /\ (next = y \/ pos[next] < pos[y] \/ pos[next] = pos[y])
    BY <1>4 DEF IsSlot, LeftOf, RightOf, AtOrBefore, Before
  <2>2. midpoint(pos, prev, next) = pos[next] - POSITION_GAP
    BY <1>4, <2>1 DEF midpoint
  <2>3. pos[y] \in Int
    OBVIOUS
  <2> QED BY <1>1, <2>1, <2>2, <2>3
<1> QED BY <1>2, <1>3, <1>4

(* A move whose list did not change between its read and its write lands   *)
(* right behind the row it named, or first when it named none.             *)
THEOREM QuietMovesLand == ChecklistSpec => QuietMoveLands
<1> DEFINE Lands(p) ==
       LET job == checkJob[p]
           x == job.row
           others == ChildrenOf(job.under) \ {x} IN
        /\ job.step = "put" /\ checkJob'[p].step = "emit"
        /\ SlotAfter(others, job.prev, job.prev, job.next)
        /\ job.pos = midpoint(checkPos, job.prev, job.next)
        /\ job.prev # NoId /\ job.next # NoId =>
              checkPos[job.next] - checkPos[job.prev] > 1
        => /\ job.prev # NoId => checkPos'[job.prev] < checkPos'[x]
           /\ job.next # NoId => checkPos'[x] < checkPos'[job.next]
           /\ job.prev = NoId => \A y \in others : checkPos'[x] < checkPos'[y]
<1>1. ASSUME ChecklistInv, [ChecklistNext]_checkVars, NEW p \in Procs PROVE Lands(p)
  <2> DEFINE job == checkJob[p]
             x == job.row
             others == ChildrenOf(job.under) \ {x}
  <2> SUFFICES ASSUME job.step = "put", checkJob'[p].step = "emit",
                      IsSlot(others, checkPos, job.prev, job.next),
                      job.pos = midpoint(checkPos, job.prev, job.next),
                      job.prev # NoId /\ job.next # NoId =>
                         checkPos[job.next] - checkPos[job.prev] > 1
               PROVE  /\ job.prev # NoId => checkPos'[job.prev] < checkPos'[x]
                      /\ job.next # NoId => checkPos'[x] < checkPos'[job.next]
                      /\ job.prev = NoId => \A y \in others : checkPos'[x] < checkPos'[y]
    BY DEF SlotAfter
  <2>1. checkPos' = [checkPos EXCEPT ![x] = job.pos] /\ x \in CheckRows
    BY <1>1, QuietMove
  <2>2. others \subseteq CheckRows /\ x \notin others /\ checkPos \in [CheckRows -> Int]
    BY <1>1 DEF ChildrenOf, ChecklistInv, ChecklistTypeOK
  <2>3. (job.prev # NoId => job.prev \in others) /\ (job.next # NoId => job.next \in others)
    BY DEF IsSlot
  <2>4. checkPos'[x] = job.pos /\ \A y \in others : checkPos'[y] = checkPos[y]
    BY <2>1, <2>2
  <2> HIDE DEF x, others, job
  <2>5. CheckRows \in SUBSET (Nat \ {NoId}) /\ others \in SUBSET CheckRows
    BY <2>2, RowsAreNumbers
  <2> DEFINE m == midpoint(checkPos, job.prev, job.next)
  <2>6. /\ job.prev # NoId => checkPos[job.prev] < m
        /\ job.next # NoId => m < checkPos[job.next]
        /\ job.prev = NoId => \A y \in others : m < checkPos[y]
    BY <2>2, <2>5, MidpointOfWideSlot, Zenon
  <2>7. job.pos = m
    OBVIOUS
  <2> HIDE DEF m
  <2> QED BY <2>3, <2>4, <2>6, <2>7
<1>2. ASSUME ChecklistInv, [ChecklistNext]_checkVars PROVE \A p \in Procs : Lands(p)
  BY <1>1, <1>2
<1>3. ChecklistSpec => [][\A p \in Procs : Lands(p)]_checkVars
  <2> HIDE DEF Lands
  <2> QED BY <1>2, InitChecklists, NextChecklists, PTL DEF ChecklistSpec
<1> QED BY <1>3 DEF QuietMoveLands

-----------------------------------------------------------------------------
(* Lists read page by page.                                                 *)

(* Finitely many rows have a first and a last in the order of the list.    *)
LEMMA RowsHaveEnds ==
    ASSUME ascending \in BOOLEAN, NEW S \in SUBSET RowIds, S # {}
    PROVE  /\ \E m \in S : \A s \in S : s = m \/ Earlier(s, m)
           /\ \E m \in S : \A s \in S : s = m \/ Earlier(m, s)
<1> DEFINE up == [r \in RowIds |-> r]
           down == [r \in RowIds |-> 0 - r]
<1>1. IsFiniteSet(S) /\ RowIds \subseteq Nat
  BY PageAssumption, FS_Subset
<1>2. up \in [RowIds -> Int] /\ down \in [RowIds -> Int]
  BY <1>1
<1>3. PICK a \in S : \A s \in S : up[s] <= up[a]
  <2> HIDE DEF up, down
  <2> QED BY <1>1, <1>2, LastRow
<1>4. PICK b \in S : \A s \in S : down[s] <= down[b]
  <2> HIDE DEF up, down
  <2> QED BY <1>1, <1>2, LastRow
<1>5. \A s \in S : s <= a /\ b <= s
  <2>1. \A s \in S : s \in Int /\ up[s] = s /\ down[s] = 0 - s
    BY <1>1
  <2> HIDE DEF up, down
  <2> QED BY <1>3, <1>4, <2>1
<1> QED BY <1>1, <1>5 DEF Earlier

(* The rows of the list are in one order.                                  *)
LEMMA EarlierOrder ==
    ASSUME ascending \in BOOLEAN
    PROVE  /\ \A r, s \in RowIds : r = s \/ Earlier(r, s) \/ Earlier(s, r)
           /\ \A r, s \in RowIds : Earlier(r, s) => r # s /\ ~ Earlier(s, r)
           /\ \A r, s, t \in RowIds : Earlier(r, s) /\ Earlier(s, t) => Earlier(r, t)
           /\ 0 \notin RowIds
BY PageAssumption DEF Earlier

(* A cursor is passed by what comes after it.                              *)
LEMMA PastIsLater ==
    ASSUME cursor \in RowIds, NEW r \in RowIds
    PROVE  PastCursor(r) <=> Earlier(cursor, r)
BY PageAssumption DEF PastCursor, Earlier

(* The last row of a page.                                                 *)
LEMMA LastIsLast ==
    ASSUME ascending \in BOOLEAN, NEW S \in SUBSET RowIds, S # {}
    PROVE  LastOf(S) \in S /\ \A s \in S : s = LastOf(S) \/ Earlier(s, LastOf(S))
<1>1. \E m \in S : \A s \in S : s = m \/ Earlier(s, m)
  BY RowsHaveEnds
<1> QED BY <1>1 DEF LastOf

(* Whatever ?limit= says, a page has a row at least.                       *)
LEMMA LimitInRange == asked \in AskedLimits => limit \in 1 .. MAX_PAGE_LIMIT
BY PageAssumption DEF limit, clampLimit

(* The fetch takes the first rows past the cursor: none it leaves out      *)
(* comes before one it takes, and it leaves none out unless it is full.    *)
LEMMA FetchIsPrefix ==
    ASSUME PageTypeOK
    PROVE  /\ Fetched \subseteq listRows /\ \A r \in Fetched : PastCursor(r)
           /\ IsFiniteSet(Fetched) /\ Cardinality(Fetched) \in Nat
           /\ \A r \in listRows, s \in Fetched : PastCursor(r) /\ Earlier(r, s) => r \in Fetched
           /\ Cardinality(Fetched) <= limit =>
                 \A r \in listRows : PastCursor(r) => r \in Fetched
<1> DEFINE past == {r \in listRows : PastCursor(r)}
           before(r) == {s \in past : Earlier(s, r)}
<1>1. past \subseteq RowIds /\ listRows \subseteq RowIds /\ IsFiniteSet(past)
      /\ ascending \in BOOLEAN /\ limit \in Nat
  <2>1. listRows \subseteq RowIds /\ past \subseteq RowIds /\ ascending \in BOOLEAN
        /\ limit \in 1 .. MAX_PAGE_LIMIT
    BY DEF PageTypeOK
  <2>2. IsFiniteSet(past)
    BY <2>1, PageAssumption, FS_Subset
  <2> QED BY <2>1, <2>2, PageAssumption
<1>2. Fetched = {r \in past : Cardinality(before(r)) <= limit}
  BY DEF Fetched
<1>3. Fetched \subseteq past
  BY <1>2
<1>4. IsFiniteSet(Fetched) /\ Cardinality(Fetched) \in Nat
  BY <1>1, <1>3, FS_Subset, FS_CardinalityType
<1>5. \A r \in past : IsFiniteSet(before(r)) /\ Cardinality(before(r)) \in Nat
  BY <1>1, FS_Subset, FS_CardinalityType
<1>6. ASSUME NEW r \in past, NEW s \in Fetched, Earlier(r, s) PROVE r \in Fetched
  <2>1. before(r) \subseteq before(s)
    BY <1>1, <1>3, <1>6, EarlierOrder
  <2>2. Cardinality(before(r)) <= Cardinality(before(s)) /\ Cardinality(before(s)) <= limit
    BY <1>2, <1>3, <1>5, <2>1, FS_Subset
  <2> HIDE DEF before
  <2>3. Cardinality(before(r)) <= limit
    BY <1>1, <1>3, <1>5, <2>2
  <2> QED BY <1>2, <2>3
<1>7. ASSUME Cardinality(Fetched) <= limit, NEW q \in past, q \notin Fetched PROVE FALSE
  <2> DEFINE left == past \ Fetched
  <2>1. PICK r \in left : \A s \in left : s = r \/ Earlier(r, s)
    <3>1. left \in SUBSET RowIds /\ left # {}
      BY <1>1, <1>7
    <3> HIDE DEF left
    <3> QED BY <1>1, <3>1, RowsHaveEnds
  <2>2. before(r) \subseteq Fetched
    <3> SUFFICES ASSUME NEW s \in past, Earlier(s, r), s \notin Fetched PROVE FALSE
      OBVIOUS
    <3>1. s = r \/ Earlier(r, s)
      BY <2>1
    <3> QED BY <1>1, <3>1, EarlierOrder
  <2>3. Cardinality(before(r)) <= Cardinality(Fetched)
    BY <1>4, <2>2, FS_Subset
  <2> HIDE DEF before
  <2>4. Cardinality(before(r)) <= limit
    BY <1>1, <1>4, <1>5, <1>7, <2>3
  <2> QED BY <1>2, <2>4
<1> HIDE DEF before
<1> QED BY <1>1, <1>3, <1>4, <1>6, <1>7

(* What a page has: the rows up to the next cursor, or all there are.      *)
LEMMA PageIsWhole ==
    ASSUME PageTypeOK, NEW page, page = toCursorPage(Fetched)
    PROVE  /\ page.items \subseteq listRows /\ \A r \in page.items : PastCursor(r)
           /\ page.hasMore \in BOOLEAN
           /\ page.hasMore =>
                 /\ page.nextCursor \in page.items /\ page.nextCursor \in RowIds
                 /\ page.nextCursor # 0 /\ page.nextCursor # cursor
                 /\ \A r \in page.items : r = page.nextCursor \/ Earlier(r, page.nextCursor)
                 /\ \A r \in listRows : PastCursor(r) =>
                       r \in page.items \/ Earlier(page.nextCursor, r)
           /\ ~ page.hasMore =>
                 \A r \in listRows : PastCursor(r) => r \in page.items
<1> DEFINE fetched == Fetched
           last == LastOf(fetched)
<1>1. /\ ascending \in BOOLEAN /\ listRows \subseteq RowIds /\ limit \in 1 .. MAX_PAGE_LIMIT
      /\ MAX_PAGE_LIMIT \in Nat /\ cursor \in RowIds \cup {0}
  BY PageAssumption DEF PageTypeOK
<1>2. /\ fetched \subseteq listRows /\ \A r \in fetched : PastCursor(r)
      /\ IsFiniteSet(fetched) /\ Cardinality(fetched) \in Nat
      /\ \A r \in listRows, s \in fetched : PastCursor(r) /\ Earlier(r, s) => r \in fetched
      /\ Cardinality(fetched) <= limit => \A r \in listRows : PastCursor(r) => r \in fetched
  BY FetchIsPrefix
<1>3. CASE ~ (Cardinality(fetched) > limit)
  <2> DEFINE more == Cardinality(fetched) > limit
  <2>1. more = FALSE
    BY <1>3
  <2>2. page = [items |-> IF more THEN fetched \ {last} ELSE fetched, hasMore |-> more,
                nextCursor |-> IF more /\ (IF more THEN fetched \ {last} ELSE fetched) # {}
                               THEN LastOf(IF more THEN fetched \ {last} ELSE fetched) ELSE 0]
    BY DEF toCursorPage
  <2> HIDE DEF more
  <2>3. page = [items |-> fetched, hasMore |-> FALSE, nextCursor |-> 0]
    BY <2>1, <2>2
  <2>4. page.items = fetched /\ page.hasMore = FALSE
    BY <2>3
  <2>5. Cardinality(fetched) <= limit
    BY <1>1, <1>2, <1>3
  <2> QED BY <1>2, <2>4, <2>5
<1>4. CASE Cardinality(fetched) > limit
  <2> DEFINE items == fetched \ {last}
  <2>1. fetched \in SUBSET RowIds /\ fetched # {} /\ Cardinality(fetched) > 1
    BY <1>1, <1>2, <1>4, FS_EmptySet
  <2>2. last \in fetched /\ \A r \in fetched : r = last \/ Earlier(r, last)
    BY <1>1, <2>1, LastIsLast
  <2>3. items # {}
    <3>1. Cardinality(items) = Cardinality(fetched) - 1
      BY <1>2, <2>2, FS_RemoveElement
    <3> QED BY <1>2, <2>1, <3>1, FS_EmptySet
  <2>4. items \in SUBSET RowIds
    BY <2>1
  <2> DEFINE top == LastOf(items)
  <2>5. top \in items /\ \A r \in items : r = top \/ Earlier(r, top)
    BY <1>1, <2>3, <2>4, LastIsLast
  <2>6. page.items = items /\ page.hasMore = TRUE /\ page.nextCursor = top
    BY <1>4, <2>3 DEF toCursorPage
  <2> HIDE DEF top, last
  <2>7. top \in RowIds /\ top # 0 /\ top # cursor
    <3>1. PastCursor(top) /\ top \in RowIds
      BY <1>1, <1>2, <2>5
    <3>2. cursor \in RowIds => Earlier(cursor, top)
      BY <3>1, PastIsLater
    <3> QED BY <1>1, <3>1, <3>2, EarlierOrder
  <2>8. ASSUME NEW r \in listRows, PastCursor(r), ~ Earlier(top, r) PROVE r \in items
    <3>1. r = top \/ Earlier(r, top)
      BY <1>1, <2>7, <2>8, EarlierOrder
    <3>2. r \in fetched
      BY <1>2, <2>5, <2>8, <3>1
    <3>3. Earlier(top, last)
      BY <2>2, <2>5
    <3>4. r # last
      BY <2>8, <3>3
    <3> QED BY <3>2, <3>4
  <2> QED BY <1>2, <2>5, <2>6, <2>7, <2>8
<1> QED BY <1>3, <1>4

-----------------------------------------------------------------------------
(* A walk starts before the first row, with nothing.                       *)
LEMMA InitPages == PageInit => PageInv
<1> SUFFICES ASSUME PageInit PROVE PageInv
  OBVIOUS
<1>1. received \in [RowIds -> Nat] /\ \A r \in RowIds : received[r] = 0
  BY DEF PageInit
<1>2. PageTypeOK
  BY <1>1, LimitInRange, PageAssumption DEF PageInit, PageTypeOK
<1> QED BY <1>1, <1>2 DEF PageInit, PageInv, WalkMissesNothing, WalkRepeatsNothing, CursorDivides,
                          PastCursor

(* A page brings what is new up to its cursor, or all that is left.        *)
LEMMA FetchKeepsPages == PageInv /\ FetchPage => PageInv'
<1> SUFFICES ASSUME PageInv, FetchPage PROVE PageInv'
  OBVIOUS
<1> DEFINE page == toCursorPage(Fetched)
           goOn == page.hasMore /\ page.nextCursor # 0 /\ page.nextCursor # cursor
<1>1. /\ walk = "on" /\ UNCHANGED <<listRows, asked, ascending, stable, seenLive, changes>>
      /\ received' = [r \in RowIds |-> received[r] + (IF r \in page.items THEN 1 ELSE 0)]
      /\ walk' = (IF goOn THEN "on" ELSE "done")
      /\ cursor' = (IF goOn THEN page.nextCursor ELSE cursor)
  BY DEF FetchPage
<1>2. /\ page.items \subseteq listRows /\ \A r \in page.items : PastCursor(r)
      /\ page.hasMore \in BOOLEAN
      /\ page.hasMore =>
            /\ page.nextCursor \in page.items /\ page.nextCursor \in RowIds
            /\ page.nextCursor # 0 /\ page.nextCursor # cursor
            /\ \A r \in page.items : r = page.nextCursor \/ Earlier(r, page.nextCursor)
            /\ \A r \in listRows : PastCursor(r) =>
                  r \in page.items \/ Earlier(page.nextCursor, r)
      /\ ~ page.hasMore =>
            \A r \in listRows : PastCursor(r) => r \in page.items
  BY PageIsWhole DEF PageInv
<1> HIDE DEF page
<1>3. /\ PageTypeOK /\ listRows \subseteq seenLive /\ stable \subseteq listRows
      /\ listRows \subseteq RowIds /\ ascending \in BOOLEAN /\ received \in [RowIds -> Nat]
      /\ \A r \in RowIds : received[r] > 0 => ~ PastCursor(r)
      /\ \A r \in stable : ~ PastCursor(r) => received[r] > 0
      /\ \A r \in RowIds : received[r] <= 1 /\ (received[r] = 1 => r \in seenLive)
  BY <1>1 DEF PageInv, PageTypeOK, CursorDivides, WalkRepeatsNothing
<1>4. \A r \in RowIds : /\ r \in page.items => received[r] = 0 /\ received'[r] = 1
                        /\ r \notin page.items => received'[r] = received[r]
  <2>1. \A r \in RowIds : received[r] \in Nat
    BY <1>3
  <2>2. \A r \in RowIds : r \in page.items => received[r] = 0
    BY <1>2, <1>3, <2>1
  <2> QED BY <1>1, <2>1, <2>2
<1>5. PageTypeOK'
  <2>1. received' \in [RowIds -> Nat]
    BY <1>1, <1>3, <1>4
  <2>2. cursor' \in RowIds \cup {0} /\ walk' \in {"on", "done", "aborted"}
    BY <1>1, <1>2 DEF PageInv, PageTypeOK
  <2> QED BY <1>1, <1>3, <2>1, <2>2 DEF PageTypeOK, limit
<1>6. WalkRepeatsNothing'
  BY <1>1, <1>2, <1>3, <1>4 DEF WalkRepeatsNothing
<1>7. CASE ~ page.hasMore
  <2>1. walk' = "done"
    BY <1>1, <1>7
  <2>2. \A r \in stable : received'[r] > 0
    BY <1>2, <1>3, <1>4, <1>7
  <2> QED BY <1>1, <1>3, <1>5, <1>6, <2>1, <2>2 DEF PageInv, WalkMissesNothing, CursorDivides
<1>8. CASE page.hasMore
  <2> DEFINE next == page.nextCursor
  <2>1. walk' = "on" /\ cursor' = next /\ next \in RowIds
    BY <1>1, <1>2, <1>8
  <2>2. \A r \in RowIds : PastCursor(r)' <=> Earlier(next, r)
    BY <1>1, <2>1, EarlierOrder, <1>3, PageAssumption DEF PastCursor, Earlier
  <2>3. \A r \in RowIds : Earlier(next, r) => PastCursor(r)
    <3> SUFFICES ASSUME NEW r \in RowIds, Earlier(next, r) PROVE PastCursor(r)
      OBVIOUS
    <3>1. PastCursor(next)
      BY <1>2, <1>8
    <3>2. CASE cursor \in RowIds
      BY <1>3, <2>1, <3>1, <3>2, PastIsLater, EarlierOrder
    <3>3. CASE cursor = 0
      BY <3>3 DEF PastCursor
    <3> QED BY <1>3, <3>2, <3>3 DEF PageTypeOK
  <2>4. ASSUME NEW r \in RowIds, received'[r] > 0 PROVE ~ PastCursor(r)'
    <3>1. CASE r \in page.items
      BY <1>2, <1>3, <1>8, <2>1, <2>2, <3>1, EarlierOrder
    <3>2. CASE r \notin page.items
      BY <1>3, <1>4, <2>2, <2>3, <2>4, <3>2
    <3> QED BY <3>1, <3>2
  <2>5. ASSUME NEW r \in stable, ~ PastCursor(r)' PROVE received'[r] > 0
    <3>1. r \in RowIds /\ r \in listRows /\ ~ Earlier(next, r)
      BY <1>3, <2>2, <2>5
    <3>2. CASE PastCursor(r)
      BY <1>2, <1>4, <1>8, <3>1, <3>2
    <3>3. CASE ~ PastCursor(r)
      BY <1>3, <1>4, <3>1, <3>3
    <3> QED BY <3>2, <3>3
  <2> QED BY <1>1, <1>3, <1>5, <1>6, <2>1, <2>4, <2>5
          DEF PageInv, WalkMissesNothing, CursorDivides
<1> QED BY <1>2, <1>7, <1>8

(* Every step of the walk, and of those that change its list, keeps this.  *)
LEMMA NextPages == PageInv /\ [PageNext]_pageVars => PageInv'
<1> SUFFICES ASSUME PageInv, [PageNext]_pageVars PROVE PageInv'
  OBVIOUS
<1> USE DEF PageInv, PageTypeOK, WalkMissesNothing, WalkRepeatsNothing, CursorDivides, PastCursor, limit
<1>1. CASE UNCHANGED pageVars
  BY <1>1 DEF pageVars
<1>2. CASE AbortWalk
  BY <1>2 DEF AbortWalk
<1>3. CASE RowAppears
  BY <1>3, PageAssumption DEF RowAppears
<1>4. CASE RowLeaves
  BY <1>4, PageAssumption DEF RowLeaves
<1>5. CASE FetchPage
  BY <1>5, FetchKeepsPages
<1> QED BY <1>1, <1>2, <1>3, <1>4, <1>5 DEF PageNext

(* Whatever is inserted and deleted between its pages, a finished walk has *)
(* every row that stayed, and no walk has a row twice.                     *)
THEOREM WalksAreExact == PageSpec => []WalkIsExact
<1>1. PageInv => WalkIsExact
  BY DEF PageInv, WalkIsExact
<1> QED BY <1>1, InitPages, NextPages, PTL DEF PageSpec

=============================================================================
