---------------------------- MODULE BoardLayout ----------------------------
(***************************************************************************)
(* One board and the order of its columns: board/column.service.ts and     *)
(* the update and removal of the board in board/board.service.ts.          *)
(*                                                                         *)
(* A create, a move and a seeding of columns lock the Board row before     *)
(* they read the columns; a removal and a rename do not.  What a           *)
(* transaction wrote is applied when it commits, in one step with the      *)
(* statements that can neither wait nor see other requests.                *)
(***************************************************************************)
EXTENDS FractionalIndex, RequestPool

CONSTANTS ColumnIds,    \* the column ids that can ever be generated, in Nat
          DefaultCount, \* how many columns the default template has
          ColumnNames,  \* the values a column's name takes
          StartColumns  \* the columns the board starts with, possibly none

ASSUME LayoutAssumption == /\ ColumnIds \subseteq Nat \ {NoId} /\ IsFiniteSet(ColumnIds)
                           /\ StartColumns \subseteq ColumnIds
                           /\ ColumnNames # {} /\ DefaultCount \in Nat

VARIABLES boardLive,    \* the Board row exists
          colPos,       \* Column.position; kept when the row is gone
          colRows,      \* the Column rows
          colName,      \* Column.name
          colUsed,      \* ids generated so far
          boardLock,    \* holder of SELECT ... FOR UPDATE on the Board row
          colJob,       \* the request each process serves
          colTrail,     \* COLUMN_CREATED and COLUMN_DELETED activity rows
          colRoom,      \* columns named in COLUMN_CHANGED events
          colRequests   \* requests admitted so far

layoutRows == <<boardLive, colPos, colRows, colName, colUsed>>
layoutVars == <<boardLive, colPos, colRows, colName, colUsed, boardLock,
                colJob, colTrail, colRoom, colRequests>>

ColIds == ColumnIds \cup {NoId}

ColumnJobs == [op : {"none", "create", "defaults", "move", "rename", "drop",
                     "dropBoard"},
               step : {"idle", "lock", "write", "record", "emit"},
               col : ColIds, prev : ColIds, next : ColIds,
               name : ColumnNames, seen : ColumnNames,
               siblings : SUBSET ColumnIds, slotPrev : ColIds, slotNext : ColIds,
               made : SUBSET ColumnIds]

AnyName == CHOOSE n \in ColumnNames : TRUE

NoJob == [op |-> "none", step |-> "idle", col |-> NoId, prev |-> NoId,
          next |-> NoId, name |-> AnyName, seen |-> AnyName,
          siblings |-> {}, slotPrev |-> NoId, slotNext |-> NoId, made |-> {}]

LayoutInit ==
    /\ boardLive = TRUE
    /\ colPos = [c \in ColumnIds |-> c]
    /\ colRows \in {StartColumns, {}}
    /\ colName = [c \in ColumnIds |-> AnyName]
    /\ colUsed = colRows
    /\ boardLock = NoProc
    /\ colJob = [p \in Procs |-> NoJob]
    /\ colTrail = {}
    /\ colRoom = {}
    /\ colRequests = 0

-----------------------------------------------------------------------------
AdmitColumn(p, job) ==
    /\ colJob[p].step = "idle"
    /\ colRequests < MaxRequests
    /\ colRequests' = colRequests + 1
    /\ colJob' = [colJob EXCEPT ![p] = job]
    /\ UNCHANGED <<layoutRows, boardLock, colTrail, colRoom>>

FreedLock(p) == IF boardLock = p THEN NoProc ELSE boardLock

(* The transaction ends, the request goes on to step.                      *)
EndColumnTx(p, step, made) ==
    /\ boardLock' = FreedLock(p)
    /\ colJob' = [colJob EXCEPT ![p].step = step, ![p].siblings = {},
                                ![p].slotPrev = NoId, ![p].slotNext = NoId,
                                ![p].made = made]
    /\ UNCHANGED <<colRoom, colRequests>>

ColumnRefused(p) ==
    /\ boardLock' = FreedLock(p)
    /\ colJob' = [colJob EXCEPT ![p] = NoJob]
    /\ UNCHANGED <<layoutRows, colTrail, colRoom, colRequests>>

(* create and createDefaults: assertBoard runs outside the transaction.    *)
ColumnCreate(p) ==
    \E after \in colUsed \cup {NoId}, op \in {"create", "defaults"} :
        /\ boardLive
        /\ op = "defaults" => after = NoId
        /\ AdmitColumn(p, [NoJob EXCEPT !.op = op, !.step = "lock", !.prev = after])

(* move: the column is read and the self-neighbour refused before the lock. *)
ColumnMove(p) ==
    \E c \in colRows, before \in colUsed \cup {NoId}, after \in colUsed \cup {NoId} :
        /\ before # c /\ after # c
        /\ AdmitColumn(p, [NoJob EXCEPT !.op = "move", !.step = "lock", !.col = c,
                                        !.prev = before, !.next = after])

(* update: the row, its name included, is read by the first statement.     *)
ColumnUpdate(p) ==
    \E c \in colRows, n \in ColumnNames :
        AdmitColumn(p, [NoJob EXCEPT !.op = "rename", !.step = "write", !.col = c,
                                     !.name = n, !.seen = colName[c]])

ColumnRemove(p) ==
    \E c \in colRows :
        AdmitColumn(p, [NoJob EXCEPT !.op = "drop", !.step = "write", !.col = c])

(* BoardService.remove: the board is found, its tasks are counted.         *)
BoardRemove(p) ==
    /\ boardLive
    /\ AdmitColumn(p, [NoJob EXCEPT !.op = "dropBoard", !.step = "write"])

-----------------------------------------------------------------------------
(* SELECT id FROM "Board" ... FOR UPDATE, then the read of the columns.    *)

ColumnSiblings(job) == colRows \ {job.col}

ResolvedColumn(job, prev, next) ==
    IF job.op = "move"
    THEN resolveMoveNeighbors(ColumnSiblings(job), colPos, job.prev, job.next, prev, next)
    ELSE resolveCreateNeighbors(ColumnSiblings(job), colPos, job.prev, prev, next)

(* createDefaults refuses a board that has columns (409); a neighbour that *)
(* does not resolve is a 404; a board that is gone fails the foreign key.  *)
ColumnAdmissible(job) ==
    /\ boardLive
    /\ IF job.op = "defaults" THEN colRows = {}
       ELSE \E prev, next \in ColIds : ResolvedColumn(job, prev, next)

(* Faulty variant: the columns are read without the lock on the board.     *)
LockBoardNoWait(p) ==
    LET job == colJob[p] IN
    /\ job.step = "lock"
    /\ ColumnAdmissible(job)
    /\ \E prev, next \in ColIds :
          /\ IF job.op = "defaults" THEN prev = NoId /\ next = NoId
             ELSE ResolvedColumn(job, prev, next)
          /\ colJob' = [colJob EXCEPT ![p].step = "write", ![p].slotPrev = prev,
                           ![p].slotNext = next, ![p].siblings = ColumnSiblings(job)]
    /\ UNCHANGED <<layoutRows, boardLock, colTrail, colRoom, colRequests>>

LockBoard(p) ==
    LET job == colJob[p] IN
    /\ job.step = "lock"
    /\ boardLock = NoProc
    /\ ColumnAdmissible(job)
    /\ \E prev, next \in ColIds :
          /\ IF job.op = "defaults" THEN prev = NoId /\ next = NoId
             ELSE ResolvedColumn(job, prev, next)
          /\ colJob' = [colJob EXCEPT ![p].step = "write", ![p].slotPrev = prev,
                           ![p].slotNext = next, ![p].siblings = ColumnSiblings(job)]
    /\ boardLock' = p
    /\ UNCHANGED <<layoutRows, colTrail, colRoom, colRequests>>

RefuseColumn(p) ==
    /\ colJob[p].step = "lock"
    /\ boardLock = NoProc
    /\ ~ ColumnAdmissible(colJob[p])
    /\ ColumnRefused(p)

-----------------------------------------------------------------------------
(* The write.  A rebalance spreads the columns read, but the batch update  *)
(* matches only the rows that are still there.                             *)

(* Faulty variant: the siblings right of the slot make no room.            *)
PlacedPositionsTight(job, c) ==
    IF needsRebalance(colPos, job.slotPrev, job.slotNext)
    THEN [x \in ColumnIds |->
            IF x = c THEN rebalancedRow(job.siblings, colPos, job.slotPrev)
            ELSE IF x \in job.siblings \cap colRows
            THEN Rank(job.siblings, colPos, x) * POSITION_GAP
            ELSE colPos[x]]
    ELSE [colPos EXCEPT ![c] = midpoint(colPos, job.slotPrev, job.slotNext)]

PlacedPositions(job, c) ==
    IF needsRebalance(colPos, job.slotPrev, job.slotNext)
    THEN [x \in ColumnIds |->
            IF x = c THEN rebalancedRow(job.siblings, colPos, job.slotPrev)
            ELSE IF x \in job.siblings \cap colRows
            THEN rebalancedSibling(job.siblings, colPos, job.slotPrev, x)
            ELSE colPos[x]]
    ELSE [colPos EXCEPT ![c] = midpoint(colPos, job.slotPrev, job.slotNext)]

(* Ids are UUIDv7: a new one is larger than those generated before.        *)
NewIds(n) == {c \in ColumnIds \ colUsed :
                Cardinality({x \in ColumnIds \ colUsed : x <= c}) <= n}

CommitCreate(p) ==
    LET job == colJob[p] IN
    \E c \in NewIds(1) :
        /\ job.step = "write" /\ job.op = "create"
        /\ colRows' = colRows \cup {c}
        /\ colUsed' = colUsed \cup {c}
        /\ colPos' = PlacedPositions(job, c)
        /\ UNCHANGED <<boardLive, colName, colTrail>>
        /\ EndColumnTx(p, "record", {c})

(* createDefaults: the whole set and its activity rows in one transaction. *)
CommitDefaults(p) ==
    LET job == colJob[p]
        S == NewIds(DefaultCount) IN
    /\ job.step = "write" /\ job.op = "defaults"
    /\ Cardinality(S) = DefaultCount
    /\ colRows' = colRows \cup S
    /\ colUsed' = colUsed \cup S
    /\ colPos' = [x \in ColumnIds |->
                    IF x \in S
                    THEN Cardinality({y \in S : y <= x}) * POSITION_GAP
                    ELSE colPos[x]]
    /\ colTrail' = colTrail \cup ({"created"} \X S)
    /\ UNCHANGED <<boardLive, colName>>
    /\ EndColumnTx(p, "emit", S)

CommitMove(p) ==
    LET job == colJob[p] IN
    /\ job.step = "write" /\ job.op = "move"
    /\ job.col \in colRows
    /\ colPos' = PlacedPositions(job, job.col)
    /\ UNCHANGED <<boardLive, colRows, colName, colUsed, colTrail>>
    /\ EndColumnTx(p, "emit", {job.col})

CommitRename(p) ==
    LET job == colJob[p] IN
    /\ job.step = "write" /\ job.op = "rename"
    /\ job.col \in colRows
    /\ colName' = [colName EXCEPT ![job.col] = job.name]
    /\ UNCHANGED <<boardLive, colPos, colRows, colUsed, colTrail>>
    /\ EndColumnTx(p, "emit", {job.col})

(* remove: the stub and the delete commit together, deleteMany counts.     *)
CommitDrop(p) ==
    LET job == colJob[p] IN
    /\ job.step = "write" /\ job.op = "drop"
    /\ job.col \in colRows
    /\ colRows' = colRows \ {job.col}
    /\ colTrail' = colTrail \cup {<<"deleted", job.col>>}
    /\ UNCHANGED <<boardLive, colPos, colName, colUsed>>
    /\ EndColumnTx(p, "emit", {job.col})

(* BoardService.remove: the cascade takes the columns; no event is sent.   *)
CommitDropBoard(p) ==
    /\ colJob[p].step = "write" /\ colJob[p].op = "dropBoard"
    /\ boardLive
    /\ boardLock = NoProc
    /\ boardLive' = FALSE
    /\ colRows' = {}
    /\ colJob' = [colJob EXCEPT ![p] = NoJob]
    /\ UNCHANGED <<colPos, colName, colUsed, boardLock, colTrail, colRoom, colRequests>>

(* The row went while the request held no lock on it: P2025 or count = 0.  *)
ColumnGone(p) ==
    LET job == colJob[p] IN
    /\ job.step = "write"
    /\ \/ job.op \in {"move", "rename", "drop"} /\ job.col \notin colRows
       \/ job.op = "dropBoard" /\ ~ boardLive
    /\ ColumnRefused(p)

(* A single created column is recorded after its transaction.              *)
RecordCreate(p) ==
    /\ colJob[p].step = "record"
    /\ colTrail' = colTrail \cup ({"created"} \X colJob[p].made)
    /\ colJob' = [colJob EXCEPT ![p].step = "emit"]
    /\ UNCHANGED <<layoutRows, boardLock, colRoom, colRequests>>

EmitChanged(p) ==
    /\ colJob[p].step = "emit"
    /\ colRoom' = colRoom \cup colJob[p].made
    /\ colJob' = [colJob EXCEPT ![p] = NoJob]
    /\ UNCHANGED <<layoutRows, boardLock, colTrail, colRequests>>

(* The process dies or its transaction times out.                          *)
ColumnAbort(p) == colJob[p].step # "idle" /\ ColumnRefused(p)

LayoutNext == \E p \in Procs :
    \/ ColumnCreate(p) \/ ColumnMove(p) \/ ColumnUpdate(p) \/ ColumnRemove(p)
    \/ BoardRemove(p) \/ LockBoard(p) \/ RefuseColumn(p)
    \/ CommitCreate(p) \/ CommitDefaults(p) \/ CommitMove(p) \/ CommitRename(p)
    \/ CommitDrop(p) \/ CommitDropBoard(p) \/ ColumnGone(p)
    \/ RecordCreate(p) \/ EmitChanged(p) \/ ColumnAbort(p)

LayoutSpec == LayoutInit /\ [][LayoutNext]_layoutVars
-----------------------------------------------------------------------------
(* Properties.                                                             *)

(* The rows, the lock and the requests keep their types, and the room only *)
(* hears of column ids that were generated (emitChanged).                  *)
LayoutTypeOK ==
    /\ boardLive \in BOOLEAN
    /\ colPos \in [ColumnIds -> Int]
    /\ colRows \subseteq colUsed /\ colUsed \subseteq ColumnIds
    /\ colName \in [ColumnIds -> ColumnNames]
    /\ boardLock \in Procs \cup {NoProc}
    /\ colJob \in [Procs -> ColumnJobs]
    /\ colTrail \subseteq {"created", "deleted"} \X colUsed
    /\ colRoom \subseteq colUsed
    /\ colRequests \in 0 .. MaxRequests

(* No two columns of the board share a position, although removals run     *)
(* without the board lock while a rebalance is under way (create and move  *)
(* in column.service.ts).                                                  *)
ColumnPositionsDistinct ==
    \A x, y \in colRows : x # y => colPos[x] # colPos[y]

(* A board that was deleted while a create had passed assertBoard is left  *)
(* with no column row, and no request keeps its row locked.                *)
NoColumnWithoutBoard == ~ boardLive => colRows = {} /\ boardLock = NoProc

CommitsColumn(p, op) == /\ colJob[p].op = op
                        /\ colJob[p].step = "write"
                        /\ colJob'[p].step \in {"record", "emit"}

(* Two clients that seed a board at once, or one that seeds it while       *)
(* another adds a column: the defaults land only in an empty board, so a   *)
(* board never ends up with two starting sets (createDefaults).            *)
DefaultsOnlyIntoEmpty ==
    [][\A p \in Procs : CommitsColumn(p, "defaults") => colRows = {}]_layoutVars

(* The column of p's request stands between the neighbours it named, where *)
(* they still exist, and the others are as they were.                      *)
LandsBetween(p) ==
    LET c == CHOOSE x \in colJob'[p].made : TRUE
        others == colRows \ {c} IN
    /\ colJob[p].prev \in others => Before(colPos', colJob[p].prev, c)
    /\ colJob[p].next \in others => Before(colPos', c, colJob[p].next)
    /\ \A x \in others : x # colJob[p].prev /\ x # colJob[p].next =>
          \/ colJob[p].prev \in others /\ Before(colPos, x, colJob[p].prev)
                 /\ Before(colPos', x, c)
          \/ colJob[p].prev \in others /\ Before(colPos, colJob[p].prev, x)
                 /\ Before(colPos', c, x)
          \/ colJob[p].prev \notin others
    /\ \A x, y \in others : Before(colPos, x, y) => Before(colPos', x, y)

(* A committed create or move puts its column between the neighbours it    *)
(* named and leaves the order of all the others as it was                  *)
(* (resolveMoveNeighbors, resolveCreateNeighbors, rebalance).              *)
ColumnLandsInSlot ==
    [][\A p \in Procs : \A op \in {"create", "move"} :
          CommitsColumn(p, op) => LandsBetween(p)]_layoutVars

(* However requests on the columns and on their board overlap, no two      *)
(* columns share a position and none outlives the board.                   *)
LayoutSound == LayoutTypeOK /\ ColumnPositionsDistinct /\ NoColumnWithoutBoard

-----------------------------------------------------------------------------
(* Why they hold: the inductive strengthening of LayoutSound.              *)

(* A create, a move or a seeding past its lock.                            *)
Placing(p) == /\ colJob[p].step = "write"
              /\ colJob[p].op \in {"create", "defaults", "move"}

(* What a request carries from its first statement on.                     *)
JobFits(p) == /\ colJob[p].made \subseteq colUsed
              /\ colJob[p].op = "create" => colJob[p].col = NoId /\ colJob[p].next = NoId

(* It holds the board, and of what it read nothing has changed but that    *)
(* columns may be gone.                                                    *)
PlanStands(p) ==
    LET job == colJob[p] IN
    Placing(p) =>
        /\ boardLock = p
        /\ job.op = "defaults" => colRows = {}
        /\ job.op # "defaults" =>
              /\ IsSlot(job.siblings, colPos, job.slotPrev, job.slotNext)
              /\ colRows \ {job.col} \subseteq job.siblings
              /\ job.prev # NoId => job.slotPrev = job.prev
              /\ job.next # NoId => job.slotNext = job.next

LayoutInv == /\ LayoutTypeOK /\ ColumnPositionsDistinct /\ NoColumnWithoutBoard
             /\ \A p \in Procs : JobFits(p) /\ PlanStands(p)
=============================================================================
