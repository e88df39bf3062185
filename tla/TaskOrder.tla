----------------------------- MODULE TaskOrder -----------------------------
(***************************************************************************)
(* The tasks of one board and the requests that create, move and remove    *)
(* them and remove their columns: task/task.service.ts and                 *)
(* board/column.service.ts (remove), on PostgreSQL at READ COMMITTED.      *)
(*                                                                         *)
(* A process is a request being served.  Between two of its steps any      *)
(* other request may commit; a step is one statement that can wait for a   *)
(* lock or read state others may change, together with the statements      *)
(* after it that neither wait nor read such state.  columnId and position  *)
(* are the COMMITTED rows: what a transaction has written but not          *)
(* committed is seen by nobody else, so it is applied when it commits.     *)
(***************************************************************************)
EXTENDS FractionalIndex, RequestPool

CONSTANTS Tasks,        \* the task ids that can ever be generated
          Columns,      \* the columns the board starts with
          NoColumn,
          SeedColumn, SeedPosition,   \* the tasks the board starts with
          Named         \* bound: the ids a request may name as neighbours

ASSUME TasksAssumption   == Tasks \subseteq Nat \ {NoId} /\ IsFiniteSet(Tasks)
ASSUME NullAssumption    == NoColumn \notin Columns
ASSUME IdsAssumption     == Tasks \cap Columns = {}
ASSUME RequestAssumption == Named \subseteq Tasks
ASSUME SeedAssumption ==
    /\ SeedColumn \in [Tasks -> Columns \cup {NoColumn}]
    /\ SeedPosition \in [Tasks -> Int]
    /\ \A x, y \in Tasks :
          x # y /\ SeedColumn[x] = SeedColumn[y] /\ SeedColumn[x] # NoColumn
              => SeedPosition[x] # SeedPosition[y]

VARIABLES columnId,    \* Task.columnId, NoColumn when there is no such row
          position,    \* Task.position
          columns,     \* the Column rows
          columnLock,  \* holder of SELECT ... FOR UPDATE on a Column row
          rowLock,     \* transaction with an uncommitted write of a Task row
          pc,          \* the next statement of each request
          req,         \* what each request asks for
          slot,        \* the slot it resolved, as ids
          siblings,    \* the sibling ids it read under the lock
          snapshot,    \* their positions when it read them
          created,     \* ids inserted so far, each with its TASK_CREATED row
          stubs,       \* TASK_DELETED and COLUMN_DELETED activity rows
          announced,   \* socket events emitted to the board room
          requests     \* requests admitted so far

rows  == <<columnId, position, columns, created, stubs>>
locks == <<columnLock, rowLock>>
plan  == <<slot, siblings, snapshot>>
vars  == <<columnId, position, columns, columnLock, rowLock, pc, req, slot,
           siblings, snapshot, created, stubs, announced, requests>>

-----------------------------------------------------------------------------
(* Requests.  A create names at most the sibling before it.                *)

Ids == Tasks \cup {NoId}

Requests == [op : {"create", "move", "remove", "removeColumn"},
             task : Ids, column : Columns \cup {NoColumn},
             prev : Ids, next : Ids]

NoRequest == [op |-> "remove", task |-> NoId, column |-> NoColumn,
              prev |-> NoId, next |-> NoId]

Slots == [prev : Ids, next : Ids]
NoSlot == [prev |-> NoId, next |-> NoId]

Statements == {"idle", "lock", "write", "batch", "delete", "drop", "emit"}

Events == ({"TASK_CREATED", "TASK_MOVED", "TASK_DELETED"} \X Tasks)
              \cup ({"COLUMN_CHANGED"} \X Columns)

Init ==
    /\ columnId = SeedColumn
    /\ position = SeedPosition
    /\ columns = Columns
    /\ columnLock = [c \in Columns |-> NoProc]
    /\ rowLock = [t \in Tasks |-> NoProc]
    /\ pc = [p \in Procs |-> "idle"]
    /\ req = [p \in Procs |-> NoRequest]
    /\ slot = [p \in Procs |-> NoSlot]
    /\ siblings = [p \in Procs |-> {}]
    /\ snapshot = [p \in Procs |-> [t \in Tasks |-> 0]]
    /\ created = {t \in Tasks : SeedColumn[t] # NoColumn}
    /\ stubs = [x \in Tasks \cup Columns |-> 0]
    /\ announced = {}
    /\ requests = 0

-----------------------------------------------------------------------------
(* What a request does to the state that is its own.                       *)

Admit(p, r, stmt) ==
    /\ pc[p] = "idle"
    /\ requests < MaxRequests
    /\ requests' = requests + 1
    /\ req' = [req EXCEPT ![p] = r]
    /\ pc' = [pc EXCEPT ![p] = stmt]

(* The end of a transaction: every lock it holds is released, and what it  *)
(* read is forgotten.                                                      *)
Release(p) ==
    /\ columnLock' = [c \in Columns |->
                        IF columnLock[c] = p THEN NoProc ELSE columnLock[c]]
    /\ rowLock' = [t \in Tasks |->
                        IF rowLock[t] = p THEN NoProc ELSE rowLock[t]]
    /\ slot' = [slot EXCEPT ![p] = NoSlot]
    /\ siblings' = [siblings EXCEPT ![p] = {}]
    /\ snapshot' = [snapshot EXCEPT ![p] = [t \in Tasks |-> 0]]

(* A rollback, whatever raised it: the request ends with nothing written.  *)
Rollback(p) ==
    /\ Release(p)
    /\ pc' = [pc EXCEPT ![p] = "idle"]
    /\ req' = [req EXCEPT ![p] = NoRequest]
    /\ UNCHANGED <<rows, announced, requests>>

Commit(p) ==
    /\ Release(p)
    /\ pc' = [pc EXCEPT ![p] = "emit"]
    /\ UNCHANGED <<req, announced, requests>>

-----------------------------------------------------------------------------
(* create: assertBoard and findColumnOnBoard run before the transaction.   *)
BeginCreate(p) ==
    \E t \in Tasks \ created, c \in columns, after \in Named \cup {NoId} :
        /\ \A q \in Procs : req[q].task # t
        /\ Admit(p, [op |-> "create", task |-> t, column |-> c,
                     prev |-> after, next |-> NoId], "lock")
        /\ UNCHANGED <<rows, locks, plan, announced>>

(* move: the task and the target column are read, the self-neighbour is    *)
(* refused, all before the lock is taken.                                  *)
BeginMove(p) ==
    \E t \in Tasks, c \in columns,
       prev \in Named \cup {NoId}, next \in Named \cup {NoId} :
        /\ columnId[t] # NoColumn
        /\ prev # t /\ next # t
        /\ Admit(p, [op |-> "move", task |-> t, column |-> c,
                     prev |-> prev, next |-> next], "lock")
        /\ UNCHANGED <<rows, locks, plan, announced>>

(* remove: the row is found, its stub is written in the transaction.       *)
BeginRemove(p) ==
    \E t \in Tasks :
        /\ columnId[t] # NoColumn
        /\ Admit(p, [op |-> "remove", task |-> t, column |-> columnId[t],
                     prev |-> NoId, next |-> NoId], "delete")
        /\ UNCHANGED <<rows, locks, plan, announced>>

(* ColumnService.remove: the column is found and counted empty.            *)
BeginRemoveColumn(p) ==
    \E c \in columns :
        /\ \A t \in Tasks : columnId[t] # c
        /\ Admit(p, [op |-> "removeColumn", task |-> NoId, column |-> c,
                     prev |-> NoId, next |-> NoId], "drop")
        /\ UNCHANGED <<rows, locks, plan, announced>>

-----------------------------------------------------------------------------
(* Lock the target column, read its tasks and resolve the slot.            *)

Siblings(r) == {x \in Tasks : columnId[x] = r.column} \ {r.task}

(* Faulty variant: a move reads the two neighbour fields the other way,    *)
(* as create does.                                                         *)
ResolvedSwapped(r, prev, next) ==
    IF r.op = "create"
    THEN resolveCreateNeighbors(Siblings(r), position, r.prev, prev, next)
    ELSE resolveMoveNeighbors(Siblings(r), position, r.next, r.prev, prev, next)

Resolved(r, prev, next) ==
    IF r.op = "create"
    THEN resolveCreateNeighbors(Siblings(r), position, r.prev, prev, next)
    ELSE resolveMoveNeighbors(Siblings(r), position, r.prev, r.next, prev, next)

(* Faulty variant: the siblings are read without waiting for the lock.     *)
LockColumnNoWait(p) ==
    LET r == req[p] IN
    /\ pc[p] = "lock"
    /\ r.column \in columns
    /\ \E prev \in Ids, next \in Ids :
          /\ Resolved(r, prev, next)
          /\ slot' = [slot EXCEPT ![p] = [prev |-> prev, next |-> next]]
    /\ columnLock' = [columnLock EXCEPT ![r.column] = p]
    /\ siblings' = [siblings EXCEPT ![p] = Siblings(r)]
    /\ snapshot' = [snapshot EXCEPT ![p] = position]
    /\ pc' = [pc EXCEPT ![p] = "write"]
    /\ UNCHANGED <<rows, rowLock, req, announced, requests>>

LockColumn(p) ==
    LET r == req[p] IN
    /\ pc[p] = "lock"
    /\ r.column \in columns
    /\ columnLock[r.column] = NoProc
    /\ \E prev \in Ids, next \in Ids :
          /\ Resolved(r, prev, next)
          /\ slot' = [slot EXCEPT ![p] = [prev |-> prev, next |-> next]]
    /\ columnLock' = [columnLock EXCEPT ![r.column] = p]
    /\ siblings' = [siblings EXCEPT ![p] = Siblings(r)]
    /\ snapshot' = [snapshot EXCEPT ![p] = position]
    /\ pc' = [pc EXCEPT ![p] = "write"]
    /\ UNCHANGED <<rows, rowLock, req, announced, requests>>

(* Faulty variant: a request whose neighbours do not resolve is retried.   *)
RejectGoneOnly(p) ==
    /\ pc[p] = "lock"
    /\ req[p].column \notin columns
    /\ Rollback(p)

(* Faulty variant: the event goes out although nothing was written.        *)
RejectEmitting(p) ==
    LET r == req[p] IN
    /\ pc[p] = "lock"
    /\ \/ r.column \notin columns
       \/ /\ columnLock[r.column] = NoProc
          /\ ~ \E prev \in Ids, next \in Ids : Resolved(r, prev, next)
    /\ Release(p)
    /\ pc' = [pc EXCEPT ![p] = "emit"]
    /\ UNCHANGED <<rows, req, announced, requests>>

(* The neighbours do not resolve (404), or the column is gone: the SELECT   *)
(* then locks no row and the write would break the foreign key.            *)
Reject(p) ==
    LET r == req[p] IN
    /\ pc[p] = "lock"
    /\ \/ r.column \notin columns
       \/ /\ columnLock[r.column] = NoProc
          /\ ~ \E prev \in Ids, next \in Ids : Resolved(r, prev, next)
    /\ Rollback(p)

-----------------------------------------------------------------------------
(* Write under the lock and commit.                                        *)

Rebalancing(p) == needsRebalance(snapshot[p], slot[p].prev, slot[p].next)

(* Faulty variant: the batch update is not scoped by columnId.             *)
BatchRowsUnscoped(p) == siblings[p]

(* The rows batchUpdateTaskPositions still matches: it rechecks columnId.  *)
BatchRows(p) == {x \in siblings[p] : columnId[x] = req[p].column}

(* A moved task must still exist when its row is updated (else P2025).     *)
OwnRowReady(p) ==
    LET r == req[p] IN
    r.op = "move" => /\ rowLock[r.task] = NoProc
                     /\ columnId[r.task] # NoColumn

PlaceTask(p, newPosition) ==
    LET r == req[p] IN
    /\ columnId' = [columnId EXCEPT ![r.task] = r.column]
    /\ position' = newPosition
    /\ created' = created \cup {r.task}
    /\ UNCHANGED <<columns, stubs>>

CommitMidpoint(p) ==
    /\ pc[p] = "write"
    /\ ~ Rebalancing(p)
    /\ OwnRowReady(p)
    /\ PlaceTask(p, [position EXCEPT ![req[p].task] =
                        midpoint(snapshot[p], slot[p].prev, slot[p].next)])
    /\ Commit(p)

(* A rebalancing move writes its own row first and then waits for others.  *)
UpdateMoved(p) ==
    /\ pc[p] = "write"
    /\ Rebalancing(p)
    /\ req[p].op = "move"
    /\ OwnRowReady(p)
    /\ rowLock' = [rowLock EXCEPT ![req[p].task] = p]
    /\ pc' = [pc EXCEPT ![p] = "batch"]
    /\ UNCHANGED <<rows, columnLock, req, plan, announced, requests>>

CommitRebalance(p) ==
    /\ \/ pc[p] = "write" /\ req[p].op = "create" /\ Rebalancing(p)
       \/ pc[p] = "batch"
    /\ \A x \in BatchRows(p) : rowLock[x] = NoProc
    /\ PlaceTask(p, [x \in Tasks |->
           IF x = req[p].task
           THEN rebalancedRow(siblings[p], snapshot[p], slot[p].prev)
           ELSE IF x \in BatchRows(p)
           THEN rebalancedSibling(siblings[p], snapshot[p], slot[p].prev, x)
           ELSE position[x]])
    /\ Commit(p)

MovedTaskGone(p) ==
    /\ pc[p] = "write"
    /\ req[p].op = "move"
    /\ columnId[req[p].task] = NoColumn
    /\ Rollback(p)

-----------------------------------------------------------------------------
(* deleteMany on a task, and on a column with its cascade to the tasks.    *)

DeleteTask(p) ==
    LET t == req[p].task IN
    /\ pc[p] = "delete"
    /\ rowLock[t] = NoProc
    /\ columnId[t] # NoColumn
    /\ columnId' = [columnId EXCEPT ![t] = NoColumn]
    /\ stubs' = [stubs EXCEPT ![t] = @ + 1]
    /\ UNCHANGED <<position, columns, created>>
    /\ Commit(p)

(* Faulty variant: the column is deleted under a request that locked it.   *)
DeleteColumnNoWait(p) ==
    LET c == req[p].column IN
    /\ pc[p] = "drop"
    /\ c \in columns
    /\ columns' = columns \ {c}
    /\ columnId' = [t \in Tasks |->
                      IF columnId[t] = c THEN NoColumn ELSE columnId[t]]
    /\ stubs' = [stubs EXCEPT ![c] = @ + 1]
    /\ UNCHANGED <<position, created>>
    /\ Commit(p)

DeleteColumn(p) ==
    LET c == req[p].column IN
    /\ pc[p] = "drop"
    /\ c \in columns
    /\ columnLock[c] = NoProc
    /\ \A t \in Tasks : columnId[t] = c => rowLock[t] = NoProc
    /\ columns' = columns \ {c}
    /\ columnId' = [t \in Tasks |->
                      IF columnId[t] = c THEN NoColumn ELSE columnId[t]]
    /\ stubs' = [stubs EXCEPT ![c] = @ + 1]
    /\ UNCHANGED <<position, created>>
    /\ Commit(p)

(* count = 0: another request deleted the row first, and the stub goes.    *)
NothingDeleted(p) ==
    /\ \/ pc[p] = "delete" /\ columnId[req[p].task] = NoColumn
       \/ pc[p] = "drop" /\ req[p].column \notin columns
    /\ Rollback(p)

-----------------------------------------------------------------------------
Event(r) == CASE r.op = "create"       -> <<"TASK_CREATED", r.task>>
              [] r.op = "move"         -> <<"TASK_MOVED", r.task>>
              [] r.op = "remove"       -> <<"TASK_DELETED", r.task>>
              [] r.op = "removeColumn" -> <<"COLUMN_CHANGED", r.column>>

(* emitToBoard follows the commit and is not part of the transaction.      *)
Emit(p) ==
    /\ pc[p] = "emit"
    /\ announced' = announced \cup {Event(req[p])}
    /\ pc' = [pc EXCEPT ![p] = "idle"]
    /\ req' = [req EXCEPT ![p] = NoRequest]
    /\ UNCHANGED <<rows, locks, plan, requests>>

(* The process dies, the connection is lost or the transaction times out.  *)
Abort(p) == pc[p] # "idle" /\ Rollback(p)

-----------------------------------------------------------------------------
(* PostgreSQL's deadlock detector (external): one request of a cycle fails. *)

WaitsFor(p, q) ==
    /\ p # q
    /\ \/ pc[p] = "lock" /\ columnLock[req[p].column] = q
       \/ /\ pc[p] = "write" /\ req[p].op = "move"
          /\ rowLock[req[p].task] = q
       \/ /\ pc[p] = "batch" \/ (pc[p] = "write" /\ Rebalancing(p))
          /\ \E x \in BatchRows(p) : rowLock[x] = q
       \/ pc[p] = "delete" /\ rowLock[req[p].task] = q
       \/ /\ pc[p] = "drop"
          /\ \/ columnLock[req[p].column] = q
             \/ \E t \in Tasks : columnId[t] = req[p].column /\ rowLock[t] = q

DeadlockVictim(p) ==
    \E D \in SUBSET Procs :
        /\ p \in D
        /\ \A q \in D : \E r \in D : WaitsFor(q, r)
        /\ \A q \in D : \E r \in D : WaitsFor(r, q)

AbortDeadlock(p) == DeadlockVictim(p) /\ Rollback(p)

-----------------------------------------------------------------------------
Begin(p) == BeginCreate(p) \/ BeginMove(p) \/ BeginRemove(p) \/ BeginRemoveColumn(p)

Serve(p) == \/ LockColumn(p) \/ Reject(p)
            \/ CommitMidpoint(p) \/ UpdateMoved(p) \/ CommitRebalance(p)
            \/ MovedTaskGone(p)
            \/ DeleteTask(p) \/ DeleteColumn(p) \/ NothingDeleted(p)
            \/ Emit(p) \/ AbortDeadlock(p)

(* Every admitted request has ended and the bound admits no other.         *)
Quiescent ==
    /\ requests = MaxRequests
    /\ \A p \in Procs : pc[p] = "idle"
    /\ UNCHANGED vars

Next == (\E p \in Procs : Begin(p) \/ Serve(p) \/ Abort(p)) \/ Quiescent

Spec == Init /\ [][Next]_vars

FairSpec == Spec /\ \A p \in Procs : WF_vars(Serve(p))

-----------------------------------------------------------------------------
(* Properties.                                                             *)

(* Rows, locks, plans and requests keep their types, and every event names *)
(* what it is about: a task, or a column for COLUMN_CHANGED (emitToBoard). *)
TypeOK ==
    /\ columnId \in [Tasks -> Columns \cup {NoColumn}]
    /\ position \in [Tasks -> Int]
    /\ columns \subseteq Columns
    /\ columnLock \in [Columns -> Procs \cup {NoProc}]
    /\ rowLock \in [Tasks -> Procs \cup {NoProc}]
    /\ pc \in [Procs -> Statements]
    /\ req \in [Procs -> Requests]
    /\ slot \in [Procs -> Slots]
    /\ siblings \in [Procs -> SUBSET Tasks]
    /\ snapshot \in [Procs -> [Tasks -> Int]]
    /\ created \subseteq Tasks
    /\ stubs \in [Tasks \cup Columns -> Nat]
    /\ announced \subseteq Events
    /\ requests \in Nat

(* No two tasks of a column share a position: two requests never compute   *)
(* the same midpoint from a shared snapshot, and a rebalance never lands   *)
(* a sibling on a row it did not read (task.service.ts create and move).   *)
DistinctPositions ==
    \A x, y \in Tasks :
        x # y /\ columnId[x] = columnId[y] /\ columnId[x] # NoColumn
            => position[x] # position[y]

(* A task row always names a column row: a create or move that read the    *)
(* column before it was removed never leaves a task in it.                 *)
TaskHasColumn == \A t \in Tasks : columnId[t] \in columns \cup {NoColumn}

(* However many removals race for a row, its deletion is recorded once and *)
(* only when the row is gone (remove in task.service.ts, column.service.ts).*)
DeletionRecordedOnce ==
    /\ \A t \in Tasks : stubs[t] <= 1 /\ (stubs[t] = 1 => columnId[t] = NoColumn)
    /\ \A c \in Columns : stubs[c] <= 1 /\ (stubs[c] = 1 => c \notin columns)

(* The board room hears of a deletion, or of a creation, only when it has  *)
(* been committed: no event for a transaction that rolled back.            *)
AnnouncedIsCommitted ==
    \A t \in Tasks :
        /\ <<"TASK_CREATED", t>> \in announced => t \in created
        /\ <<"TASK_DELETED", t>> \in announced => stubs[t] = 1

-----------------------------------------------------------------------------
(* The inductive strengthening of DistinctPositions and TaskHasColumn.     *)

Holding(p) == pc[p] \in {"write", "batch"}

(* A request's fields fit the statement it is about to execute.            *)
RequestFits(p) ==
    /\ pc[p] \in {"lock", "write", "batch"} =>
          /\ req[p].op \in {"create", "move"}
          /\ req[p].task \in Tasks
          /\ req[p].column \in Columns
          /\ req[p].op = "create" => req[p].next = NoId
    /\ pc[p] = "batch" => req[p].op = "move"
    /\ pc[p] = "delete" => req[p].op = "remove" /\ req[p].task \in Tasks
    /\ pc[p] = "drop" => req[p].op = "removeColumn" /\ req[p].column \in Columns
    /\ pc[p] = "emit" => IF req[p].op = "removeColumn"
                         THEN req[p].column \in Columns
                         ELSE req[p].task \in Tasks

(* Past its lock statement a request holds its column, which still exists. *)
HoldsColumn(p) ==
    Holding(p) => /\ columnLock[req[p].column] = p
                  /\ req[p].column \in columns

(* The siblings it read are a superset of those now in the column, at the  *)
(* positions it read: the lock keeps everyone else's writes out, though    *)
(* tasks may leave.                                                        *)
SnapshotCurrent(p) ==
    Holding(p) =>
        /\ req[p].task \notin siblings[p]
        /\ \A x \in Tasks : columnId[x] = req[p].column /\ x # req[p].task =>
              x \in siblings[p] /\ position[x] = snapshot[p][x]
        /\ \A x, y \in siblings[p] : x # y => snapshot[p][x] # snapshot[p][y]

(* Its slot is one of the siblings it read, next to the neighbours named.  *)
SlotResolved(p) ==
    Holding(p) =>
        /\ IsSlot(siblings[p], snapshot[p], slot[p].prev, slot[p].next)
        /\ req[p].prev # NoId => slot[p].prev = req[p].prev
        /\ req[p].next # NoId => slot[p].next = req[p].next
        /\ req[p].prev = NoId /\ req[p].next = NoId => slot[p].next = NoId

(* Everything a request relies on between its lock and its commit stays    *)
(* true while the others take their steps (create and move).               *)
LockedSnapshot ==
    \A p \in Procs : /\ RequestFits(p)
                     /\ HoldsColumn(p)
                     /\ SnapshotCurrent(p)
                     /\ SlotResolved(p)

IndInv == TypeOK /\ LockedSnapshot /\ DistinctPositions /\ TaskHasColumn

-----------------------------------------------------------------------------
(* p's transaction places its task in this step.                           *)
Places(p) == pc[p] \in {"write", "batch"} /\ pc'[p] = "emit"

(* A step changes the order only of the task its request names: rebalancing *)
(* a column never swaps two siblings, in that column or in any other.      *)
KeepsSiblingOrder ==
    \A x, y \in Tasks :
        /\ columnId[x] = columnId[y] /\ columnId[x] # NoColumn
        /\ columnId'[x] = columnId[x] /\ columnId'[y] = columnId[y]
        /\ Before(position, x, y)
        /\ ~ Before(position', x, y)
        => \E p \in Procs : Places(p) /\ req[p].task \in {x, y}

SiblingOrderKept == [][KeepsSiblingOrder]_vars

(* A committed task stands next to the neighbours its request named, as    *)
(* long as they are still in the column, and last if it named none.        *)
LandsNextTo(t, c, prev, next) ==
    LET InColumn(x) == x # t /\ columnId'[x] = c
        Between(x, a, b) == Before(position', a, x) /\ Before(position', x, b) IN
    /\ columnId'[t] = c
    /\ prev \in Tasks /\ InColumn(prev) =>
          /\ Before(position', prev, t)
          /\ \A x \in Tasks : InColumn(x) => ~ Between(x, prev, t)
    /\ next \in Tasks /\ InColumn(next) =>
          /\ Before(position', t, next)
          /\ \A x \in Tasks : InColumn(x) => ~ Between(x, t, next)
    /\ prev = NoId /\ next = NoId =>
          \A x \in Tasks : InColumn(x) => Before(position', x, t)

PlacedAsAsked ==
    \A p \in Procs : Places(p) =>
        LandsNextTo(req[p].task, req[p].column, req[p].prev, req[p].next)

(* Every committed create and move puts its task where it was asked to.    *)
LandsInSlot == [][PlacedAsAsked]_vars

(* What the comment above ColumnService.remove says of its transaction: a  *)
(* task disappears only when a request for that task removes it, never     *)
(* with a column that was counted empty.                                   *)
OnlyRemovedTasksVanish ==
    [][\A t \in Tasks : columnId[t] # NoColumn /\ columnId'[t] = NoColumn =>
          \E p \in Procs : pc[p] = "delete" /\ req[p].task = t]_vars

(* Every admitted request ends: no cycle of column and row locks keeps one *)
(* waiting, and no request leaves a lock behind it.                        *)
RequestsEnd == \A p \in Procs : pc[p] # "idle" ~> pc[p] = "idle"
-----------------------------------------------------------------------------
(* What the positions promise: each column is a list in one order, and the *)
(* board one of OrderedLists.                                              *)
AheadBy(col, pos) ==
    {pair \in Tasks \X Tasks : /\ col[pair[1]] = col[pair[2]] /\ col[pair[1]] # NoColumn
                              /\ Before(pos, pair[1], pair[2])}

Board == INSTANCE OrderedLists
            WITH Items <- Tasks, Lists <- Columns, NoList <- NoColumn,
                 FirstMember <- SeedColumn, FirstAhead <- AheadBy(SeedColumn, SeedPosition),
                 open <- columns, member <- columnId,
                 ahead <- AheadBy(columnId, position), used <- created

(* Whatever the requests interleave, and whether a move is one midpoint or *)
(* renumbers a column in two statements, a commit is one list operation: a *)
(* new task put in once, a task moved or taken out, or a column closed with *)
(* what it holds (task.service.ts, column.service.ts remove).              *)
ColumnsAreLists == Board!ListSpec

(* What the rest of the system is told is true: a deletion is recorded     *)
(* once however many requests ask for it, and an event is sent only of     *)
(* what committed (task.service.ts).                                       *)
EventsAreTrue == DeletionRecordedOnce /\ AnnouncedIsCommitted

(* The inductive strengthening of EventsAreTrue: a create has its id to    *)
(* itself, a move that wrote its own row keeps it from being deleted, and  *)
(* a request emits what its transaction committed.                         *)
OwnId(p) ==
    pc[p] \in {"lock", "write"} /\ req[p].op = "create" =>
        /\ req[p].task \notin created
        /\ \A q \in Procs \ {p} : req[q].task # req[p].task

KeepsRow(p) ==
    pc[p] = "batch" => /\ rowLock[req[p].task] = p
                       /\ columnId[req[p].task] # NoColumn

HasCommitted(p) ==
    pc[p] = "emit" => /\ req[p].op = "create" => req[p].task \in created
                      /\ req[p].op = "remove" => stubs[req[p].task] = 1

EventInv ==
    /\ \A p \in Procs : OwnId(p) /\ KeepsRow(p) /\ HasCommitted(p)
    /\ \A t \in Tasks : columnId[t] # NoColumn \/ stubs[t] = 1 => t \in created
    /\ EventsAreTrue
=============================================================================
