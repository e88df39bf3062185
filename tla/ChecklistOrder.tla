--------------------------- MODULE ChecklistOrder ---------------------------
(***************************************************************************)
(* The checklists of a task and the items of a checklist:                  *)
(* task/checklist.service.ts and task/checklist-item.service.ts.           *)
(*                                                                         *)
(* Both levels are rows below a parent row (the task, a checklist) with a  *)
(* fractional position.  An append locks the parent; a move locks nothing, *)
(* reads the siblings in one statement and writes a midpoint in another,   *)
(* and never rebalances.                                                   *)
(***************************************************************************)
EXTENDS FractionalIndex, RequestPool

CONSTANTS CheckRows,    \* the row ids that can ever be generated, in Nat
          TaskRow,      \* the task, parent of the checklists; not in CheckRows
          NoParent,
          StartParent   \* the rows the task starts with, appended one by one

VARIABLES parent,       \* Checklist.taskId, ChecklistItem.checklistId
          checkPos,     \* position
          isDone,       \* ChecklistItem.isDone
          checkLock,    \* holder of FOR UPDATE on a parent row
          checkJob,     \* the request each process serves
          madeAt,       \* history: the order rows were created in
          movedRows,    \* history: rows whose position a move has written
          roomCurrent,  \* history: the board room was told after the last write
          checkRequests

checkVars == <<parent, checkPos, isDone, checkLock, checkJob, madeAt, movedRows,
               roomCurrent, checkRequests>>

Parents == CheckRows \cup {TaskRow}
Live(x) == IF x = TaskRow THEN TRUE ELSE parent[x] # NoParent
IsChecklist(x) == x \in CheckRows /\ parent[x] = TaskRow
ChildrenOf(q) == {x \in CheckRows : parent[x] = q}

(* Ids are given out in order (UUIDv7 under the parent's lock), and what a *)
(* task starts with are checklists and their items.                        *)
ASSUME ChecklistAssumption ==
    /\ IsFiniteSet(CheckRows) /\ CheckRows = 1 .. Cardinality(CheckRows)
    /\ TaskRow \notin CheckRows /\ NoParent \notin Parents
    /\ StartParent \in [CheckRows -> Parents \cup {NoParent}]
    /\ \A x, y \in CheckRows :
          x <= y /\ StartParent[y] # NoParent => StartParent[x] # NoParent
    /\ \A x \in CheckRows :
          StartParent[x] \in CheckRows => StartParent[StartParent[x]] = TaskRow

CheckJobs == [step : {"idle", "append", "insert", "put", "emit"},
              row : CheckRows \cup {NoId}, under : Parents \cup {NoParent},
              prev : CheckRows \cup {NoId}, next : CheckRows \cup {NoId},
              pos : Int]
NoCheckJob == [step |-> "idle", row |-> NoId, under |-> NoParent,
               prev |-> NoId, next |-> NoId, pos |-> 0]

ChecklistInit ==
    /\ parent = StartParent
    /\ checkPos = [x \in CheckRows |->
                     Cardinality({y \in CheckRows : StartParent[y] = StartParent[x] /\ y <= x})
                         * POSITION_GAP]
    /\ isDone = {}
    /\ checkLock = [q \in Parents |-> NoProc]
    /\ checkJob = [p \in Procs |-> NoCheckJob]
    /\ madeAt = [x \in CheckRows |-> IF StartParent[x] = NoParent THEN 0 ELSE x]
    /\ movedRows = {}
    /\ roomCurrent = TRUE
    /\ checkRequests = 0

AdmitCheck == /\ checkRequests < MaxRequests
              /\ checkRequests' = checkRequests + 1

CheckDone(p) == checkJob' = [checkJob EXCEPT ![p] = NoCheckJob]

(* A committed write: the handler goes on to taskEvents.emitUpdated.       *)
Written(p) == /\ checkJob' = [checkJob EXCEPT ![p] = [NoCheckJob EXCEPT !.step = "emit"]]
              /\ roomCurrent' = FALSE

(* emitUpdated reads the task again and tells the board room.              *)
EmitUpdated(p) ==
    /\ checkJob[p].step = "emit"
    /\ roomCurrent' = TRUE
    /\ CheckDone(p)
    /\ UNCHANGED <<parent, checkPos, isDone, checkLock, madeAt, movedRows, checkRequests>>

-----------------------------------------------------------------------------
(* create of a checklist: the task is found before the transaction.        *)
BeginChecklist(p) ==
    /\ checkJob[p].step = "idle" /\ AdmitCheck
    /\ checkJob' = [checkJob EXCEPT ![p] = [NoCheckJob EXCEPT !.step = "append",
                                                             !.under = TaskRow]]
    /\ UNCHANGED <<parent, checkPos, isDone, checkLock, madeAt, movedRows, roomCurrent>>

(* create of an item: task and checklist are found before the transaction. *)
BeginItem(p) ==
    \E q \in CheckRows :
        /\ checkJob[p].step = "idle" /\ AdmitCheck
        /\ IsChecklist(q)
        /\ checkJob' = [checkJob EXCEPT ![p] = [NoCheckJob EXCEPT !.step = "append",
                                                                 !.under = q]]
        /\ UNCHANGED <<parent, checkPos, isDone, checkLock, madeAt, movedRows, roomCurrent>>

(* ORDER BY position DESC, the first row: its position or 0, plus the gap. *)
AppendPosition(q) ==
    LET rows == ChildrenOf(q) IN
    IF rows = {} THEN POSITION_GAP
    ELSE (CHOOSE m \in {checkPos[x] : x \in rows} :
              \A x \in rows : checkPos[x] <= m) + POSITION_GAP

(* Faulty variant: the last row is read without the lock on the parent.    *)
ReadLastUnlocked(p) ==
    LET q == checkJob[p].under IN
    /\ checkJob[p].step = "append"
    /\ checkJob' = [checkJob EXCEPT ![p].step = "insert", ![p].pos = AppendPosition(q)]
    /\ UNCHANGED <<parent, checkPos, isDone, checkLock, madeAt, movedRows, roomCurrent,
                   checkRequests>>

(* SELECT ... FOR UPDATE on the parent, then the read of the last row.     *)
ReadLast(p) ==
    LET q == checkJob[p].under IN
    /\ checkJob[p].step = "append"
    /\ checkLock[q] = NoProc
    /\ checkLock' = [checkLock EXCEPT ![q] = p]
    /\ checkJob' = [checkJob EXCEPT ![p].step = "insert", ![p].pos = AppendPosition(q)]
    /\ UNCHANGED <<parent, checkPos, isDone, madeAt, movedRows, roomCurrent, checkRequests>>

Unlocked(p) == [q \in Parents |-> IF checkLock[q] = p THEN NoProc ELSE checkLock[q]]

InsertRow(p) ==
    \E x \in CheckRows :
        /\ checkJob[p].step = "insert"
        /\ Live(checkJob[p].under)
        /\ madeAt[x] = 0 /\ \A y \in CheckRows : madeAt[y] = 0 => x <= y
        /\ parent' = [parent EXCEPT ![x] = checkJob[p].under]
        /\ checkPos' = [checkPos EXCEPT ![x] = checkJob[p].pos]
        /\ madeAt' = [madeAt EXCEPT ![x] = Cardinality({y \in CheckRows : madeAt[y] > 0}) + 1]
        /\ checkLock' = Unlocked(p)
        /\ Written(p)
        /\ UNCHANGED <<isDone, movedRows, checkRequests>>

(* The insert fails its foreign key because the parent went before it was  *)
(* locked, or the transaction times out.                                   *)
InsertRefused(p) ==
    /\ checkJob[p].step = "insert"
    /\ checkLock' = Unlocked(p)
    /\ CheckDone(p)
    /\ UNCHANGED <<parent, checkPos, isDone, madeAt, movedRows, roomCurrent, checkRequests>>

-----------------------------------------------------------------------------
(* move, both levels: the siblings are read and the slot is resolved.  With *)
(* no afterId the row goes first.                                          *)
SlotAfter(S, after, prev, next) ==
    /\ IsSlot(S, checkPos, prev, next)
    /\ prev = after

BeginMoveRow(p) ==
    \E x \in CheckRows, after \in CheckRows \cup {NoId}, prev, next \in CheckRows \cup {NoId} :
        /\ checkJob[p].step = "idle" /\ AdmitCheck
        /\ Live(x) /\ after # x
        /\ SlotAfter(ChildrenOf(parent[x]) \ {x}, after, prev, next)
        /\ checkJob' = [checkJob EXCEPT ![p] =
              [NoCheckJob EXCEPT !.step = "put", !.row = x, !.under = parent[x],
                  !.prev = after, !.next = next, !.pos = midpoint(checkPos, prev, next)]]
        /\ UNCHANGED <<parent, checkPos, isDone, checkLock, madeAt, movedRows, roomCurrent>>

(* The update names the row by id; it waits only for a lock on that row.   *)
PutRow(p) ==
    LET x == checkJob[p].row IN
    /\ checkJob[p].step = "put"
    /\ checkLock[x] = NoProc
    /\ IF Live(x)
       THEN /\ checkPos' = [checkPos EXCEPT ![x] = checkJob[p].pos]
            /\ movedRows' = movedRows \cup {x}
            /\ Written(p)
       ELSE CheckDone(p) /\ UNCHANGED <<checkPos, movedRows, roomCurrent>>
    /\ UNCHANGED <<parent, isDone, checkLock, madeAt, checkRequests>>

-----------------------------------------------------------------------------
(* update of an item: isDone is set, whatever it was.                      *)
SetDone(p) ==
    \E x \in CheckRows, value \in BOOLEAN :
        /\ checkJob[p].step = "idle" /\ AdmitCheck
        /\ Live(x) /\ ~ IsChecklist(x)
        /\ isDone' = IF value THEN isDone \cup {x} ELSE isDone \ {x}
        /\ Written(p)
        /\ UNCHANGED <<parent, checkPos, checkLock, madeAt, movedRows>>

(* remove, both levels: one deleteMany; a checklist takes its items along. *)
RemoveRow(p) ==
    \E x \in CheckRows :
        /\ checkJob[p].step = "idle" /\ AdmitCheck
        /\ Live(x) /\ checkLock[x] = NoProc
        /\ parent' = [y \in CheckRows |->
                        IF y = x \/ parent[y] = x THEN NoParent ELSE parent[y]]
        /\ isDone' = {y \in isDone : y # x /\ parent[y] # x}
        /\ Written(p)
        /\ UNCHANGED <<checkPos, checkLock, madeAt, movedRows>>

ChecklistNext == \E p \in Procs :
    \/ BeginChecklist(p) \/ BeginItem(p) \/ ReadLast(p) \/ InsertRow(p)
    \/ EmitUpdated(p) \/ InsertRefused(p) \/ BeginMoveRow(p) \/ PutRow(p)
    \/ SetDone(p) \/ RemoveRow(p)

ChecklistSpec == ChecklistInit /\ [][ChecklistNext]_checkVars

-----------------------------------------------------------------------------
(* Rows, locks and requests keep their types; only living rows are done    *)
(* (checklist.service.ts, checklist-item.service.ts).                      *)
ChecklistTypeOK ==
    /\ parent \in [CheckRows -> Parents \cup {NoParent}]
    /\ checkPos \in [CheckRows -> Int]
    /\ \A x \in isDone : x \in CheckRows /\ Live(x)
    /\ checkLock \in [Parents -> Procs \cup {NoProc}]
    /\ madeAt \in [CheckRows -> Nat]
    /\ checkJob \in [Procs -> CheckJobs]
    /\ movedRows \subseteq CheckRows /\ roomCurrent \in BOOLEAN

(* An item hangs below a checklist that exists, and never deeper: an       *)
(* append that had found its checklist never outlives it.                  *)
ItemsHaveChecklist ==
    \A x \in CheckRows : parent[x] \in CheckRows => parent[parent[x]] = TaskRow

(* Once no request is under way the board room has been told of a state    *)
(* read after the last write: every write path ends in emitUpdated.        *)
QuietRoomIsTold == (\A p \in Procs : checkJob[p].step = "idle") => roomCurrent

(* However many appends race, the rows nobody has moved stand in the order *)
(* they were created in, so no two of them share a position.               *)
AppendsKeepOrder ==
    \A x, y \in CheckRows \ movedRows :
        /\ parent[x] = parent[y] /\ parent[x] # NoParent
        /\ madeAt[x] < madeAt[y]
        => checkPos[x] < checkPos[y]

(* A move whose list did not change between its read and its write, and    *)
(* whose neighbours were a unit apart at least, lands right behind the row *)
(* it named, or first when it named none.                                  *)
QuietMoveLands ==
    [][\A p \in Procs :
        LET job == checkJob[p]
            x == job.row
            others == ChildrenOf(job.under) \ {x} IN
        /\ job.step = "put" /\ checkJob'[p].step = "emit"
        /\ SlotAfter(others, job.prev, job.prev, job.next)
        /\ job.pos = midpoint(checkPos, job.prev, job.next)
        /\ job.prev # NoId /\ job.next # NoId =>
              checkPos[job.next] - checkPos[job.prev] > 1
        => /\ job.prev # NoId => checkPos'[job.prev] < checkPos'[x]
           /\ job.next # NoId => checkPos'[x] < checkPos'[job.next]
           /\ job.prev = NoId => \A y \in others : checkPos'[x] < checkPos'[y]
      ]_checkVars

(* Rows are made in the order of their ids, and only those are there.      *)
RowsAreMade ==
    /\ \A x \in CheckRows : madeAt[x] \in {0, x}
    /\ \A x, y \in CheckRows : x <= y /\ madeAt[y] # 0 => madeAt[x] # 0
    /\ \A x \in CheckRows : madeAt[x] = 0 => parent[x] = NoParent /\ x \notin movedRows

(* An append goes below the task or a checklist that was made.  While it   *)
(* holds the parent's lock, every row nobody moved is above its position.  *)
AppendStands(p) ==
    LET job == checkJob[p] IN
    /\ job.step \in {"append", "insert"} =>
          \/ job.under = TaskRow
          \/ /\ job.under \in CheckRows /\ madeAt[job.under] # 0
             /\ parent[job.under] \in {TaskRow, NoParent}
    /\ job.step = "insert" =>
          /\ checkLock[job.under] = p
          /\ \A y \in CheckRows \ movedRows : parent[y] = job.under => checkPos[y] < job.pos
    /\ job.step = "put" => job.row \in CheckRows

RoomIsOwed == roomCurrent \/ \E p \in Procs : checkJob[p].step = "emit"

ChecklistInv == /\ ChecklistTypeOK /\ ItemsHaveChecklist /\ AppendsKeepOrder
                /\ RowsAreMade /\ RoomIsOwed
                /\ \A p \in Procs : AppendStands(p)

(* However appends, moves, ticks and removals overlap, no item is left     *)
(* without its checklist, what nobody moved stands in the order it was     *)
(* made in, and the room is told of the last write.                        *)
ChecklistsSound == ChecklistTypeOK /\ ItemsHaveChecklist /\ AppendsKeepOrder /\ QuietRoomIsTold
=============================================================================
