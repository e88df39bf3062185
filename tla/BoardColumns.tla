---------------------------- MODULE BoardColumns ----------------------------
(***************************************************************************)
(* The columns of a board in one browser: the dialogs that create, rename  *)
(* and delete one, the menu that moves one, the button that seeds the      *)
(* defaults, and the re-read of the list that every COLUMN_CHANGED event,  *)
(* the tab's own included, brings (use-board-mutations.ts, board-view.tsx, *)
(* board-dialogs.tsx, use-board-realtime.ts).  Others write meanwhile.     *)
(*                                                                         *)
(* The server writes one column at a time (BoardLayout); the socket keeps  *)
(* its order, HTTP answers do not; a read finds the list of the moment it  *)
(* is sent, for one served later only finds a newer list.  A column is its *)
(* id and its name, which stands for everything the settings dialog sends. *)
(***************************************************************************)
EXTENDS Integers, Sequences, FiniteSets, SequencesExt

CONSTANTS StartLists,    \* what the board may start with
          ColumnLabels,
          SeedCount,     \* the default columns of an empty board
          MaxColumnWork, MaxColumnFaults

(* A board starts with columns 1, 2, ... of which none is full, and the    *)
(* defaults are at least one.                                              *)
ASSUME ColumnsAssumption ==
    /\ ColumnLabels # {} /\ SeedCount \in Nat \ {0} /\ MaxColumnWork \in Nat
    /\ \A list \in StartLists :
          /\ list \in Seq([id : Nat, name : ColumnLabels, full : BOOLEAN])
          /\ \A i \in DOMAIN list : list[i].id \in 1 .. Len(list) /\ ~list[i].full

VARIABLES columns,     \* the server's list
          cardAt,      \* the column of the one card, on the server
          listVersion, \* writes to the columns so far
          shownCols,   \* the list on the screen
          cardShown,   \* the column the screen shows the card in, or Nowhere
          colEvents,   \* events under way: NoOne, or the column the card was moved to
          listReads,   \* reads of the list under way
          cardReads,   \* reads of the card under way, as the column they found
          own,         \* this tab's writes under way
          dialog,      \* the dialog open
          seeding,     \* defaultsPending
          newestList,  \* the version of the newest list shown
          overtaken,   \* an older answer was put over a newer list, or a read failed
          cardMissed,  \* an older place was put over the card shown, or its read failed
          given,       \* ids 1 .. given have been given out, each once
          colWork, colFaults

colsVars == <<columns, cardAt, listVersion, shownCols, cardShown, colEvents, listReads, cardReads, own,
              dialog, seeding, newestList, overtaken, cardMissed, given, colWork, colFaults>>
columnStore == <<columns, cardAt, listVersion, colEvents, given>>
board == <<shownCols, cardShown>>
listTrust == <<newestList, overtaken>>
trust == <<listTrust, cardMissed>>
waiting == <<dialog, seeding>>
effort == <<colWork, colFaults>>

Nowhere == 0
NoOne == 0
Col(c, n) == [id |-> c, name |-> n, full |-> FALSE]
Ids(list) == {list[i].id : i \in DOMAIN list}
ColAt(list, c) == CHOOSE i \in DOMAIN list : list[i].id = c
(* filter; SelectSeq says the same, which no prover expands.               *)
Without(list, c) ==
    LET kept == {i \in DOMAIN list : list[i].id # c} IN
    [k \in 1 .. Cardinality(kept) |->
        list[CHOOSE i \in kept : Cardinality({j \in kept : j < i}) = k - 1]]
Renamed(list, col) == [i \in DOMAIN list |-> IF list[i].id = col.id THEN col ELSE list[i]]
(* The answers carry taskCount as well, as it is when they are made.       *)
Counted(list, at) == [i \in DOMAIN list |-> [list[i] EXCEPT !.full = (list[i].id = at)]]
AnyLabel == CHOOSE n \in ColumnLabels : TRUE
Closed == [kind |-> "none", col |-> NoOne, name |-> AnyLabel, blocked |-> FALSE, pending |-> 0]

(* The board as loaded, with its card in the first column; the card may    *)
(* have moved since, which no count follows.                               *)
ColumnsInit ==
    /\ columns \in StartLists
    /\ cardAt \in IF columns = << >> THEN {Nowhere} ELSE Ids(columns)
    /\ cardShown = cardAt
    /\ shownCols = IF columns = << >> THEN << >> ELSE Counted(columns, columns[1].id)
    /\ listVersion = 0 /\ colEvents = << >> /\ given = Len(columns)
    /\ listReads = {} /\ cardReads = {} /\ own = {}
    /\ dialog = Closed /\ seeding = FALSE
    /\ newestList = 0 /\ overtaken = FALSE /\ cardMissed = FALSE
    /\ colWork = 0 /\ colFaults = 0
-----------------------------------------------------------------------------
(* Server side: what a committed write does to the list, and its events:   *)
(* one for each column written (emitChanged).                              *)
CommitColumns(list, fresh, told) ==
    /\ columns' = list /\ listVersion' = listVersion + 1
    /\ colEvents' = colEvents \o [i \in 1 .. told |-> NoOne]
    /\ given' = given + fresh
    /\ UNCHANGED cardAt

(* resolveCreateNeighbors: after the named column, or at the end.          *)
CreatedColumn(col, after) ==
    IF after = NoOne THEN Append(columns, col) ELSE InsertAt(columns, ColAt(columns, after) + 1, col)

(* resolveMoveNeighbors: the neighbours must still be there and adjacent.  *)
Adjacent(c, before, after) ==
    LET rest == Without(columns, c)
    IN /\ c \in Ids(columns) /\ {before, after} \ {NoOne} \subseteq Ids(rest)
       /\ (before # NoOne /\ after # NoOne) => ColAt(rest, after) = ColAt(rest, before) + 1
MovedColumn(c, before, after) ==
    LET rest == Without(columns, c)
        slot == IF before # NoOne THEN ColAt(rest, before) + 1
                ELSE IF after # NoOne THEN ColAt(rest, after) ELSE Len(rest) + 1
    IN InsertAt(rest, slot, columns[ColAt(columns, c)])

Defaults == [i \in 1 .. SeedCount |-> Col(given + i, AnyLabel)]

Worked == colWork < MaxColumnWork /\ colWork' = colWork + 1 /\ UNCHANGED colFaults
Faulted == colFaults < MaxColumnFaults /\ colFaults' = colFaults + 1 /\ UNCHANGED colWork

(* Somebody else creates a column at the end, moves one to the front,      *)
(* renames one, removes one without the card, or moves the card.           *)
OthersWrite ==
    /\ Worked /\ columns # << >>
    /\ \/ CommitColumns(Append(columns, Col(given + 1, AnyLabel)), 1, 1)
       \/ \E c \in Ids(columns) : c # columns[1].id /\ CommitColumns(MovedColumn(c, NoOne, columns[1].id), 0, 1)
       \/ \E c \in Ids(columns), n \in ColumnLabels : CommitColumns(Renamed(columns, Col(c, n)), 0, 1)
       \/ \E c \in Ids(columns) \ {cardAt} : CommitColumns(Without(columns, c), 0, 1)
       \/ \E c \in Ids(columns) \ {cardAt} :
             /\ cardAt # Nowhere /\ cardAt' = c
             /\ colEvents' = Append(colEvents, c) /\ UNCHANGED <<columns, listVersion, given>>
    /\ UNCHANGED <<board, listReads, cardReads, own, waiting, trust>>

(* The server takes one of this tab's writes, or refuses it.               *)
WrittenColumn(r) == IF r.kind = "create" THEN Col(given + 1, r.col.name) ELSE r.col
Taken(r) == Counted(IF r.kind = "seed" THEN Defaults ELSE <<columns'[ColAt(columns', WrittenColumn(r).id)]>>, cardAt)
Allowed(r) ==
    CASE r.kind = "create" -> r.after = NoOne \/ r.after \in Ids(columns)
      [] r.kind = "rename" -> r.col.id \in Ids(columns)
      [] r.kind = "delete" -> r.col.id \in Ids(columns) \ {cardAt}
      [] r.kind = "move" -> Adjacent(r.col.id, r.before, r.after)
      [] OTHER -> columns = << >>
Effect(r) ==
    CASE r.kind = "create" -> CreatedColumn(WrittenColumn(r), r.after)
      [] r.kind = "rename" -> Renamed(columns, r.col)
      [] r.kind = "delete" -> Without(columns, r.col.id)
      [] r.kind = "move" -> MovedColumn(r.col.id, r.before, r.after)
      [] OTHER -> Defaults
NewColumns(r) == CASE r.kind = "create" -> 1 [] r.kind = "seed" -> SeedCount [] OTHER -> 0
ServeColumn(r) ==
    /\ r.phase = "sent"
    /\ \/ /\ Allowed(r) /\ CommitColumns(Effect(r), NewColumns(r), IF r.kind = "seed" THEN SeedCount ELSE 1)
          /\ own' = (own \ {r}) \cup {[r EXCEPT !.phase = "done", !.ver = listVersion',
                                        !.answer = IF r.kind = "delete" THEN << >> ELSE Taken(r)]}
       \/ /\ ~Allowed(r) /\ own' = (own \ {r}) \cup {[r EXCEPT !.phase = "refused"]}
          /\ UNCHANGED columnStore
    /\ UNCHANGED <<board, listReads, cardReads, waiting, trust, effort>>

(* A write lost on its way, or its answer on the way back.                 *)
RequestFails(r) ==
    /\ r.phase \in {"sent", "done"} /\ Faulted
    /\ own' = (own \ {r}) \cup {[r EXCEPT !.phase = "failed"]}
    /\ UNCHANGED <<columnStore, board, listReads, cardReads, waiting, trust>>
-----------------------------------------------------------------------------
(* useBoardDialogs: one dialog, of a column as the screen shows it now.    *)
OpenDialog ==
    /\ dialog = Closed /\ colWork < MaxColumnWork
    /\ \/ dialog' = [Closed EXCEPT !.kind = "create"]
       \/ \E i \in DOMAIN shownCols, kind \in {"rename", "delete"} :
             dialog' = [Closed EXCEPT !.kind = kind, !.col = shownCols[i].id, !.name = shownCols[i].name,
                                       !.blocked = kind = "delete" /\ shownCols[i].full]
    /\ UNCHANGED <<columnStore, board, listReads, cardReads, own, seeding, trust, effort>>

CloseDialog ==
    /\ dialog # Closed /\ dialog' = Closed
    /\ UNCHANGED <<columnStore, board, listReads, cardReads, own, seeding, trust, effort>>

ColumnRequest(kind, col) == [kind |-> kind, col |-> col, after |-> NoOne, before |-> NoOne,
                             rest |-> << >>, from |-> << >>, slot |-> 0, phase |-> "sent",
                             turn |-> colWork + 1, ver |-> 0, answer |-> << >>]
PostColumn(r) == /\ Worked /\ own' = own \cup {r}
                 /\ UNCHANGED <<columnStore, board, listReads, cardReads, trust>>

(* The form is sent: a new column after the last one shown, every field of *)
(* the settings, a removal only when taskCount was 0 when it was opened.   *)
SubmitDialog ==
    /\ dialog.kind # "none" /\ dialog.pending = 0
    /\ dialog' = [dialog EXCEPT !.pending = colWork + 1]
    /\ \/ /\ dialog.kind = "create"
          /\ PostColumn([ColumnRequest("create", Col(dialog.col, dialog.name)) EXCEPT
                      !.after = IF shownCols = << >> THEN NoOne ELSE shownCols[Len(shownCols)].id])
       \/ /\ dialog.kind = "rename"
          /\ \E n \in ColumnLabels : PostColumn(ColumnRequest("rename", Col(dialog.col, n)))
       \/ /\ dialog.kind = "delete" /\ ~dialog.blocked
          /\ PostColumn(ColumnRequest("delete", Col(dialog.col, dialog.name)))
    /\ UNCHANGED seeding

(* moveColumn: the neighbours, and the list without the column, are taken  *)
(* from the screen before the answer.                                      *)
moveColumn(i, direction) ==
    LET target == i + direction
        rest == Without(shownCols, shownCols[i].id)
    IN /\ target \in DOMAIN shownCols /\ \A j \in 1 .. i - 1 : shownCols[j].id # shownCols[i].id
       /\ PostColumn([ColumnRequest("move", shownCols[i]) EXCEPT
                  !.before = IF target - 1 \in DOMAIN rest THEN rest[target - 1].id ELSE NoOne,
                  !.after = IF target \in DOMAIN rest THEN rest[target].id ELSE NoOne,
                  !.rest = rest, !.from = shownCols,
                  !.slot = IF target > Len(rest) THEN Len(rest) + 1 ELSE target])
       /\ UNCHANGED waiting

(* seedDefaults, offered while the board shows no column.                  *)
seedDefaults ==
    /\ shownCols = << >> /\ ~seeding /\ seeding' = TRUE
    /\ PostColumn(ColumnRequest("seed", Col(NoOne, AnyLabel)))
    /\ UNCHANGED dialog

(* What an answer does to the list: append, replace, drop, splice into the *)
(* list of before, overwrite.                                              *)
Put(r) ==
    CASE r.kind = "create" -> shownCols \o r.answer
      [] r.kind = "rename" -> Renamed(shownCols, r.answer[1])
      [] r.kind = "delete" -> Without(shownCols, r.col.id)
      [] r.kind = "move" -> InsertAt(r.rest, r.slot, r.answer[1])
      [] OTHER -> r.answer

(* The answer is put over a list that already has it, or is newer.         *)
LateAnswer(r) == \/ r.kind # "delete" /\ r.ver <= newestList
                 \/ r.kind = "move" /\ shownCols # r.from

(* onOpenChange(false): a dialog of that kind that is open is closed, the  *)
(* one that asked or one opened since.                                     *)
AnswerArrives(r) ==
    /\ r.phase = "done"
    /\ own' = own \ {r}
    /\ shownCols' = Put(r)
    /\ overtaken' = (overtaken \/ LateAnswer(r))
    /\ cardShown' = IF r.kind = "delete" /\ cardShown = r.col.id THEN Nowhere ELSE cardShown
    /\ dialog' = IF dialog.kind = r.kind THEN Closed ELSE dialog
    /\ seeding' = (seeding /\ r.kind # "seed")
    /\ UNCHANGED <<columnStore, listReads, cardReads, newestList, cardMissed, effort>>

ReadList(seeds) == [ver |-> listVersion, list |-> Counted(columns, cardAt), seeds |-> seeds]

(* A refusal shows in the dialog that asked or in a toast; a 409 to the    *)
(* seeding reads the board again before the button is offered again.       *)
RefusalArrives(r) ==
    /\ r.phase \in {"refused", "failed"}
    /\ own' = own \ {r}
    /\ listReads' = IF r.kind = "seed" /\ r.phase = "refused"
                  THEN listReads \cup {ReadList(TRUE)} ELSE listReads
    /\ seeding' = (seeding /\ (r.kind # "seed" \/ r.phase = "refused"))
    /\ dialog' = IF dialog.pending = r.turn THEN [dialog EXCEPT !.pending = 0] ELSE dialog
    /\ UNCHANGED <<columnStore, board, cardReads, trust, effort>>
-----------------------------------------------------------------------------
(* Faulty variant: the tab's own announcements are dropped.                *)
onColumnChangedOthers == listReads' = IF own # {} THEN listReads ELSE listReads \cup {ReadList(FALSE)}

(* onColumnChanged: the list is read again, whoever changed it.            *)
onColumnChanged == listReads' = listReads \cup {ReadList(FALSE)}

(* onTaskMoved by somebody else: the card moves, or is read when missing.  *)
onCardMoved(to) ==
    IF cardShown = Nowhere THEN cardReads' = cardReads \cup {cardAt} /\ UNCHANGED cardShown
    ELSE cardShown' = to /\ UNCHANGED cardReads

ColumnEventArrives ==
    /\ colEvents # << >> /\ colEvents' = Tail(colEvents)
    /\ \/ Head(colEvents) = NoOne /\ onColumnChanged /\ UNCHANGED <<cardShown, cardReads>>
       \/ Head(colEvents) # NoOne /\ onCardMoved(Head(colEvents)) /\ UNCHANGED listReads
    /\ UNCHANGED <<columns, cardAt, listVersion, given, shownCols, own, waiting, trust, effort>>

(* refetchColumns, or the reload of a refused seeding, answers: the list   *)
(* replaces the one shown, in whatever order the answers come.             *)
ReadArrives(q) ==
    /\ listReads' = listReads \ {q}
    /\ shownCols' = q.list
    /\ overtaken' = (overtaken \/ q.ver < newestList)
    /\ newestList' = IF q.ver > newestList THEN q.ver ELSE newestList
    /\ seeding' = (seeding /\ ~q.seeds)
    /\ UNCHANGED <<columnStore, cardShown, cardReads, own, dialog, cardMissed, effort>>

(* A failed read keeps the list and is not repeated.                       *)
ReadFails(q) ==
    /\ Faulted
    /\ listReads' = listReads \ {q}
    /\ overtaken' = TRUE
    /\ seeding' = (seeding /\ ~q.seeds)
    /\ UNCHANGED <<columnStore, board, cardReads, own, dialog, newestList, cardMissed>>

(* The card found goes on the screen, or in the place of the one there.    *)
CardReadArrives(at) ==
    /\ cardReads' = cardReads \ {at} /\ cardShown' = at
    /\ cardMissed' = (cardMissed \/ (cardShown # Nowhere /\ at # cardAt))
    /\ UNCHANGED <<columnStore, shownCols, listReads, own, waiting, listTrust, effort>>

CardReadFails(at) ==
    /\ Faulted
    /\ cardReads' = cardReads \ {at} /\ cardMissed' = TRUE
    /\ UNCHANGED <<columnStore, board, listReads, own, waiting, listTrust>>

Travels == \/ \E r \in own : ServeColumn(r) \/ AnswerArrives(r) \/ RefusalArrives(r)
           \/ \E q \in listReads : ReadArrives(q)
           \/ ColumnEventArrives \/ \E at \in cardReads : CardReadArrives(at)
ColumnsNext ==
    \/ Travels \/ OthersWrite \/ OpenDialog \/ CloseDialog \/ SubmitDialog \/ seedDefaults
    \/ \E i \in DOMAIN shownCols, direction \in {-1, 1} : moveColumn(i, direction)
    \/ \E r \in own : RequestFails(r)
    \/ \E q \in listReads : ReadFails(q)
    \/ \E at \in cardReads : CardReadFails(at)
-----------------------------------------------------------------------------
(* Lists hold known columns; the dialog, the reads and the writes are as   *)
(* declared.                                                               *)
ColumnsTypeOK ==
    /\ Ids(columns) \cup Ids(shownCols) \subseteq 1 .. given
    /\ {cardAt, cardShown} \subseteq 0 .. given
    /\ dialog.pending \in 0 .. MaxColumnWork /\ newestList <= listVersion
    /\ \A r \in own : r.phase \in {"sent", "done", "refused", "failed"}

(* Once nothing is under way the screen has the server's columns, in the   *)
(* server's order, under the server's names - unless an older answer was   *)
(* put over a newer list, or a read failed: neither is ever corrected      *)
(* before the next event (use-board-mutations.ts:200, board-view.tsx:391,  *)
(* use-board-realtime.ts:237).                                             *)
QuietColumnsAreCurrent ==
    colEvents = << >> /\ listReads = {} /\ own = {} /\ ~overtaken => Counted(shownCols, NoOne) = columns

(* Deleting a column drops the cards the screen shows in it.  One that     *)
(* somebody moved out just before, so that the server allowed the          *)
(* deletion, comes back with the event of that move - unless its read      *)
(* failed, or one that found it elsewhere was put over it later            *)
(* (use-board-realtime.ts:140), which the next event corrects at best.     *)
CardOutlivesColumn == colEvents = << >> /\ cardReads = {} /\ ~cardMissed => cardShown = cardAt

(* The screen follows the columns and the card of another tab.             *)
ShownColumnsSound == ColumnsTypeOK /\ QuietColumnsAreCurrent /\ CardOutlivesColumn
=============================================================================
