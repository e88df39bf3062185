----------------------------- MODULE PagedList -----------------------------
(***************************************************************************)
(* Cursor pages and the client that drains them: toCursorPage, the lists   *)
(* of members, invitations, activities and notifications that use it, and  *)
(* drainCursorPages in web/lib/member-query.ts.                            *)
(*                                                                         *)
(* Rows are inserted and deleted between two pages.  Ids are UUIDv7: a     *)
(* later row usually, but not always, has the larger id, because the id is *)
(* generated before the transaction commits; here any free id may appear.  *)
(***************************************************************************)
EXTENDS Integers, FiniteSets

CONSTANTS RowIds,       \* the ids rows can have, in Nat \ {0}
          DEFAULT_PAGE_LIMIT, MAX_PAGE_LIMIT,
          AskedLimits,  \* what ?limit= may say; below 1 when absent or unusable
          MaxChanges    \* bound: inserts and deletes during a walk

ASSUME PageAssumption ==
    /\ IsFiniteSet(RowIds) /\ RowIds \subseteq Nat \ {0}
    /\ MAX_PAGE_LIMIT \in Nat /\ DEFAULT_PAGE_LIMIT \in 1 .. MAX_PAGE_LIMIT
    /\ AskedLimits \subseteq Int /\ MaxChanges \in Nat

VARIABLES listRows,     \* the rows the filter of the list matches
          asked,        \* the ?limit= of the walk
          ascending,    \* orderBy id asc (members, invitations) or desc
          cursor,       \* the cursor of the next page, 0 when there is none
          received,     \* rows the client has been given, in order of arrival
          walk,         \* "on" while the client asks for pages, "done", "aborted"
          stable,       \* history: the rows there since the walk began
          seenLive,     \* history: the rows there at some time of the walk
          changes

pageVars == <<listRows, asked, ascending, cursor, received, walk, stable, seenLive, changes>>

PageInit ==
    /\ listRows \in SUBSET RowIds
    /\ asked \in AskedLimits
    /\ ascending \in BOOLEAN
    /\ cursor = 0
    /\ received = [r \in RowIds |-> 0]
    /\ walk = "on"
    /\ stable = listRows
    /\ seenLive = listRows
    /\ changes = 0

-----------------------------------------------------------------------------
clampLimit(value) == IF value < 1 THEN DEFAULT_PAGE_LIMIT
                     ELSE IF value > MAX_PAGE_LIMIT THEN MAX_PAGE_LIMIT ELSE value

limit == clampLimit(asked)

(* where: { id: { gt: cursor } } with orderBy id asc, or lt with desc.     *)
PastCursor(r) == cursor = 0 \/ (IF ascending THEN r > cursor ELSE r < cursor)

Earlier(r, s) == IF ascending THEN r < s ELSE r > s

(* take: limit + 1 - the rows of the answer before toCursorPage cuts them. *)
Fetched ==
    LET past == {r \in listRows : PastCursor(r)} IN
    {r \in past : Cardinality({s \in past : Earlier(s, r)}) <= limit}

LastOf(S) == CHOOSE r \in S : \A s \in S : s = r \/ Earlier(s, r)

(* Faulty variant: the cursor is the probe row, which was not delivered.   *)
toCursorPageProbe(rows) ==
    LET hasMore == Cardinality(rows) > limit
        page == IF hasMore THEN rows \ {LastOf(rows)} ELSE rows IN
    [items |-> page, hasMore |-> hasMore,
     nextCursor |-> IF hasMore THEN LastOf(rows) ELSE 0]

toCursorPage(rows) ==
    LET hasMore == Cardinality(rows) > limit
        page == IF hasMore THEN rows \ {LastOf(rows)} ELSE rows IN
    [items |-> page, hasMore |-> hasMore,
     nextCursor |-> IF hasMore /\ page # {} THEN LastOf(page) ELSE 0]

(* One turn of the client's loop: a page is answered and its rows are kept. *)
FetchPage ==
    LET page == toCursorPage(Fetched) IN
    /\ walk = "on"
    /\ received' = [r \in RowIds |-> received[r] + (IF r \in page.items THEN 1 ELSE 0)]
    /\ LET goOn == page.hasMore /\ page.nextCursor # 0 /\ page.nextCursor # cursor IN
          /\ walk' = IF goOn THEN "on" ELSE "done"
          /\ cursor' = IF goOn THEN page.nextCursor ELSE cursor
    /\ UNCHANGED <<listRows, asked, ascending, stable, seenLive, changes>>

(* The rows change under the walk: a member joins, a notification is read.  *)
RowAppears ==
    \E r \in RowIds \ listRows :
        /\ walk = "on" /\ changes < MaxChanges
        /\ listRows' = listRows \cup {r}
        /\ seenLive' = seenLive \cup {r}
        /\ changes' = changes + 1
        /\ UNCHANGED <<asked, ascending, cursor, received, walk, stable>>

RowLeaves ==
    \E r \in listRows :
        /\ walk = "on" /\ changes < MaxChanges
        /\ listRows' = listRows \ {r}
        /\ stable' = stable \ {r}
        /\ changes' = changes + 1
        /\ UNCHANGED <<asked, ascending, cursor, received, walk, seenLive>>

(* The page that asked is left: signal.aborted ends the loop.              *)
AbortWalk ==
    /\ walk = "on"
    /\ walk' = "aborted"
    /\ UNCHANGED <<listRows, asked, ascending, cursor, received, stable, seenLive, changes>>

PageNext == AbortWalk \/ FetchPage \/ RowAppears \/ RowLeaves

PageSpec == PageInit /\ [][PageNext]_pageVars

-----------------------------------------------------------------------------
(* Pages, cursors and histories keep their types (toCursorPage).           *)
PageTypeOK ==
    /\ stable \subseteq listRows /\ listRows \subseteq RowIds
    /\ ascending \in BOOLEAN /\ walk \in {"on", "done", "aborted"}
    /\ asked \in AskedLimits /\ limit \in 1 .. MAX_PAGE_LIMIT
    /\ cursor \in RowIds \cup {0}
    /\ received \in [RowIds -> Nat]
    /\ seenLive \subseteq RowIds
    /\ changes \in 0 .. MaxChanges

(* Whatever is inserted and deleted between its pages, a finished walk has *)
(* every row that was there from its first to its last page.               *)
WalkMissesNothing == walk = "done" => \A r \in stable : received[r] > 0

(* A walk never delivers a row twice, so the client's list has no          *)
(* duplicate keys, and never one that was at no time in the list.          *)
WalkRepeatsNothing ==
    \A r \in RowIds : received[r] <= 1 /\ (received[r] = 1 => r \in seenLive)

(* While the client asks on, it has nothing past its cursor, and of the    *)
(* rows up to it everything that stayed.                                   *)
CursorDivides ==
    /\ listRows \subseteq seenLive
    /\ walk = "on" =>
          /\ \A r \in RowIds : received[r] > 0 => ~ PastCursor(r)
          /\ \A r \in stable : ~ PastCursor(r) => received[r] > 0

PageInv == PageTypeOK /\ WalkMissesNothing /\ WalkRepeatsNothing /\ CursorDivides

(* A client that drains the pages gets every row that stayed, and none     *)
(* twice.                                                                  *)
WalkIsExact == PageTypeOK /\ WalkMissesNothing /\ WalkRepeatsNothing
=============================================================================
