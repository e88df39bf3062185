--------------------------- MODULE WorkspaceLists ---------------------------
(* A screen that lists what the active workspace has: the members page     *)
(* with its pending invitations, the access tokens, or the boards.  All    *)
(* three load through useApiResource, load again when the workspace (the   *)
(* members page: or the right to manage) changes under them, and apply the *)
(* answers of their dialogs to whatever list they show by then.  AppShell  *)
(* unmounts them whenever the shell bootstraps again.                      *)
(*                                                                         *)
(* Besides its rows a workspace has one other member, whose role the       *)
(* members page can change.                                                *)
EXTENDS WorkspaceShell

CONSTANTS
    Screens,        \* the screens looked at
    FirstRows,      \* the rows each workspace starts with
    MaxRows         \* bound: rows ever made

ASSUME ListsAssumption ==
    /\ Screens \subseteq {"none", "members", "tokens", "boards"}
    /\ MaxRows \in Nat \ {0}
    /\ FirstRows \in [Workspaces -> Seq(1..(MaxRows - 1))]
    /\ \A w \in Workspaces : \A i, j \in DOMAIN FirstRows[w] :
          FirstRows[w][i] = FirstRows[w][j] => i = j

VARIABLES
    screen,     \* "members" | "tokens" | "boards"; "none": the shell alone
    rows,       \* each workspace's rows on the server, in the server's order
    made,       \* rows ever made
    grade,      \* the other member's role in each workspace, "NONE" once removed
    view,       \* the mounted list
    load,       \* the read under way
    writes,     \* requests of the dialogs under way
    held,       \* the token just created, in its dialog
    line,       \* the other member's row (MemberRow)
    patches,    \* its role requests under way
    strayed     \* history: an answer met another load than it was sent from,
                \* was lost, or two role requests crossed

shellRest == <<belongs, stored, session, unread, shell, boot, calls, roleReads, generation, adrift>>
listVars == <<screen, rows, made, grade, view, load, writes, held, line, patches, strayed>>

NoLoad == [at |-> "none", of |-> NoWorkspace, managed |-> FALSE, list |-> << >>, member |-> "NONE"]
Unmounted == [phase |-> "off", of |-> NoWorkspace, managed |-> FALSE, list |-> << >>,
              member |-> "NONE", turn |-> 0, mount |-> 0]
NoHeld == [row |-> 0, turn |-> 0]
Line(m) == [role |-> m, pending |-> FALSE, confirming |-> FALSE]

ListsInit ==
    /\ screen \in Screens
    /\ rows = FirstRows /\ made = MaxRows - 1
    /\ grade = [w \in Workspaces |-> "MEMBER"]
    /\ view = Unmounted /\ load = NoLoad
    /\ writes = {} /\ held = NoHeld /\ line = Line("NONE") /\ patches = {}
    /\ strayed = FALSE

(* The rows but one: filter, a removed row being met once or never.  SelectSeq  *)
(* says the same, which no prover expands.                                 *)
Without(s, row) ==
    LET kept == {i \in DOMAIN s : s[i] # row} IN
    [k \in 1..Cardinality(kept) |->
        s[CHOOSE i \in kept : Cardinality({j \in kept : j < i}) = k - 1]]

Manages(r) == r \in {"OWNER", "ADMIN"}
MayCreate(r) ==
    CASE screen = "members" -> Manages(r) [] screen = "tokens" -> r # "NONE"
      [] screen = "boards" -> r # "NONE" [] OTHER -> FALSE
MayRemove(r) == IF screen = "tokens" THEN r # "NONE" ELSE Manages(r)

(* What a load depends on: a change of either starts another.              *)
LoadKey(sh) == <<sh.activeId, screen = "members" /\ Manages(sh.activeRole)>>

Ask(of, managed) == [NoLoad EXCEPT !.at = "asked", !.of = of, !.managed = managed]

(* A load starts: rows and dialogs give way to the skeleton, the data      *)
(* stays until the answer.                                                 *)
Reload(v, of, managed) ==
    /\ view' = [v EXCEPT !.phase = "loading", !.of = of, !.managed = managed, !.turn = @ + 1]
    /\ load' = Ask(of, managed)
    /\ line' = Line("NONE")

(* The render that follows a change of the shell.                          *)
Follow ==
    LET key == LoadKey(shell')
        fresh == [Unmounted EXCEPT !.turn = view.turn, !.mount = view.mount] IN
    IF ~Shown' \/ screen = "none" \/ shell'.activeId = NoWorkspace
    THEN view' = fresh /\ load' = NoLoad /\ held' = NoHeld /\ line' = Line("NONE")
    ELSE IF view.phase = "off" 
    THEN Reload([fresh EXCEPT !.mount = @ + 1], key[1], key[2]) /\ UNCHANGED held
    ELSE IF key # <<view.of, view.managed>> THEN Reload(view, key[1], key[2]) /\ UNCHANGED held
    ELSE UNCHANGED <<view, load, held, line>>

ShellStep ==
    /\ ShellNext /\ Follow
    /\ UNCHANGED <<screen, rows, made, grade, writes, patches, strayed>>

-----------------------------------------------------------------------------
(* The load *)

(* The roster, then the invitations if the page believes it may see them;  *)
(* one refusal fails the whole load.                                       *)
ServeLoad ==
    /\ load.at = "asked"
    /\ LET role == belongs[load.of]
           refused == role = "NONE" \/ (load.managed /\ ~Manages(role)) IN
       load' = [load EXCEPT
                  !.at = IF refused THEN "refused" ELSE "answered",
                  !.list = IF screen = "members" /\ ~load.managed THEN << >> ELSE rows[load.of],
                  !.member = grade[load.of]]
    /\ UNCHANGED <<screen, rows, made, grade, view, writes, held, line, patches, strayed, shellVars>>

LoadFailed == view' = [view EXCEPT !.phase = "error", !.list = << >>, !.member = "NONE"]

LandLoad ==
    /\ load.at \in {"answered", "refused"}
    /\ IF load.at = "refused" THEN LoadFailed
       ELSE view' = [view EXCEPT !.phase = "ready", !.list = load.list, !.member = load.member]
    /\ line' = Line(view'.member)
    /\ load' = NoLoad
    /\ UNCHANGED <<screen, rows, made, grade, writes, held, patches, strayed, shellVars>>

LoadFails ==
    /\ load.at = "asked"
    /\ LoadFailed /\ load' = NoLoad
    /\ Faults
    /\ UNCHANGED <<screen, rows, made, grade, writes, held, line, patches, strayed,
                   shellRest>>

RetryList ==
    /\ view.phase = "error"
    /\ Reload(view, view.of, view.managed)
    /\ Works /\ UNCHANGED shellRest
    /\ UNCHANGED <<screen, rows, made, grade, writes, held, patches, strayed>>

-----------------------------------------------------------------------------
(* The dialogs *)

Ready == view.phase = "ready"

Send(op, row) ==
    /\ Ready
    /\ writes' = writes \cup {[op |-> op, row |-> row, of |-> shell.activeId, turn |-> view.turn,
                               mount |-> view.mount, at |-> "asked"]}
    /\ Works /\ UNCHANGED shellRest
    /\ UNCHANGED <<screen, rows, grade, view, load, held, line, patches, strayed>>

New(op) == made < MaxRows /\ made' = made + 1 /\ Send(op, made + 1)
Old(op) == \E i \in DOMAIN view.list : Send(op, view.list[i]) /\ UNCHANGED made

InviteMember == screen = "members" /\ MayCreate(shell.activeRole) /\ New("create")
RevokeInvitation == screen = "members" /\ MayRemove(shell.activeRole) /\ Old("remove")
CreateAccessToken == screen = "tokens" /\ New("create")
RevokeAccessToken == screen = "tokens" /\ Old("remove")
CreateBoard == screen = "boards" /\ MayCreate(shell.activeRole) /\ New("create")
DeleteBoard == screen = "boards" /\ MayRemove(shell.activeRole) /\ Old("remove")
ImportBoard == screen = "boards" /\ Manages(shell.activeRole) /\ New("import")

RemoveMember ==
    /\ screen = "members" /\ Manages(shell.activeRole) /\ view.member # "NONE"
    /\ Send("expel", 0) /\ UNCHANGED made

(* The server's side: tokens are listed newest first, the others oldest    *)
(* first; a row of another workspace or already gone is a 404.             *)
ServeWrite(q) ==
    LET role == belongs[q.of]
        granted == CASE q.op = "create" -> MayCreate(role)
                     [] q.op = "import" -> Manages(role)
                     [] q.op = "remove" -> MayRemove(role) /\ Contains(rows[q.of], q.row)
                     [] q.op = "expel" -> Manages(role) /\ grade[q.of] # "NONE"
        put == IF screen = "tokens" THEN <<q.row>> \o rows[q.of] ELSE Append(rows[q.of], q.row) IN
    /\ q.at = "asked"
    /\ writes' = (writes \ {q}) \cup {[q EXCEPT !.at = IF granted THEN "done" ELSE "refused"]}
    /\ rows' = CASE granted /\ q.op \in {"create", "import"} -> [rows EXCEPT ![q.of] = put]
                 [] granted /\ q.op = "remove" -> [rows EXCEPT ![q.of] = Without(@, q.row)]
                 [] OTHER -> rows
    /\ grade' = IF granted /\ q.op = "expel" THEN [grade EXCEPT ![q.of] = "NONE"] ELSE grade
    /\ UNCHANGED <<screen, made, view, load, held, line, patches, strayed, shellVars>>

(* Once the screen that sent the request is gone, setState does nothing.   *)
Mounted(q) == view.phase # "off" /\ q.mount = view.mount

(* An answer edits the list that is shown by now: an invitation replaces   *)
(* its own row, a board is appended, a token waits in its dialog, removals *)
(* filter, an import loads again.                                          *)
Edited(q) ==
    CASE q.op = "create" /\ screen = "members" -> Append(Without(view.list, q.row), q.row)
      [] q.op = "create" /\ screen = "boards" -> Append(view.list, q.row)
      [] q.op = "remove" -> Without(view.list, q.row)
      [] OTHER -> view.list

WriteAnswered(q) ==
    /\ q.at \in {"done", "refused"}
    /\ writes' = writes \ {q}
    /\ strayed' = (strayed \/ (q.at = "done" /\ q.turn # view.turn))
    /\ held' = IF q.at = "done" /\ q.op = "create" /\ screen = "tokens" /\ Mounted(q)
               THEN [row |-> q.row, turn |-> q.turn] ELSE held
    /\ CASE q.at = "refused" \/ ~Mounted(q) -> UNCHANGED <<view, load, line>>
         [] q.at = "done" /\ q.op = "import" /\ Mounted(q) -> Reload(view, view.of, view.managed)
         [] OTHER -> /\ view' = [view EXCEPT !.list = Edited(q),
                                             !.member = IF q.op = "expel" THEN "NONE" ELSE @]
                     /\ line' = IF q.op = "expel" THEN Line("NONE") ELSE line
                     /\ UNCHANGED load
    /\ UNCHANGED <<screen, rows, made, grade, patches, shellVars>>

(* TokenCreatedDialog: only its closing puts the token into the list.      *)
CloseTokenDialog ==
    /\ Ready /\ held # NoHeld
    /\ view' = [view EXCEPT !.list = <<held.row>> \o @]
    /\ held' = NoHeld
    /\ strayed' = (strayed \/ held.turn # view.turn)
    /\ UNCHANGED <<screen, rows, made, grade, load, writes, line, patches, shellVars>>

-----------------------------------------------------------------------------
(* MemberRow *)

Assignable(r) == IF r = "OWNER" THEN {"OWNER", "ADMIN", "MEMBER"} ELSE {"ADMIN", "MEMBER"}
CanManageMember(r, target) == Manages(r) /\ (target # "OWNER" \/ r = "OWNER")

patchRest == <<screen, rows, made, view, load, writes, held>>

Patch(to, how) == [to |-> to, was |-> view.member, how |-> how, of |-> shell.activeId,
                   turn |-> view.turn, mount |-> view.mount, at |-> "asked"]
SendPatch(p) ==
    /\ patches' = patches \cup {p}
    /\ strayed' = (strayed \/ patches # {})
    /\ Works

Choosable(next) ==
    /\ screen = "members" /\ Ready /\ view.member # "NONE"
    /\ CanManageMember(shell.activeRole, view.member)
    /\ next \in Assignable(shell.activeRole) \ {line.role}

onSelectChange(next) ==
    /\ Choosable(next) /\ ~line.pending /\ ~line.confirming
    /\ IF next = "OWNER"
       THEN /\ line' = [line EXCEPT !.confirming = TRUE]
            /\ UNCHANGED <<patches, strayed, shellWork, shellFaults>>
       ELSE /\ line' = [line EXCEPT !.role = next, !.pending = TRUE]
            /\ SendPatch(Patch(next, "direct"))
    /\ UNCHANGED <<grade, shellRest>> /\ UNCHANGED patchRest

(* The confirmation of a new owner does not mark the row as pending.       *)
ConfirmOwner ==
    /\ line.confirming /\ Ready
    /\ line' = [line EXCEPT !.confirming = FALSE]
    /\ SendPatch(Patch("OWNER", "confirmed"))
    /\ UNCHANGED <<grade, shellRest>> /\ UNCHANGED patchRest

DismissConfirm ==
    /\ line.confirming
    /\ line' = [line EXCEPT !.confirming = FALSE]
    /\ UNCHANGED <<grade, patches, strayed, shellVars>> /\ UNCHANGED patchRest

ServePatch(p) ==
    LET granted == /\ CanManageMember(belongs[p.of], grade[p.of]) /\ grade[p.of] # "NONE"
                   /\ p.to \in Assignable(belongs[p.of]) IN
    /\ p.at = "asked"
    /\ grade' = IF granted THEN [grade EXCEPT ![p.of] = p.to] ELSE grade
    /\ patches' = (patches \ {p}) \cup {[p EXCEPT !.at = IF granted THEN "done" ELSE "refused"]}
    /\ UNCHANGED <<line, strayed, shellVars>> /\ UNCHANGED patchRest

LineMounted(p) == p.turn = view.turn /\ view.member # "NONE"

PatchDone(p) ==
    /\ p.at = "done"
    /\ patches' = patches \ {p}
    /\ strayed' = (strayed \/ p.turn # view.turn)
    /\ view' = IF ~Mounted(p) \/ view.member = "NONE" THEN view ELSE [view EXCEPT !.member = p.to]
    /\ line' = IF LineMounted(p)
               THEN [line EXCEPT !.role = p.to, !.pending = IF p.how = "direct" THEN FALSE ELSE @]
               ELSE line
    /\ UNCHANGED <<screen, rows, made, grade, load, writes, held, shellVars>>

(* A refused or failed direct change puts the row back.                    *)
PatchRefused(p) ==
    /\ p.at \in {"refused", "lost"}
    /\ patches' = patches \ {p}
    /\ line' = IF LineMounted(p) /\ p.how = "direct"
               THEN [line EXCEPT !.role = p.was, !.pending = FALSE] ELSE line
    /\ UNCHANGED <<grade, strayed, shellVars>> /\ UNCHANGED patchRest

(* A request that never reaches the server.                                *)
PatchLost(p) ==
    /\ p.at = "asked"
    /\ patches' = (patches \ {p}) \cup {[p EXCEPT !.at = "lost"]}
    /\ Faults
    /\ UNCHANGED <<grade, line, strayed, shellRest>> /\ UNCHANGED patchRest

ListsNext ==
    \/ ShellStep
    \/ ServeLoad \/ LandLoad \/ LoadFails \/ RetryList
    \/ InviteMember \/ RevokeInvitation \/ RemoveMember
    \/ CreateAccessToken \/ RevokeAccessToken \/ CloseTokenDialog
    \/ CreateBoard \/ DeleteBoard \/ ImportBoard
    \/ \E q \in writes : ServeWrite(q) \/ WriteAnswered(q)
    \/ \E next \in Grades : onSelectChange(next)
    \/ ConfirmOwner \/ DismissConfirm
    \/ \E p \in patches : ServePatch(p) \/ PatchDone(p) \/ PatchRefused(p) \/ PatchLost(p)

-----------------------------------------------------------------------------
ListsTypeOK ==
    /\ ShellTypeOK
    /\ \A w \in Workspaces : ToSet(rows[w]) \subseteq 1..MaxRows /\ grade[w] \in Grades
    /\ view.phase \in {"off", "loading", "ready", "error"}
    /\ (load.at # "none") = (view.phase = "loading")
    /\ view.phase \in {"ready", "loading"} => Shown /\ view.of = shell.activeId
    /\ line.role \in Grades /\ view.member \in Grades

Quiet == Settled /\ load.at = "none" /\ writes = {} /\ held = NoHeld /\ patches = {}
RoleKnown == shell.activeRole = RoleIn(shell.activeId)

Visible(w) == IF screen = "members" /\ ~Manages(belongs[w]) THEN << >> ELSE rows[w]

(* Once nothing is under way a screen lists what the server has of the     *)
(* active workspace, in the server's order and each row once, as far as    *)
(* the role allows, whatever switches and role answers came in between;    *)
(* and it stands in error only if a request failed.  A load begun with the *)
(* role of the workspace before is refused and begun again when the role   *)
(* comes (members-settings.tsx 93-109).  Answers that met another load     *)
(* than they were sent from are left out: they edit any list they find.    *)
QuietListIsCurrent ==
    Quiet /\ Shown /\ RoleKnown /\ ~strayed /\ screen # "none" /\ shell.activeId # NoWorkspace =>
        /\ shellFaults = 0 => Ready
        /\ Ready => view.of = shell.activeId /\ view.list = Visible(shell.activeId)

(* The role a member's row shows is the one stored, after a change that    *)
(* was refused or lost too (members-settings.tsx 361-374): the row keeps   *)
(* its own copy beside the list's.  Two changes of one row at once, which  *)
(* the owner's confirmation allows, are left out.                          *)
RowShowsStoredRole ==
    Quiet /\ Ready /\ screen = "members" /\ ~strayed =>
        line.role = grade[shell.activeId] /\ view.member = grade[shell.activeId]

(* What the client shows once quiet is what the server has: the workspace   *)
(* and the role of the session, the rows of the screen, the role of the    *)
(* other member.                                                           *)
ScreensAreCurrent ==
    ListsTypeOK /\ ScreenMatchesSession /\ QuietListIsCurrent /\ RowShowsStoredRole

-----------------------------------------------------------------------------
(* The inductive invariant: whatever a mounted list does not show as the    *)
(* server has it, an answer on its way will bring.                         *)
Elements(s) == {s[i] : i \in DOMAIN s}
Distinct(s) == \A i, j \in DOMAIN s : s[i] = s[j] => i = j
Prior(s, x, y) == \E i, j \in DOMAIN s : i < j /\ s[i] = x /\ s[j] = y

RowSet == 1..MaxRows
ListViews == [phase : {"off", "loading", "ready", "error"},
              of : Workspaces \cup {NoWorkspace}, managed : BOOLEAN, list : Seq(RowSet),
              member : Grades, turn : Nat, mount : Nat]
ListReads == [at : {"none", "asked", "answered", "refused"},
              of : Workspaces \cup {NoWorkspace}, managed : BOOLEAN, list : Seq(RowSet),
              member : Grades]
RowWrites == [op : {"create", "import", "remove", "expel"}, row : Nat, of : Workspaces,
              turn : Nat, mount : Nat, at : {"asked", "done", "refused"}]
RolePatches == [to : Grades, was : Grades, how : {"direct", "confirmed"}, of : Workspaces,
                turn : Nat, mount : Nat, at : {"asked", "done", "refused", "lost"}]
ListsShape ==
    /\ screen \in {"none", "members", "tokens", "boards"}
    /\ rows \in [Workspaces -> Seq(RowSet)] /\ made \in {MaxRows - 1, MaxRows}
    /\ grade \in [Workspaces -> Grades]
    /\ view \in ListViews /\ load \in ListReads
    /\ writes \subseteq RowWrites /\ patches \subseteq RolePatches
    /\ held \in [row : Nat, turn : Nat]
    /\ line \in [role : Grades, pending : BOOLEAN, confirming : BOOLEAN]
    /\ strayed \in BOOLEAN

(* The list is mounted while there is something to list, by its key.       *)
MountHolds ==
    /\ IF Shown /\ screen # "none" /\ shell.activeId # NoWorkspace
       THEN view.phase # "off" /\ <<view.of, view.managed>> = LoadKey(shell)
       ELSE view.phase = "off" /\ held = NoHeld
    /\ (load.at # "none") = (view.phase = "loading")
    /\ load.at # "none" => load.of = view.of /\ load.managed = view.managed

(* What is under way was sent from this load or an earlier one.            *)
SentFrom(x) ==
    /\ x.turn <= view.turn
    /\ x.turn = view.turn => view.phase \notin {"loading", "error"}
    /\ x.turn = view.turn /\ view.phase = "ready" => x.mount = view.mount /\ x.of = view.of
SentHolds ==
    /\ \A q \in writes : SentFrom(q)
    /\ \A q \in writes : /\ q.turn = view.turn /\ view.phase = "ready" /\ screen = "members"
                          => view.managed
    /\ \A p \in patches : SentFrom(p)
    /\ held # NoHeld => /\ held.turn <= view.turn
                        /\ held.turn = view.turn => view.phase \notin {"loading", "error"}

(* One row is made, and it is in no list before the server has made it.    *)
Makers == {q \in writes : q.op \in {"create", "import"}}
Unmade == made < MaxRows \/ \E q \in Makers : q.at = "asked"
NewRowHolds ==
    /\ \A q \in Makers : q.row = MaxRows /\ made = MaxRows /\ held = NoHeld
    /\ \A q, r \in Makers : q = r
    /\ held # NoHeld => held.row = MaxRows /\ made = MaxRows /\ screen = "tokens"
    /\ Unmade => /\ \A w \in Workspaces : MaxRows \notin Elements(rows[w])
                 /\ MaxRows \notin Elements(view.list) \cup Elements(load.list)
                 /\ \A q \in writes : q.op = "remove" => q.row # MaxRows
    /\ \A w \in Workspaces : Distinct(rows[w])

Foreign(x) == x.at = "done" /\ x.turn # view.turn
Astray ==
    \/ strayed \/ \E x \in writes \cup patches : Foreign(x)
    \/ held # NoHeld /\ held.turn # view.turn

Landing == {q \in writes : q.at = "done" /\ q.turn = view.turn}
Leaving == {q.row : q \in {r \in writes : r.op = "remove" /\ r.turn = view.turn}}
Gone == {q.row : q \in {r \in Landing : r.op = "remove"}}
Coming == IF Landing \cap Makers # {} \/ held # NoHeld THEN {MaxRows} ELSE {}
Precedes(x, y) ==
    IF {x, y} \cap Coming = {} THEN Prior(view.list, x, y)
    ELSE IF screen = "tokens" THEN x \in Coming /\ y \notin Coming
    ELSE x \notin Coming /\ y \in Coming

(* Rows the role keeps from the page are not asked for.                    *)
Hidden(managed) == screen = "members" /\ ~managed

ListHolds ==
    view.phase = "ready" /\ ~Astray =>
        IF Hidden(view.managed) THEN view.list = << >>
        ELSE LET there == rows[view.of] IN
             /\ Distinct(view.list)
             /\ Coming \cap (Elements(view.list) \cup Leaving) = {}
             /\ Elements(there) = (Elements(view.list) \ Gone) \cup Coming
             /\ \A x, y \in Elements(there) : Prior(there, x, y) <=> Precedes(x, y)

LoadHolds ==
    load.at = "answered" /\ ~Astray =>
        /\ load.list = IF Hidden(load.managed) THEN << >> ELSE rows[load.of]
        /\ load.member = grade[load.of]

MemberHolds ==
    /\ ~strayed => \A p, q \in patches : p = q
    /\ view.phase = "ready" /\ ~Astray =>
        /\ grade[view.of] =
              IF view.member = "NONE" \/ \E q \in Landing : q.op = "expel" THEN "NONE"
              ELSE IF \E p \in patches : p.at = "done" THEN (CHOOSE p \in patches : TRUE).to
              ELSE view.member
        /\ line.role =
              IF view.member # "NONE" /\ \E p \in patches : p.turn = view.turn /\ p.how = "direct"
              THEN (CHOOSE p \in patches : TRUE).to ELSE view.member
        /\ view.member # "NONE" => \A p \in patches : p.turn = view.turn => p.was = view.member

(* A refusal is the role's.                                                *)
Denied(w, managed) == RoleIn(w) = "NONE" \/ (managed /\ ~Manages(RoleIn(w)))
RefusalHolds ==
    shellFaults = 0 /\ (view.phase = "error" \/ load.at = "refused") => Denied(view.of, view.managed)

ScreensInv ==
    /\ ShellInv /\ ListsShape /\ MountHolds /\ SentHolds /\ NewRowHolds
    /\ ListHolds /\ LoadHolds /\ MemberHolds /\ RefusalHolds
=============================================================================
