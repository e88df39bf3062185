--------------------------- MODULE WorkspaceShell ---------------------------
(* The shell of the web client: which workspace is active and with which   *)
(* role (WorkspaceProvider), the menu that switches it, and the dialogs    *)
(* that leave, delete or create one.                                       *)
(*                                                                         *)
(* The active workspace is kept twice: the server's session has it, and    *)
(* the client's copy of the session decides what the bootstrap loads.  A   *)
(* set-active call that succeeds makes the auth client read the session    *)
(* again (external: better-auth), and a session read again restarts the    *)
(* bootstrap.  A switch writes the shell at once and its role later.       *)
(*                                                                         *)
(* Workspaces are numbered in the order they were created; 0 is none.      *)
EXTENDS Naturals, Sequences, SequencesExt, FiniteSetsExt

CONSTANTS
    MaxWorkspaces,      \* workspaces that can ever exist
    Memberships,        \* the memberships a behaviour may start from
    MaxShellWork,       \* bound: things the user does
    MaxShellFaults      \* bound: calls that fail, memberships ended elsewhere

Workspaces == 1..MaxWorkspaces
NoWorkspace == 0
Pending == MaxWorkspaces + 1    \* the session before it is read first
Grades == {"OWNER", "ADMIN", "MEMBER", "NONE"}

ASSUME ShellAssumption ==
    MaxWorkspaces \in Nat \ {0} /\ Memberships \subseteq [Workspaces -> Grades]

VARIABLES
    belongs,    \* the user's role in each workspace, on the server
    stored,     \* the active workspace of the session, on the server
    session,    \* the client's copy of it
    unread,     \* the session has to be read (again)
    shell,      \* what WorkspaceProvider hands down
    boot,       \* the bootstrap under way
    calls,      \* set-active calls under way, oldest first
    roleReads,  \* switches that wait for their role
    generation, \* switchGenerationRef
    adrift,     \* history: a call failed or overtook another, a membership ended
                \* elsewhere, or a role came for a workspace no longer shown
    shellWork, shellFaults

shellVars == <<belongs, stored, session, unread, shell, boot, calls, roleReads,
               generation, adrift, shellWork, shellFaults>>

IdleBoot == [at |-> "off", session |-> NoWorkspace, id |-> NoWorkspace, found |-> {}]
NoWorkspaces == [workspaces |-> {}, activeId |-> NoWorkspace, activeRole |-> "NONE",
                 error |-> FALSE]

ShellInit ==
    /\ belongs \in Memberships
    /\ stored \in {w \in Workspaces : belongs[w] # "NONE"} \cup {NoWorkspace}
    /\ session = Pending /\ unread = TRUE
    /\ shell = NoWorkspaces /\ boot = IdleBoot
    /\ calls = << >> /\ roleReads = {} /\ generation = 0
    /\ adrift = FALSE /\ shellWork = 0 /\ shellFaults = 0

Mine == {w \in Workspaces : belongs[w] # "NONE"}
RoleIn(w) == IF w \in Workspaces THEN belongs[w] ELSE "NONE"

(* AppShell draws the sidebar and the page only once a bootstrap has ended *)
(* well: until then neither the switcher nor any screen is mounted.        *)
Shown == session # Pending /\ boot.at = "off" /\ ~shell.error

Works == shellWork < MaxShellWork /\ shellWork' = shellWork + 1 /\ UNCHANGED shellFaults
Faults == shellFaults < MaxShellFaults /\ shellFaults' = shellFaults + 1 /\ UNCHANGED shellWork
NoWork == UNCHANGED <<shellWork, shellFaults>>

Call(who, w, g) == [who |-> who, to |-> w, gen |-> g]

(* useApiResource: a new fetcher aborts the load under way.  A set-active  *)
(* call that load already sent is not aborted with it.                     *)
Restart(s) ==
    /\ boot' = [at |-> "list", session |-> s, id |-> NoWorkspace, found |-> {}]
    /\ shell' = [shell EXCEPT !.error = FALSE]
    /\ calls' = [i \in DOMAIN calls |->
                    IF calls[i].who = "boot" THEN [calls[i] EXCEPT !.who = "orphan"] ELSE calls[i]]

RefetchSession ==
    /\ unread
    /\ unread' = FALSE /\ session' = stored
    /\ Restart(stored)
    /\ UNCHANGED <<belongs, stored, roleReads, generation, adrift>> /\ NoWork

RetryBootstrap ==
    /\ shell.error /\ boot.at = "off"
    /\ Restart(session)
    /\ UNCHANGED <<belongs, stored, session, unread, roleReads, generation, adrift>> /\ Works

(* bootstrap, the list: nothing to show, or the workspace the session      *)
(* names, or the first one, which the session is then told of.             *)
ReadWorkspaces ==
    /\ boot.at = "list"
    /\ LET id == IF boot.session # NoWorkspace THEN boot.session ELSE Min(Mine) IN
       IF Mine = {}
       THEN boot' = IdleBoot /\ shell' = NoWorkspaces /\ UNCHANGED calls
       ELSE /\ UNCHANGED shell
            /\ boot' = [boot EXCEPT !.id = id, !.found = Mine,
                                    !.at = IF id # boot.session THEN "active" ELSE "role"]
            /\ calls' = IF id # boot.session THEN Append(calls, Call("boot", id, 0)) ELSE calls
    /\ UNCHANGED <<belongs, stored, session, unread, roleReads, generation, adrift>> /\ NoWork

(* A failed load drops what was shown: stale rows beside an error would    *)
(* read as current.                                                        *)
BootFailed == boot' = IdleBoot /\ shell' = [NoWorkspaces EXCEPT !.error = TRUE]

ReadOwnMembership ==
    /\ boot.at = "role"
    /\ IF RoleIn(boot.id) = "NONE"
       THEN BootFailed
       ELSE /\ boot' = IdleBoot
            /\ shell' = [workspaces |-> boot.found, activeId |-> boot.id,
                         activeRole |-> belongs[boot.id], error |-> FALSE]
    /\ UNCHANGED <<belongs, stored, session, unread, calls, roleReads, generation, adrift>>
    /\ NoWork

BootReadFails ==
    /\ boot.at \in {"list", "role"}
    /\ BootFailed
    /\ UNCHANGED <<belongs, stored, session, unread, calls, roleReads, generation>>
    /\ adrift' = TRUE /\ Faults

(* What follows an answered set-active call: the bootstrap or the switch   *)
(* asks for the role.  The call reports an error and does not throw.       *)
Continue(c) ==
    /\ boot' = IF c.who = "boot" THEN [boot EXCEPT !.at = "role"] ELSE boot
    /\ roleReads' = IF c.who = "switch" THEN roleReads \cup {[to |-> c.to, gen |-> c.gen]}
                    ELSE roleReads

(* The server's side of set-active: it is refused to who does not belong.  *)
ServeSetActive(i) ==
    LET c == calls[i]
        accepted == c.to = NoWorkspace \/ RoleIn(c.to) # "NONE" IN
    /\ calls' = RemoveAt(calls, i)
    /\ stored' = IF accepted THEN c.to ELSE stored
    /\ unread' = (unread \/ accepted)
    /\ adrift' = (adrift \/ i # 1 \/ ~accepted)
    /\ Continue(c)
    /\ UNCHANGED <<belongs, session, shell, generation>> /\ NoWork

SetActiveFails(i) ==
    /\ calls' = RemoveAt(calls, i)
    /\ Continue(calls[i])
    /\ adrift' = TRUE
    /\ UNCHANGED <<belongs, stored, session, unread, shell, generation>> /\ Faults

(* WorkspaceSwitcher: the menu of the workspaces last loaded.              *)
Switchable == IF Shown THEN shell.workspaces \ {shell.activeId} ELSE {}

(* The workspace changes at once, the role follows.                        *)
onSwitch(w) ==
    /\ w \in Switchable
    /\ generation' = generation + 1
    /\ shell' = [shell EXCEPT !.activeId = w]
    /\ calls' = Append(calls, Call("switch", w, generation + 1))
    /\ UNCHANGED <<belongs, stored, session, unread, boot, roleReads, adrift>> /\ Works

(* SwitchAnswered without the generation check.                            *)
SwitchAnsweredUnchecked(r, role) ==
    /\ roleReads' = roleReads \ {r}
    /\ shell' = [shell EXCEPT !.activeRole = role]
    /\ UNCHANGED <<belongs, stored, session, unread, boot, calls, generation>>

SwitchAnswered(r, role) ==
    /\ roleReads' = roleReads \ {r}
    /\ shell' = IF r.gen = generation THEN [shell EXCEPT !.activeRole = role] ELSE shell
    /\ UNCHANGED <<belongs, stored, session, unread, boot, calls, generation>>

(* A bootstrap may have moved the shell off the workspace switched to: the *)
(* generation says nothing of that.                                        *)
ReadSwitchedRole(r) ==
    /\ SwitchAnswered(r, RoleIn(r.to))
    /\ adrift' = (adrift \/ (r.gen = generation /\ r.to # shell.activeId)) /\ NoWork
SwitchReadFails(r) == SwitchAnswered(r, "NONE") /\ adrift' = TRUE /\ Faults

(* The membership ends, and the session is told to forget the workspace.   *)
EndsHere(w) ==
    /\ belongs' = [belongs EXCEPT ![w] = "NONE"]
    /\ calls' = Append(calls, Call("exit", NoWorkspace, 0))
    /\ UNCHANGED <<stored, session, unread, shell, boot, roleReads, generation, adrift>>

(* LeaveWorkspaceDialog; the server keeps the last owner (WorkspaceAccess).*)
LeaveWorkspace ==
    /\ Shown /\ shell.activeId # NoWorkspace
    /\ RoleIn(shell.activeId) \in {"ADMIN", "MEMBER"}
    /\ EndsHere(shell.activeId) /\ Works

(* WorkspaceSettings draws the deletion for an owner only.                 *)
Deletable == Shown /\ shell.activeId # NoWorkspace /\ shell.activeRole = "OWNER"

(* DeleteWorkspaceDialog; the server asks for the owner again.             *)
DeleteWorkspace ==
    /\ Deletable /\ RoleIn(shell.activeId) = "OWNER"
    /\ EndsHere(shell.activeId) /\ Works

(* The answer of either is lost: the session is never told.                *)
ExitAnswerLost ==
    /\ Shown /\ RoleIn(shell.activeId) # "NONE"
    /\ belongs' = [belongs EXCEPT ![shell.activeId] = "NONE"]
    /\ adrift' = TRUE
    /\ UNCHANGED <<stored, session, unread, shell, boot, calls, roleReads, generation>> /\ Faults

(* NewWorkspacePage: the founder owns the workspace; it becomes active.    *)
(* Only the last number is founded, before it can have been left.          *)
CreateWorkspace ==
    LET w == MaxWorkspaces IN
    /\ Shown /\ belongs[w] = "NONE" /\ shellWork = 0 /\ shellFaults = 0
    /\ belongs' = [belongs EXCEPT ![w] = "OWNER"]
    /\ calls' = Append(calls, Call("new", w, 0))
    /\ UNCHANGED <<stored, session, unread, shell, boot, roleReads, generation, adrift>> /\ Works

(* An administrator removes the user: the session keeps the workspace.     *)
RemovedElsewhere(w) ==
    /\ belongs[w] # "NONE"
    /\ belongs' = [belongs EXCEPT ![w] = "NONE"]
    /\ adrift' = TRUE
    /\ UNCHANGED <<stored, session, unread, shell, boot, calls, roleReads, generation>> /\ Faults

Answering ==
    \/ RefetchSession \/ ReadWorkspaces \/ ReadOwnMembership
    \/ \E i \in DOMAIN calls : ServeSetActive(i)
    \/ \E r \in roleReads : ReadSwitchedRole(r)

ShellNext ==
    \/ Answering
    \/ RetryBootstrap \/ BootReadFails
    \/ \E i \in DOMAIN calls : SetActiveFails(i)
    \/ \E r \in roleReads : SwitchReadFails(r)
    \/ \E w \in Workspaces : onSwitch(w) \/ RemovedElsewhere(w)
    \/ LeaveWorkspace \/ DeleteWorkspace \/ ExitAnswerLost \/ CreateWorkspace

-----------------------------------------------------------------------------
ShellTypeOK ==
    /\ belongs \in [Workspaces -> Grades]
    /\ stored \in Workspaces \cup {NoWorkspace}
    /\ session \in Workspaces \cup {NoWorkspace, Pending}
    /\ shell.workspaces \subseteq Workspaces /\ shell.activeId \in 0..MaxWorkspaces
    /\ shell.activeRole \in Grades
    /\ boot.at \in {"off", "list", "active", "role"}
    /\ (boot.at = "active") = (\E i \in DOMAIN calls : calls[i].who = "boot")
    /\ \A r \in roleReads : r.gen <= generation

Settled == ~unread /\ session # Pending /\ boot.at = "off" /\ calls = << >> /\ roleReads = {}

(* Once every call is answered the shell shows the workspace the server's  *)
(* session names, with the user's role in it, and never one they left or   *)
(* deleted: the role a switch asked for is written by the latest switch    *)
(* alone (workspace-provider.tsx 123-148), and leaving tells the session   *)
(* (leave-workspace-dialog.tsx 43-52).  What `adrift` names is left out: no *)
(* code covers it.                                                         *)
ScreenMatchesSession ==
    Settled /\ ~adrift =>
        /\ ~shell.error
        /\ shell.activeId = stored /\ shell.activeRole = RoleIn(stored)
        /\ (stored = NoWorkspace) = (Mine = {})

(* A bootstrap ends, with the shell or with its error: the set-active call *)
(* of a bootstrap makes the session new, which starts another, and that    *)
(* one must not call again (workspace-provider.tsx 82-85).                 *)
BootstrapEnds == boot.at # "off" ~> boot.at = "off"

-----------------------------------------------------------------------------
(* The inductive invariant: the shell shows what the session says, or the  *)
(* session is about to be read again, or a call that makes it new is out.  *)
SetActiveCalls == [who : {"boot", "orphan", "switch", "exit", "new"},
                   to : Workspaces \cup {NoWorkspace}, gen : Nat]
ShellShape ==
    /\ ShellTypeOK
    /\ unread \in BOOLEAN /\ adrift \in BOOLEAN /\ generation \in Nat
    /\ shellWork \in Nat /\ shellFaults \in Nat
    /\ shell \in [workspaces : SUBSET Workspaces, activeId : Workspaces \cup {NoWorkspace},
                  activeRole : Grades, error : BOOLEAN]
    /\ boot \in [at : {"off", "list", "active", "role"}, found : SUBSET Workspaces,
                 session : Workspaces \cup {NoWorkspace}, id : Workspaces \cup {NoWorkspace}]
    /\ calls \in Seq(SetActiveCalls)
    /\ \A i \in DOMAIN calls : calls[i].gen <= generation
    /\ roleReads \subseteq [to : Workspaces \cup {NoWorkspace}, gen : Nat]
    /\ \A i, j \in DOMAIN calls : calls[i].who = "boot" /\ calls[j].who = "boot" => i = j
    /\ boot.at # "off" => boot.session = session
    /\ boot.at \in {"active", "role"} => boot.id # NoWorkspace
    /\ unread \/ session = stored
    /\ shell.error => session # Pending

ExitUnderWay == \E i \in DOMAIN calls : calls[i].to = NoWorkspace
ShowsSession ==
    /\ ~shell.error
    /\ shell.activeId = session /\ shell.activeRole = RoleIn(session)
    /\ (session = NoWorkspace) = (Mine = {})

SessionFollows ==
    ~adrift =>
        /\ stored = NoWorkspace \/ stored \in Mine \/ ExitUnderWay
        /\ boot.at = "role" => boot.id = boot.session \/ unread
        /\ unread \/ calls # << >> \/ boot.at # "off" \/ ShowsSession

(* Where nothing failed, what the menu offers is left only for a moment.   *)
MenuHolds ==
    shellFaults = 0 =>
        /\ boot.at \in {"active", "role"} => boot.found \subseteq Mine
        /\ Shown => \/ unread \/ ExitUnderWay
                    \/ (shell.workspaces \cup {shell.activeId}) \ {NoWorkspace} \subseteq Mine
        /\ Shown /\ shellWork = 0 => shell.activeId \in Mine \cup {NoWorkspace}

ShellInv == ShellShape /\ SessionFollows /\ MenuHolds
=============================================================================
