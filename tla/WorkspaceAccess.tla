-------------------------- MODULE WorkspaceAccess --------------------------
(***************************************************************************)
(* Who may act in one workspace: membership and roles                      *)
(* (workspace/workspace-member.service.ts), account deletion               *)
(* (account/account-deletion.service.ts), personal access tokens           *)
(* (token/token.service.ts) and board rooms on sockets (realtime/).        *)
(*                                                                         *)
(* None of these requests holds a lock across its statements: each one     *)
(* reads, decides, calls the organization plugin (Better Auth, external)   *)
(* and then cleans up, and every other request may run in between.  The    *)
(* plugin is taken at its strongest: its own last-owner check and its      *)
(* write are one atomic step, and so is the transaction of an account      *)
(* deletion.  A GUEST differs from a MEMBER in nothing modelled here, so   *)
(* MEMBER stands for both.  Exclusive names the overlaps a run leaves out: *)
(* with each of them admitted, one of the properties below is lost.        *)
(***************************************************************************)
EXTENDS Naturals, FiniteSets

CONSTANTS Users, Procs, Tokens, NoUser,
          Exclusive,     \* operations that never overlap another request
          Failures,      \* TRUE if a request may die between two statements
          MaxRequests    \* bound: requests admitted in a behaviour

Ops == {"remove", "leave", "role", "deleteAccount", "accept", "token",
        "revokeToken", "join"}

ASSUME AccessAssumption == /\ IsFiniteSet(Users) /\ NoUser \notin Users
                           /\ IsFiniteSet(Procs)
                           /\ Exclusive \subseteq Ops
                           /\ Failures \in BOOLEAN
                           /\ MaxRequests \in Nat

VARIABLES role,      \* WorkspaceMember.role, "none" without a row
          live,      \* accounts with deletedAt = null
          exists,    \* the Workspace row
          epoch,     \* how often each user has become a member
          token,     \* PersonalAccessToken rows
          inRoom,    \* users whose socket is in the board's room
          tracked,   \* users whose socket.data lists the board
          departed,  \* memberships ended by removal or leaving
          recorded,  \* MEMBER_REMOVED and MEMBER_LEFT activity rows
          pc, req, requests

store   == <<role, live, exists, epoch>>
sockets == <<inRoom, tracked>>
audit   == <<departed, recorded>>
vars    == <<role, live, exists, epoch, token, inRoom, tracked, departed,
             recorded, pc, req, requests>>

Roles   == {"OWNER", "ADMIN", "MEMBER"}
Members == {u \in Users : role[u] # "none"}
Owners  == {u \in Users : role[u] = "OWNER"}

Request == [op : Ops, actor : Users \cup {NoUser}, target : Users \cup {NoUser},
            newRole : Roles, actorRole : Roles \cup {"none"},
            seen : Nat,     \* the target's membership row, by its epoch
            sole : BOOLEAN, heir : Users \cup {NoUser}]

NoRequest == [op |-> "leave", actor |-> NoUser, target |-> NoUser,
              newRole |-> "MEMBER", actorRole |-> "none", seen |-> 0,
              sole |-> FALSE, heir |-> NoUser]

TokenRows == [owner : Users \cup {NoUser}, epoch : Nat, valid : BOOLEAN]
NoToken == [owner |-> NoUser, epoch |-> 0, valid |-> FALSE]

Statements == {"idle", "check", "write", "evict", "audit", "revoke", "insert",
               "joinRoom", "track", "erase"}

(* A workspace in use: everybody is a member, and somebody owns it.        *)
Init ==
    /\ \E o \in Users : role \in {r \in [Users -> Roles] : r[o] = "OWNER"}
    /\ live = Users
    /\ exists = TRUE
    /\ epoch = [u \in Users |-> 1]
    /\ token = [t \in Tokens |-> NoToken]
    /\ inRoom = {} /\ tracked = {}
    /\ departed = [u \in Users |-> 0]
    /\ recorded = [u \in Users |-> 0]
    /\ pc = [p \in Procs |-> "idle"]
    /\ req = [p \in Procs |-> NoRequest]
    /\ requests = 0

-----------------------------------------------------------------------------
(* A request is admitted; an exclusive one only when it is alone.          *)
Admit(p, r, stmt) ==
    /\ pc[p] = "idle"
    /\ requests < MaxRequests
    /\ \A q \in Procs : pc[q] # "idle" =>
          r.op \notin Exclusive /\ req[q].op \notin Exclusive
    /\ requests' = requests + 1
    /\ req' = [req EXCEPT ![p] = r]
    /\ pc' = [pc EXCEPT ![p] = stmt]

Goto(p, stmt) ==
    /\ pc' = [pc EXCEPT ![p] = stmt]
    /\ req' = [req EXCEPT ![p] = IF stmt = "idle" THEN NoRequest ELSE @]
    /\ UNCHANGED requests

Refuse(p) == Goto(p, "idle") /\ UNCHANGED <<store, token, sockets, audit>>

(* What follows the plugin's write, statement by statement, in each        *)
(* handler.  afterRemoveMember evicts inside the plugin's call to remove;  *)
(* leaving has no such hook and evicts by itself.                          *)
AfterRemove == [write |-> "evict", evict |-> "audit", audit |-> "revoke"]

AfterRole == [write |-> "audit"]

(* Faulty handlers: leaving without revoking, and leaving without evicting. *)
AfterLeaveNoRevoke == [write |-> "audit", audit |-> "evict"]

AfterLeaveNoEvict == [write |-> "audit", audit |-> "revoke"]

AfterLeave == [write |-> "audit", audit |-> "evict", evict |-> "revoke"]

Successor(op, stmt) ==
    LET after == CASE op = "remove" -> AfterRemove
                   [] op = "leave"  -> AfterLeave
                   [] op = "role"   -> AfterRole
                   [] OTHER -> [idle |-> "idle"] IN
    IF stmt \in DOMAIN after THEN after[stmt] ELSE "idle"

-----------------------------------------------------------------------------
(* WorkspaceGuard reads the caller's membership once, and RolesGuard the   *)
(* role it carries: removing and role changes take an OWNER or an ADMIN.   *)
WorkspaceGuard(p) ==
    \E a \in Members :
    \E op \in {"remove", "leave", "role", "token", "revokeToken"},
       t \in Users, newRole \in Roles :
        /\ op \in {"remove", "role"} => role[a] \in {"OWNER", "ADMIN"}
        /\ op \notin {"remove", "role"} => t = a
        /\ op # "role" => newRole = "MEMBER"
        /\ Admit(p, [NoRequest EXCEPT !.op = op, !.actor = a, !.target = t,
                                      !.newRole = newRole, !.actorRole = role[a]],
                 IF op \in {"token", "revokeToken"} THEN "insert" ELSE "check")
        /\ UNCHANGED <<store, token, sockets, audit>>

isLastOwner == Cardinality(Owners) <= 1

(* The decision each handler makes on what it reads before the write:      *)
(* requireMember's row, the role the guard saw and the count of owners.    *)
RemoveAllowed(r) ==
    /\ r.target # r.actor
    /\ role[r.target] # "none"
    /\ role[r.target] = "OWNER" => r.actorRole = "OWNER" /\ ~ isLastOwner

RoleChangeAllowed(r) ==
    /\ role[r.target] \notin {"none", r.newRole}
    /\ "OWNER" \in {role[r.target], r.newRole} => r.actorRole = "OWNER"
    /\ role[r.target] = "OWNER" => ~ isLastOwner

LeaveAllowed(r) ==
    /\ role[r.actor] # "none"
    /\ role[r.actor] = "OWNER" => ~ isLastOwner

Allowed(r) == \/ r.op = "remove" /\ RemoveAllowed(r)
              \/ r.op = "role"   /\ RoleChangeAllowed(r)
              \/ r.op = "leave"  /\ LeaveAllowed(r)

(* requireMember's row is remembered: the plugin is called with its id.    *)
Proceed(p) ==
    /\ pc' = [pc EXCEPT ![p] = "write"]
    /\ req' = [req EXCEPT ![p].seen = epoch[req[p].target]]
    /\ UNCHANGED requests

(* A faulty check that records the departure before the plugin is asked.   *)
CheckAuditFirst(p) ==
    /\ pc[p] = "check"
    /\ IF Allowed(req[p])
       THEN /\ Proceed(p)
            /\ recorded' = [recorded EXCEPT ![req[p].target] = @ + 1]
            /\ UNCHANGED <<store, token, sockets, departed>>
       ELSE Refuse(p)

Check(p) ==
    /\ pc[p] = "check"
    /\ IF Allowed(req[p])
       THEN Proceed(p) /\ UNCHANGED <<store, token, sockets, audit>>
       ELSE Refuse(p)

(* auth.api.removeMember, leaveOrganization and updateMemberRole: the      *)
(* plugin finds the row again and refuses to take the last owner away.     *)
PluginAccepts(r) ==
    /\ role[r.target] # "none"
    /\ r.op # "leave" => /\ role[r.actor] \in {"OWNER", "ADMIN"}
                         /\ epoch[r.target] = r.seen
    /\ role[r.target] = "OWNER" /\ (r.op = "role" => r.newRole # "OWNER")
          => ~ isLastOwner

PluginWrite(p) ==
    LET r == req[p] IN
    /\ pc[p] = "write"
    /\ IF PluginAccepts(r)
       THEN /\ role' = [role EXCEPT ![r.target] =
                            IF r.op = "role" THEN r.newRole ELSE "none"]
            /\ departed' = IF r.op = "role" THEN departed
                           ELSE [departed EXCEPT ![r.target] = @ + 1]
            /\ Goto(p, Successor(r.op, "write"))
            /\ UNCHANGED <<live, exists, epoch, token, sockets, recorded>>
       ELSE Refuse(p)

(* activityService.record, outside any transaction with the write.         *)
Audit(p) ==
    LET r == req[p] IN
    /\ pc[p] = "audit"
    /\ recorded' = IF r.op = "role" THEN recorded
                   ELSE [recorded EXCEPT ![r.target] = @ + 1]
    /\ Goto(p, Successor(r.op, "audit"))
    /\ UNCHANGED <<store, token, sockets, departed>>

(* evictUserFromWorkspace: leaves the rooms the socket's data lists.       *)
Evict(p) ==
    LET u == req[p].target IN
    /\ pc[p] = "evict"
    /\ inRoom' = inRoom \ ({u} \cap tracked)
    /\ tracked' = tracked \ {u}
    /\ Goto(p, Successor(req[p].op, "evict"))
    /\ UNCHANGED <<store, token, audit>>

RevokeAllForMember(p) ==
    LET u == req[p].target IN
    /\ pc[p] = "revoke"
    /\ token' = [t \in Tokens |->
                   IF token[t].owner = u THEN [token[t] EXCEPT !.valid = FALSE]
                                         ELSE token[t]]
    /\ Goto(p, "idle")
    /\ UNCHANGED <<store, sockets, audit>>

-----------------------------------------------------------------------------
(* TokenService.create and revoke, after the guard let the caller through. *)
(* Only the foreign keys are checked, and an erased account keeps its row. *)
CreateToken(p) ==
    LET u == req[p].actor IN
    /\ pc[p] = "insert" /\ req[p].op = "token"
    /\ exists
    /\ \E t \in Tokens :
          /\ token[t] = NoToken
          /\ token' = [token EXCEPT ![t] =
                          [owner |-> u, epoch |-> epoch[u], valid |-> TRUE]]
    /\ Goto(p, "idle")
    /\ UNCHANGED <<store, sockets, audit>>

RevokeToken(p) ==
    LET u == req[p].actor IN
    /\ pc[p] = "insert" /\ req[p].op = "revokeToken"
    /\ \E t \in Tokens :
          /\ token[t].owner = u /\ token[t].valid
          /\ token' = [token EXCEPT ![t].valid = FALSE]
    /\ Goto(p, "idle")
    /\ UNCHANGED <<store, sockets, audit>>

(* No id left to mint in this instance, no live token to revoke (404), or  *)
(* the workspace is gone.                                                  *)
TokenRefused(p) ==
    LET r == req[p] IN
    /\ pc[p] = "insert"
    /\ \/ r.op = "token" /\ ~ exists
       \/ r.op = "token" /\ \A t \in Tokens : token[t] # NoToken
       \/ r.op = "revokeToken"
          /\ \A t \in Tokens : ~ (token[t].owner = r.actor /\ token[t].valid)
    /\ Refuse(p)

-----------------------------------------------------------------------------
(* onBoardJoin: the membership check, the join and the note in socket.data *)
(* are separated by awaits.                                                *)
JoinCheck(p) ==
    \E u \in Members :
        /\ Admit(p, [NoRequest EXCEPT !.op = "join", !.actor = u, !.target = u], "joinRoom")
        /\ UNCHANGED <<store, token, sockets, audit>>

JoinRoom(p) ==
    /\ pc[p] = "joinRoom"
    /\ inRoom' = inRoom \cup {req[p].actor}
    /\ Goto(p, "track")
    /\ UNCHANGED <<store, token, tracked, audit>>

Track(p) ==
    /\ pc[p] = "track"
    /\ tracked' = tracked \cup {req[p].actor}
    /\ Goto(p, "idle")
    /\ UNCHANGED <<store, token, inRoom, audit>>

(* onBoardLeave, or the socket disconnects.                                *)
LeaveRoom(u) ==
    /\ u \in inRoom
    /\ inRoom' = inRoom \ {u}
    /\ tracked' = tracked \ {u}
    /\ UNCHANGED <<store, token, audit, pc, req, requests>>

-----------------------------------------------------------------------------
(* deleteAccount: requireLiveUser, partitionMemberships and                *)
(* matchDispositions run before the transaction.  A sole owner must say    *)
(* what happens to the workspace: an heir, or NoUser for its deletion.     *)
(* A faulty count, off by one: the departing owner is not counted.         *)
soleOwnedStrict(u) == role[u] = "OWNER" /\ Cardinality(Owners) < 1

soleOwned(u) == role[u] = "OWNER" /\ isLastOwner

PartitionMemberships(p) ==
    \E u \in live, heir \in Users \cup {NoUser} :
        /\ ~ soleOwned(u) => heir = NoUser
        /\ Admit(p, [NoRequest EXCEPT !.op = "deleteAccount", !.actor = u,
                        !.target = u, !.sole = soleOwned(u), !.heir = heir,
                        !.actorRole = role[u]], "erase")
        /\ UNCHANGED <<store, token, sockets, audit>>

(* transferOwnership looks at the heir inside the transaction.             *)
HeirAccepts(r) == r.heir # r.actor /\ role[r.heir] # "none" /\ r.heir \in live

DropTokens(u) == [t \in Tokens |-> IF token[t].owner = u
                                   THEN [token[t] EXCEPT !.valid = FALSE]
                                   ELSE token[t]]

(* The transaction anonymises the account and ends its memberships, looking *)
(* neither at deletedAt nor at the owners again; the workspace survives     *)
(* unless its sole owner chose to delete it.  Sockets are evicted only from *)
(* the workspaces partitionMemberships found.                               *)
EraseAccount(p) ==
    LET r == req[p]
        promoted == IF r.sole THEN [role EXCEPT ![r.heir] = "OWNER"] ELSE role IN
    /\ pc[p] = "erase"
    /\ r.actorRole # "none" => exists
    /\ r.sole => r.heir # NoUser /\ HeirAccepts(r)
    /\ role' = [promoted EXCEPT ![r.actor] = "none"]
    /\ live' = live \ {r.actor}
    /\ token' = DropTokens(r.actor)
    /\ Goto(p, IF r.actorRole = "none" THEN "idle" ELSE "evict")
    /\ UNCHANGED <<exists, epoch, sockets, audit>>

EraseWithWorkspace(p) ==
    LET r == req[p] IN
    /\ pc[p] = "erase"
    /\ exists
    /\ r.sole /\ r.heir = NoUser
    /\ exists' = FALSE
    /\ role' = [u \in Users |-> "none"]
    /\ live' = live \ {r.actor}
    /\ token' = [t \in Tokens |-> [token[t] EXCEPT !.valid = FALSE]]
    /\ Goto(p, "idle")
    /\ UNCHANGED <<epoch, sockets, audit>>

(* The heir is not a live member any more, or the workspace is gone and    *)
(* the activity row or the delete has nothing to refer to: rollback.       *)
EraseRefused(p) ==
    LET r == req[p] IN
    /\ pc[p] = "erase"
    /\ \/ r.actorRole # "none" /\ ~ exists
       \/ r.sole /\ r.heir # NoUser /\ ~ HeirAccepts(r)
    /\ Refuse(p)

-----------------------------------------------------------------------------
(* acceptInvitation: a live account becomes a member again.  An invitation *)
(* is always at hand, and never one to be an OWNER.                        *)
AcceptInvitation(p) ==
    \E u \in live \ Members, newRole \in Roles \ {"OWNER"} :
        /\ exists
        /\ pc[p] = "idle"
        /\ requests < MaxRequests
        /\ \A q \in Procs : pc[q] # "idle" =>
              "accept" \notin Exclusive /\ req[q].op \notin Exclusive
        /\ requests' = requests + 1
        /\ role' = [role EXCEPT ![u] = newRole]
        /\ epoch' = [epoch EXCEPT ![u] = @ + 1]
        /\ UNCHANGED <<live, exists, token, sockets, audit, pc, req>>

(* A statement fails or the process dies: what follows is never run.       *)
Fail(p) == Failures /\ pc[p] # "idle" /\ Refuse(p)

Begin(p) == \/ WorkspaceGuard(p) \/ JoinCheck(p)
            \/ PartitionMemberships(p) \/ AcceptInvitation(p)

Serve(p) == \/ Check(p) \/ PluginWrite(p) \/ Audit(p) \/ Evict(p)
            \/ RevokeAllForMember(p)
            \/ CreateToken(p) \/ RevokeToken(p) \/ TokenRefused(p)
            \/ JoinRoom(p) \/ Track(p)
            \/ EraseAccount(p) \/ EraseWithWorkspace(p) \/ EraseRefused(p)

(* The server may sit idle; a request under way may not get stuck.         *)
Idle == (\A p \in Procs : pc[p] = "idle") /\ UNCHANGED vars

Next == \/ \E p \in Procs : Begin(p) \/ Serve(p) \/ Fail(p)
        \/ \E u \in Users : LeaveRoom(u)
        \/ Idle

Spec == Init /\ [][Next]_vars

FairSpec == Spec /\ \A p \in Procs : WF_vars(Serve(p))

-----------------------------------------------------------------------------
(* Properties.                                                             *)

(* Rows, rooms and requests keep their types, and only users enter rooms.  *)
TypeOK ==
    /\ role \in [Users -> Roles \cup {"none"}]
    /\ live \subseteq Users
    /\ exists \in BOOLEAN
    /\ epoch \in [Users -> Nat]
    /\ token \in [Tokens -> TokenRows]
    /\ inRoom \subseteq Users /\ tracked \subseteq Users
    /\ departed \in [Users -> Nat] /\ recorded \in [Users -> Nat]
    /\ pc \in [Procs -> Statements]
    /\ req \in [Procs -> Request]
    /\ requests \in 0 .. MaxRequests

(* A workspace always has an owner whose account is live: the invariant    *)
(* removeMember, updateMemberRole, leave and deleteAccount each enforce.   *)
WorkspaceHasOwner == exists => \E u \in live : role[u] = "OWNER"

(* Requests that may still be ending, or starting, u's access.             *)
Touches(p, u) == pc[p] # "idle" /\ u \in {req[p].actor, req[p].target}

(* A member removed and later re-added does not find the tokens of the     *)
(* earlier membership working again (removeMember, revokeAllForMember).    *)
NoTokenRevived ==
    \A t \in Tokens :
        LET u == token[t].owner IN
        /\ token[t].valid
        /\ u \in Members
        /\ \A p \in Procs : ~ Touches(p, u)
        => token[t].epoch = epoch[u]

(* Once the requests about a user are over, only a member's socket is in   *)
(* the board's room (evictUserFromWorkspace).                              *)
RoomsHoldMembers ==
    exists => \A u \in inRoom :
        (\A p \in Procs : ~ Touches(p, u)) => u \in Members

(* The trail never reports a departure that did not happen: the record     *)
(* follows the plugin's write (WorkspaceMemberService).                    *)
TrailNeverInvents == \A u \in Users : recorded[u] <= departed[u]

-----------------------------------------------------------------------------
(* Why they hold: the inductive strengthening of the invariants above.     *)

(* A request is at a statement of its own handler, about users, and about  *)
(* its own caller unless an administrator removes or changes another.      *)
OnPath(p) ==
    LET r == req[p] IN
    pc[p] # "idle" =>
        /\ r.actor \in Users /\ r.target \in Users
        /\ r.op \notin {"remove", "role"} => r.target = r.actor
        /\ \/ r.op \in {"remove", "leave"}
              /\ pc[p] \in {"check", "write", "evict", "audit", "revoke"}
           \/ r.op = "role" /\ pc[p] \in {"check", "write", "audit"}
           \/ r.op \in {"token", "revokeToken"} /\ pc[p] = "insert"
           \/ r.op = "join" /\ pc[p] \in {"joinRoom", "track"}
           \/ r.op = "deleteAccount" /\ pc[p] \in {"erase", "evict"}

Shape == TypeOK /\ \A p \in Procs : OnPath(p)

(* An exclusive request has the server to itself until it ends.            *)
Alone ==
    \A p, q \in Procs :
        p # q /\ pc[p] # "idle" /\ req[p].op \in Exclusive => pc[q] = "idle"

(* What deleteAccount found before its transaction is still so in it.      *)
DispositionCurrent(p) ==
    LET r == req[p] IN
    pc[p] = "erase" =>
        /\ r.actorRole = role[r.actor]
        /\ r.sole = soleOwned(r.actor)

(* Only live accounts are members, and one of them is an owner.            *)
OwnerInv ==
    /\ Alone
    /\ Members \subseteq live
    /\ \A p \in Procs : DispositionCurrent(p)
    /\ exists => Owners # {}

(* The departures of u that are written and not yet recorded.              *)
Unrecorded(u) ==
    {p \in Procs : /\ req[p].target = u
                   /\ \/ req[p].op = "remove" /\ pc[p] \in {"evict", "audit"}
                      \/ req[p].op = "leave" /\ pc[p] = "audit"}

TrailInv == \A u \in Users : recorded[u] + Cardinality(Unrecorded(u)) <= departed[u]

(* u's membership has ended, and the request that ended it is still to     *)
(* revoke its tokens, or to take its socket out of the room.               *)
WillRevoke(p, u) == /\ req[p].target = u
                    /\ req[p].op \in {"remove", "leave"}
                    /\ pc[p] \in {"evict", "audit", "revoke"}

WillEvict(p, u) ==
    /\ req[p].target = u
    /\ \/ pc[p] = "evict"
       \/ pc[p] = "audit" /\ req[p].op = "leave"

TokenInv ==
    /\ Alone
    /\ \A p \in Procs : pc[p] = "insert" /\ req[p].op = "token" => req[p].actor \in Members
    /\ \A t \in Tokens : token[t].valid =>
          LET u == token[t].owner IN
          \/ u \in Members /\ token[t].epoch = epoch[u]
          \/ \E p \in Procs : WillRevoke(p, u)

(* Only members join.                                                      *)
Joiners == \A p \in Procs : pc[p] \in {"joinRoom", "track"} => req[p].actor \in Members

(* A socket in the room is noted in its data, or about to be.              *)
Noted == \A u \in inRoom : \/ u \in tracked
                            \/ \E p \in Procs : pc[p] = "track" /\ req[p].actor = u

(* It belongs to a member or to somebody who is about to be evicted: also  *)
(* to the account whose deletion will not evict, having seen no membership.*)
Entitled(u) == u \in Members \/ \E p \in Procs : WillEvict(p, u)

Strangers == \A p \in Procs : pc[p] = "erase" /\ req[p].actorRole = "none"
                                  /\ req[p].actor \in inRoom \cup tracked
                               => \E q \in Procs : WillEvict(q, req[p].actor)

RoomInv ==
    /\ Alone /\ Joiners /\ Noted
    /\ exists => \A u \in inRoom \cup tracked : Entitled(u)
    /\ exists => Strangers

-----------------------------------------------------------------------------
(* A token of someone who is not a member any more is revoked in the end.  *)
TokensEndWithMembership ==
    \A t \in Tokens :
        (token[t].valid /\ token[t].owner \notin Members)
            ~> (~ token[t].valid \/ token[t].owner \in Members)
=============================================================================
