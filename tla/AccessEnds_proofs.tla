-------------------------- MODULE AccessEnds_proofs --------------------------
(***************************************************************************)
(* What ends in a workspace leaves nothing behind, for every number of     *)
(* users, tokens, requests, rows and replicas: the owner that always       *)
(* remains, the trail that never invents a departure, the tokens and rooms *)
(* that end with a membership, the rows the nightly purge takes; and both  *)
(* together, in the specification TLC runs.                                *)
(***************************************************************************)
EXTENDS MCAccessEnds, FiniteSetTheorems, SequenceTheorems, WellFoundedInduction, TLAPS

(* Everybody is a member at first and nothing is under way.                *)
LEMMA InitShape == Init => Shape
<1> SUFFICES ASSUME Init PROVE Shape
  OBVIOUS
<1>1. TypeOK
  BY AccessAssumption DEF Init, TypeOK, NoToken, TokenRows, NoRequest, Request, Ops,
     Roles, Statements
<1>2. \A p \in Procs : OnPath(p)
  BY DEF Init, OnPath
<1> QED BY <1>1, <1>2 DEF Shape

(* What a guard lets in: a request about users that its caller may make,   *)
(* at the first statement of its handler.                                  *)
Admitted(p, r, stmt) ==
    /\ Admit(p, r, stmt)
    /\ UNCHANGED <<store, token, sockets, audit>>
    /\ r \in Request /\ stmt \in Statements
    /\ r.actor \in Users /\ r.target \in Users
    /\ r.op \notin {"remove", "role"} => r.target = r.actor
    /\ \/ r.op \in {"remove", "leave", "role"} /\ stmt = "check"
       \/ r.op \in {"token", "revokeToken"} /\ stmt = "insert" /\ r.actor \in Members
       \/ r.op = "join" /\ stmt = "joinRoom" /\ r.actor \in Members
       \/ /\ r.op = "deleteAccount" /\ stmt = "erase" /\ r.actor \in live
          /\ r.actorRole = role[r.actor] /\ r.sole = soleOwned(r.actor)

(* What a request has checked when its first statement is due.             *)
LEMMA BeginAdmits ==
    ASSUME Shape, NEW p \in Procs, Begin(p), ~ AcceptInvitation(p)
    PROVE  \E r, stmt : Admitted(p, r, stmt)
<1> USE AccessAssumption
<1>1. CASE WorkspaceGuard(p)
  <2>1. PICK a \in Members, op \in {"remove", "leave", "role", "token", "revokeToken"},
             t \in Users, newRole \in Roles :
          /\ op \in {"remove", "role"} => role[a] \in {"OWNER", "ADMIN"}
          /\ op \notin {"remove", "role"} => t = a
          /\ op # "role" => newRole = "MEMBER"
          /\ Admit(p, [NoRequest EXCEPT !.op = op, !.actor = a, !.target = t,
                                        !.newRole = newRole, !.actorRole = role[a]],
                   IF op \in {"token", "revokeToken"} THEN "insert" ELSE "check")
          /\ UNCHANGED <<store, token, sockets, audit>>
    BY <1>1, Zenon DEF WorkspaceGuard
  <2> DEFINE r == [NoRequest EXCEPT !.op = op, !.actor = a, !.target = t,
                                    !.newRole = newRole, !.actorRole = role[a]]
             stmt == IF op \in {"token", "revokeToken"} THEN "insert" ELSE "check"
  <2>2. a \in Users /\ role[a] \in Roles
    BY DEF Members, Shape, TypeOK
  <2>3. r \in Request /\ r.op = op /\ r.actor = a /\ r.target = t
    BY <2>2 DEF NoRequest, Request, Ops
  <2>4. stmt \in Statements
    BY DEF Statements
  <2>5. Admit(p, r, stmt)
    BY <2>1
  <2> HIDE DEF r
  <2>6. Admitted(p, r, stmt)
    BY <2>1, <2>2, <2>3, <2>4, <2>5 DEF Admitted
  <2> QED BY <2>6
<1>2. CASE JoinCheck(p)
  <2>1. PICK u \in Members :
          /\ Admit(p, [NoRequest EXCEPT !.op = "join", !.actor = u, !.target = u], "joinRoom")
          /\ UNCHANGED <<store, token, sockets, audit>>
    BY <1>2 DEF JoinCheck
  <2> DEFINE r == [NoRequest EXCEPT !.op = "join", !.actor = u, !.target = u]
  <2>2. u \in Users
    BY DEF Members
  <2>3. r \in Request /\ r.op = "join" /\ r.actor = u /\ r.target = u
    BY <2>2 DEF NoRequest, Request, Ops, Roles
  <2>4. Admit(p, r, "joinRoom")
    BY <2>1
  <2> HIDE DEF r
  <2>5. Admitted(p, r, "joinRoom")
    BY <2>1, <2>2, <2>3, <2>4 DEF Admitted, Statements
  <2> QED BY <2>5
<1>3. CASE PartitionMemberships(p)
  <2>1. PICK u \in live, heir \in Users \cup {NoUser} :
          /\ Admit(p, [NoRequest EXCEPT !.op = "deleteAccount", !.actor = u,
                          !.target = u, !.sole = soleOwned(u), !.heir = heir,
                          !.actorRole = role[u]], "erase")
          /\ UNCHANGED <<store, token, sockets, audit>>
    BY <1>3 DEF PartitionMemberships
  <2> DEFINE r == [NoRequest EXCEPT !.op = "deleteAccount", !.actor = u,
                          !.target = u, !.sole = soleOwned(u), !.heir = heir,
                          !.actorRole = role[u]]
  <2>2. u \in Users /\ role[u] \in Roles \cup {"none"} /\ soleOwned(u) \in BOOLEAN
    BY DEF Shape, TypeOK, soleOwned
  <2>3. /\ r \in Request /\ r.op = "deleteAccount" /\ r.actor = u /\ r.target = u
        /\ r.actorRole = role[u]
    BY <2>2 DEF NoRequest, Request, Ops, Roles
  <2>4. r.sole = soleOwned(u)
    BY DEF NoRequest
  <2>5. Admit(p, r, "erase")
    BY <2>1
  <2> HIDE DEF r
  <2>6. Admitted(p, r, "erase")
    BY <2>1, <2>2, <2>3, <2>4, <2>5 DEF Admitted, Statements
  <2> QED BY <2>6
<1> QED BY <1>1, <1>2, <1>3 DEF Begin

(* An admitted request starts on its path, and nothing else moves.         *)
LEMMA AdmittedShape ==
    ASSUME Shape, NEW p \in Procs, NEW r, NEW stmt, Admitted(p, r, stmt)
    PROVE  Shape'
<1>1. /\ req' = [req EXCEPT ![p] = r] /\ pc' = [pc EXCEPT ![p] = stmt]
      /\ requests' = requests + 1 /\ requests < MaxRequests
      /\ UNCHANGED <<role, live, exists, epoch, token, inRoom, tracked, departed, recorded>>
  BY DEF Admitted, Admit, store, sockets, audit
<1>2. TypeOK'
  BY <1>1, AccessAssumption DEF Shape, TypeOK, Admitted
<1>3. ASSUME NEW q \in Procs PROVE OnPath(q)'
  <2>1. CASE q = p
    BY <1>1, <2>1 DEF Shape, TypeOK, OnPath, Admitted
  <2>2. CASE q # p
    BY <1>1, <2>2 DEF Shape, TypeOK, OnPath
  <2> QED BY <2>1, <2>2
<1> QED BY <1>2, <1>3 DEF Shape

(* An accepted invitation makes its user a member.                         *)
LEMMA AcceptShape ==
    ASSUME Shape, NEW p \in Procs, AcceptInvitation(p)
    PROVE  Shape'
<1>1. PICK u \in live \ Members, newRole \in Roles \ {"OWNER"} :
        /\ requests < MaxRequests /\ requests' = requests + 1
        /\ role' = [role EXCEPT ![u] = newRole]
        /\ epoch' = [epoch EXCEPT ![u] = @ + 1]
        /\ UNCHANGED <<live, exists, token, sockets, audit, pc, req>>
  BY DEF AcceptInvitation
<1>2. TypeOK'
  BY <1>1, AccessAssumption DEF Shape, TypeOK, sockets, audit
<1> QED BY <1>1, <1>2 DEF Shape, OnPath

(* A request that goes on keeps its record, one that ends forgets it.      *)
LEMMA GotoShape ==
    ASSUME Shape, NEW p \in Procs, NEW stmt \in Statements, Goto(p, stmt)
    PROVE  /\ pc' = [pc EXCEPT ![p] = stmt]
           /\ req' \in [Procs -> Request]
           /\ pc' \in [Procs -> Statements]
           /\ \A q \in Procs \ {p} : pc'[q] = pc[q] /\ req'[q] = req[q]
           /\ stmt # "idle" => req'[p] = req[p]
           /\ requests' = requests
           /\ \A q \in Procs \ {p} : OnPath(q)'
<1>1. NoRequest \in Request
  BY DEF NoRequest, Request, Ops, Roles
<1>2. /\ pc' = [pc EXCEPT ![p] = stmt] /\ requests' = requests
      /\ req' = [req EXCEPT ![p] = IF stmt = "idle" THEN NoRequest ELSE @]
  BY DEF Goto
<1>3. /\ pc \in [Procs -> Statements] /\ req \in [Procs -> Request]
  BY DEF Shape, TypeOK
<1>4. \A q \in Procs \ {p} : pc'[q] = pc[q] /\ req'[q] = req[q]
  BY <1>2, <1>3
<1>5. \A q \in Procs \ {p} : OnPath(q)'
  BY <1>4 DEF Shape, OnPath
<1> QED BY <1>1, <1>2, <1>3, <1>4, <1>5

(* A refused request ends and writes nothing.                              *)
LEMMA RefuseShape ==
    ASSUME Shape, NEW p \in Procs, Refuse(p)
    PROVE  Shape'
<1>1. /\ Goto(p, "idle")
      /\ UNCHANGED <<role, live, exists, epoch, token, inRoom, tracked, departed, recorded>>
  BY DEF Refuse, store, sockets, audit
<1>2. "idle" \in Statements
  BY DEF Statements
<1>3. TypeOK'
  BY <1>1, <1>2, GotoShape DEF Shape, TypeOK
<1>4. pc'[p] = "idle"
  BY <1>1, <1>2, GotoShape DEF Shape, TypeOK
<1> QED BY <1>1, <1>2, <1>3, <1>4, GotoShape DEF Shape, OnPath

(* The order of each handler's statements after the plugin's write.        *)
LEMMA SuccessorIs ==
    /\ Successor("remove", "write") = "evict"
    /\ Successor("remove", "evict") = "audit"
    /\ Successor("remove", "audit") = "revoke"
    /\ Successor("leave", "write") = "audit"
    /\ Successor("leave", "audit") = "evict"
    /\ Successor("leave", "evict") = "revoke"
    /\ Successor("role", "write") = "audit"
    /\ Successor("role", "audit") = "idle"
    /\ Successor("deleteAccount", "evict") = "idle"
<1> USE DEF Successor, AfterRemove, AfterLeave, AfterRole
<1>1. DOMAIN [write |-> "evict", evict |-> "audit", audit |-> "revoke"]
         = {"write", "evict", "audit"}
  OBVIOUS
<1>2. DOMAIN [write |-> "audit", audit |-> "evict", evict |-> "revoke"]
         = {"write", "evict", "audit"}
  OBVIOUS
<1>3. DOMAIN [write |-> "audit"] = {"write"} /\ DOMAIN [idle |-> "idle"] = {"idle"}
  OBVIOUS
<1>4. /\ Successor("remove", "write") = "evict"
      /\ Successor("remove", "evict") = "audit"
      /\ Successor("remove", "audit") = "revoke"
  BY <1>1
<1>5. /\ Successor("leave", "write") = "audit"
      /\ Successor("leave", "audit") = "evict"
      /\ Successor("leave", "evict") = "revoke"
  BY <1>2
<1>6. /\ Successor("role", "write") = "audit"
      /\ Successor("role", "audit") = "idle"
      /\ Successor("deleteAccount", "evict") = "idle"
  BY <1>3
<1> QED BY <1>4, <1>5, <1>6

(* A step of a request is its own: it goes on with the record it has, or   *)
(* ends.                                                                   *)
Moved(p) ==
    /\ pc[p] # "idle"
    /\ \A q \in Procs \ {p} : pc'[q] = pc[q] /\ req'[q] = req[q]
    /\ pc'[p] \in {"idle", "write", "evict", "audit", "revoke", "track"}
    /\ req' \in [Procs -> Request] /\ pc' \in [Procs -> Statements]
    /\ requests' = requests
    /\ pc'[p] # "idle" => /\ req'[p].op = req[p].op
                          /\ req'[p].actor = req[p].actor
                          /\ req'[p].target = req[p].target
    /\ OnPath(p)'

(* A request goes on to a statement of its own path.                       *)
LEMMA GotoMoves ==
    ASSUME Shape, NEW p \in Procs, pc[p] # "idle",
           NEW stmt \in {"idle", "evict", "audit", "revoke", "track"}, Goto(p, stmt),
           \/ stmt = "idle"
           \/ req[p].op \in {"remove", "leave"} /\ stmt # "track"
           \/ req[p].op = "role" /\ stmt = "audit"
           \/ req[p].op = "join" /\ stmt = "track"
           \/ req[p].op = "deleteAccount" /\ stmt = "evict"
    PROVE  Moved(p)
<1>1. stmt \in Statements
  BY DEF Statements
<1>2. /\ pc'[p] = stmt
      /\ req' \in [Procs -> Request] /\ pc' \in [Procs -> Statements]
      /\ \A q \in Procs \ {p} : pc'[q] = pc[q] /\ req'[q] = req[q]
      /\ stmt # "idle" => req'[p] = req[p]
      /\ requests' = requests
  BY <1>1, GotoShape DEF Shape, TypeOK
<1>3. OnPath(p)'
  BY <1>2 DEF Shape, OnPath
<1> QED BY <1>2, <1>3 DEF Moved

(* One statement of a request, or its failure, keeps it on its path.       *)
LEMMA StepMoves ==
    ASSUME Shape, NEW p \in Procs, Serve(p) \/ Fail(p)
    PROVE  Moved(p)
<1> DEFINE r == req[p]
<1>0. OnPath(p)
  BY DEF Shape
<1>1. CASE Check(p) /\ Proceed(p)
  <2>1. /\ pc' = [pc EXCEPT ![p] = "write"]
        /\ req' = [req EXCEPT ![p].seen = epoch[req[p].target]]
        /\ pc[p] = "check" /\ requests' = requests
    BY <1>1 DEF Check, Proceed
  <2>2. epoch[req[p].target] \in Nat /\ req[p] \in Request
    BY <2>1 DEF Shape, TypeOK, OnPath
  <2>3. /\ req' \in [Procs -> Request] /\ pc' \in [Procs -> Statements]
        /\ pc'[p] = "write" /\ req'[p].op = r.op /\ req'[p].actor = r.actor
        /\ req'[p].target = r.target
        /\ \A q \in Procs \ {p} : pc'[q] = pc[q] /\ req'[q] = req[q]
    BY <2>1, <2>2 DEF Shape, TypeOK, Request, Statements
  <2>4. OnPath(p)'
    BY <1>0, <2>1, <2>3 DEF OnPath
  <2> QED BY <2>1, <2>3, <2>4 DEF Moved
<1>2. CASE Refuse(p) /\ pc[p] # "idle"
  BY <1>2, GotoMoves DEF Refuse
<1>3. CASE PluginWrite(p) /\ ~ Refuse(p)
  <2>1. pc[p] = "write" /\ Goto(p, Successor(r.op, "write"))
    BY <1>3 DEF PluginWrite
  <2>2. r.op \in {"remove", "leave", "role"}
    BY <1>0, <2>1 DEF OnPath
  <2> QED BY <2>1, <2>2, SuccessorIs, GotoMoves
<1>4. CASE Audit(p)
  <2>1. pc[p] = "audit" /\ Goto(p, Successor(r.op, "audit"))
    BY <1>4 DEF Audit
  <2>2. r.op \in {"remove", "leave", "role"}
    BY <1>0, <2>1 DEF OnPath
  <2> QED BY <2>1, <2>2, SuccessorIs, GotoMoves
<1>5. CASE Evict(p)
  <2>1. pc[p] = "evict" /\ Goto(p, Successor(r.op, "evict"))
    BY <1>5 DEF Evict
  <2>2. r.op \in {"remove", "leave", "deleteAccount"}
    BY <1>0, <2>1 DEF OnPath
  <2> QED BY <2>1, <2>2, SuccessorIs, GotoMoves
<1>6. CASE RevokeAllForMember(p) \/ CreateToken(p) \/ RevokeToken(p) \/ EraseWithWorkspace(p)
  BY <1>6, GotoMoves DEF RevokeAllForMember, CreateToken, RevokeToken, EraseWithWorkspace
<1>7. CASE JoinRoom(p)
  <2>1. pc[p] = "joinRoom" /\ Goto(p, "track")
    BY <1>7 DEF JoinRoom
  <2> QED BY <1>0, <2>1, GotoMoves DEF OnPath
<1>8. CASE Track(p)
  BY <1>8, GotoMoves DEF Track
<1>9. CASE EraseAccount(p)
  <2>1. /\ pc[p] = "erase"
        /\ Goto(p, IF r.actorRole = "none" THEN "idle" ELSE "evict")
    BY <1>9 DEF EraseAccount
  <2>2. r.op = "deleteAccount"
    BY <1>0, <2>1 DEF OnPath
  <2> QED BY <2>1, <2>2, GotoMoves
<1> QED BY <1>1, <1>2, <1>3, <1>4, <1>5, <1>6, <1>7, <1>8, <1>9
        DEF Serve, Fail, Check, PluginWrite, TokenRefused, EraseRefused

(* Every step of a request keeps the types of what it writes.              *)
LEMMA ServeShape ==
    ASSUME Shape, NEW p \in Procs, Serve(p)
    PROVE  Shape'
<1> DEFINE r == req[p]
<1>0. Moved(p) /\ OnPath(p)
  BY StepMoves DEF Shape
<1>1. ASSUME TypeOK' PROVE Shape'
  <2>1. \A q \in Procs \ {p} : OnPath(q)'
    BY <1>0 DEF Moved, Shape, OnPath
  <2> QED BY <1>0, <1>1, <2>1 DEF Moved, Shape
<1> USE DEF Shape, TypeOK
<1>2. CASE Check(p) \/ Evict(p) \/ JoinRoom(p) \/ Track(p)
  BY <1>0, <1>1, <1>2 DEF Moved, OnPath, Check, Refuse, Evict, JoinRoom, Track,
     store, sockets, audit
<1>3. CASE PluginWrite(p)
  <2>1. r.target \in Users /\ r.newRole \in Roles
    BY <1>0, <1>3 DEF PluginWrite, OnPath, Request
  <2> QED BY <1>0, <1>1, <1>3, <2>1 DEF Moved, PluginWrite, Refuse, store, sockets, audit
<1>4. CASE Audit(p)
  <2>1. r.target \in Users
    BY <1>0, <1>4 DEF Audit, OnPath
  <2> QED BY <1>0, <1>1, <1>4, <2>1 DEF Moved, Audit, store, sockets
<1>5. \A t \in Tokens : [token[t] EXCEPT !.valid = FALSE] \in TokenRows
  BY DEF TokenRows
<1>6. CASE RevokeAllForMember(p) \/ RevokeToken(p)
  BY <1>0, <1>1, <1>5, <1>6 DEF Moved, RevokeAllForMember, RevokeToken, store, sockets, audit
<1>7. CASE CreateToken(p)
  <2>1. r.actor \in Users /\ epoch[r.actor] \in Nat
    BY <1>0, <1>7 DEF CreateToken, OnPath
  <2>2. [owner |-> r.actor, epoch |-> epoch[r.actor], valid |-> TRUE] \in TokenRows
    BY <2>1 DEF TokenRows
  <2> QED BY <1>0, <1>1, <1>7, <2>2 DEF Moved, CreateToken, store, sockets, audit
<1>8. CASE Refuse(p)
  BY <1>8, RefuseShape
<1>9. CASE EraseAccount(p)
  <2>1. r.actor \in Users /\ (r.sole => r.heir \in Users)
    BY <1>0, <1>9 DEF EraseAccount, OnPath, Request
  <2>2. DropTokens(r.actor) \in [Tokens -> TokenRows]
    BY <1>5 DEF DropTokens
  <2>3. role' \in [Users -> Roles \cup {"none"}]
    BY <1>9, <2>1 DEF EraseAccount, Roles
  <2> QED BY <1>0, <1>1, <1>9, <2>1, <2>2, <2>3 DEF Moved, EraseAccount, sockets, audit
<1>10. CASE EraseWithWorkspace(p)
  BY <1>0, <1>1, <1>5, <1>10 DEF Moved, EraseWithWorkspace, sockets, audit
<1> QED BY <1>2, <1>3, <1>4, <1>6, <1>7, <1>8, <1>9, <1>10
        DEF Serve, TokenRefused, EraseRefused

(* Every step keeps the types and every request on its path.               *)
LEMMA NextShape == Shape /\ [Next]_vars => Shape'
<1> SUFFICES ASSUME Shape, [Next]_vars PROVE Shape'
  OBVIOUS
<1>1. CASE UNCHANGED vars
  BY <1>1 DEF vars, Shape, TypeOK, OnPath
<1>2. ASSUME NEW u \in Users, LeaveRoom(u) PROVE Shape'
  BY <1>2 DEF LeaveRoom, store, audit, Shape, TypeOK, OnPath
<1>3. ASSUME NEW p \in Procs, Fail(p) PROVE Shape'
  BY <1>3, RefuseShape DEF Fail
<1>4. ASSUME NEW p \in Procs, Begin(p) PROVE Shape'
  BY <1>4, BeginAdmits, AdmittedShape, AcceptShape
<1> QED BY <1>1, <1>2, <1>3, <1>4, ServeShape DEF Next, Idle

(* Rows, rooms and requests keep their types, and every request is at a    *)
(* statement of its own handler (WorkspaceMemberService and the others).   *)
THEOREM ShapeHolds == Spec => []Shape
BY InitShape, NextShape, PTL DEF Spec

-----------------------------------------------------------------------------
(* An exclusive request is admitted only to an idle server, and keeps it.  *)
LEMMA NextAlone == Shape /\ Alone /\ [Next]_vars => Alone'
<1> SUFFICES ASSUME Shape, Alone, [Next]_vars PROVE Alone'
  OBVIOUS
<1>1. CASE UNCHANGED <<pc, req>>
  BY <1>1 DEF Alone
<1>2. ASSUME NEW p \in Procs, Begin(p), ~ AcceptInvitation(p) PROVE Alone'
  <2>1. PICK r, stmt : Admitted(p, r, stmt)
    BY <1>2, BeginAdmits
  <2> QED BY <2>1 DEF Admitted, Admit, Alone, Shape, TypeOK
<1>3. ASSUME NEW p \in Procs, Serve(p) \/ Fail(p) PROVE Alone'
  BY <1>3, StepMoves DEF Moved, Alone, Shape, TypeOK
<1> QED BY <1>1, <1>2, <1>3 DEF Next, Idle, vars, LeaveRoom, AcceptInvitation

(* More than one owner: besides anybody there is another.                  *)
LEMMA AnotherOwner ==
    ASSUME NEW u, ~ isLastOwner
    PROVE  \E o \in Owners : o # u
<1>1. IsFiniteSet(Owners) /\ Owners \subseteq Users
  BY AccessAssumption, FS_Subset DEF Owners
<1>2. SUFFICES ASSUME Owners \subseteq {u} PROVE FALSE
  OBVIOUS
<1>3. IsFiniteSet({u}) /\ Cardinality({u}) = 1
  BY FS_Singleton
<1>4. Cardinality(Owners) <= 1
  BY <1>2, <1>3, FS_Subset
<1> QED BY <1>4 DEF isLastOwner

(* Nothing about members and accounts changes, and no deletion of an       *)
(* account is admitted.                                                    *)
LEMMA OwnersUntouched ==
    ASSUME Shape, OwnerInv, Alone', UNCHANGED <<role, live, exists>>,
           \A q \in Procs : pc'[q] = "erase" => pc[q] = "erase" /\ req'[q] = req[q]
    PROVE  OwnerInv'
<1>1. \A q \in Procs : DispositionCurrent(q)'
  BY DEF OwnerInv, DispositionCurrent, soleOwned, isLastOwner, Owners
<1> QED BY <1>1 DEF OwnerInv, Members, Owners

(* The plugin leaves an owner, and only a request that runs beside no      *)
(* deletion of an account gets to it.                                      *)
LEMMA PluginKeepsOwner ==
    ASSUME Shape, OwnerInv, "deleteAccount" \in Exclusive, Alone',
           NEW p \in Procs, PluginWrite(p), ~ Refuse(p)
    PROVE  OwnerInv'
<1> DEFINE r == req[p]
<1>1. /\ pc[p] = "write" /\ PluginAccepts(r)
      /\ role' = [role EXCEPT ![r.target] = IF r.op = "role" THEN r.newRole ELSE "none"]
      /\ live' = live /\ exists' = exists
  BY DEF PluginWrite
<1>2. r.target \in Users /\ r.newRole \in Roles /\ Moved(p)
  BY <1>1, StepMoves DEF Shape, TypeOK, OnPath, Request, Serve
<1>3. \A q \in Procs : pc'[q] # "erase"
  <2>1. \A q \in Procs \ {p} : pc[q] # "erase"
    BY <1>1 DEF OwnerInv, Alone, Shape, OnPath
  <2> QED BY <1>2, <2>1 DEF Moved
<1>4. Members' \subseteq Members
  BY <1>1, <1>2 DEF Members, PluginAccepts, Shape, TypeOK
<1>5. ASSUME exists PROVE Owners' # {}
  <2>1. CASE role[r.target] = "OWNER" /\ (r.op = "role" => r.newRole # "OWNER")
    <3>1. PICK o \in Owners : o # r.target
      BY <1>1, <2>1, AnotherOwner DEF PluginAccepts
    <3>2. o \in Owners'
      BY <1>1, <1>2, <3>1 DEF Owners, Shape, TypeOK
    <3> QED BY <3>2
  <2>2. CASE ~ (role[r.target] = "OWNER" /\ (r.op = "role" => r.newRole # "OWNER"))
    <3>1. Owners \subseteq Owners'
      BY <1>1, <1>2, <2>2 DEF Owners, Shape, TypeOK
    <3> QED BY <1>5, <3>1 DEF OwnerInv
  <2> QED BY <2>1, <2>2
<1> QED BY <1>1, <1>3, <1>4, <1>5 DEF OwnerInv, DispositionCurrent

(* The transaction of an account deletion acts on what is still true.      *)
LEMMA EraseKeepsOwner ==
    ASSUME Shape, OwnerInv, "deleteAccount" \in Exclusive, Alone',
           NEW p \in Procs, EraseAccount(p)
    PROVE  OwnerInv'
<1> DEFINE r == req[p]
           promoted == IF r.sole THEN [role EXCEPT ![r.heir] = "OWNER"] ELSE role
<1>1. /\ pc[p] = "erase"
      /\ r.sole => r.heir # NoUser /\ HeirAccepts(r)
      /\ role' = [promoted EXCEPT ![r.actor] = "none"]
      /\ live' = live \ {r.actor} /\ exists' = exists
  BY DEF EraseAccount
<1>2. /\ r.actor \in Users /\ (r.sole => r.heir \in Users /\ r.heir \in live /\ r.heir # r.actor)
      /\ r.sole = soleOwned(r.actor) /\ Moved(p) /\ r.op = "deleteAccount"
  BY <1>1, StepMoves
     DEF Shape, TypeOK, OnPath, Request, Serve, HeirAccepts, OwnerInv, DispositionCurrent
<1>3. \A q \in Procs : pc'[q] # "erase"
  <2>1. \A q \in Procs \ {p} : pc[q] = "idle"
    BY <1>1, <1>2 DEF OwnerInv, Alone
  <2> QED BY <1>2, <2>1 DEF Moved
<1>4. \A u \in Users : role'[u] = IF u = r.actor THEN "none"
                                  ELSE IF r.sole /\ u = r.heir THEN "OWNER" ELSE role[u]
  BY <1>1, <1>2 DEF Shape, TypeOK
<1>5. Members' \subseteq live'
  BY <1>1, <1>2, <1>4 DEF Members, OwnerInv
<1>6. ASSUME exists PROVE Owners' # {}
  <2>1. CASE r.sole
    <3>1. r.heir \in Owners'
      BY <1>2, <1>4, <2>1 DEF Owners
    <3> QED BY <3>1
  <2>2. CASE ~ r.sole
    <3>1. PICK o \in Owners : o # r.actor
      <4>1. CASE role[r.actor] = "OWNER"
        <5>1. ~ isLastOwner
          BY <1>2, <2>2, <4>1 DEF soleOwned, isLastOwner
        <5> QED BY <5>1, AnotherOwner
      <4>2. CASE role[r.actor] # "OWNER"
        BY <1>1, <1>6, <4>2 DEF OwnerInv, Owners
      <4> QED BY <4>1, <4>2
    <3>2. o \in Owners'
      BY <1>4, <2>2, <3>1 DEF Owners
    <3> QED BY <3>2
  <2> QED BY <2>1, <2>2
<1> QED BY <1>1, <1>3, <1>5, <1>6 DEF OwnerInv, DispositionCurrent

(* A newcomer is live, and none comes while an account is being deleted.   *)
LEMMA AcceptKeepsOwner ==
    ASSUME Shape, OwnerInv, "deleteAccount" \in Exclusive, Alone',
           NEW p \in Procs, AcceptInvitation(p)
    PROVE  OwnerInv'
<1>1. PICK u \in live \ Members, newRole \in Roles \ {"OWNER"} :
        /\ \A q \in Procs : pc[q] # "idle" => req[q].op \notin Exclusive
        /\ role' = [role EXCEPT ![u] = newRole]
        /\ UNCHANGED <<live, exists, pc, req>>
  BY DEF AcceptInvitation
<1>2. \A q \in Procs : pc'[q] # "erase"
  BY <1>1 DEF Shape, OnPath
<1>3. \A v \in Users : role'[v] = IF v = u THEN newRole ELSE role[v]
  BY <1>1 DEF Shape, TypeOK
<1>4. u \in live /\ role[u] # "OWNER"
  BY DEF Members, Shape, TypeOK
<1>5. Members' \subseteq live' /\ Owners \subseteq Owners'
  BY <1>1, <1>3, <1>4 DEF Members, Owners, OwnerInv
<1> QED BY <1>1, <1>2, <1>5 DEF OwnerInv, DispositionCurrent

(* Every step leaves an owner behind, account deletions being alone.       *)
LEMMA NextOwner ==
    ASSUME Shape, OwnerInv, "deleteAccount" \in Exclusive, [Next]_vars
    PROVE  OwnerInv'
<1>0. Alone'
  BY NextAlone DEF OwnerInv
<1>1. CASE UNCHANGED <<role, live, exists, pc, req>>
  BY <1>0, <1>1, OwnersUntouched
<1>2. ASSUME NEW p \in Procs, Begin(p) PROVE OwnerInv'
  <2>1. CASE AcceptInvitation(p)
    BY <1>0, <2>1, AcceptKeepsOwner
  <2>2. CASE ~ AcceptInvitation(p)
    <3>1. PICK r, stmt : Admitted(p, r, stmt)
      BY <1>2, <2>2, BeginAdmits
    <3>2. /\ UNCHANGED <<role, live, exists>>
          /\ pc' = [pc EXCEPT ![p] = stmt] /\ req' = [req EXCEPT ![p] = r]
      BY <3>1 DEF Admitted, Admit, store
    <3>3. \A q \in Procs : DispositionCurrent(q)'
      BY <3>1, <3>2 DEF Admitted, OwnerInv, DispositionCurrent, soleOwned, isLastOwner,
         Owners, Shape, TypeOK
    <3> QED BY <1>0, <3>2, <3>3 DEF OwnerInv, Members, Owners
  <2> QED BY <2>1, <2>2
<1>3. ASSUME NEW p \in Procs, Serve(p) \/ Fail(p) PROVE OwnerInv'
  <2>0. Moved(p)
    BY <1>3, StepMoves
  <2>1. CASE PluginWrite(p) /\ ~ Refuse(p)
    BY <1>0, <2>1, PluginKeepsOwner
  <2>2. CASE EraseAccount(p)
    BY <1>0, <2>2, EraseKeepsOwner
  <2>3. CASE EraseWithWorkspace(p)
    <3>1. /\ exists' = FALSE /\ Members' = {} /\ pc[p] = "erase"
      BY <2>3 DEF EraseWithWorkspace, Members
    <3>2. \A q \in Procs : pc'[q] # "erase"
      BY <2>0, <3>1 DEF Moved, OwnerInv, Alone, Shape, OnPath
    <3> QED BY <1>0, <3>1, <3>2 DEF OwnerInv, DispositionCurrent
  <2>4. CASE UNCHANGED <<role, live, exists>>
    BY <1>0, <2>0, <2>4, OwnersUntouched DEF Moved
  <2> QED BY <1>3, <2>1, <2>2, <2>3, <2>4
       DEF Serve, Fail, Check, PluginWrite, Audit, Evict, RevokeAllForMember, CreateToken,
           RevokeToken, TokenRefused, JoinRoom, Track, EraseRefused, Refuse, store
<1> QED BY <1>1, <1>2, <1>3 DEF Next, Idle, vars, LeaveRoom, store

(* As long as the deletion of an account overlaps no other request, the    *)
(* workspace keeps an owner whose account is live, however removals, role  *)
(* changes and leaving overlap (WorkspaceMemberService, deleteAccount).    *)
THEOREM OwnerRemains ==
    ASSUME "deleteAccount" \in Exclusive
    PROVE  Spec => []WorkspaceHasOwner
<1>1. Init => OwnerInv
  BY DEF Init, OwnerInv, Alone, Members, Owners, DispositionCurrent
<1>2. Shape /\ OwnerInv /\ [Next]_vars => OwnerInv'
  BY NextOwner
<1>3. OwnerInv => WorkspaceHasOwner
  BY DEF OwnerInv, WorkspaceHasOwner, Members, Owners
<1> QED BY <1>1, <1>2, <1>3, ShapeHolds, PTL DEF Spec

-----------------------------------------------------------------------------
(* The departures still to be recorded are finitely many.                  *)
LEMMA UnrecordedFinite ==
    \A u : IsFiniteSet(Unrecorded(u)) /\ Cardinality(Unrecorded(u)) \in Nat
<1> TAKE u
<1>1. Unrecorded(u) \subseteq Procs
  BY DEF Unrecorded
<1> QED BY <1>1, AccessAssumption, FS_Subset, FS_CardinalityType

(* A step that writes neither counter keeps the trail true, as long as it  *)
(* starts no departure.                                                    *)
LEMMA TrailUntouched ==
    ASSUME Shape, TrailInv, UNCHANGED <<departed, recorded>>,
           \A u \in Users : Unrecorded(u)' \subseteq Unrecorded(u)
    PROVE  TrailInv'
<1> SUFFICES ASSUME NEW u \in Users
             PROVE  (recorded[u] + Cardinality(Unrecorded(u)) <= departed[u])'
  BY DEF TrailInv
<1>1. /\ Cardinality(Unrecorded(u)') <= Cardinality(Unrecorded(u))
      /\ Cardinality(Unrecorded(u)') \in Nat
  BY UnrecordedFinite, FS_Subset, FS_CardinalityType
<1>2. recorded[u] + Cardinality(Unrecorded(u)) <= departed[u]
  BY DEF TrailInv
<1> QED BY <1>1, <1>2, UnrecordedFinite DEF Shape, TypeOK

(* Writing a departure and recording it each count once, for one user.     *)
LEMMA TrailStep ==
    ASSUME Shape, TrailInv, NEW p \in Procs, (PluginWrite(p) /\ ~ Refuse(p)) \/ Audit(p)
    PROVE  TrailInv'
<1> DEFINE r == req[p]
<1>1. Moved(p) /\ OnPath(p) /\ Shape'
  BY StepMoves, ServeShape DEF Shape, Serve
<1>2. \A u \in Users : Unrecorded(u)' \ {p} = Unrecorded(u) \ {p}
  BY <1>1 DEF Moved, Unrecorded
<1>3. /\ r.op \in {"remove", "leave", "role"} /\ r.target \in Users
      /\ r.op \in Ops
  BY <1>1 DEF OnPath, PluginWrite, Audit, Ops
<1>4. SUFFICES ASSUME NEW u \in Users
             PROVE  (recorded[u] + Cardinality(Unrecorded(u)) <= departed[u])'
  BY DEF TrailInv
<1>5. /\ recorded[u] \in Nat /\ departed[u] \in Nat
      /\ recorded[u] + Cardinality(Unrecorded(u)) <= departed[u]
      /\ Cardinality(Unrecorded(u)) \in Nat
  BY UnrecordedFinite DEF Shape, TypeOK, TrailInv
<1>6. CASE PluginWrite(p) /\ ~ Refuse(p)
  <2>1. /\ pc[p] = "write" /\ recorded' = recorded
        /\ departed' = IF r.op = "role" THEN departed
                       ELSE [departed EXCEPT ![r.target] = @ + 1]
    BY <1>6 DEF PluginWrite
  <2>2. p \notin Unrecorded(u)
    BY <2>1 DEF Unrecorded
  <2>3. CASE r.op # "role" /\ u = r.target
    <3>1. Unrecorded(u)' \subseteq Unrecorded(u) \cup {p}
      BY <1>2
    <3>2. /\ IsFiniteSet(Unrecorded(u) \cup {p})
          /\ Cardinality(Unrecorded(u) \cup {p}) = Cardinality(Unrecorded(u)) + 1
      BY <2>2, UnrecordedFinite, FS_AddElement
    <3>3. /\ Cardinality(Unrecorded(u)') <= Cardinality(Unrecorded(u)) + 1
          /\ Cardinality(Unrecorded(u)') \in Nat
      BY <3>1, <3>2, FS_Subset, FS_CardinalityType
    <3>4. departed'[u] = departed[u] + 1 /\ recorded'[u] = recorded[u]
      BY <2>1, <2>3 DEF Shape, TypeOK
    <3> QED BY <1>5, <3>3, <3>4
  <2>4. CASE r.op = "role" \/ u # r.target
    <3>1. p \notin Unrecorded(u)'
      BY <1>1, <1>3, <2>4 DEF Moved, Unrecorded
    <3>2. Unrecorded(u)' = Unrecorded(u)
      BY <1>2, <2>2, <3>1
    <3>3. departed'[u] = departed[u] /\ recorded'[u] = recorded[u]
      BY <2>1, <2>4 DEF Shape, TypeOK
    <3> QED BY <1>5, <3>2, <3>3
  <2> QED BY <2>3, <2>4
<1>7. CASE Audit(p)
  <2>1. /\ pc[p] = "audit" /\ departed' = departed
        /\ recorded' = IF r.op = "role" THEN recorded
                       ELSE [recorded EXCEPT ![r.target] = @ + 1]
    BY <1>7 DEF Audit
  <2>2. p \notin Unrecorded(u)'
    <3>1. Goto(p, Successor(r.op, "audit"))
      BY <1>7 DEF Audit
    <3>2. Successor(r.op, "audit") \in Statements
      BY <1>3, SuccessorIs DEF Statements
    <3>3. pc'[p] = Successor(r.op, "audit")
      BY <3>1, <3>2 DEF Goto, Shape, TypeOK
    <3> QED BY <1>1, <1>3, <3>3, SuccessorIs DEF Moved, Unrecorded
  <2>3. CASE r.op # "role" /\ u = r.target
    <3>1. p \in Unrecorded(u)
      BY <1>3, <2>1, <2>3 DEF Unrecorded
    <3>2. Unrecorded(u)' = Unrecorded(u) \ {p}
      BY <1>2, <2>2
    <3>3. Cardinality(Unrecorded(u)') = Cardinality(Unrecorded(u)) - 1
      BY <3>1, <3>2, UnrecordedFinite, FS_RemoveElement
    <3>4. departed'[u] = departed[u] /\ recorded'[u] = recorded[u] + 1
      BY <2>1, <2>3 DEF Shape, TypeOK
    <3> QED BY <1>5, <3>3, <3>4
  <2>4. CASE r.op = "role" \/ u # r.target
    <3>1. p \notin Unrecorded(u)
      BY <2>4 DEF Unrecorded
    <3>2. Unrecorded(u)' = Unrecorded(u)
      BY <1>2, <2>2, <3>1
    <3>3. departed'[u] = departed[u] /\ recorded'[u] = recorded[u]
      BY <2>1, <2>4 DEF Shape, TypeOK
    <3> QED BY <1>5, <3>2, <3>3
  <2> QED BY <2>3, <2>4
<1> QED BY <1>6, <1>7

(* No step records a departure that did not take place.                   *)
LEMMA NextTrail ==
    ASSUME Shape, TrailInv, [Next]_vars
    PROVE  TrailInv'
<1>1. CASE UNCHANGED <<departed, recorded, pc, req>>
  BY <1>1, TrailUntouched DEF Unrecorded
<1>2. ASSUME NEW p \in Procs, Begin(p), ~ AcceptInvitation(p) PROVE TrailInv'
  <2>1. PICK r, stmt : Admitted(p, r, stmt)
    BY <1>2, BeginAdmits
  <2>2. \A u \in Users : Unrecorded(u)' \subseteq Unrecorded(u)
    BY <2>1 DEF Admitted, Admit, Unrecorded, Shape, TypeOK
  <2> QED BY <2>1, <2>2, TrailUntouched DEF Admitted, audit
<1>3. ASSUME NEW p \in Procs, Serve(p) \/ Fail(p) PROVE TrailInv'
  <2>1. Moved(p) /\ OnPath(p)
    BY <1>3, StepMoves DEF Shape
  <2>2. CASE Refuse(p)
    <3>1. pc'[p] = "idle"
      BY <2>2 DEF Refuse, Goto, Shape, TypeOK
    <3>2. \A u \in Users : Unrecorded(u)' \subseteq Unrecorded(u)
      BY <2>1, <3>1 DEF Moved, Unrecorded
    <3> QED BY <2>2, <3>2, TrailUntouched DEF Refuse, audit
  <2>3. CASE Evict(p)
    <3>1. \A u \in Users : Unrecorded(u)' \subseteq Unrecorded(u)
      <4>1. Goto(p, Successor(req[p].op, "evict")) /\ pc[p] = "evict"
        BY <2>3 DEF Evict
      <4>2. req[p].op \in {"remove", "leave", "deleteAccount"}
        BY <2>1, <4>1 DEF OnPath
      <4>3. pc'[p] = Successor(req[p].op, "evict")
        BY <4>1 DEF Goto, Shape, TypeOK
      <4> QED BY <2>1, <4>1, <4>2, <4>3, SuccessorIs DEF Moved, Unrecorded
    <3> QED BY <2>3, <3>1, TrailUntouched DEF Evict, audit
  <2>4. CASE \/ Check(p) \/ RevokeAllForMember(p) \/ CreateToken(p) \/ RevokeToken(p)
             \/ JoinRoom(p) \/ Track(p) \/ EraseAccount(p) \/ EraseWithWorkspace(p)
    <3>1. \A u \in Users : Unrecorded(u)' \subseteq Unrecorded(u)
      <4>1. pc[p] \in {"check", "revoke", "insert", "joinRoom", "track", "erase"}
        BY <2>4 DEF Check, RevokeAllForMember, CreateToken, RevokeToken, JoinRoom, Track,
           EraseAccount, EraseWithWorkspace
      <4>2. pc'[p] \in {"write", "idle", "track"} \/ req[p].op = "deleteAccount"
        BY <2>1, <2>4 DEF Check, Proceed, Refuse, RevokeAllForMember, CreateToken, RevokeToken,
           JoinRoom, Track, EraseAccount, EraseWithWorkspace, Goto, OnPath, Shape, TypeOK
      <4> QED BY <2>1, <4>1, <4>2 DEF Moved, Unrecorded
    <3>2. UNCHANGED <<departed, recorded>>
      BY <2>4 DEF Check, Refuse, RevokeAllForMember, CreateToken, RevokeToken, JoinRoom,
         Track, EraseAccount, EraseWithWorkspace, audit
    <3> QED BY <3>1, <3>2, TrailUntouched
  <2> QED BY <1>3, <2>2, <2>3, <2>4, TrailStep DEF Serve, Fail, TokenRefused, EraseRefused
<1> QED BY <1>1, <1>2, <1>3 DEF Next, Idle, vars, LeaveRoom, AcceptInvitation, audit

(* The activity trail never reports a departure that did not happen,       *)
(* whatever fails between the write and its record (removeMember, leave).  *)
THEOREM TrailIsTrue == Spec => []TrailNeverInvents
<1>1. Init => TrailInv
  <2> SUFFICES ASSUME Init, NEW u \in Users
               PROVE  recorded[u] + Cardinality(Unrecorded(u)) <= departed[u]
    BY DEF TrailInv
  <2>1. Unrecorded(u) = {}
    BY DEF Init, Unrecorded
  <2> QED BY <2>1, FS_EmptySet DEF Init
<1>2. Shape /\ TrailInv /\ [Next]_vars => TrailInv'
  BY NextTrail
<1>3. Shape /\ TrailInv => TrailNeverInvents
  <2> SUFFICES ASSUME Shape, TrailInv, NEW u \in Users PROVE recorded[u] <= departed[u]
    BY DEF TrailNeverInvents
  <2>1. recorded[u] + Cardinality(Unrecorded(u)) <= departed[u]
    BY DEF TrailInv
  <2> QED BY <2>1, UnrecordedFinite DEF Shape, TypeOK
<1> QED BY <1>1, <1>2, <1>3, ShapeHolds, PTL DEF Spec

-----------------------------------------------------------------------------
(* A request that is to revoke stays so until it does, if nothing fails.   *)
LEMMA RevokersStay ==
    ASSUME Shape, NEW p \in Procs, Serve(p), NEW q \in Procs, NEW u,
           WillRevoke(q, u), ~ (q = p /\ RevokeAllForMember(p))
    PROVE  WillRevoke(q, u)'
<1>1. Moved(p) /\ OnPath(p)
  BY StepMoves DEF Shape
<1>2. CASE q # p
  BY <1>1, <1>2 DEF Moved, WillRevoke
<1>3. CASE q = p
  <2>1. Audit(p) \/ Evict(p)
    BY <1>3 DEF WillRevoke, Serve, Check, PluginWrite, CreateToken, RevokeToken, TokenRefused,
       JoinRoom, Track, EraseAccount, EraseWithWorkspace, EraseRefused
  <2>2. Goto(p, Successor(req[p].op, pc[p])) /\ pc[p] \in {"audit", "evict"}
    BY <2>1 DEF Audit, Evict
  <2>3. pc'[p] = Successor(req[p].op, pc[p])
    BY <2>2 DEF Goto, Shape, TypeOK
  <2>4. pc'[p] \in {"evict", "audit", "revoke"}
    BY <1>3, <2>2, <2>3, SuccessorIs DEF WillRevoke
  <2> QED BY <1>1, <1>3, <2>4 DEF Moved, WillRevoke
<1> QED BY <1>2, <1>3

(* What the token invariant says of one token.                             *)
TokenEnds(t) ==
    token[t].valid =>
        LET u == token[t].owner IN
        \/ u \in Members /\ token[t].epoch = epoch[u]
        \/ \E p \in Procs : WillRevoke(p, u)

(* A step of a request leaves each token to a member, or to its revoker.   *)
LEMMA ServeTokens ==
    ASSUME Shape, TokenInv, NEW p \in Procs, Serve(p), NEW t \in Tokens
    PROVE  TokenEnds(t)'
<1> DEFINE r == req[p]
<1>0. PICK o : o = token[t].owner
  OBVIOUS
<1>1. Moved(p) /\ OnPath(p)
  BY StepMoves DEF Shape
<1>2. TokenEnds(t)
  BY DEF TokenInv, TokenEnds
<1>3. ASSUME token'[t].owner = o, token'[t].valid => token[t].valid,
             token'[t].epoch = token[t].epoch,
             token'[t].valid => role' = role \/ (o \in Members => o \in Members'),
             epoch' = epoch,
             ~ (RevokeAllForMember(p) /\ r.target = o /\ token'[t].valid)
      PROVE  TokenEnds(t)'
  <2> SUFFICES ASSUME token'[t].valid
               PROVE  \/ o \in Members' /\ token'[t].epoch = epoch'[o]
                      \/ \E q \in Procs : WillRevoke(q, o)'
    BY <1>0, <1>3 DEF TokenEnds
  <2>1. CASE o \in Members /\ token[t].epoch = epoch[o]
    BY <1>3, <2>1 DEF Members
  <2>2. ASSUME NEW q \in Procs, WillRevoke(q, o) PROVE WillRevoke(q, o)'
    <3>1. ~ (q = p /\ RevokeAllForMember(p))
      BY <1>3, <2>2 DEF WillRevoke
    <3> QED BY <2>2, <3>1, RevokersStay
  <2> QED BY <1>0, <1>2, <1>3, <2>1, <2>2 DEF TokenEnds
<1>4. CASE \/ Check(p) \/ Audit(p) \/ Evict(p) \/ JoinRoom(p) \/ Track(p) \/ (Refuse(p) /\ pc[p] # "revoke")
  <2>1. UNCHANGED <<role, epoch, token>>
    BY <1>4 DEF Check, Refuse, Audit, Evict, JoinRoom, Track, store
  <2>2. ~ RevokeAllForMember(p)
    BY <1>4, <1>1 DEF RevokeAllForMember, Check, Audit, Evict, JoinRoom, Track, Refuse
  <2> QED BY <1>0, <1>3, <2>1, <2>2
<1>5. CASE PluginWrite(p) /\ ~ Refuse(p)
  <2>1. /\ pc[p] = "write" /\ PluginAccepts(r) /\ Goto(p, Successor(r.op, "write"))
        /\ role' = [role EXCEPT ![r.target] = IF r.op = "role" THEN r.newRole ELSE "none"]
        /\ UNCHANGED <<epoch, token>>
    BY <1>5 DEF PluginWrite
  <2>2. r.target \in Users /\ r.newRole \in Roles /\ r.op \in {"remove", "leave", "role"}
    BY <1>1, <2>1 DEF Shape, TypeOK, OnPath, Request
  <2>3. ~ RevokeAllForMember(p)
    BY <2>1 DEF RevokeAllForMember
  <2>4. CASE r.op = "role" \/ o # r.target
    <3>1. o \in Members => o \in Members'
      BY <2>1, <2>2, <2>4 DEF Members, Roles, Shape, TypeOK
    <3> QED BY <1>0, <1>3, <2>1, <2>3, <3>1
  <2>5. CASE r.op # "role" /\ o = r.target
    <3>1. pc'[p] = Successor(r.op, "write")
      BY <2>1 DEF Goto, Shape, TypeOK
    <3>2. WillRevoke(p, o)'
      BY <1>1, <2>2, <2>5, <3>1, SuccessorIs DEF Moved, WillRevoke
    <3> QED BY <1>0, <2>1, <3>2 DEF TokenEnds
  <2> QED BY <2>4, <2>5
<1>6. CASE RevokeAllForMember(p)
  <2>1. /\ token' = [s \in Tokens |->
                       IF token[s].owner = r.target THEN [token[s] EXCEPT !.valid = FALSE]
                                                    ELSE token[s]]
        /\ UNCHANGED <<role, epoch>>
    BY <1>6 DEF RevokeAllForMember, store
  <2> QED BY <1>0, <1>3, <2>1 DEF Shape, TypeOK, TokenRows
<1>7. CASE CreateToken(p)
  <2>1. PICK s \in Tokens :
          token' = [token EXCEPT ![s] =
                       [owner |-> r.actor, epoch |-> epoch[r.actor], valid |-> TRUE]]
    BY <1>7 DEF CreateToken
  <2>2. /\ UNCHANGED <<role, epoch>> /\ r.actor \in Members /\ pc[p] = "insert"
    BY <1>7 DEF CreateToken, store, TokenInv
  <2>3. CASE s = t
    BY <2>1, <2>2, <2>3 DEF TokenEnds, Members, Shape, TypeOK
  <2>4. CASE s # t
    <3>1. token'[t] = token[t] /\ ~ RevokeAllForMember(p)
      BY <2>1, <2>2, <2>4 DEF RevokeAllForMember, Shape, TypeOK
    <3> QED BY <1>0, <1>3, <2>2, <3>1
  <2> QED BY <2>3, <2>4
<1>8. CASE RevokeToken(p)
  <2>1. PICK s \in Tokens : token' = [token EXCEPT ![s].valid = FALSE]
    BY <1>8 DEF RevokeToken
  <2>2. UNCHANGED <<role, epoch>> /\ ~ RevokeAllForMember(p)
    BY <1>8 DEF RevokeToken, RevokeAllForMember, store
  <2>3. /\ token'[t].owner = o /\ (token'[t].valid => token[t].valid)
        /\ token'[t].epoch = token[t].epoch
    BY <1>0, <2>1 DEF Shape, TypeOK, TokenRows
  <2> QED BY <1>0, <1>3, <2>2, <2>3
<1>9. CASE EraseAccount(p)
  <2>1. /\ pc[p] = "erase" /\ (r.sole => HeirAccepts(r)) /\ token' = DropTokens(r.actor)
        /\ role' = [(IF r.sole THEN [role EXCEPT ![r.heir] = "OWNER"] ELSE role)
                        EXCEPT ![r.actor] = "none"]
        /\ epoch' = epoch
    BY <1>9 DEF EraseAccount
  <2>2. /\ token'[t].owner = o /\ (token'[t].valid => token[t].valid /\ o # r.actor)
        /\ token'[t].epoch = token[t].epoch
    BY <1>0, <2>1 DEF DropTokens, Shape, TypeOK, TokenRows
  <2>3. o # r.actor => (o \in Members => o \in Members')
    BY <2>1 DEF Members, Shape, TypeOK
  <2>4. ~ RevokeAllForMember(p)
    BY <2>1 DEF RevokeAllForMember
  <2> QED BY <1>0, <1>3, <2>1, <2>2, <2>3, <2>4
<1>10. CASE EraseWithWorkspace(p)
  <2>1. token'[t].valid = FALSE
    BY <1>10 DEF EraseWithWorkspace, Shape, TypeOK, TokenRows
  <2> QED BY <2>1 DEF TokenEnds
<1>11. CASE TokenRefused(p) \/ EraseRefused(p) \/ (PluginWrite(p) /\ Refuse(p))
  <2>1. Refuse(p) /\ pc[p] # "revoke"
    BY <1>11 DEF TokenRefused, EraseRefused, PluginWrite
  <2> QED BY <1>4, <2>1
<1> QED BY <1>4, <1>5, <1>6, <1>7, <1>8, <1>9, <1>10, <1>11 DEF Serve

(* The creation of a token has the server to itself, so its caller is a    *)
(* member still when it inserts the row.                                   *)
LEMMA NextTokens ==
    ASSUME Shape, TokenInv, "token" \in Exclusive, ~ Failures, [Next]_vars
    PROVE  TokenInv'
<1>0. Alone'
  BY NextAlone DEF TokenInv
<1>1. SUFFICES ASSUME \A p \in Procs : pc'[p] = "insert" /\ req'[p].op = "token"
                                           => req'[p].actor \in Members' ,
                      NEW t \in Tokens
               PROVE  TokenEnds(t)'
  <2> DEFINE Inserts == \A p \in Procs : pc[p] = "insert" /\ req[p].op = "token"
                                             => req[p].actor \in Members
  <2>1. ASSUME UNCHANGED <<role, pc, req>> PROVE Inserts'
    BY <2>1 DEF TokenInv, Members
  <2>2. ASSUME NEW p \in Procs, Begin(p), ~ AcceptInvitation(p) PROVE Inserts'
    <3>1. PICK r, stmt : Admitted(p, r, stmt)
      BY <2>2, BeginAdmits
    <3> QED BY <3>1 DEF Admitted, Admit, store, TokenInv, Members, Shape, TypeOK
  <2>3. ASSUME NEW p \in Procs, AcceptInvitation(p) PROVE Inserts'
    <3>1. PICK u \in live \ Members, newRole \in Roles \ {"OWNER"} :
            role' = [role EXCEPT ![u] = newRole] /\ UNCHANGED <<pc, req>>
      BY <2>3 DEF AcceptInvitation
    <3>2. Members \subseteq Members'
      BY <3>1 DEF Members, Roles, Shape, TypeOK
    <3> QED BY <3>1, <3>2 DEF TokenInv
  <2>4. ASSUME NEW p \in Procs, Serve(p) PROVE Inserts'
    <3>1. Moved(p)
      BY <2>4, StepMoves
    <3>2. \A q \in Procs : pc'[q] = "insert" /\ req'[q].op = "token" => FALSE
      BY <3>1, <2>4 DEF Moved, TokenInv, Alone
    <3> QED BY <3>2
  <2>5. Inserts'
    BY <2>1, <2>2, <2>3, <2>4 DEF Next, Idle, vars, LeaveRoom, store, Fail
  <2> QED BY <1>0, <2>5 DEF TokenInv, TokenEnds
<1>2. TokenEnds(t)
  BY DEF TokenInv, TokenEnds
<1>3. ASSUME UNCHANGED <<role, epoch, token, pc, req>> PROVE TokenEnds(t)'
  BY <1>2, <1>3 DEF TokenEnds, Members, WillRevoke
<1>4. ASSUME NEW p \in Procs, Begin(p), ~ AcceptInvitation(p) PROVE TokenEnds(t)'
  <2>1. PICK r, stmt : Admitted(p, r, stmt)
    BY <1>4, BeginAdmits
  <2>2. UNCHANGED <<role, epoch, token>>
    BY <2>1 DEF Admitted, store
  <2>3. \A u : \A q \in Procs : WillRevoke(q, u) => WillRevoke(q, u)'
    BY <2>1 DEF Admitted, Admit, WillRevoke, Shape, TypeOK
  <2> QED BY <1>2, <2>2, <2>3 DEF TokenEnds, Members
<1>5. ASSUME NEW p \in Procs, AcceptInvitation(p) PROVE TokenEnds(t)'
  <2>1. PICK u \in live \ Members, newRole \in Roles \ {"OWNER"} :
          /\ role' = [role EXCEPT ![u] = newRole]
          /\ epoch' = [epoch EXCEPT ![u] = @ + 1]
          /\ UNCHANGED <<token, pc, req>>
    BY <1>5 DEF AcceptInvitation
  <2>2. \A v \in Members : v \in Members' /\ epoch'[v] = epoch[v]
    BY <2>1 DEF Members, Roles, Shape, TypeOK
  <2>3. \A v : \A q \in Procs : WillRevoke(q, v) => WillRevoke(q, v)'
    BY <2>1 DEF WillRevoke
  <2> QED BY <1>2, <2>1, <2>2, <2>3 DEF TokenEnds
<1> QED BY <1>3, <1>4, <1>5, ServeTokens DEF Next, Idle, vars, LeaveRoom, store, Fail

(* Where creating a token overlaps no other request and none dies between  *)
(* two statements, a member removed and added again finds no token of the  *)
(* earlier membership working (removeMember, leave, revokeAllForMember).   *)
THEOREM TokensEnd ==
    ASSUME "token" \in Exclusive, ~ Failures
    PROVE  Spec => []NoTokenRevived
<1>1. Init => TokenInv
  BY DEF Init, TokenInv, Alone, NoToken
<1>2. Shape /\ TokenInv /\ [Next]_vars => TokenInv'
  BY NextTokens
<1>3. TokenInv => NoTokenRevived
  BY DEF TokenInv, NoTokenRevived, WillRevoke, Touches
<1> QED BY <1>1, <1>2, <1>3, ShapeHolds, PTL DEF Spec

-----------------------------------------------------------------------------
(* A request that is to evict a user stays so until it does.               *)
LEMMA EvictersStay ==
    ASSUME Shape, NEW p \in Procs, Serve(p), NEW q \in Procs, NEW u,
           WillEvict(q, u), ~ (q = p /\ Evict(p))
    PROVE  WillEvict(q, u)'
<1>1. Moved(p) /\ OnPath(p)
  BY StepMoves DEF Shape
<1>2. CASE q # p
  BY <1>1, <1>2 DEF Moved, WillEvict
<1>3. CASE q = p
  <2>0. Audit(p) \/ pc[p] \notin {"evict", "audit"}
    BY <1>3 DEF Serve, Check, PluginWrite, RevokeAllForMember, CreateToken, RevokeToken,
       TokenRefused, JoinRoom, Track, EraseAccount, EraseWithWorkspace, EraseRefused
  <2>1. Audit(p) /\ req[p].op = "leave"
    BY <1>3, <2>0 DEF WillEvict, Audit
  <2>2. Goto(p, Successor(req[p].op, "audit")) /\ pc[p] = "audit"
    BY <2>1 DEF Audit
  <2>3. pc'[p] = "evict"
    BY <2>1, <2>2, SuccessorIs DEF Goto, Shape, TypeOK
  <2> QED BY <1>1, <1>3, <2>3 DEF Moved, WillEvict
<1> QED BY <1>2, <1>3

(* Nobody runs beside a join.                                              *)
LEMMA JoinIsAlone ==
    ASSUME Shape, Alone, "join" \in Exclusive, NEW p \in Procs, NEW q \in Procs,
           pc[p] # "idle", pc[q] \in {"joinRoom", "track"}
    PROVE  p = q
BY DEF Shape, OnPath, Alone

(* Every step leaves the joins that have been admitted to members.         *)
LEMMA NextJoiners ==
    ASSUME Shape, RoomInv, "join" \in Exclusive, ~ Failures, [Next]_vars
    PROVE  Joiners'
<1>1. CASE UNCHANGED <<role, pc, req>>
  BY <1>1 DEF RoomInv, Joiners, Members
<1>2. ASSUME NEW p \in Procs, Begin(p), ~ AcceptInvitation(p) PROVE Joiners'
  <2>1. PICK r, stmt : Admitted(p, r, stmt)
    BY <1>2, BeginAdmits
  <2> QED BY <2>1 DEF Admitted, Admit, store, RoomInv, Joiners, Members, Shape, TypeOK
<1>3. ASSUME NEW p \in Procs, AcceptInvitation(p) PROVE Joiners'
  <2>1. PICK u \in live \ Members, newRole \in Roles \ {"OWNER"} :
          role' = [role EXCEPT ![u] = newRole] /\ UNCHANGED <<pc, req>>
    BY <1>3 DEF AcceptInvitation
  <2>2. Members \subseteq Members'
    BY <2>1 DEF Members, Roles, Shape, TypeOK
  <2> QED BY <2>1, <2>2 DEF RoomInv, Joiners
<1>4. ASSUME NEW p \in Procs, Serve(p) PROVE Joiners'
  <2>1. Moved(p)
    BY <1>4, StepMoves
  <2>2. \A q \in Procs \ {p} : pc'[q] \notin {"joinRoom", "track"}
    BY <2>1, JoinIsAlone DEF Moved, RoomInv
  <2>3. ASSUME pc'[p] \in {"joinRoom", "track"}
        PROVE  pc[p] \in {"joinRoom", "track"} /\ role' = role
    <3>1. JoinRoom(p)
      BY <1>4, <2>1, <2>3 DEF Serve, Check, Proceed, PluginWrite, Refuse, Audit, Evict,
         RevokeAllForMember, CreateToken, RevokeToken, TokenRefused, Track, EraseAccount,
         EraseWithWorkspace, EraseRefused, Goto, Moved, Shape, TypeOK, OnPath
    <3> QED BY <3>1 DEF JoinRoom, store
  <2> QED BY <2>1, <2>2, <2>3 DEF Moved, RoomInv, Joiners, Members
<1> QED BY <1>1, <1>2, <1>3, <1>4 DEF Next, Idle, vars, LeaveRoom, store, Fail

(* How one step of a request changes the rooms and the members.            *)
LEMMA ServeRooms ==
    ASSUME Shape, RoomInv, "join" \in Exclusive, NEW p \in Procs, Serve(p)
    PROVE  /\ Noted'
           /\ exists' => \A u \in (inRoom \cup tracked)' : Entitled(u)'
           /\ exists' => Strangers'
<1> DEFINE r == req[p]
           Seen == inRoom \cup tracked
<1>1. Moved(p) /\ OnPath(p) /\ pc[p] # "idle"
  BY StepMoves DEF Shape, Moved
<1>2. Alone /\ Joiners /\ Noted 
      /\ (exists => \A u \in Seen : Entitled(u)) /\ (exists => Strangers)
  BY DEF RoomInv
<1>3. \A q \in Procs \ {p} : pc[q] \notin {"joinRoom", "track"}
  BY <1>1, <1>2, JoinIsAlone
<1>4. \A q \in Procs : pc'[q] = "erase" => pc[q] = "erase" /\ q # p /\ req'[q] = req[q]
  BY <1>1 DEF Moved
<1>5. ASSUME ~ Evict(p), inRoom' = inRoom, tracked' = tracked, pc[p] # "track",
             exists' => exists /\ \A u \in Seen \cap Members : Entitled(u)'
      PROVE  /\ Noted'
             /\ exists' => \A u \in (inRoom \cup tracked)' : Entitled(u)'
             /\ exists' => Strangers'
  <2>1. Noted'
    BY <1>1, <1>2, <1>5 DEF Noted, Moved
  <2>2. ASSUME NEW q \in Procs, NEW u, WillEvict(q, u) PROVE WillEvict(q, u)'
    BY <1>5, <2>2, EvictersStay
  <2>3. ASSUME exists', NEW u \in Seen PROVE Entitled(u)'
    BY <1>2, <1>5, <2>2, <2>3 DEF Entitled
  <2>4. ASSUME exists' PROVE Strangers'
    BY <1>2, <1>4, <1>5, <2>2, <2>4 DEF Strangers
  <2> QED BY <1>5, <2>1, <2>3, <2>4
<1>6. CASE \/ Check(p) \/ Audit(p) \/ RevokeAllForMember(p) \/ CreateToken(p) \/ RevokeToken(p)
           \/ (Refuse(p) /\ pc[p] \in {"write", "insert", "erase"})
  <2>1. UNCHANGED <<role, exists, inRoom, tracked>>
    BY <1>6 DEF Check, Audit, RevokeAllForMember, CreateToken, RevokeToken, Refuse, store, sockets
  <2>2. pc[p] # "track" /\ ~ Evict(p)
    BY <1>6 DEF Check, Audit, RevokeAllForMember, CreateToken, RevokeToken, Evict
  <2>3. \A u \in Members : Entitled(u)'
    BY <2>1 DEF Members, Entitled
  <2> QED BY <1>5, <2>1, <2>2, <2>3
<1>7. CASE PluginWrite(p) /\ ~ Refuse(p)
  <2>1. /\ pc[p] = "write" /\ Goto(p, Successor(r.op, "write"))
        /\ role' = [role EXCEPT ![r.target] = IF r.op = "role" THEN r.newRole ELSE "none"]
        /\ UNCHANGED <<exists, inRoom, tracked>>
    BY <1>7 DEF PluginWrite, sockets
  <2>2. r.target \in Users /\ r.newRole \in Roles /\ r.op \in {"remove", "leave", "role"}
    BY <1>1, <2>1 DEF Shape, TypeOK, OnPath, Request
  <2>3. ASSUME NEW u \in Members PROVE Entitled(u)'
    <3>1. CASE r.op = "role" \/ u # r.target
      <4>1. u \in Members'
        BY <2>1, <2>2, <3>1 DEF Members, Roles, Shape, TypeOK
      <4> QED BY <4>1 DEF Entitled
    <3>2. CASE r.op # "role" /\ u = r.target
      <4>1. pc'[p] = Successor(r.op, "write")
        BY <2>1 DEF Goto, Shape, TypeOK
      <4>2. WillEvict(p, u)'
        BY <1>1, <2>2, <3>2, <4>1, SuccessorIs DEF Moved, WillEvict
      <4> QED BY <4>2 DEF Entitled
    <3> QED BY <3>1, <3>2
  <2>4. ~ Evict(p)
    BY <2>1 DEF Evict
  <2> QED BY <1>5, <2>1, <2>3, <2>4
<1>8. CASE EraseAccount(p)
  <2>1. /\ pc[p] = "erase" /\ (r.sole => HeirAccepts(r))
        /\ role' = [(IF r.sole THEN [role EXCEPT ![r.heir] = "OWNER"] ELSE role)
                        EXCEPT ![r.actor] = "none"]
        /\ Goto(p, IF r.actorRole = "none" THEN "idle" ELSE "evict")
        /\ UNCHANGED <<exists, inRoom, tracked>>
    BY <1>8 DEF EraseAccount, sockets
  <2>2. ~ Evict(p) /\ r.actor \in Users /\ r.target = r.actor
    BY <1>1, <2>1 DEF Evict, OnPath
  <2>3. ASSUME exists, NEW u \in Seen \cap Members PROVE Entitled(u)'
    <3>1. CASE u # r.actor
      <4>1. u \in Members'
        BY <2>1, <3>1 DEF Members, Shape, TypeOK
      <4> QED BY <4>1 DEF Entitled
    <3>2. CASE u = r.actor /\ r.actorRole # "none"
      <4>1. pc'[p] = "evict"
        BY <2>1, <3>2 DEF Goto, Shape, TypeOK
      <4>2. WillEvict(p, u)'
        BY <1>1, <2>2, <3>2, <4>1 DEF Moved, WillEvict
      <4> QED BY <4>2 DEF Entitled
    <3>3. CASE u = r.actor /\ r.actorRole = "none"
      <4>1. PICK q \in Procs : WillEvict(q, u)
        BY <1>2, <2>1, <2>3, <3>3 DEF Strangers
      <4>2. WillEvict(q, u)'
        BY <2>2, <4>1, EvictersStay
      <4> QED BY <4>2 DEF Entitled
    <3> QED BY <3>1, <3>2, <3>3
  <2> QED BY <1>5, <2>1, <2>2, <2>3
<1>9. CASE EraseWithWorkspace(p)
  <2>1. exists' = FALSE /\ pc[p] = "erase" /\ UNCHANGED <<inRoom, tracked>>
    BY <1>9 DEF EraseWithWorkspace, sockets
  <2>2. ~ Evict(p)
    BY <2>1 DEF Evict
  <2> QED BY <1>5, <2>1, <2>2
<1>10. CASE Evict(p)
  <2> DEFINE u == r.target
  <2>1. /\ pc[p] = "evict" /\ inRoom' = inRoom \ ({r.target} \cap tracked)
        /\ tracked' = tracked \ {r.target} /\ UNCHANGED <<role, exists>>
    BY <1>10 DEF Evict, store
  <2>2. \A q \in Procs : pc[q] # "track"
    BY <1>3, <2>1
  <2>3. r.target \notin inRoom' /\ r.target \notin tracked' /\ inRoom' \subseteq tracked'
    BY <1>2, <2>1, <2>2 DEF Noted
  <2>4. ASSUME NEW v, v # r.target, NEW q \in Procs, WillEvict(q, v)
        PROVE  WillEvict(q, v)'
    BY <2>4, EvictersStay DEF WillEvict
  <2>5. ASSUME exists, NEW v \in inRoom' \cup tracked' PROVE Entitled(v)'
    <3>1. v \in Seen /\ v # r.target
      BY <2>1, <2>3
    <3> QED BY <1>2, <2>1, <2>4, <2>5, <3>1 DEF Entitled, Members
  <2>6. ASSUME exists PROVE Strangers'
    <3> SUFFICES ASSUME NEW q \in Procs, pc'[q] = "erase", req'[q].actorRole = "none",
                        req'[q].actor \in inRoom' \cup tracked'
                 PROVE  \E s \in Procs : WillEvict(s, req[q].actor)'
      BY DEF Strangers
    <3>1. pc[q] = "erase" /\ req'[q] = req[q] /\ req[q].actor \in Seen
          /\ req[q].actor # r.target
      BY <1>4, <2>1, <2>3
    <3>2. PICK v : v = req[q].actor
      OBVIOUS
    <3>3. PICK s \in Procs : WillEvict(s, v)
      BY <1>2, <2>6, <3>1, <3>2 DEF Strangers
    <3>4. WillEvict(s, v)'
      BY <2>4, <3>1, <3>2, <3>3
    <3> QED BY <3>1, <3>2, <3>4
  <2> QED BY <2>1, <2>3, <2>5, <2>6 DEF Noted
<1>11. CASE JoinRoom(p) \/ Track(p)
  <2>1. /\ UNCHANGED <<role, exists>> /\ pc[p] \in {"joinRoom", "track"}
        /\ \/ inRoom' = inRoom \cup {r.actor} /\ tracked' = tracked /\ pc[p] = "joinRoom"
              /\ pc'[p] = "track"
           \/ inRoom' = inRoom /\ tracked' = tracked \cup {r.actor} /\ pc[p] = "track"
    BY <1>11 DEF JoinRoom, Track, store, Goto, Shape, TypeOK
  <2>2. r.actor \in Members /\ \A q \in Procs : q # p => pc[q] \notin {"joinRoom", "track"}
    BY <1>2, <1>3, <2>1 DEF Joiners
  <2>3. Noted'
    BY <1>1, <1>2, <2>1, <2>2 DEF Noted, Moved
  <2>4. ASSUME NEW q \in Procs, NEW u, WillEvict(q, u) PROVE WillEvict(q, u)'
    BY <1>11, <2>4, EvictersStay DEF Evict, JoinRoom, Track
  <2>5. ASSUME exists, NEW u \in inRoom' \cup tracked' PROVE Entitled(u)'
    BY <1>2, <2>1, <2>2, <2>4, <2>5 DEF Entitled, Members
  <2>6. \A q \in Procs \ {p} : pc[q] # "erase"
    <3>1. r.op \in Exclusive
      BY <1>1, <2>1 DEF OnPath
    <3> QED BY <1>1, <1>2, <3>1 DEF Alone
  <2>7. Strangers'
    BY <1>4, <2>6 DEF Strangers
  <2> QED BY <2>1, <2>3, <2>5, <2>7
<1>12. CASE TokenRefused(p) \/ EraseRefused(p) \/ (PluginWrite(p) /\ Refuse(p))
  <2>1. Refuse(p) /\ pc[p] \in {"write", "insert", "erase"}
    BY <1>12 DEF TokenRefused, EraseRefused, PluginWrite
  <2> QED BY <1>6, <2>1
<1> QED BY <1>6, <1>7, <1>8, <1>9, <1>10, <1>11, <1>12 DEF Serve

(* Every step leaves only members, and those about to be evicted, in       *)
(* rooms.                                                                  *)
LEMMA NextRooms ==
    ASSUME Shape, RoomInv, "join" \in Exclusive, ~ Failures, [Next]_vars
    PROVE  RoomInv'
<1>0. Alone' /\ Joiners'
  BY NextAlone, NextJoiners DEF RoomInv
<1>1. CASE UNCHANGED vars
  BY <1>1 DEF vars, RoomInv, Alone, Joiners, Noted, Entitled, Strangers, Members, WillEvict
<1>2. ASSUME NEW u \in Users, LeaveRoom(u) PROVE RoomInv'
  <2>1. /\ inRoom' = inRoom \ {u} /\ tracked' = tracked \ {u}
        /\ UNCHANGED <<role, exists, pc, req>>
    BY <1>2 DEF LeaveRoom, store
  <2>2. Noted'
    BY <2>1 DEF RoomInv, Noted
  <2>3. \A v : Entitled(v)' <=> Entitled(v)
    BY <2>1 DEF Entitled, Members, WillEvict
  <2>4. Strangers => Strangers'
    BY <2>1 DEF Strangers, WillEvict
  <2> QED BY <1>0, <2>1, <2>2, <2>3, <2>4 DEF RoomInv
<1>3. ASSUME NEW p \in Procs, AcceptInvitation(p) PROVE RoomInv'
  <2>1. PICK u \in live \ Members, newRole \in Roles \ {"OWNER"} :
          /\ role' = [role EXCEPT ![u] = newRole]
          /\ UNCHANGED <<exists, inRoom, tracked, pc, req>>
    BY <1>3 DEF AcceptInvitation, sockets
  <2>2. \A v : Entitled(v) => Entitled(v)'
    BY <2>1 DEF Entitled, Members, Roles, WillEvict, Shape, TypeOK
  <2>3. Strangers => Strangers'
    BY <2>1 DEF Strangers, WillEvict
  <2>4. Noted'
    BY <2>1 DEF RoomInv, Noted
  <2> QED BY <1>0, <2>1, <2>2, <2>3, <2>4 DEF RoomInv
<1>4. ASSUME NEW p \in Procs, Begin(p), ~ AcceptInvitation(p) PROVE RoomInv'
  <2>1. PICK r, stmt : Admitted(p, r, stmt)
    BY <1>4, BeginAdmits
  <2>2. /\ UNCHANGED <<role, exists, inRoom, tracked>> /\ pc[p] = "idle"
        /\ pc' = [pc EXCEPT ![p] = stmt] /\ req' = [req EXCEPT ![p] = r]
    BY <2>1 DEF Admitted, Admit, store, sockets
  <2>3. \A v : \A q \in Procs : WillEvict(q, v) => WillEvict(q, v)'
    BY <2>2 DEF WillEvict, Shape, TypeOK
  <2>4. \A v : Entitled(v) => Entitled(v)'
    BY <2>2, <2>3 DEF Entitled, Members
  <2>5. Noted'
    BY <2>2 DEF RoomInv, Noted, Shape, TypeOK
  <2>6. ASSUME exists PROVE Strangers'
    <3> SUFFICES ASSUME NEW q \in Procs, pc'[q] = "erase", req'[q].actorRole = "none",
                        req'[q].actor \in inRoom \cup tracked
                 PROVE  \E s \in Procs : WillEvict(s, req[q].actor)'
      BY <2>2 DEF Strangers
    <3>1. PICK v : v = req'[q].actor
      OBVIOUS
    <3>2. \E s \in Procs : WillEvict(s, v)
      <4>1. CASE q # p
        <5>1. req'[q] = req[q] /\ pc[q] = "erase"
          BY <2>2, <4>1 DEF Shape, TypeOK
        <5> QED BY <2>6, <3>1, <5>1 DEF RoomInv, Strangers
      <4>2. CASE q = p
        <5>1. r.actorRole = role[r.actor] /\ req'[q] = r
          BY <2>1, <2>2, <4>2 DEF Admitted, Shape, TypeOK
        <5>2. v \notin Members /\ v \in inRoom \cup tracked
          BY <3>1, <5>1 DEF Members
        <5> QED BY <2>6, <5>2 DEF RoomInv, Entitled
      <4> QED BY <4>1, <4>2
    <3> QED BY <2>3, <3>1, <3>2
  <2> QED BY <1>0, <2>2, <2>4, <2>5, <2>6 DEF RoomInv
<1>5. ASSUME NEW p \in Procs, Serve(p) PROVE RoomInv'
  BY <1>0, <1>5, ServeRooms DEF RoomInv
<1> QED BY <1>1, <1>2, <1>3, <1>4, <1>5 DEF Next, Idle, Fail

(* Where joining a board overlaps no other request and none dies between   *)
(* two statements, only a member's socket is in the board's room once the  *)
(* requests about its user are over (evictUserFromWorkspace).              *)
THEOREM RoomsEmpty ==
    ASSUME "join" \in Exclusive, ~ Failures
    PROVE  Spec => []RoomsHoldMembers
<1>1. Init => RoomInv
  BY DEF Init, RoomInv, Alone, Joiners, Noted, Strangers
<1>2. Shape /\ RoomInv /\ [Next]_vars => RoomInv'
  BY NextRooms
<1>3. Shape /\ RoomInv => RoomsHoldMembers
  BY DEF RoomInv, RoomsHoldMembers, Entitled, WillEvict, Touches
<1> QED BY <1>1, <1>2, <1>3, ShapeHolds, PTL DEF Spec
-----------------------------------------------------------------------------
(* The tables of a run, in their order.                                    *)
LEMMA TablesAre == DOMAIN PurgeTables = 1 .. 6 /\ Len(PurgeTables) = 6 /\ NoTable = 7
BY DEF PurgeTables, NoTable

(* From finds the next table whose purge is on, or the end of the run.     *)
LEMMA FromIs ==
    ASSUME NEW t \in 1 .. NoTable
    PROVE  /\ From(t) \in t .. NoTable
           /\ From(t) = NoTable \/ ~KeptForever(PurgeTables[From(t)])
           /\ \A m \in t .. From(t) - 1 : KeptForever(PurgeTables[m])
<1> DEFINE K(n) == KeptForever(PurgeTables[n])
           Ok(u, n) == (n = 7 \/ ~K(n)) /\ \A m \in u .. n - 1 : K(m)
<1>0. NoTable = 7
  BY TablesAre
<1> HIDE DEF K
<1>1. \E n \in 7 .. 7 : Ok(7, n)
  OBVIOUS
<1>2. ASSUME NEW u \in 1 .. 6, \E n \in u + 1 .. 7 : Ok(u + 1, n)
      PROVE  \E n \in u .. 7 : Ok(u, n)
  <2>1. CASE ~ K(u)
    BY <2>1
  <2>2. CASE K(u)
    <3>1. PICK n \in u + 1 .. 7 : Ok(u + 1, n)
      BY <1>2
    <3>2. \A m \in u .. n - 1 : m = u \/ m \in u + 1 .. n - 1
      OBVIOUS
    <3>3. n \in u .. 7 /\ Ok(u, n)
      BY <2>2, <3>1, <3>2
    <3> QED BY <3>3
  <2> QED BY <2>1, <2>2
<1> DEFINE Found(u) == \E n \in u .. 7 : Ok(u, n)
<1>3. Found(7) /\ \A u \in 1 .. 6 : Found(u + 1) => Found(u)
  BY <1>1, <1>2
<1> HIDE DEF Found
<1>4. Found(6)
  BY <1>3
<1>5. Found(5)
  BY <1>3, <1>4
<1>6. Found(4)
  BY <1>3, <1>5
<1>7. Found(3)
  BY <1>3, <1>6
<1>8. Found(2)
  BY <1>3, <1>7
<1>9. Found(1)
  BY <1>3, <1>8
<1>10. t \in {1, 2, 3, 4, 5, 6, 7}
  BY <1>0
<1>11. Found(t)
  BY <1>3, <1>4, <1>5, <1>6, <1>7, <1>8, <1>9, <1>10
<1>12. From(t) = CHOOSE n \in t .. 7 : Ok(t, n)
  BY <1>0 DEF From, K
<1>13. From(t) \in t .. 7 /\ Ok(t, From(t))
  BY <1>11, <1>12 DEF Found
<1> QED BY <1>0, <1>13 DEF K

(* A row has a table and two dates.                                        *)
LEMMA RowIs ==
    ASSUME NEW r \in DOMAIN PurgeRows
    PROVE  PurgeRows[r].created \in Nat /\ PurgeRows[r].expires \in Nat
BY RetentionAssumption

-----------------------------------------------------------------------------
(* A row that matched the clause of its table once matches it for good:    *)
(* what is read stays read, an expired invitation is not sent again.       *)
LEMMA MatchesStays ==
    ASSUME PurgeShape, [PurgeNext]_purgeVars, NEW r \in DOMAIN PurgeRows, NEW now \in Nat,
           now <= day, Matches(r, now)
    PROVE  Matches(r, now)'
<1>0. /\ keep \in [notification : Nat, activity : Nat, invitation : Nat]
      /\ day \in Nat /\ day <= MaxDay /\ MaxDay \in Nat
      /\ readOn \in [DOMAIN PurgeRows -> Nat] /\ expires \in [DOMAIN PurgeRows -> Nat]
      /\ answered \in [DOMAIN PurgeRows -> {"pending", "settled"}]
  BY RetentionAssumption DEF PurgeShape
<1>1. keep' = keep
  BY DEF PurgeNext, purgeVars, Purging, runCleanup, SubselectBatch, DeleteBatch, Finish,
         RunFails, Stalled, Schedule, NextDay, MarkRead, Invited
<1>2. CASE UNCHANGED <<readOn, answered, expires>>
  BY <1>1, <1>2 DEF Matches, Before
<1>3. ASSUME NEW q \in DOMAIN PurgeRows, MarkRead(q) PROVE Matches(r, now)'
  <2>1. readOn' = [readOn EXCEPT ![q] = day] /\ readOn[q] = Never /\ UNCHANGED <<answered,
                                                                                 expires>>
        /\ PurgeRows[q].table = "Notification"
    BY <1>3 DEF MarkRead
  <2>2. CASE q # r
    <3>1. readOn'[r] = readOn[r]
      BY <1>0, <2>1, <2>2
    <3> QED BY <1>1, <2>1, <3>1 DEF Matches, Before
  <2>3. CASE q = r
    <3>1. Before(readOn[r], now, keep.notification)
      BY <2>1, <2>3 DEF Matches
    <3>2. keep.notification \in Nat
      BY <1>0
    <3> QED BY <1>0, <2>1, <2>3, <3>1, <3>2 DEF Before, Never
  <2> QED BY <2>2, <2>3
<1>4. ASSUME NEW q \in DOMAIN PurgeRows, Invited(q) PROVE Matches(r, now)'
  <2>1. /\ answered[q] = "pending" /\ expires[q] >= day /\ UNCHANGED readOn
        /\ PurgeRows[q].table = "Invitation"
        /\ \/ expires' = [expires EXCEPT ![q] = day + 1] /\ UNCHANGED answered
           \/ answered' = [answered EXCEPT ![q] = "settled"] /\ UNCHANGED expires
    BY <1>4 DEF Invited
  <2>2. CASE q # r
    <3>1. expires'[r] = expires[r] /\ answered'[r] = answered[r]
      BY <1>0, <2>1, <2>2
    <3> QED BY <1>1, <2>1, <3>1 DEF Matches, Before
  <2>3. CASE q = r
    <3>1. answered[r] # "pending" \/ expires[r] < now
      BY <2>1, <2>3 DEF Matches
    <3>2. expires[r] \in Nat
      BY <1>0
    <3> QED BY <1>0, <2>1, <2>3, <3>1, <3>2
  <2> QED BY <2>2, <2>3
<1> QED BY <1>2, <1>3, <1>4
        DEF PurgeNext, purgeVars, Purging, runCleanup, SubselectBatch, DeleteBatch, Finish,
            RunFails, Stalled, Schedule, NextDay

(* The retention settings stay as they are, and time only passes.          *)
LEMMA SettingsStay ==
    ASSUME PurgeShape, [PurgeNext]_purgeVars
    PROVE  /\ keep' = keep /\ day' \in 1 .. MaxDay /\ day <= day' /\ alive' \subseteq alive
           /\ \A table : KeptForever(table)' <=> KeptForever(table)
           /\ readOn' \in [DOMAIN PurgeRows -> Nat] /\ expires' \in [DOMAIN PurgeRows -> Nat]
           /\ answered' \in [DOMAIN PurgeRows -> {"pending", "settled"}]
           /\ faults' \in 0 .. MaxFaults
<1>0. /\ day \in 1 .. MaxDay /\ MaxDay \in Nat /\ faults \in 0 .. MaxFaults /\ MaxFaults \in Nat
      /\ readOn \in [DOMAIN PurgeRows -> Nat] /\ expires \in [DOMAIN PurgeRows -> Nat]
      /\ answered \in [DOMAIN PurgeRows -> {"pending", "settled"}]
  BY RetentionAssumption DEF PurgeShape
<1>1. keep' = keep /\ alive' \subseteq alive
  BY DEF PurgeNext, purgeVars, Purging, runCleanup, SubselectBatch, DeleteBatch, Finish,
         RunFails, Stalled, Schedule, NextDay, MarkRead, Invited
<1>2. day' = day \/ (day' = day + 1 /\ day < MaxDay)
  BY DEF PurgeNext, purgeVars, Purging, runCleanup, SubselectBatch, DeleteBatch, Finish,
         RunFails, Stalled, Schedule, NextDay, MarkRead, Invited
<1>3. faults' = faults \/ (faults' = faults + 1 /\ faults < MaxFaults)
  BY DEF PurgeNext, purgeVars, Purging, runCleanup, SubselectBatch, DeleteBatch, Finish,
         RunFails, Stalled, Schedule, NextDay, MarkRead, Invited
<1>4. \/ UNCHANGED <<readOn, expires, answered>>
      \/ \E r \in DOMAIN PurgeRows : MarkRead(r) \/ Invited(r)
  BY DEF PurgeNext, purgeVars, Purging, runCleanup, SubselectBatch, DeleteBatch, Finish,
         RunFails, Stalled, Schedule, NextDay
<1>5. /\ readOn' \in [DOMAIN PurgeRows -> Nat] /\ expires' \in [DOMAIN PurgeRows -> Nat]
      /\ answered' \in [DOMAIN PurgeRows -> {"pending", "settled"}]
  BY <1>0, <1>4 DEF MarkRead, Invited
<1>6. \A table : KeptForever(table)' <=> KeptForever(table)
  BY <1>1 DEF KeptForever
<1> QED BY <1>0, <1>1, <1>2, <1>3, <1>5, <1>6

-----------------------------------------------------------------------------
(* A short batch or the ceiling ends the table, anything else goes on.     *)
LEMMA AfterBatch ==
    ASSUME PurgeShape, NEW run \in Run, NEW deleted \in Nat, run.at \in DOMAIN PurgeTables,
           NEW next, next = deleteInBatches(run, deleted)
    PROVE  /\ next \in Run /\ next.picked = {} /\ ~next.sent
           /\ next.now = run.now /\ next.owns = run.owns /\ next.made = run.made
           /\ next.owed = run.owed /\ next.lapped = run.lapped
           /\ run.capped => next.capped
           /\ \/ next.at = run.at
              \/ /\ next.at = From(run.at + 1)
                 /\ deleted < CLEANUP_BATCH_SIZE \/ next.capped
<1> DEFINE short == deleted < CLEANUP_BATCH_SIZE
           last == run.pass = MAX_BATCHES_PER_TABLE
           told == [run EXCEPT !.picked = {}, !.sent = FALSE,
                               !.capped = @ \/ (~short /\ last)]
<1>0. /\ CLEANUP_BATCH_SIZE \in Nat /\ MAX_BATCHES_PER_TABLE \in Nat \ {0}
      /\ run.pass \in 1 .. MAX_BATCHES_PER_TABLE /\ run.capped \in BOOLEAN
  BY RetentionAssumption DEF Run
<1>1. From(run.at + 1) \in 0 .. NoTable
  <2>1. run.at \in 1 .. 6 /\ run.at + 1 \in 1 .. 7
    BY TablesAre
  <2> QED BY <2>1, TablesAre, FromIs
<1>2. /\ told \in Run /\ told.picked = {} /\ ~told.sent /\ told.now = run.now /\ told.owns = run.owns
      /\ told.made = run.made /\ told.owed = run.owed /\ told.lapped = run.lapped
      /\ told.at = run.at /\ told.pass = run.pass
      /\ told.capped = (run.capped \/ (~short /\ last))
  <2> DEFINE c == run.capped \/ (~short /\ last)
  <2>1. c \in BOOLEAN /\ told = [run EXCEPT !.picked = {}, !.sent = FALSE, !.capped = c]
    BY DEF Run
  <2> HIDE DEF c, told, short, last
  <2>2. /\ told \in Run /\ told.picked = {} /\ ~told.sent /\ told.now = run.now
        /\ told.owns = run.owns /\ told.made = run.made /\ told.owed = run.owed
        /\ told.lapped = run.lapped /\ told.at = run.at /\ told.pass = run.pass /\ told.capped = c
    BY <2>1 DEF Run
  <2> QED BY <2>2 DEF c
<1>3. next = IF short \/ last THEN [told EXCEPT !.pass = 1, !.at = From(run.at + 1)]
             ELSE [told EXCEPT !.pass = @ + 1]
  BY DEF deleteInBatches
<1> HIDE DEF told
<1>4. CASE short \/ last
  <2>1. next = [told EXCEPT !.pass = 1, !.at = From(run.at + 1)] /\ 1 \in 1 .. MAX_BATCHES_PER_TABLE
    BY <1>0, <1>3, <1>4
  <2>2. /\ next \in Run /\ next.at = From(run.at + 1) /\ next.capped = told.capped
        /\ next.picked = told.picked /\ next.sent = told.sent /\ next.now = told.now
        /\ next.owns = told.owns /\ next.made = told.made /\ next.owed = told.owed
        /\ next.lapped = told.lapped
    BY <1>1, <1>2, <2>1 DEF Run
  <2> QED BY <1>2, <1>4, <2>2
<1>5. CASE ~ (short \/ last)
  <2>1. next = [told EXCEPT !.pass = told.pass + 1] /\ told.pass + 1 \in 1 .. MAX_BATCHES_PER_TABLE
    BY <1>0, <1>2, <1>3, <1>5
  <2>2. /\ next \in Run /\ next.at = told.at /\ next.capped = told.capped
        /\ next.picked = told.picked /\ next.sent = told.sent /\ next.now = told.now
        /\ next.owns = told.owns /\ next.made = told.made /\ next.owed = told.owed
        /\ next.lapped = told.lapped
    BY <1>2, <2>1 DEF Run
  <2> QED BY <1>2, <2>2
<1> QED BY <1>4, <1>5

(* The tables passed over are those whose purge is off.                    *)
LEMMA Skips ==
    ASSUME NEW r, NEW t \in 1 .. NoTable, Ahead(r, t), ~KeptForever(PurgeRows[r].table)
    PROVE  Ahead(r, From(t))
<1>1. PICK n \in t .. Len(PurgeTables) : PurgeTables[n] = PurgeRows[r].table
  BY DEF Ahead
<1>2. n \notin t .. From(t) - 1
  BY <1>1, FromIs
<1>3. n \in From(t) .. Len(PurgeTables)
  BY <1>1, <1>2, FromIs, TablesAre
<1> QED BY <1>1, <1>3 DEF Ahead

RunInv(w) == /\ runs[w].picked # {} => runs[w].sent
             /\ AtItsTable(w) /\ PickedMatch(w) /\ RunsClean(w)

(* A run that does not step keeps what it knows: its rows go on matching,  *)
(* and only others at work may take them.                                  *)
LEMMA Persists ==
    ASSUME PurgeInv, [PurgeNext]_purgeVars, NEW v \in Replicas, runs'[v] = runs[v],
           ~RunsClean(v)' =>
               alive' = alive /\ \A u \in Replicas : Running(u)' => Running(u)
    PROVE  RunInv(v)'
<1>0. /\ PurgeShape /\ runs[v] \in Run
      /\ runs[v].picked # {} => runs[v].sent
      /\ AtItsTable(v) /\ PickedMatch(v) /\ RunsClean(v) /\ day \in Nat
  BY RetentionAssumption DEF PurgeInv, PurgeShape
<1>1. /\ day' \in Nat /\ day <= day' /\ alive' \subseteq alive
      /\ \A table : KeptForever(table)' <=> KeptForever(table)
  BY <1>0, SettingsStay
<1>2. runs[v].now \in Nat /\ runs[v].now <= day /\ runs[v].picked \subseteq DOMAIN PurgeRows
      /\ runs[v].owed \subseteq DOMAIN PurgeRows
  BY <1>0 DEF AtItsTable, Run
<1>3. PICK n : n = runs[v].now
  OBVIOUS
<1>4. \A r \in DOMAIN PurgeRows : Matches(r, n) => Matches(r, n)'
  BY <1>0, <1>2, <1>3, MatchesStays
<1>5. AtItsTable(v)'
  BY <1>0, <1>1, <1>2 DEF AtItsTable
<1>6. PickedMatch(v)'
  BY <1>0, <1>2, <1>3, <1>4 DEF PickedMatch, Matches, Before
<1>7. RunsClean(v)'
  <2>1. CASE ~ RunsClean(v)'
    <3>1. alive' = alive /\ \A u \in Replicas : Running(u)' => Running(u)
      BY <2>1
    <3> QED BY <1>0, <1>1, <1>2, <1>3, <1>4, <3>1 DEF RunsClean, Running, Ahead
  <2> QED BY <2>1
<1> QED BY <1>0, <1>5, <1>6, <1>7 DEF RunInv

(* A replica that is not at work keeps no rows in mind.                    *)
LEMMA IdleIs ==
    /\ IdleRun \in Run /\ IdleRun.at = 0 /\ IdleRun.picked = {} /\ ~IdleRun.sent
    /\ ~IdleRun.owns /\ IdleRun.now = 0
BY RetentionAssumption, TablesAre DEF IdleRun, Run

(* A replica at work is not alone with any run that thinks it is.          *)
LEMMA ActsAlone ==
    ASSUME PurgeInv, [PurgeNext]_purgeVars, NEW w \in Replicas, NEW u \in Run,
           Running(w), runs' = [runs EXCEPT ![w] = u]
    PROVE  /\ runs' \in [Replicas -> Run] /\ runs'[w] = u
           /\ \A v \in Replicas \ {w} : runs'[v] = runs[v] /\ RunInv(v)'
<1>1. runs \in [Replicas -> Run]
  BY DEF PurgeInv, PurgeShape
<1>2. /\ runs' \in [Replicas -> Run] /\ runs'[w] = u
      /\ \A v \in Replicas \ {w} : runs'[v] = runs[v]
  BY <1>1
<1>3. ASSUME NEW v \in Replicas \ {w} PROVE RunInv(v)'
  <2>1. runs'[v] = runs[v]
    BY <1>2
  <2>2. ~ (Running(v) /\ ~runs[v].lapped)
    BY DEF PurgeInv, RunsClean
  <2>3. RunsClean(v)'
    BY <2>1, <2>2 DEF RunsClean, Running
  <2> QED BY <2>1, <2>3, Persists
<1> QED BY <1>2, <1>3

(* A statement is over: if it was short, its table holds no row due.       *)
LEMMA BatchEnds ==
    ASSUME PurgeInv, [PurgeNext]_purgeVars, NEW w \in Replicas, NEW deleted \in Nat,
           runs[w].at \in DOMAIN PurgeTables,
           runs' = [runs EXCEPT ![w] = deleteInBatches(@, deleted)],
           ~runs[w].lapped /\ deleted < CLEANUP_BATCH_SIZE =>
               \A r \in runs[w].owed \cap alive' : PurgeRows[r].table # PurgeTables[runs[w].at]
    PROVE  /\ runs' \in [Replicas -> Run]
           /\ \A v \in Replicas : RunInv(v)' /\ runs'[v].owns = runs[v].owns
<1>0. /\ PurgeShape /\ runs \in [Replicas -> Run] /\ runs[w] \in Run
      /\ AtItsTable(w) /\ RunsClean(w) /\ day \in Nat
  BY RetentionAssumption DEF PurgeInv, PurgeShape
<1>1. runs[w].at \in 1 .. 6 /\ Running(w)
  BY TablesAre DEF Running
<1>2. PICK next : next = deleteInBatches(runs[w], deleted)
  OBVIOUS
<1>3. /\ next \in Run /\ next.picked = {} /\ ~next.sent
      /\ next.now = runs[w].now /\ next.owns = runs[w].owns
      /\ next.owed = runs[w].owed /\ next.lapped = runs[w].lapped
      /\ runs[w].capped => next.capped
      /\ \/ next.at = runs[w].at
         \/ /\ next.at = From(runs[w].at + 1)
            /\ deleted < CLEANUP_BATCH_SIZE \/ next.capped
  BY <1>0, <1>2, AfterBatch
<1>4. runs' = [runs EXCEPT ![w] = next]
  BY <1>2
<1>5. /\ runs' \in [Replicas -> Run] /\ runs'[w] = next
      /\ \A v \in Replicas \ {w} : runs'[v] = runs[v] /\ RunInv(v)'
  BY <1>1, <1>3, <1>4, ActsAlone
<1>6. /\ day' \in Nat /\ day <= day' /\ alive' \subseteq alive
      /\ \A table : KeptForever(table)' <=> KeptForever(table)
  BY <1>0, SettingsStay
<1>7. AtItsTable(w)'
  <2>1. runs[w].now \in Nat /\ runs[w].now <= day
    BY <1>0 DEF AtItsTable, Run
  <2>2. From(runs[w].at + 1) = NoTable \/ ~KeptForever(PurgeTables[From(runs[w].at + 1)])
    BY <1>1, FromIs, TablesAre
  <2>3. next.at \in DOMAIN PurgeTables => ~KeptForever(PurgeTables[next.at])
    BY <1>0, <1>3, <2>2, TablesAre DEF AtItsTable
  <2> QED BY <1>0, <1>3, <1>5, <1>6, <2>1, <2>3 DEF AtItsTable
<1>8. RunsClean(w)'
  <2> SUFFICES ASSUME ~runs[w].lapped PROVE RunsClean(w)'
    BY <1>3, <1>5 DEF RunsClean
  <2>1. /\ \A v \in Replicas \ {w} : ~Running(v)
        /\ \A r \in runs[w].owed : Matches(r, runs[w].now) /\ ~KeptForever(PurgeRows[r].table)
        /\ ~runs[w].capped => \A r \in runs[w].owed \cap alive : Ahead(r, runs[w].at)
        /\ runs[w].owed \subseteq DOMAIN PurgeRows
    BY <1>0, <1>1 DEF RunsClean, Run
  <2>2. \A v \in Replicas \ {w} : ~Running(v)'
    BY <1>5, <2>1 DEF Running
  <2>3. PICK n : n = runs[w].now
    OBVIOUS
  <2>4. n \in Nat /\ n <= day
    BY <1>0, <2>3 DEF AtItsTable, Run
  <2>5. \A r \in runs[w].owed : Matches(r, n)'
    BY <1>0, <2>1, <2>3, <2>4, MatchesStays
  <2>6. ASSUME NEW r \in next.owed PROVE Matches(r, n)' /\ ~KeptForever(PurgeRows[r].table)'
    BY <1>3, <1>6, <2>1, <2>5, <2>6
  <2>7. ASSUME ~next.capped, NEW r \in next.owed \cap alive' PROVE Ahead(r, next.at)
    <3>1. Ahead(r, runs[w].at) /\ ~KeptForever(PurgeRows[r].table)
      BY <1>3, <1>6, <2>1, <2>7
    <3>2. CASE next.at = runs[w].at
      BY <3>1, <3>2
    <3>3. CASE next.at = From(runs[w].at + 1) /\ deleted < CLEANUP_BATCH_SIZE
      <4>1. PurgeRows[r].table # PurgeTables[runs[w].at]
        BY <1>3, <3>3
      <4>2. Ahead(r, runs[w].at + 1)
        BY <1>1, <3>1, <4>1, TablesAre DEF Ahead
      <4> QED BY <1>1, <3>1, <3>3, <4>2, Skips, TablesAre
    <3> QED BY <1>3, <2>7, <3>2, <3>3
  <2> QED BY <1>3, <1>5, <2>2, <2>3, <2>6, <2>7 DEF RunsClean, Running, Matches, Before, Ahead
<1> QED BY <1>3, <1>5, <1>7, <1>8 DEF RunInv, PickedMatch

(* A snapshot: a full batch of the matching rows, or all of them.          *)
LEMMA SubselectKeeps ==
    ASSUME PurgeInv, NEW w \in Replicas, SubselectBatch(w)
    PROVE  /\ runs' \in [Replicas -> Run]
           /\ \A v \in Replicas : RunInv(v)' /\ runs'[v].owns = runs[v].owns
<1>0. /\ PurgeShape /\ runs[w] \in Run /\ runs \in [Replicas -> Run]
      /\ AtItsTable(w) /\ RunsClean(w)
      /\ alive \subseteq DOMAIN PurgeRows /\ CLEANUP_BATCH_SIZE \in Nat \ {0}
      /\ [PurgeNext]_purgeVars
  BY RetentionAssumption DEF PurgeInv, PurgeShape, PurgeNext, Purging
<1> DEFINE matching == {r \in alive : /\ PurgeRows[r].table = PurgeTables[runs[w].at]
                                      /\ Matches(r, runs[w].now)}
           full == IF Cardinality(matching) < CLEANUP_BATCH_SIZE THEN Cardinality(matching)
                   ELSE CLEANUP_BATCH_SIZE
<1>1. /\ runs[w].at \in DOMAIN PurgeTables /\ ~runs[w].sent
      /\ UNCHANGED <<keep, day, alive, readOn, answered, expires, queue, faults>>
      /\ \/ matching = {} /\ runs' = [runs EXCEPT ![w] = deleteInBatches(@, 0)]
         \/ \E picked \in SUBSET matching :
               /\ Cardinality(picked) = full /\ full > 0
               /\ runs' = [runs EXCEPT ![w].picked = picked, ![w].sent = TRUE]
  BY DEF SubselectBatch
<1>2. IsFiniteSet(matching) /\ Cardinality(matching) \in Nat /\ matching \subseteq alive
  <2>1. matching \subseteq DOMAIN PurgeRows /\ matching \subseteq alive
    BY <1>0
  <2> QED BY <2>1, FS_Subset, FS_CardinalityType, RetentionAssumption
<1>3. runs[w].at \in 1 .. 6 /\ Running(w)
  BY <1>1, TablesAre DEF Running
<1>4. ~runs[w].lapped => \A r \in runs[w].owed \cap alive :
                            PurgeRows[r].table = PurgeTables[runs[w].at] => r \in matching
  BY <1>0, <1>3 DEF RunsClean
<1>5. \A r \in matching : PurgeRows[r].table = PurgeTables[runs[w].at] /\ Matches(r, runs[w].now)
  OBVIOUS
<1> HIDE DEF matching
<1>6. CASE matching = {} /\ runs' = [runs EXCEPT ![w] = deleteInBatches(@, 0)]
  <2>1. ~runs[w].lapped =>
           \A r \in runs[w].owed \cap alive' : PurgeRows[r].table # PurgeTables[runs[w].at]
    BY <1>1, <1>4, <1>6
  <2> QED BY <1>0, <1>1, <1>6, <2>1, BatchEnds
<1>7. CASE \E picked \in SUBSET matching :
               /\ Cardinality(picked) = full /\ full > 0
               /\ runs' = [runs EXCEPT ![w].picked = picked, ![w].sent = TRUE]
  <2>1. PICK picked \in SUBSET matching :
               /\ Cardinality(picked) = full
               /\ runs' = [runs EXCEPT ![w].picked = picked, ![w].sent = TRUE]
    BY <1>7
  <2> DEFINE u == [[runs[w] EXCEPT !.picked = picked] EXCEPT !.sent = TRUE]
  <2>2. /\ u \in Run /\ u.picked = picked /\ u.sent /\ u.at = runs[w].at /\ u.now = runs[w].now
        /\ u.owns = runs[w].owns /\ u.owed = runs[w].owed /\ u.capped = runs[w].capped
        /\ u.lapped = runs[w].lapped
    <3>1. picked \in SUBSET DOMAIN PurgeRows
      BY <1>0, <1>2
    <3> QED BY <1>0, <3>1 DEF Run
  <2>3. runs' = [runs EXCEPT ![w] = u]
    BY <1>0, <2>1
  <2> HIDE DEF u
  <2>4. /\ runs' \in [Replicas -> Run] /\ runs'[w] = u
        /\ \A v \in Replicas \ {w} : runs'[v] = runs[v] /\ RunInv(v)'
    BY <1>0, <1>3, <2>2, <2>3, ActsAlone
  <2>5. Cardinality(picked) <= CLEANUP_BATCH_SIZE
        /\ (Cardinality(picked) < CLEANUP_BATCH_SIZE => picked = matching)
    <3>1. Cardinality(picked) = full /\ full <= CLEANUP_BATCH_SIZE
      BY <1>0, <1>2, <2>1
    <3>2. ASSUME Cardinality(picked) < CLEANUP_BATCH_SIZE PROVE picked = matching
      <4>1. Cardinality(picked) = Cardinality(matching)
        BY <1>0, <1>2, <3>1, <3>2
      <4> QED BY <1>2, <4>1, FS_Subset
    <3> QED BY <3>1, <3>2
  <2>6. RunInv(w)'
    <3>1. AtItsTable(w)'
      BY <1>0, <1>1, <2>2, <2>4 DEF AtItsTable, KeptForever
    <3>a. PICK n, t : n = runs[w].now /\ t = runs[w].at
      OBVIOUS
    <3>b. \A r : Matches(r, n) => Matches(r, n)'
      BY <1>1 DEF Matches, Before
    <3>2. PickedMatch(w)'
      <4>1. \A r \in picked : PurgeRows[r].table = PurgeTables[t] /\ Matches(r, n)'
        BY <1>5, <2>1, <3>a, <3>b
      <4>2. runs'[w].picked = picked /\ runs'[w].at = t /\ runs'[w].now = n
        BY <2>2, <2>4, <3>a
      <4> QED BY <1>1, <2>5, <3>a, <4>1, <4>2 DEF PickedMatch, Matches, Before
    <3>3. RunsClean(w)'
      <4> SUFFICES ASSUME ~runs[w].lapped PROVE RunsClean(w)'
        BY <2>2, <2>4 DEF RunsClean
      <4>1. /\ \A v \in Replicas \ {w} : ~Running(v)
            /\ \A r \in runs[w].owed : Matches(r, runs[w].now) /\ ~KeptForever(PurgeRows[r].table)
            /\ ~runs[w].capped => \A r \in runs[w].owed \cap alive : Ahead(r, runs[w].at)
        BY <1>0, <1>3 DEF RunsClean
      <4>2. \A v \in Replicas \ {w} : ~Running(v)'
        BY <2>4, <4>1 DEF Running
      <4>3. \A r \in u.owed : Matches(r, n)' /\ ~KeptForever(PurgeRows[r].table)'
        BY <1>1, <2>2, <3>a, <3>b, <4>1 DEF KeptForever
      <4>4. \A r \in runs'[w].owed : Matches(r, runs[w].now)' /\ ~KeptForever(PurgeRows[r].table)'
        BY <2>2, <2>4, <3>a, <4>3 DEF Matches, Before
      <4>5. ~u.capped => \A r \in u.owed \cap alive' : Ahead(r, u.at)
        BY <1>1, <2>2, <4>1
      <4>6. u.picked \subseteq alive'
        BY <1>1, <1>2, <2>1, <2>2
      <4>7. Cardinality(u.picked) < CLEANUP_BATCH_SIZE =>
               \A r \in u.owed \cap alive' : PurgeRows[r].table = PurgeTables[u.at] => r \in u.picked
        BY <1>1, <1>4, <2>2, <2>5
      <4> QED BY <2>2, <2>4, <4>2, <4>4, <4>5, <4>6, <4>7 DEF RunsClean, Ahead
    <3> QED BY <2>2, <2>4, <3>1, <3>2, <3>3 DEF RunInv
  <2> QED BY <2>2, <2>4, <2>6
<1> QED BY <1>1, <1>6, <1>7

(* A statement removes what it picked; with nobody else at work that is    *)
(* still all there.                                                        *)
LEMMA DeleteKeeps ==
    ASSUME PurgeInv, NEW w \in Replicas, DeleteBatch(w)
    PROVE  /\ runs' \in [Replicas -> Run]
           /\ \A v \in Replicas : RunInv(v)' /\ runs'[v].owns = runs[v].owns
<1>0. /\ runs[w] \in Run /\ PickedMatch(w) /\ RunsClean(w)
      /\ alive \subseteq DOMAIN PurgeRows /\ [PurgeNext]_purgeVars
  BY DEF PurgeInv, PurgeShape, PurgeNext, Purging
<1>1. /\ runs[w].sent /\ alive' = alive \ runs[w].picked
      /\ runs' = [runs EXCEPT ![w] = deleteInBatches(@, Cardinality(runs[w].picked \cap alive))]
  BY DEF DeleteBatch
<1>2. runs[w].at \in DOMAIN PurgeTables /\ Running(w)
  BY <1>0, <1>1, TablesAre DEF PickedMatch, Running
<1>3. Cardinality(runs[w].picked \cap alive) \in Nat
  <2>1. runs[w].picked \cap alive \subseteq DOMAIN PurgeRows
    BY <1>0
  <2> QED BY <2>1, FS_Subset, FS_CardinalityType, RetentionAssumption
<1>4. ASSUME ~runs[w].lapped, Cardinality(runs[w].picked \cap alive) < CLEANUP_BATCH_SIZE,
             NEW r \in runs[w].owed \cap alive'
      PROVE  PurgeRows[r].table # PurgeTables[runs[w].at]
  <2>1. runs[w].picked \cap alive = runs[w].picked
    BY <1>0, <1>1, <1>2, <1>4 DEF RunsClean
  <2> QED BY <1>0, <1>1, <1>2, <1>4, <2>1 DEF RunsClean
<1> QED BY <1>0, <1>1, <1>2, <1>3, <1>4, BatchEnds

(* A run that ends, fails or dies leaves an idle replica; one that only    *)
(* lost its job works on.                                                  *)
LEMMA EndKeeps ==
    ASSUME PurgeInv, NEW w \in Replicas, Finish(w) \/ RunFails(w) \/ Stalled(w)
    PROVE  /\ runs' \in [Replicas -> Run]
           /\ \A v \in Replicas : RunInv(v)'
           /\ \A v \in Replicas \ {w} : runs'[v] = runs[v]
           /\ runs'[w].owns => Finish(w)
           /\ runs[w].made \in 0 .. JOB_ATTEMPTS - 1
<1>0. /\ PurgeShape /\ runs[w] \in Run /\ runs \in [Replicas -> Run] /\ [PurgeNext]_purgeVars
      /\ runs[w].picked # {} => runs[w].sent
      /\ AtItsTable(w) /\ PickedMatch(w) /\ RunsClean(w) /\ day \in Nat
  BY RetentionAssumption DEF PurgeInv, PurgeShape, PurgeNext, Purging
<1>1. Running(w)
  BY TablesAre DEF Finish, RunFails, Stalled, Running
<1>2. CASE runs' = [runs EXCEPT ![w] = IdleRun]
  <2>1. /\ runs' \in [Replicas -> Run] /\ runs'[w] = IdleRun
        /\ \A v \in Replicas \ {w} : runs'[v] = runs[v] /\ RunInv(v)'
    BY <1>0, <1>1, <1>2, ActsAlone, IdleIs
  <2>2. day' \in Nat
    BY <1>0, SettingsStay
  <2>3. RunInv(w)'
    BY <2>1, <2>2, IdleIs, TablesAre
       DEF RunInv, AtItsTable, PickedMatch, RunsClean, Running
  <2> QED BY <1>0, <2>1, <2>3, IdleIs DEF Run
<1>3. CASE Stalled(w) /\ runs' = [runs EXCEPT ![w].owns = FALSE]
  <2> DEFINE u == [runs[w] EXCEPT !.owns = FALSE]
  <2>1. /\ u \in Run /\ u.at = runs[w].at /\ u.now = runs[w].now /\ u.picked = runs[w].picked
        /\ u.sent = runs[w].sent /\ u.owed = runs[w].owed /\ u.capped = runs[w].capped
        /\ u.lapped = runs[w].lapped /\ ~u.owns
    BY <1>0 DEF Run
  <2>2. runs' = [runs EXCEPT ![w] = u]
    BY <1>0, <1>3
  <2> HIDE DEF u
  <2>3. /\ runs' \in [Replicas -> Run] /\ runs'[w] = u
        /\ \A v \in Replicas \ {w} : runs'[v] = runs[v] /\ RunInv(v)'
    BY <1>0, <1>1, <2>1, <2>2, ActsAlone
  <2>4. UNCHANGED <<keep, day, alive, readOn, answered, expires>>
    BY <1>3 DEF Stalled
  <2>5. AtItsTable(w)'
    BY <1>0, <2>1, <2>3, <2>4 DEF AtItsTable, KeptForever
  <2>a. PICK n : n = runs[w].now
    OBVIOUS
  <2>b. \A r : Matches(r, n) => Matches(r, n)'
    BY <2>4 DEF Matches, Before
  <2>6. PickedMatch(w)'
    BY <1>0, <2>1, <2>3, <2>a, <2>b DEF PickedMatch, Matches, Before
  <2>7. \A v \in Replicas \ {w} : ~Running(v) => ~Running(v)'
    BY <2>3 DEF Running
  <2>8. \A table : ~KeptForever(table) => ~KeptForever(table)'
    BY <2>4 DEF KeptForever
  <2>9. RunsClean(w)'
    BY <1>0, <1>1, <2>1, <2>3, <2>4, <2>7, <2>8, <2>a, <2>b
       DEF RunsClean, Ahead, Matches, Before
  <2> QED BY <1>0, <2>1, <2>3, <2>5, <2>6, <2>9 DEF RunInv, Run
<1> QED BY <1>2, <1>3 DEF Finish, RunFails, Stalled

(* A new run owes what is due now; whoever is at work is no longer alone.  *)
LEMMA StartKeeps ==
    ASSUME PurgeInv, NEW w \in Replicas, runCleanup(w)
    PROVE  /\ runs' \in [Replicas -> Run]
           /\ \A v \in Replicas : RunInv(v)'
           /\ queue' = << >> /\ \A v \in Replicas \ {w} : ~runs'[v].owns
<1>0. /\ PurgeShape /\ runs \in [Replicas -> Run] /\ [PurgeNext]_purgeVars
      /\ alive \subseteq DOMAIN PurgeRows /\ day \in 1 .. MaxDay /\ MaxDay \in Nat
  BY RetentionAssumption DEF PurgeInv, PurgeShape, PurgeNext, Purging
<1>1. /\ ~Running(w) /\ queue # << >> /\ queue' = Tail(queue)
      /\ UNCHANGED <<keep, day, alive, readOn, answered, expires, faults>>
      /\ runs' = [v \in Replicas |->
                  IF v = w THEN [IdleRun EXCEPT !.at = From(1), !.now = day, !.made = Head(queue),
                                                !.owns = TRUE, !.owed = Due(day),
                                                !.lapped = \E u \in Replicas : Running(u)]
                  ELSE [runs[v] EXCEPT !.lapped = Running(v)]]
  BY DEF runCleanup
<1>2. PICK n \in 0 .. JOB_ATTEMPTS - 1 : queue = <<n>>
  BY <1>1 DEF PurgeInv, OneJob
<1>3. Head(queue) = n /\ Tail(queue) = << >> /\ \A v \in Replicas : ~runs[v].owns
  <2>1. Head(queue) = n
    BY <1>2
  <2>2. Tail(queue) = << >>
    BY <1>2
  <2>3. \A v \in Replicas : ~runs[v].owns
    BY <1>1 DEF PurgeInv, OneJob
  <2> QED BY <2>1, <2>2, <2>3
<1> DEFINE u == [IdleRun EXCEPT !.at = From(1), !.now = day, !.made = n, !.owns = TRUE,
                                !.owed = Due(day), !.lapped = \E x \in Replicas : Running(x)]
<1>4. From(1) \in 1 .. NoTable /\ (From(1) = NoTable \/ ~KeptForever(PurgeTables[From(1)]))
  BY FromIs, TablesAre
<1>5. Due(day) \subseteq alive
  BY DEF Due
<1>6. /\ u \in Run /\ u.at = From(1) /\ u.now = day /\ u.picked = {} /\ ~u.sent
      /\ u.owed = Due(day) /\ ~u.capped /\ (u.lapped <=> \E x \in Replicas : Running(x))
  <2> DEFINE l == \E x \in Replicas : Running(x)
  <2>1. l \in BOOLEAN /\ From(1) \in 0 .. NoTable /\ Due(day) \in SUBSET DOMAIN PurgeRows
        /\ day \in 0 .. MaxDay
    BY <1>0, <1>4, <1>5, TablesAre
  <2>2. u = [IdleRun EXCEPT !.at = From(1), !.now = day, !.made = n, !.owns = TRUE,
                            !.owed = Due(day), !.lapped = l]
    OBVIOUS
  <2> HIDE DEF l, u
  <2>3. /\ u \in Run /\ u.at = From(1) /\ u.now = day /\ u.picked = IdleRun.picked
        /\ u.sent = IdleRun.sent /\ u.owed = Due(day) /\ u.capped = IdleRun.capped /\ u.lapped = l
    BY <2>1, <2>2, IdleIs DEF Run
  <2>4. ~IdleRun.capped
    BY DEF IdleRun
  <2> QED BY <2>3, <2>4, IdleIs DEF l
<1>7. runs'[w] = u /\ runs' \in [Replicas -> Run]
      /\ \A v \in Replicas \ {w} : runs'[v] = [runs[v] EXCEPT !.lapped = Running(v)]
  <2>1. \A v \in Replicas : [runs[v] EXCEPT !.lapped = Running(v)] \in Run
    BY <1>0 DEF Run, Running
  <2>2. runs' = [v \in Replicas |-> IF v = w THEN u ELSE [runs[v] EXCEPT !.lapped = Running(v)]]
    BY <1>1, <1>3
  <2> HIDE DEF u
  <2> QED BY <1>6, <2>1, <2>2
<1> HIDE DEF u
<1>8. ASSUME NEW v \in Replicas \ {w} PROVE RunInv(v)' /\ ~runs'[v].owns
  <2>1. /\ runs'[v].at = runs[v].at /\ runs'[v].now = runs[v].now
        /\ runs'[v].picked = runs[v].picked /\ runs'[v].sent = runs[v].sent
        /\ runs'[v].owns = runs[v].owns /\ (runs'[v].lapped <=> Running(v))
    BY <1>0, <1>7 DEF Run, Running
  <2>2. /\ AtItsTable(v) /\ PickedMatch(v)
        /\ runs[v].picked # {} => runs[v].sent
    BY DEF PurgeInv
  <2>a. PICK m : m = runs[v].now
    OBVIOUS
  <2>b. \A r : Matches(r, m) => Matches(r, m)'
    BY <1>1 DEF Matches, Before
  <2>3. AtItsTable(v)'
    BY <1>1, <2>1, <2>2 DEF AtItsTable, KeptForever
  <2>4. PickedMatch(v)'
    BY <2>1, <2>2, <2>a, <2>b DEF PickedMatch, Matches, Before
  <2>5. RunsClean(v)'
    BY <2>1 DEF RunsClean, Running
  <2> QED BY <1>3, <2>1, <2>2, <2>3, <2>4, <2>5 DEF RunInv
<1>9. RunInv(w)'
  <2>a. \A table : KeptForever(table)' <=> KeptForever(table)
    BY <1>1 DEF KeptForever
  <2>b. u.at \in DOMAIN PurgeTables => ~KeptForever(PurgeTables[u.at])
    BY <1>4, <1>6, TablesAre
  <2>c. runs'[w].now <= day'
    <3>1. day' = day
      BY <1>1
    <3>3. day \in Nat
      BY <1>0
    <3>2. runs'[w].now = day
      BY <1>6, <1>7
    <3> QED BY <3>1, <3>2, <3>3
  <2>1. AtItsTable(w)'
    <3>1. runs'[w].at \in DOMAIN PurgeTables => ~KeptForever(PurgeTables[runs'[w].at])
      BY <1>7, <2>b
    <3>2. runs'[w].at \in DOMAIN PurgeTables => ~KeptForever(PurgeTables[runs[w].at])'
      BY <3>1, <1>1 DEF KeptForever
    <3> QED BY <2>c, <3>2 DEF AtItsTable
  <2>2. RunsClean(w)'
    <3> SUFFICES ASSUME ~u.lapped PROVE RunsClean(w)'
      BY <1>7 DEF RunsClean
    <3>1. \A v \in Replicas \ {w} : ~Running(v)'
      <4>1. \A v \in Replicas \ {w} : ~Running(v) /\ runs'[v].at = runs[v].at
        BY <1>0, <1>6, <1>7 DEF Run
      <4> QED BY <4>1 DEF Running
    <3>a. PICK m : m = day
      OBVIOUS
    <3>b. \A r : Matches(r, m) => Matches(r, m)'
      BY <1>1 DEF Matches, Before
    <3>2. \A r \in Due(day) : Matches(r, m)' /\ ~KeptForever(PurgeRows[r].table)'
      BY <1>1, <3>a, <3>b DEF Due, KeptForever
    <3>3. ASSUME NEW r \in Due(day) PROVE Ahead(r, From(1))
      <4>1. r \in DOMAIN PurgeRows /\ ~KeptForever(PurgeRows[r].table)
        BY <1>0, <1>5 DEF Due
      <4>2. Ahead(r, 1)
        BY <4>1, RetentionAssumption, TablesAre DEF Ahead
      <4> QED BY <4>1, <4>2, Skips, TablesAre
    <3> QED BY <1>6, <1>7, <3>1, <3>2, <3>3, <3>a DEF RunsClean, Running, Matches, Before, Ahead
  <2> QED BY <1>6, <1>7, <2>1, <2>2 DEF RunInv, PickedMatch
<1> QED BY <1>1, <1>3, <1>7, <1>8, <1>9

-----------------------------------------------------------------------------
(* The database holds one of the loads, and no run has begun.              *)
LEMMA PurgeBegins ==
    ASSUME NEW settings \in [notification : Nat, activity : Nat, invitation : Nat],
           NEW loaded \in SUBSET DOMAIN PurgeRows, PurgeWith(settings, loaded)
    PROVE  PurgeInv
<1>2. /\ keep \in [notification : Nat, activity : Nat, invitation : Nat]
      /\ alive \subseteq DOMAIN PurgeRows /\ day = 1 /\ queue = << >> /\ faults = 0
      /\ runs = [w \in Replicas |-> IdleRun]
      /\ readOn = [r \in DOMAIN PurgeRows |-> Never]
      /\ answered = [r \in DOMAIN PurgeRows |-> "pending"]
      /\ expires = [r \in DOMAIN PurgeRows |-> PurgeRows[r].expires]
  BY DEF PurgeWith
<1>3. PurgeShape
  BY <1>2, IdleIs, RowIs, RetentionAssumption DEF PurgeShape, Never
<1>4. OneJob
  BY <1>2, IdleIs DEF OneJob
<1>5. \A w \in Replicas : RunInv(w)
  BY <1>2, IdleIs, TablesAre DEF RunInv, AtItsTable, PickedMatch, RunsClean, Running
<1> QED BY <1>3, <1>4, <1>5 DEF PurgeInv, RunInv

(* A job starts with nothing done and nothing on its way.                  *)
LEMMA InitPurge == PurgeInit => PurgeInv
BY PurgeBegins, RetentionAssumption DEF PurgeInit

(* Each replica's run stays what the invariant says of it.                 *)
LEMMA RunsKeep ==
    ASSUME PurgeInv, [PurgeNext]_purgeVars
    PROVE  runs' \in [Replicas -> Run] /\ \A w \in Replicas : RunInv(w)'
<1>1. CASE UNCHANGED <<alive, runs>>
  <2>1. \A v \in Replicas : runs'[v] = runs[v] /\ (Running(v)' <=> Running(v))
    BY <1>1 DEF Running
  <2> QED BY <1>1, <2>1, Persists DEF PurgeInv, PurgeShape
<1> QED BY <1>1, StartKeeps, SubselectKeeps, DeleteKeeps, EndKeeps
        DEF PurgeNext, Purging, Schedule, NextDay, MarkRead, Invited, purgeVars

(* The job moves from the queue to a replica and back.                     *)
LEMMA JobKeeps ==
    ASSUME PurgeInv, [PurgeNext]_purgeVars
    PROVE  OneJob'
<1>0. /\ queue = << >> \/ \E n \in 0 .. JOB_ATTEMPTS - 1 : queue = <<n>>
      /\ \A w \in Replicas : runs[w].owns =>
            queue = << >> /\ \A v \in Replicas \ {w} : ~runs[v].owns
      /\ JOB_ATTEMPTS \in Nat \ {0}
  BY RetentionAssumption DEF PurgeInv, OneJob
<1>1. CASE UNCHANGED queue /\ \A w \in Replicas : runs'[w].owns => runs[w].owns
  BY <1>0, <1>1 DEF OneJob
<1>2. CASE Schedule
  BY <1>0, <1>2 DEF Schedule, OneJob
<1>3. ASSUME NEW w \in Replicas, runCleanup(w) PROVE OneJob'
  BY <1>3, StartKeeps DEF OneJob
<1>4. ASSUME NEW w \in Replicas, SubselectBatch(w) \/ DeleteBatch(w) PROVE OneJob'
  <2>1. queue' = queue
    BY <1>4 DEF SubselectBatch, DeleteBatch
  <2> QED BY <1>1, <1>4, <2>1, SubselectKeeps, DeleteKeeps
<1>5. ASSUME NEW w \in Replicas, Finish(w) PROVE OneJob'
  <2>1. queue' = queue /\ runs' = [runs EXCEPT ![w] = IdleRun] /\ runs \in [Replicas -> Run]
    BY <1>5 DEF Finish, PurgeInv, PurgeShape
  <2>2. \A v \in Replicas : runs'[v].owns => runs[v].owns
    BY <2>1, IdleIs
  <2> QED BY <1>1, <2>1, <2>2
<1>6. ASSUME NEW w \in Replicas, RunFails(w) \/ Stalled(w) PROVE OneJob'
  <2>1. /\ \A v \in Replicas \ {w} : runs'[v] = runs[v]
        /\ runs'[w].owns => Finish(w)
        /\ runs[w].made \in 0 .. JOB_ATTEMPTS - 1
    BY <1>6, EndKeeps
  <2>2. ~ runs'[w].owns
    <3>1. runs' = [runs EXCEPT ![w] = IdleRun] \/ runs' = [runs EXCEPT ![w].owns = FALSE]
      BY <1>6 DEF RunFails, Stalled
    <3>2. runs \in [Replicas -> Run]
      BY DEF PurgeInv, PurgeShape
    <3> QED BY <3>1, <3>2, IdleIs DEF Run
  <2>3. \A v \in Replicas : runs'[v].owns => runs[v].owns /\ v # w
    BY <2>1, <2>2
  <2>4. CASE queue' = queue
    BY <1>1, <2>3, <2>4
  <2>5. CASE runs[w].owns /\ \E n \in 0 .. JOB_ATTEMPTS - 1 : queue' = Append(queue, n)
    <3>1. queue = << >> /\ \A v \in Replicas \ {w} : ~runs[v].owns
      BY <1>0, <2>5
    <3>2. PICK n \in 0 .. JOB_ATTEMPTS - 1 : queue' = Append(queue, n)
      BY <2>5
    <3>3. queue' = <<n>>
      BY <3>1, <3>2
    <3> QED BY <2>3, <3>1, <3>3 DEF OneJob
  <2>6. \/ queue' = queue
        \/ runs[w].owns /\ \E n \in 0 .. JOB_ATTEMPTS - 1 : queue' = Append(queue, n)
    BY <1>0, <1>6, <2>1 DEF RunFails, Stalled
  <2> QED BY <2>4, <2>5, <2>6
<1>7. CASE UNCHANGED <<queue, runs>>
  BY <1>1, <1>7
<1> QED BY <1>2, <1>3, <1>4, <1>5, <1>6, <1>7
        DEF PurgeNext, Purging, NextDay, MarkRead, Invited, purgeVars

(* The invariant of the purge is inductive.                                *)
LEMMA NextPurge == PurgeInv /\ [PurgeNext]_purgeVars => PurgeInv'
<1> SUFFICES ASSUME PurgeInv, [PurgeNext]_purgeVars PROVE PurgeInv'
  OBVIOUS
<1>1. PurgeShape'
  <2>1. PurgeShape
    BY DEF PurgeInv
  <2> QED BY <2>1, SettingsStay, RunsKeep DEF PurgeShape
<1> QED BY <1>1, RunsKeep, JobKeeps DEF PurgeInv, RunInv

(* What the invariant says of a run that has ended, and of the types.      *)
LEMMA PurgeIsClean == PurgeInv => PurgeTypeOK /\ CleanWhenDone
<1>1. PurgeInv => PurgeTypeOK
  <2> SUFFICES ASSUME PurgeInv PROVE PurgeTypeOK
    OBVIOUS
  <2>1. /\ alive \subseteq DOMAIN PurgeRows /\ day \in 1 .. MaxDay /\ faults \in 0 .. MaxFaults
        /\ \A w \in Replicas : runs[w] \in Run /\ PickedMatch(w)
        /\ \A w \in Replicas : runs[w].picked # {} => runs[w].sent
    BY DEF PurgeInv, PurgeShape
  <2>2. Len(queue) <= 2 /\ \A n \in DOMAIN queue : queue[n] \in 0 .. JOB_ATTEMPTS - 1
    <3>1. CASE queue = << >>
      BY <3>1
    <3>2. ASSUME NEW n \in 0 .. JOB_ATTEMPTS - 1, queue = <<n>>
          PROVE  Len(queue) <= 2 /\ \A i \in DOMAIN queue : queue[i] \in 0 .. JOB_ATTEMPTS - 1
      BY <3>2
    <3> QED BY <3>1, <3>2 DEF PurgeInv, OneJob
  <2>3. \A w \in Replicas : /\ Cardinality(runs[w].picked) <= CLEANUP_BATCH_SIZE
                            /\ runs[w].sent => runs[w].at \in DOMAIN PurgeTables
    <3>1. Cardinality({}) = 0 /\ 0 <= CLEANUP_BATCH_SIZE
      BY FS_EmptySet, RetentionAssumption
    <3> QED BY <2>1, <3>1 DEF PickedMatch
  <2> QED BY <2>1, <2>2, <2>3 DEF PurgeTypeOK, Run
<1>2. PurgeInv => CleanWhenDone
  BY TablesAre DEF PurgeInv, RunsClean, CleanWhenDone, Running, Ahead
<1> QED BY <1>1, <1>2

(* A run that ended alone and below its ceiling has removed whatever was   *)
(* due when it began, whatever the batches and the retries before it; and  *)
(* the rows, the one job and the runs keep their types (runCleanup,        *)
(* deleteInBatches).                                                       *)
THEOREM RunsEndClean == PurgeSpec => [](PurgeTypeOK /\ CleanWhenDone)
BY PurgeIsClean, InitPurge, NextPurge, PTL DEF PurgeSpec

(* A step removes only what the policy lets go at that moment.             *)
LEMMA FinishedGo == PurgeInv /\ [PurgeNext]_purgeVars => [\A r \in alive \ alive' : Finished(r)]_purgeVars
<1> SUFFICES ASSUME PurgeInv, [PurgeNext]_purgeVars, NEW r \in alive \ alive'
             PROVE  Finished(r)
  OBVIOUS
<1>1. PICK w \in Replicas : DeleteBatch(w)
  BY DEF PurgeNext, purgeVars, Purging, runCleanup, SubselectBatch, Finish,
         RunFails, Stalled, Schedule, NextDay, MarkRead, Invited
<1>2. /\ runs[w].sent /\ r \in runs[w].picked
      /\ runs[w].at \in DOMAIN PurgeTables /\ runs[w].now <= day /\ runs[w].now \in Nat
      /\ PurgeRows[r].table = PurgeTables[runs[w].at]
      /\ ~KeptForever(PurgeTables[runs[w].at])
  BY <1>1 DEF DeleteBatch, PurgeInv, PurgeShape, PickedMatch, AtItsTable, Run
<1>3. PICK n \in Nat : n = runs[w].now /\ n <= day
  BY <1>2
<1>4. Matches(r, n) /\ ~KeptForever(PurgeRows[r].table)
  BY <1>2, <1>3 DEF PurgeInv, PickedMatch
<1>5. /\ r \in DOMAIN PurgeRows /\ day \in Nat
      /\ keep.notification \in Nat /\ keep.activity \in Nat /\ keep.invitation \in Nat
      /\ readOn[r] \in Nat /\ expires[r] \in Nat /\ PurgeRows[r].created \in Nat
      /\ answered[r] \in {"pending", "settled"}
  BY RowIs, RetentionAssumption DEF PurgeInv, PurgeShape
<1>6. CASE PurgeRows[r].table = "Notification"
  BY <1>3, <1>4, <1>5, <1>6 DEF Matches, Before, Finished, KeptForever
<1>7. CASE PurgeRows[r].table \in {"Activity", "UsagePing"}
  BY <1>3, <1>4, <1>5, <1>7 DEF Matches, Before, Finished, KeptForever
<1>8. CASE PurgeRows[r].table = "Invitation"
  BY <1>3, <1>4, <1>5, <1>8 DEF Matches, Before, Finished, KeptForever
<1>9. CASE PurgeRows[r].table \notin {"Notification", "Activity", "UsagePing", "Invitation"}
  BY <1>3, <1>4, <1>5, <1>9 DEF Matches, Before, Finished, KeptForever
<1> QED BY <1>6, <1>7, <1>8, <1>9
(* A row that goes is one the policy lets go at that moment, although the  *)
(* statement only matched it when it took its snapshot and the cutoff is   *)
(* as old as its run (cleanup.worker.ts).                                  *)
THEOREM OnlyFinishedGo == PurgeSpec => PurgesOnlyFinished
BY FinishedGo, InitPurge, NextPurge, PTL DEF PurgeSpec, PurgesOnlyFinished

-----------------------------------------------------------------------------
(* One specification has the requests, the purge and the client side by    *)
(* side; a step of one leaves the others alone.                            *)
EndsInv == Shape /\ TokenInv /\ RoomInv /\ PurgeInv

(* Whichever part a behaviour is about, it begins inside the invariant.    *)
LEMMA EndsBegin == EndsInit => EndsInv
<1> SUFFICES ASSUME EndsInit PROVE EndsInv
  OBVIOUS
<1>1. Init
  BY DEF EndsInit
<1>2. Shape /\ TokenInv /\ RoomInv
  BY <1>1, InitShape DEF Init, TokenInv, RoomInv, Alone, NoToken, Joiners, Noted, Strangers
<1>3. CASE PurgeInit
  BY <1>2, <1>3, InitPurge DEF EndsInv
<1>4. CASE PurgeWith([notification |-> 1, activity |-> 0, invitation |-> 1], {})
  BY <1>2, <1>4, PurgeBegins DEF EndsInv
<1> QED BY <1>3, <1>4 DEF EndsInit

(* Every step is one of the requests, of the purge, or of neither.         *)
LEMMA EndsKeep ==
    ASSUME "token" \in Exclusive, "join" \in Exclusive, ~ Failures
    PROVE  EndsInv /\ [EndsNext]_<<part, vars, purgeVars, clientVars>>
              => EndsInv'
<1> SUFFICES ASSUME EndsInv, [EndsNext]_<<part, vars, purgeVars, clientVars>>
             PROVE  EndsInv'
  OBVIOUS
<1>1. [Next]_vars /\ [PurgeNext]_purgeVars
  BY DEF EndsNext
<1>2. Shape' /\ TokenInv' /\ RoomInv'
  BY <1>1, NextShape, NextTokens, NextRooms DEF EndsInv
<1>3. PurgeInv'
  BY <1>1, NextPurge DEF EndsInv
<1> QED BY <1>1, <1>2, <1>3 DEF EndsInv

(* What has ended leaves nothing behind.  When a membership ends, by a     *)
(* removal, a departure or an account deletion, no token of it works again *)
(* and no socket of it stays in the room (workspace-members, api-tokens,   *)
(* realtime); when a purge ends alone and below its ceiling, no row it     *)
(* owed is left (cleanup.worker.ts).  The code serialises neither the      *)
(* creation of a token nor the joining of a room with what ends the        *)
(* membership, nor does it take up a request that died half-way: without   *)
(* the assumptions the first two conclusions are lost.                     *)
THEOREM EndsAreClean ==
    ASSUME "token" \in Exclusive, "join" \in Exclusive, ~ Failures
    PROVE  EndsSpec => []NothingLeftBehind
<1>1. EndsInv => NothingLeftBehind
  <2> SUFFICES ASSUME EndsInv PROVE NothingLeftBehind
    OBVIOUS
  <2>1. NoTokenRevived
    BY DEF EndsInv, TokenInv, NoTokenRevived, WillRevoke, Touches
  <2>2. RoomsHoldMembers
    BY DEF EndsInv, RoomInv, RoomsHoldMembers, Entitled, WillEvict, Touches
  <2> QED BY <2>1, <2>2, PurgeIsClean DEF EndsInv, Shape, NothingLeftBehind
<1>2. EndsInv /\ [EndsNext]_<<part, vars, purgeVars, clientVars>> => EndsInv'
  BY EndsKeep
<1> QED BY <1>1, <1>2, EndsBegin, PTL DEF EndsSpec

(* In the same specification, a row that goes is one the policy lets go at *)
(* that moment (cleanup.worker.ts).                                        *)
THEOREM EndsOnlyFinished == EndsSpec => PurgesOnlyFinished
<1>1. EndsInit => PurgeInv
  BY InitPurge, PurgeBegins DEF EndsInit
<1>2. [EndsNext]_<<part, vars, purgeVars, clientVars>> => [PurgeNext]_purgeVars
  BY DEF EndsNext
<1> QED BY <1>1, <1>2, FinishedGo, NextPurge, PTL DEF EndsSpec, PurgesOnlyFinished

-----------------------------------------------------------------------------
(* A sequence is as long as it has elements, when it lists each once.      *)
LEMMA DistinctCounts ==
    ASSUME NEW S, NEW s \in Seq(S), Distinct(s), NEW n \in 0 .. Len(s)
    PROVE  Cardinality({s[k] : k \in 1 .. n}) = n
<1> DEFINE image == {s[k] : k \in 1 .. n}
           f == [k \in 1 .. n |-> s[k]]
<1>1. DOMAIN s = 1 .. Len(s) /\ Len(s) \in Nat
  BY LenProperties
<1>2. f \in Bijection(1 .. n, image)
  <2>1. f \in Surjection(1 .. n, image)
    BY DEF Surjection
  <2>2. f \in Injection(1 .. n, image)
    <3>1. f \in [1 .. n -> image]
      OBVIOUS
    <3>2. ASSUME NEW a \in 1 .. n, NEW b \in 1 .. n, f[a] = f[b] PROVE a = b
      <4>1. a \in DOMAIN s /\ b \in DOMAIN s /\ s[a] = s[b]
        BY <1>1, <3>2
      <4> QED BY <4>1 DEF Distinct
    <3>3. DOMAIN f = 1 .. n
      OBVIOUS
    <3> HIDE DEF f, image
    <3> QED BY <3>1, <3>2, <3>3 DEF Injection, IsInjective
  <2> QED BY <2>1, <2>2 DEF Bijection
<1>3. ExistsBijection(1 .. n, image)
  BY <1>2 DEF ExistsBijection
<1>4. IsFiniteSet(1 .. n) /\ Cardinality(1 .. n) = n
  BY FS_Interval
<1> QED BY <1>3, <1>4, FS_Bijection

(* Lists that list the same rows once and in the same order are the same.  *)
LEMMA SameOrder ==
    ASSUME NEW S, NEW s \in Seq(S), NEW t \in Seq(S), Distinct(s), Distinct(t),
           Elements(s) = Elements(t),
           \A x, y \in Elements(s) : Prior(s, x, y) <=> Prior(t, x, y)
    PROVE  s = t
<1>1. /\ DOMAIN s = 1 .. Len(s) /\ Len(s) \in Nat
      /\ DOMAIN t = 1 .. Len(t) /\ Len(t) \in Nat
  BY LenProperties
<1>2. Len(s) = Len(t)
  <2>1. Elements(s) = {s[k] : k \in 1 .. Len(s)} /\ Elements(t) = {t[k] : k \in 1 .. Len(t)}
    BY <1>1 DEF Elements
  <2>2. Len(s) \in 0 .. Len(s) /\ Len(t) \in 0 .. Len(t)
    BY <1>1
  <2>3. Cardinality(Elements(s)) = Len(s)
    BY <2>1, <2>2, DistinctCounts
  <2>4. Cardinality(Elements(t)) = Len(t)
    BY <2>1, <2>2, DistinctCounts
  <2> QED BY <2>3, <2>4
<1>3. ASSUME NEW i \in 1 .. Len(s) PROVE s[i] = t[i]
  <2>1. s[i] \in Elements(t)
    BY <1>1 DEF Elements
  <2>2. PICK j \in 1 .. Len(t) : t[j] = s[i]
    BY <1>1, <2>1 DEF Elements
  <2>3. {s[k] : k \in 1 .. i - 1} = {y \in Elements(s) : Prior(s, y, s[i])}
    <3>1. ASSUME NEW k \in 1 .. i - 1
          PROVE  s[k] \in Elements(s) /\ Prior(s, s[k], s[i])
      <4>1. k \in DOMAIN s /\ i \in DOMAIN s /\ k < i
        BY <1>1
      <4> QED BY <4>1 DEF Elements, Prior
    <3>2. ASSUME NEW y \in Elements(s), Prior(s, y, s[i])
          PROVE  \E k \in 1 .. i - 1 : y = s[k]
      <4>1. PICK a \in DOMAIN s, b \in DOMAIN s : a < b /\ s[a] = y /\ s[b] = s[i]
        BY <3>2 DEF Prior
      <4>2. b = i
        BY <1>1, <4>1 DEF Distinct
      <4>3. a \in 1 .. i - 1
        BY <1>1, <4>1, <4>2
      <4> QED BY <4>1, <4>3
    <3> QED BY <3>1, <3>2
  <2>4. {t[k] : k \in 1 .. j - 1} = {y \in Elements(t) : Prior(t, y, t[j])}
    <3>1. ASSUME NEW k \in 1 .. j - 1
          PROVE  t[k] \in Elements(t) /\ Prior(t, t[k], t[j])
      <4>1. k \in DOMAIN t /\ j \in DOMAIN t /\ k < j
        BY <1>1
      <4> QED BY <4>1 DEF Elements, Prior
    <3>2. ASSUME NEW y \in Elements(t), Prior(t, y, t[j])
          PROVE  \E k \in 1 .. j - 1 : y = t[k]
      <4>1. PICK a \in DOMAIN t, b \in DOMAIN t : a < b /\ t[a] = y /\ t[b] = t[j]
        BY <3>2 DEF Prior
      <4>2. b = j
        BY <1>1, <4>1 DEF Distinct
      <4>3. a \in 1 .. j - 1
        BY <1>1, <4>1, <4>2
      <4> QED BY <4>1, <4>3
    <3> QED BY <3>1, <3>2
  <2>5. {s[k] : k \in 1 .. i - 1} = {t[k] : k \in 1 .. j - 1}
    <3>1. s[i] \in Elements(s)
      BY <1>1 DEF Elements
    <3> QED BY <2>2, <2>3, <2>4, <3>1
  <2>6. i - 1 \in 0 .. Len(s) /\ j - 1 \in 0 .. Len(t)
    BY <1>1
  <2>7. i - 1 = j - 1
    <3>1. Cardinality({s[k] : k \in 1 .. i - 1}) = i - 1
      BY <2>6, DistinctCounts
    <3>2. Cardinality({t[k] : k \in 1 .. j - 1}) = j - 1
      BY <2>6, DistinctCounts
    <3> QED BY <2>5, <3>1, <3>2
  <2>8. i = j
    BY <2>7, <1>1
  <2> QED BY <2>2, <2>8
<1> QED BY <1>1, <1>2, <1>3, SeqEqual

(* A row at the end of a list.                                             *)
LEMMA Appended ==
    ASSUME NEW S, NEW s \in Seq(S), NEW r \in S, Distinct(s), r \notin Elements(s)
    PROVE  /\ Append(s, r) \in Seq(S) /\ Distinct(Append(s, r))
           /\ Elements(Append(s, r)) = Elements(s) \cup {r}
           /\ \A x, y \in Elements(s) : Prior(Append(s, r), x, y) <=> Prior(s, x, y)
           /\ \A x \in Elements(s) : Prior(Append(s, r), x, r)
           /\ \A y \in Elements(s) \cup {r} : ~ Prior(Append(s, r), r, y)
<1> DEFINE t == Append(s, r)
<1>1. /\ t \in Seq(S) /\ Len(t) = Len(s) + 1 /\ t[Len(s) + 1] = r
      /\ \A i \in 1 .. Len(s) : t[i] = s[i]
  BY AppendProperties
<1>2. DOMAIN t = 1 .. Len(s) + 1 /\ DOMAIN s = 1 .. Len(s) /\ Len(s) \in Nat
  BY <1>1, LenProperties
<1> HIDE DEF t
<1>3. \A i \in DOMAIN t : \/ i \in DOMAIN s /\ t[i] = s[i] /\ t[i] # r
                          \/ i = Len(s) + 1 /\ t[i] = r
  <2> SUFFICES ASSUME NEW i \in DOMAIN t, i # Len(s) + 1
               PROVE  i \in DOMAIN s /\ t[i] = s[i] /\ t[i] # r
    <3>1. t[Len(s) + 1] = r
      BY <1>1
    <3> QED BY <3>1
  <2>1. i \in 1 .. Len(s)
    BY <1>2
  <2>2. i \in DOMAIN s /\ t[i] = s[i]
    BY <1>1, <1>2, <2>1
  <2>3. s[i] \in Elements(s)
    BY <2>2 DEF Elements
  <2> QED BY <2>2, <2>3
<1>4. \A i \in DOMAIN s : i \in DOMAIN t /\ t[i] = s[i] /\ i < Len(s) + 1
  BY <1>1, <1>2
<1>5. Distinct(t)
  BY <1>1, <1>2, <1>3 DEF Distinct
<1>6. Elements(t) = Elements(s) \cup {r}
  <2>1. Len(s) + 1 \in DOMAIN t
    BY <1>2
  <2>2. \A x \in Elements(t) : x \in Elements(s) \cup {r}
    BY <1>3 DEF Elements
  <2>3. \A x \in Elements(s) : x \in Elements(t)
    BY <1>4 DEF Elements
  <2>4. r \in Elements(t)
    BY <1>1, <2>1 DEF Elements
  <2> QED BY <2>2, <2>3, <2>4
<1>7. ASSUME NEW x \in Elements(s), NEW y \in Elements(s) PROVE Prior(t, x, y) <=> Prior(s, x, y)
  <2>1. x # r /\ y # r
    OBVIOUS
  <2>2. ASSUME Prior(t, x, y) PROVE Prior(s, x, y)
    <3>1. PICK i \in DOMAIN t, j \in DOMAIN t : i < j /\ t[i] = x /\ t[j] = y
      BY <2>2 DEF Prior
    <3>2. i \in DOMAIN s /\ j \in DOMAIN s /\ s[i] = x /\ s[j] = y
      BY <1>3, <2>1, <3>1
    <3> QED BY <3>1, <3>2 DEF Prior
  <2>3. ASSUME Prior(s, x, y) PROVE Prior(t, x, y)
    BY <1>4, <2>3 DEF Prior
  <2> QED BY <2>2, <2>3
<1>8. ASSUME NEW x \in Elements(s) PROVE Prior(t, x, r)
  <2>1. PICK i \in DOMAIN s : s[i] = x
    BY DEF Elements
  <2>2. Len(s) + 1 \in DOMAIN t
    BY <1>2
  <2> QED BY <1>1, <1>4, <2>1, <2>2 DEF Prior
<1>9. ASSUME NEW y \in Elements(s) \cup {r}, Prior(t, r, y) PROVE FALSE
  <2>1. PICK i \in DOMAIN t, j \in DOMAIN t : i < j /\ t[i] = r
    BY <1>9 DEF Prior
  <2>2. i = Len(s) + 1
    BY <1>3, <2>1
  <2> QED BY <1>2, <2>1, <2>2
<1> QED BY <1>1, <1>5, <1>6, <1>7, <1>8, <1>9 DEF t

(* A row at the head of a list.                                            *)
LEMMA Prefixed ==
    ASSUME NEW S, NEW s \in Seq(S), NEW r \in S, Distinct(s), r \notin Elements(s)
    PROVE  /\ <<r>> \o s \in Seq(S) /\ Distinct(<<r>> \o s)
           /\ Elements(<<r>> \o s) = Elements(s) \cup {r}
           /\ \A x, y \in Elements(s) : Prior(<<r>> \o s, x, y) <=> Prior(s, x, y)
           /\ \A y \in Elements(s) : Prior(<<r>> \o s, r, y)
           /\ \A x \in Elements(s) \cup {r} : ~ Prior(<<r>> \o s, x, r)
<1> DEFINE one == <<r>>
           t == one \o s
<1>0. one \in Seq(S) /\ Len(one) = 1 /\ one[1] = r /\ Len(s) \in Nat
  BY LenProperties
<1>1. /\ t \in Seq(S) /\ Len(t) = Len(s) + 1 /\ t[1] = r
      /\ \A i \in 1 .. Len(s) : t[i + 1] = s[i]
  <2>1. /\ t \in Seq(S) /\ Len(t) = Len(one) + Len(s)
        /\ \A i \in 1 .. Len(one) + Len(s) :
              t[i] = IF i <= Len(one) THEN one[i] ELSE s[i - Len(one)]
    <3> HIDE DEF one
    <3> QED BY <1>0, ConcatProperties
  <2>2. \A i \in 1 .. Len(s) : i + 1 \in 1 .. Len(one) + Len(s) /\ ~ (i + 1 <= Len(one)) /\ (i + 1) - Len(one) = i
    BY <1>0
  <2>3. 1 \in 1 .. Len(one) + Len(s) /\ 1 <= Len(one)
    BY <1>0
  <2> HIDE DEF t, one
  <2> QED BY <1>0, <2>1, <2>2, <2>3
<1>2. DOMAIN t = 1 .. Len(s) + 1 /\ DOMAIN s = 1 .. Len(s) /\ Len(s) \in Nat
  BY <1>1, LenProperties
<1> HIDE DEF t
<1>3. \A i \in DOMAIN t : \/ i - 1 \in DOMAIN s /\ t[i] = s[i - 1] /\ t[i] # r
                          \/ i = 1 /\ t[i] = r
  <2> SUFFICES ASSUME NEW i \in DOMAIN t, i # 1
               PROVE  i - 1 \in DOMAIN s /\ t[i] = s[i - 1] /\ t[i] # r
    <3>1. t[1] = r
      BY <1>1
    <3> QED BY <3>1
  <2>1. i - 1 \in 1 .. Len(s) /\ (i - 1) + 1 = i
    BY <1>2
  <2>2. i - 1 \in DOMAIN s /\ t[i] = s[i - 1]
    BY <1>1, <1>2, <2>1
  <2>3. s[i - 1] \in Elements(s)
    BY <2>2 DEF Elements
  <2> QED BY <2>2, <2>3
<1>4. \A i \in DOMAIN s : i + 1 \in DOMAIN t /\ t[i + 1] = s[i] /\ 1 < i + 1
  BY <1>1, <1>2
<1>5. Distinct(t)
  <2> SUFFICES ASSUME NEW i \in DOMAIN t, NEW j \in DOMAIN t, t[i] = t[j] PROVE i = j
    BY DEF Distinct
  <2>1. CASE i = 1
    BY <1>3, <2>1
  <2>2. CASE i # 1
    <3>1. i - 1 \in DOMAIN s /\ j - 1 \in DOMAIN s /\ s[i - 1] = s[j - 1]
      BY <1>3, <2>2
    <3>2. i - 1 = j - 1
      BY <3>1 DEF Distinct
    <3> QED BY <1>2, <3>2
  <2> QED BY <2>1, <2>2
<1>6. Elements(t) = Elements(s) \cup {r}
  <2>1. 1 \in DOMAIN t
    BY <1>2
  <2>2. \A x \in Elements(t) : x \in Elements(s) \cup {r}
    BY <1>3 DEF Elements
  <2>3. \A x \in Elements(s) : x \in Elements(t)
    BY <1>4 DEF Elements
  <2>4. r \in Elements(t)
    BY <1>1, <2>1 DEF Elements
  <2> QED BY <2>2, <2>3, <2>4
<1>7. ASSUME NEW x \in Elements(s), NEW y \in Elements(s) PROVE Prior(t, x, y) <=> Prior(s, x, y)
  <2>1. x # r /\ y # r
    OBVIOUS
  <2>2. ASSUME Prior(t, x, y) PROVE Prior(s, x, y)
    <3>1. PICK i \in DOMAIN t, j \in DOMAIN t : i < j /\ t[i] = x /\ t[j] = y
      BY <2>2 DEF Prior
    <3>2. i - 1 \in DOMAIN s /\ j - 1 \in DOMAIN s /\ s[i - 1] = x /\ s[j - 1] = y
      BY <1>3, <2>1, <3>1
    <3>3. i - 1 < j - 1
      BY <1>2, <3>1
    <3> QED BY <3>2, <3>3 DEF Prior
  <2>3. ASSUME Prior(s, x, y) PROVE Prior(t, x, y)
    <3>1. PICK i \in DOMAIN s, j \in DOMAIN s : i < j /\ s[i] = x /\ s[j] = y
      BY <2>3 DEF Prior
    <3>2. i + 1 \in DOMAIN t /\ j + 1 \in DOMAIN t /\ t[i + 1] = x /\ t[j + 1] = y
      BY <1>4, <3>1
    <3>3. i + 1 < j + 1
      BY <1>2, <3>1
    <3> QED BY <3>2, <3>3 DEF Prior
  <2> QED BY <2>2, <2>3
<1>8. ASSUME NEW y \in Elements(s) PROVE Prior(t, r, y)
  <2>1. PICK i \in DOMAIN s : s[i] = y
    BY DEF Elements
  <2>2. 1 \in DOMAIN t
    BY <1>2
  <2> QED BY <1>1, <1>4, <2>1, <2>2 DEF Prior
<1>9. ASSUME NEW x \in Elements(s) \cup {r}, Prior(t, x, r) PROVE FALSE
  <2>1. PICK i \in DOMAIN t, j \in DOMAIN t : i < j /\ t[j] = r
    BY <1>9 DEF Prior
  <2>2. j = 1
    BY <1>3, <2>1
  <2> QED BY <1>2, <2>1, <2>2
<1> QED BY <1>1, <1>5, <1>6, <1>7, <1>8, <1>9 DEF t, one

(* A list without one of its rows, in the order it had.                    *)
LEMMA WithoutIs ==
    ASSUME NEW S, NEW s \in Seq(S), NEW r, Distinct(s)
    PROVE  /\ Without(s, r) \in Seq(S) /\ Distinct(Without(s, r))
           /\ Elements(Without(s, r)) = Elements(s) \ {r}
           /\ \A x, y \in Elements(s) \ {r} : Prior(Without(s, r), x, y) <=> Prior(s, x, y)
           /\ r \notin Elements(s) => Without(s, r) = s
<1> DEFINE kept == {i \in DOMAIN s : s[i] # r}
           below(i) == {j \in kept : j < i}
           at(k) == CHOOSE i \in kept : Cardinality(below(i)) = k - 1
           t == [k \in 1 .. Cardinality(kept) |-> s[at(k)]]
<1>1. DOMAIN s = 1 .. Len(s) /\ Len(s) \in Nat
  BY LenProperties
<1>2. Without(s, r) = t
  BY DEF Without
<1>3. CASE r \notin Elements(s)
  <2>1. kept = 1 .. Len(s)
    BY <1>1, <1>3 DEF Elements
  <2>2. Cardinality(kept) = Len(s)
    <3>1. Cardinality(1 .. Len(s)) = Len(s)
      BY <1>1, FS_Interval
    <3> QED BY <2>1, <3>1
  <2>3. \A i \in kept : Cardinality(below(i)) = i - 1
    <3> TAKE i \in kept
    <3>1. below(i) = 1 .. i - 1
      BY <1>1, <2>1
    <3>2. i - 1 \in Int /\ i - 1 >= 0
      BY <1>1, <2>1
    <3>3. Cardinality(1 .. i - 1) = i - 1
      BY <3>2, FS_Interval
    <3> QED BY <3>1, <3>3
  <2>4. \A k \in 1 .. Len(s) : at(k) = k
    <3> TAKE k \in 1 .. Len(s)
    <3>1. k \in kept /\ Cardinality(below(k)) = k - 1
      BY <2>1, <2>3
    <3>2. \A i \in kept : Cardinality(below(i)) = k - 1 => i = k
      BY <1>1, <2>1, <2>3
    <3> HIDE DEF kept, below
    <3> QED BY <3>1, <3>2
  <2>5. t = s
    <3> HIDE DEF kept, at
    <3>1. t = [k \in 1 .. Len(s) |-> s[k]]
      BY <2>2, <2>4
    <3>2. s \in [1 .. Len(s) -> S]
      BY LenProperties
    <3>3. s = [k \in 1 .. Len(s) |-> s[k]]
      BY <3>2
    <3> HIDE DEF t
    <3> QED BY <3>1, <3>3
  <2>6. Elements(s) \ {r} = Elements(s)
    BY <1>3
  <2> HIDE DEF t
  <2>7. Without(s, r) = s
    BY <1>2, <2>5
  <2> QED BY <1>3, <2>6, <2>7
<1>4. CASE r \in Elements(s)
  <2>1. PICK p \in 1 .. Len(s) : s[p] = r
    BY <1>1, <1>4 DEF Elements
  <2>2. kept = (1 .. Len(s)) \ {p}
    <3>1. \A i \in 1 .. Len(s) : s[i] = r <=> i = p
      BY <1>1, <2>1 DEF Distinct
    <3> QED BY <1>1, <3>1
  <2>3. Cardinality(kept) = Len(s) - 1
    <3>1. IsFiniteSet(1 .. Len(s)) /\ Cardinality(1 .. Len(s)) = Len(s)
      BY <1>1, FS_Interval
    <3>2. p \in 1 .. Len(s)
      OBVIOUS
    <3> QED BY <2>2, <3>1, <3>2, FS_RemoveElement
  <2>4. \A i \in kept : Cardinality(below(i)) = IF i < p THEN i - 1 ELSE i - 2
    <3> TAKE i \in kept
    <3>0. i \in 1 .. Len(s) /\ i # p /\ i \in Int /\ p \in Int
      BY <1>1, <2>2
    <3>1. IsFiniteSet(1 .. i - 1) /\ Cardinality(1 .. i - 1) = i - 1
      <4>1. i - 1 \in Int /\ i - 1 >= 0
        BY <3>0, <1>1
      <4> QED BY <4>1, FS_Interval
    <3>2. CASE i < p
      <4>1. below(i) = 1 .. i - 1
        BY <1>1, <2>2, <3>0, <3>2
      <4> QED BY <3>1, <3>2, <4>1
    <3>3. CASE ~ (i < p)
      <4>1. below(i) = (1 .. i - 1) \ {p} /\ p \in 1 .. i - 1
        BY <1>1, <2>2, <3>0, <3>3
      <4>2. Cardinality((1 .. i - 1) \ {p}) = (i - 1) - 1
        BY <3>1, <4>1, FS_RemoveElement
      <4>3. (i - 1) - 1 = i - 2
        BY <3>0
      <4> QED BY <3>3, <4>1, <4>2, <4>3
    <3> QED BY <3>2, <3>3
  <2> DEFINE place(k) == IF k < p THEN k ELSE k + 1
  <2>5. \A k \in 1 .. Len(s) - 1 : at(k) = place(k) /\ place(k) \in kept
    <3> TAKE k \in 1 .. Len(s) - 1
    <3>1. place(k) \in kept
      BY <1>1, <2>2
    <3>2. Cardinality(below(place(k))) = k - 1
      <4>1. CASE k < p
        BY <2>4, <3>1, <4>1
      <4>2. CASE ~ (k < p)
        <5>1. place(k) = k + 1 /\ ~ (k + 1 < p) /\ (k + 1) - 2 = k - 1
          BY <4>2, <1>1
        <5> HIDE DEF below, kept
        <5> QED BY <2>4, <3>1, <5>1
      <4> QED BY <4>1, <4>2
    <3>3. \A i \in kept : Cardinality(below(i)) = k - 1 => i = place(k)
      BY <1>1, <2>2, <2>4
    <3> HIDE DEF kept, below, place
    <3> QED BY <3>1, <3>2, <3>3
  <2>6. t = [k \in 1 .. Len(s) - 1 |-> s[place(k)]]
    <3> HIDE DEF kept, at, place
    <3> QED BY <2>3, <2>5
  <2>7. \A k \in 1 .. Len(s) - 1 : place(k) \in DOMAIN s /\ s[place(k)] # r
    BY <2>5
  <2>8. \A i \in kept : \E k \in 1 .. Len(s) - 1 : place(k) = i
    <3> TAKE i \in kept
    <3>1. CASE i < p
      <4>1. i \in 1 .. Len(s) - 1 /\ place(i) = i
        BY <1>1, <2>2, <3>1
      <4> QED BY <4>1
    <3>2. CASE ~ (i < p)
      <4>1. i - 1 \in 1 .. Len(s) - 1 /\ place(i - 1) = i
        BY <1>1, <2>2, <3>2
      <4> QED BY <4>1
    <3> QED BY <3>1, <3>2
  <2>9. \A k, l \in 1 .. Len(s) - 1 : /\ k < l <=> place(k) < place(l)
                                      /\ place(k) = place(l) => k = l
    BY <1>1
  <2>10. DOMAIN t = 1 .. Len(s) - 1 /\ \A k \in 1 .. Len(s) - 1 : t[k] = s[place(k)]
    BY <2>6
  <2>11. t \in Seq(S)
    <3>1. \A k \in 1 .. Len(s) - 1 : s[place(k)] \in S
      BY <1>1, <2>7, ElementOfSeq
    <3>2. Len(s) - 1 \in Nat
      BY <1>1, <2>1
    <3> HIDE DEF place, t
    <3> QED BY <2>6, <3>1, <3>2, IsASeq
  <2> HIDE DEF t, place, at, below
  <2>12. Distinct(t)
    <3> SUFFICES ASSUME NEW k \in 1 .. Len(s) - 1, NEW l \in 1 .. Len(s) - 1, t[k] = t[l]
                 PROVE  k = l
      BY <2>10 DEF Distinct
    <3>1. s[place(k)] = s[place(l)] /\ place(k) \in DOMAIN s /\ place(l) \in DOMAIN s
      BY <2>7, <2>10
    <3>2. place(k) = place(l)
      BY <3>1 DEF Distinct
    <3> QED BY <2>9, <3>2
  <2>13. Elements(t) = Elements(s) \ {r}
    <3>1. \A x \in Elements(t) : x \in Elements(s) \ {r}
      BY <2>7, <2>10 DEF Elements
    <3>2. ASSUME NEW x \in Elements(s) \ {r} PROVE x \in Elements(t)
      <4>1. PICK i \in kept : s[i] = x
        BY <3>2 DEF Elements
      <4>2. PICK k \in 1 .. Len(s) - 1 : place(k) = i
        BY <2>8
      <4> QED BY <2>10, <4>1, <4>2 DEF Elements
    <3> QED BY <3>1, <3>2
  <2>14. ASSUME NEW x \in Elements(s) \ {r}, NEW y \in Elements(s) \ {r}
         PROVE  Prior(t, x, y) <=> Prior(s, x, y)
    <3>1. ASSUME Prior(t, x, y) PROVE Prior(s, x, y)
      <4>1. PICK k \in 1 .. Len(s) - 1, l \in 1 .. Len(s) - 1 : k < l /\ t[k] = x /\ t[l] = y
        BY <2>10, <3>1 DEF Prior
      <4>2. /\ place(k) \in DOMAIN s /\ place(l) \in DOMAIN s /\ place(k) < place(l)
            /\ s[place(k)] = x /\ s[place(l)] = y
        BY <2>7, <2>9, <2>10, <4>1
      <4> QED BY <4>2 DEF Prior
    <3>2. ASSUME Prior(s, x, y) PROVE Prior(t, x, y)
      <4>1. PICK i \in DOMAIN s, j \in DOMAIN s : i < j /\ s[i] = x /\ s[j] = y
        BY <3>2 DEF Prior
      <4>2. i \in kept /\ j \in kept
        BY <2>14, <4>1
      <4>3. PICK k \in 1 .. Len(s) - 1 : place(k) = i
        BY <2>8, <4>2
      <4>4. PICK l \in 1 .. Len(s) - 1 : place(l) = j
        BY <2>8, <4>2
      <4>5. k < l /\ t[k] = x /\ t[l] = y
        BY <2>9, <2>10, <4>1, <4>3, <4>4
      <4> QED BY <2>10, <4>5 DEF Prior
    <3> QED BY <3>1, <3>2
  <2> QED BY <1>2, <1>4, <2>11, <2>12, <2>13, <2>14
<1> QED BY <1>3, <1>4

(* The first of some workspaces.                                           *)
LEMMA HasFirst ==
    ASSUME NEW n \in Nat, NEW S \in SUBSET (1 .. n), S # {}
    PROVE  \E m \in S : \A x \in S : m <= x
<1> DEFINE below(x) == {y \in S : y < x}
           Below == {below(x) : x \in S}
<1>0. IsFiniteSet(S)
  <2>1. IsFiniteSet(1 .. n)
    BY FS_Interval
  <2> QED BY <2>1, FS_Subset
<1>1. Below \subseteq FiniteSubsetsOf(S) /\ Below # {}
  <2>1. \A x \in S : below(x) \in SUBSET S
    OBVIOUS
  <2>2. FiniteSubsetsOf(S) = SUBSET S
    BY <1>0, FS_FiniteSubsetsOfFinite
  <2>3. \A x \in S : below(x) \in FiniteSubsetsOf(S)
    BY <2>1, <2>2
  <2> HIDE DEF below
  <2> QED BY <2>3
<1>2. PICK A \in Below : \A B \in Below : <<B, A>> \notin StrictSubsetOrdering(S)
  <2> HIDE DEF Below
  <2> QED BY <1>0, <1>1, FS_StrictSubsetOrderingWellFounded, WFMin
<1>3. PICK m \in S : A = below(m)
  OBVIOUS
<1>4. ASSUME NEW x \in S, ~ (m <= x) PROVE FALSE
  <2>1. m \in Int /\ x \in Int /\ x < m /\ \A y \in S : y \in Int
    BY <1>4
  <2>2. below(x) \subseteq below(m)
    <3> SUFFICES ASSUME NEW y \in below(x) PROVE y \in below(m)
      OBVIOUS
    <3>1. y \in S /\ y < x /\ y \in Int
      BY <2>1
    <3> QED BY <2>1, <3>1
  <2>3. x \in below(m) /\ x \notin below(x)
    BY <2>1
  <2>4. <<below(x), below(m)>> \in StrictSubsetOrdering(S)
    <3>1. below(x) \in SUBSET S /\ below(m) \in SUBSET S
      OBVIOUS
    <3> HIDE DEF below
    <3> QED BY <2>2, <2>3, <3>1 DEF StrictSubsetOrdering
  <2>5. below(x) \in Below
    OBVIOUS
  <2> HIDE DEF below, Below
  <2> QED BY <1>2, <1>3, <2>4, <2>5
<1> QED BY <1>4

(* The bootstrap picks a workspace of the user's, when there is one.       *)
LEMMA FirstIsMine ==
    ASSUME Mine # {}
    PROVE  Min(Mine) \in Mine /\ Mine \subseteq Workspaces
<1>1. Mine \in SUBSET (1 .. MaxWorkspaces) /\ MaxWorkspaces \in Nat
  BY ShellAssumption DEF Mine, Workspaces
<1>2. \E m \in Mine : \A x \in Mine : m <= x
  BY <1>1, HasFirst
<1> QED BY <1>1, <1>2 DEF Min, Workspaces

(* An answered call leaves the others, in their order.                     *)
LEMMA CallTaken ==
    ASSUME NEW S, NEW s \in Seq(S), NEW i \in DOMAIN s
    PROVE  LET t == RemoveAt(s, i)
               place(k) == IF k < i THEN k ELSE k + 1 IN
           /\ t \in Seq(S)
           /\ \A k \in DOMAIN t : place(k) \in DOMAIN s \ {i} /\ t[k] = s[place(k)]
           /\ \A k, l \in DOMAIN t : place(k) = place(l) => k = l
           /\ \A j \in DOMAIN s \ {i} : \E k \in DOMAIN t : place(k) = j
<1> DEFINE a == SubSeq(s, 1, i - 1)
           b == SubSeq(s, i + 1, Len(s))
           place(k) == IF k < i THEN k ELSE k + 1
<1>1. /\ DOMAIN s = 1 .. Len(s) /\ Len(s) \in Nat /\ i \in 1 .. Len(s)
      /\ \A k \in 1 .. Len(s) : s[k] \in S
  BY LenProperties
<1>2. /\ a \in Seq(S) /\ Len(a) = i - 1
      /\ \A k \in 1 .. i - 1 : a[k] = s[k]
  <2>1. 1 \in Int /\ i - 1 \in Int /\ \A k \in 1 .. i - 1 : s[k] \in S
    BY <1>1
  <2>2. /\ a \in Seq(S) /\ Len(a) = IF 1 <= i - 1 THEN (i - 1) - 1 + 1 ELSE 0
        /\ \A k \in 1 .. (i - 1) - 1 + 1 : a[k] = s[1 + k - 1]
    BY <2>1, SubSeqProperties
  <2>3. (i - 1) - 1 + 1 = i - 1 /\ \A k \in 1 .. i - 1 : 1 + k - 1 = k
    BY <1>1
  <2>4. (IF 1 <= i - 1 THEN i - 1 ELSE 0) = i - 1
    BY <1>1
  <2> HIDE DEF a
  <2> QED BY <2>2, <2>3, <2>4
<1>3. /\ b \in Seq(S) /\ Len(b) = Len(s) - i
      /\ \A k \in 1 .. Len(s) - i : b[k] = s[i + k]
  <2>1. i + 1 \in Int /\ Len(s) \in Int /\ \A k \in i + 1 .. Len(s) : s[k] \in S
    BY <1>1
  <2>2. /\ b \in Seq(S) /\ Len(b) = IF i + 1 <= Len(s) THEN Len(s) - (i + 1) + 1 ELSE 0
        /\ \A k \in 1 .. Len(s) - (i + 1) + 1 : b[k] = s[i + 1 + k - 1]
    BY <2>1, SubSeqProperties
  <2>3. Len(s) - (i + 1) + 1 = Len(s) - i /\ \A k \in 1 .. Len(s) - i : i + 1 + k - 1 = i + k
    BY <1>1
  <2>4. (IF i + 1 <= Len(s) THEN Len(s) - i ELSE 0) = Len(s) - i
    BY <1>1
  <2> HIDE DEF b
  <2> QED BY <2>2, <2>3, <2>4
<1> DEFINE t == a \o b
<1>4. RemoveAt(s, i) = t
  BY DEF RemoveAt
<1> HIDE DEF a, b
<1>5. /\ t \in Seq(S) /\ Len(t) = Len(a) + Len(b)
      /\ \A k \in 1 .. Len(a) + Len(b) : t[k] = IF k <= Len(a) THEN a[k] ELSE b[k - Len(a)]
  BY <1>2, <1>3, ConcatProperties
<1>6. DOMAIN t = 1 .. Len(s) - 1 /\ Len(a) + Len(b) = Len(s) - 1
  <2>1. DOMAIN t = 1 .. Len(t)
    BY <1>5, LenProperties
  <2> HIDE DEF t
  <2> QED BY <1>1, <1>2, <1>3, <1>5, <2>1
<1> HIDE DEF t
<1>7. ASSUME NEW k \in DOMAIN t PROVE place(k) \in DOMAIN s \ {i} /\ t[k] = s[place(k)]
  <2>0. k \in 1 .. Len(s) - 1
    BY <1>6
  <2>1. CASE k < i
    <3>1. k \in 1 .. i - 1 /\ k <= Len(a) /\ k \in 1 .. Len(s) /\ k # i
      BY <1>1, <1>2, <2>0, <2>1
    <3> QED BY <1>1, <1>2, <1>5, <1>6, <2>0, <2>1, <3>1
  <2>2. CASE ~ (k < i)
    <3>1. /\ k - (i - 1) \in 1 .. Len(s) - i /\ ~ (k <= Len(a)) /\ k + 1 \in 1 .. Len(s)
          /\ k + 1 # i /\ i + (k - (i - 1)) = k + 1
      BY <1>1, <1>2, <2>0, <2>2
    <3>2. t[k] = b[k - (i - 1)]
      BY <1>2, <1>5, <1>6, <2>0, <3>1
    <3> QED BY <1>1, <1>3, <2>2, <3>1, <3>2
  <2> QED BY <2>1, <2>2
<1>8. \A k, l \in DOMAIN t : place(k) = place(l) => k = l
  BY <1>1, <1>6
<1>9. ASSUME NEW j \in DOMAIN s \ {i} PROVE \E k \in DOMAIN t : place(k) = j
  <2>1. CASE j < i
    <3>1. j \in DOMAIN t /\ place(j) = j
      BY <1>1, <1>6, <2>1
    <3> QED BY <3>1
  <2>2. CASE ~ (j < i)
    <3>1. j - 1 \in DOMAIN t /\ place(j - 1) = j
      BY <1>1, <1>6, <2>2
    <3> QED BY <3>1
  <2> QED BY <2>1, <2>2
<1> QED BY <1>4, <1>5, <1>7, <1>8, <1>9

-----------------------------------------------------------------------------
(* The shell of the web client: it shows the workspace of the session, or  *)
(* is about to load again.                                                 *)

OneBootCall(s) == \A i, j \in DOMAIN s : s[i].who = "boot" /\ s[j].who = "boot" => i = j
Asks(s, who) == \E i \in DOMAIN s : s[i].who = who
Exits(s) == \E i \in DOMAIN s : s[i].to = NoWorkspace
Numbered(s, g) == \A i \in DOMAIN s : s[i].gen <= g

(* A set-active call goes out behind the others.                           *)
LEMMA CallSent ==
    ASSUME NEW s \in Seq(SetActiveCalls), NEW c \in SetActiveCalls, OneBootCall(s),
           c.who = "boot" => ~ Asks(s, "boot")
    PROVE  LET t == Append(s, c) IN
           /\ t \in Seq(SetActiveCalls) /\ t # << >>
           /\ OneBootCall(t)
           /\ Asks(t, "boot") <=> (Asks(s, "boot") \/ c.who = "boot")
           /\ Exits(t) <=> (Exits(s) \/ c.to = NoWorkspace)
           /\ \A g : Numbered(s, g) /\ c.gen <= g => Numbered(t, g)
<1> DEFINE t == Append(s, c)
<1>1. /\ t \in Seq(SetActiveCalls) /\ Len(t) = Len(s) + 1 /\ t[Len(s) + 1] = c
      /\ \A i \in 1 .. Len(s) : t[i] = s[i]
  BY AppendProperties
<1>2. DOMAIN t = 1 .. Len(s) + 1 /\ DOMAIN s = 1 .. Len(s) /\ Len(s) \in Nat
  BY <1>1, LenProperties
<1> HIDE DEF t
<1>3. \A i \in DOMAIN t : \/ i \in DOMAIN s /\ t[i] = s[i]
                          \/ i = Len(s) + 1 /\ t[i] = c
  <2> SUFFICES ASSUME NEW i \in DOMAIN t, i # Len(s) + 1
               PROVE  i \in DOMAIN s /\ t[i] = s[i]
    BY <1>1
  <2>1. i \in 1 .. Len(s)
    BY <1>2
  <2> QED BY <1>1, <1>2, <2>1
<1>4. \A i \in DOMAIN s : i \in DOMAIN t /\ t[i] = s[i]
  BY <1>1, <1>2
<1>5. Len(s) + 1 \in DOMAIN t /\ t[Len(s) + 1] = c
  BY <1>1, <1>2
<1>6. t # << >>
  <2>1. DOMAIN << >> = {}
    OBVIOUS
  <2> QED BY <1>5, <2>1
<1>7. OneBootCall(t)
  <2> SUFFICES ASSUME NEW i \in DOMAIN t, NEW j \in DOMAIN t, t[i].who = "boot", t[j].who = "boot"
               PROVE  i = j
    BY DEF OneBootCall
  <2> QED BY <1>3 DEF OneBootCall, Asks
<1>8. Asks(t, "boot") <=> (Asks(s, "boot") \/ c.who = "boot")
  BY <1>3, <1>4, <1>5 DEF Asks
<1>9. Exits(t) <=> (Exits(s) \/ c.to = NoWorkspace)
  BY <1>3, <1>4, <1>5 DEF Exits
<1>10. \A g : Numbered(s, g) /\ c.gen <= g => Numbered(t, g)
  BY <1>3 DEF Numbered
<1> QED BY <1>1, <1>6, <1>7, <1>8, <1>9, <1>10 DEF t

(* An answered call is gone.                                               *)
LEMMA CallGone ==
    ASSUME NEW s \in Seq(SetActiveCalls), NEW i \in DOMAIN s, OneBootCall(s)
    PROVE  LET t == RemoveAt(s, i) IN
           /\ t \in Seq(SetActiveCalls) /\ OneBootCall(t)
           /\ Asks(t, "boot") <=> (Asks(s, "boot") /\ s[i].who # "boot")
           /\ Exits(s) => (Exits(t) \/ s[i].to = NoWorkspace)
           /\ \A g : Numbered(s, g) => Numbered(t, g)
<1> DEFINE t == RemoveAt(s, i)
           place(k) == IF k < i THEN k ELSE k + 1
<1>1. /\ t \in Seq(SetActiveCalls)
      /\ \A k \in DOMAIN t : place(k) \in DOMAIN s \ {i} /\ t[k] = s[place(k)]
      /\ \A k, l \in DOMAIN t : place(k) = place(l) => k = l
      /\ \A j \in DOMAIN s \ {i} : \E k \in DOMAIN t : place(k) = j
  BY CallTaken
<1> HIDE DEF t, place
<1>2. OneBootCall(t)
  <2> SUFFICES ASSUME NEW k \in DOMAIN t, NEW l \in DOMAIN t, t[k].who = "boot", t[l].who = "boot"
               PROVE  k = l
    BY DEF OneBootCall
  <2>1. place(k) = place(l)
    BY <1>1 DEF OneBootCall
  <2> QED BY <1>1, <2>1
<1>3. Asks(t, "boot") <=> (Asks(s, "boot") /\ s[i].who # "boot")
  <2>1. ASSUME NEW k \in DOMAIN t, t[k].who = "boot"
        PROVE  Asks(s, "boot") /\ s[i].who # "boot"
    BY <1>1, <2>1 DEF Asks, OneBootCall
  <2>2. ASSUME NEW j \in DOMAIN s, s[j].who = "boot", s[i].who # "boot"
        PROVE  Asks(t, "boot")
    <3>1. PICK k \in DOMAIN t : place(k) = j
      BY <1>1, <2>2
    <3> QED BY <1>1, <2>2, <3>1 DEF Asks
  <2> QED BY <2>1, <2>2 DEF Asks
<1>4. ASSUME NEW j \in DOMAIN s, s[j].to = NoWorkspace, s[i].to # NoWorkspace
      PROVE  Exits(t)
  <2>1. PICK k \in DOMAIN t : place(k) = j
    BY <1>1, <1>4
  <2> QED BY <1>1, <1>4, <2>1 DEF Exits
<1>5. \A g : Numbered(s, g) => Numbered(t, g)
  BY <1>1 DEF Numbered
<1> QED BY <1>1, <1>2, <1>3, <1>4, <1>5 DEF t, Exits

(* A restarted bootstrap disowns the call of the one before.               *)
LEMMA CallsDisowned ==
    ASSUME NEW s \in Seq(SetActiveCalls), NEW t,
           t = [i \in DOMAIN s |->
                  IF s[i].who = "boot" THEN [s[i] EXCEPT !.who = "orphan"] ELSE s[i]]
    PROVE  /\ t \in Seq(SetActiveCalls) /\ OneBootCall(t) /\ ~ Asks(t, "boot")
           /\ Exits(t) <=> Exits(s)
           /\ \A g : Numbered(s, g) => Numbered(t, g)
<1>1. DOMAIN s = 1 .. Len(s) /\ Len(s) \in Nat /\ \A i \in 1 .. Len(s) : s[i] \in SetActiveCalls
  BY LenProperties
<1>2. \A i \in 1 .. Len(s) :
        /\ (IF s[i].who = "boot" THEN [s[i] EXCEPT !.who = "orphan"] ELSE s[i]) \in SetActiveCalls
        /\ (IF s[i].who = "boot" THEN [s[i] EXCEPT !.who = "orphan"] ELSE s[i]).who # "boot"
        /\ (IF s[i].who = "boot" THEN [s[i] EXCEPT !.who = "orphan"] ELSE s[i]).to = s[i].to
        /\ (IF s[i].who = "boot" THEN [s[i] EXCEPT !.who = "orphan"] ELSE s[i]).gen = s[i].gen
  BY <1>1 DEF SetActiveCalls
<1>3. /\ DOMAIN t = DOMAIN s
      /\ \A i \in DOMAIN t : t[i] \in SetActiveCalls /\ t[i].who # "boot" /\ t[i].to = s[i].to
                                          /\ t[i].gen = s[i].gen
  BY <1>1, <1>2
<1>4. t \in Seq(SetActiveCalls)
  <2>1. t = [i \in 1 .. Len(s) |-> t[i]]
    BY <1>1
  <2>2. \A i \in 1 .. Len(s) : t[i] \in SetActiveCalls
    BY <1>1, <1>3
  <2> QED BY <1>1, <2>1, <2>2, IsASeq
<1> QED BY <1>3, <1>4 DEF OneBootCall, Asks, Exits, Numbered

ShellSets ==
    /\ belongs \in [Workspaces -> Grades]
    /\ stored \in Workspaces \cup {NoWorkspace}
    /\ session \in Workspaces \cup {NoWorkspace, Pending}
    /\ unread \in BOOLEAN /\ adrift \in BOOLEAN /\ generation \in Nat
    /\ shellWork \in Nat /\ shellFaults \in Nat
ScreenSets ==
    /\ shell \in [workspaces : SUBSET Workspaces, activeId : Workspaces \cup {NoWorkspace},
                  activeRole : Grades, error : BOOLEAN]
    /\ boot \in [at : {"off", "list", "active", "role"}, found : SUBSET Workspaces,
                 session : Workspaces \cup {NoWorkspace}, id : Workspaces \cup {NoWorkspace}]
CallsHold ==
    /\ calls \in Seq(SetActiveCalls) /\ OneBootCall(calls)
    /\ boot.at = "active" <=> Asks(calls, "boot")
    /\ Numbered(calls, generation)
    /\ roleReads \subseteq [to : Workspaces \cup {NoWorkspace}, gen : Nat]
    /\ \A r \in roleReads : r.gen <= generation
BootHolds ==
    /\ boot.at # "off" => boot.session = session
    /\ boot.at \in {"active", "role"} => boot.id # NoWorkspace
    /\ unread \/ session = stored
    /\ shell.error => session # Pending

(* The shape of the shell, by what its parts are about.                    *)
LEMMA ShapeIs == ShellShape <=> ShellSets /\ ScreenSets /\ CallsHold /\ BootHolds
<1>1. ASSUME ShellShape PROVE ShellSets /\ ScreenSets /\ CallsHold /\ BootHolds
  <2>1. ShellSets
    BY <1>1 DEF ShellShape, ShellTypeOK, ShellSets
  <2>2. ScreenSets
    BY <1>1 DEF ShellShape, ScreenSets
  <2>3. CallsHold
    BY <1>1 DEF ShellShape, ShellTypeOK, CallsHold, OneBootCall, Asks, Numbered
  <2>4. BootHolds
    BY <1>1 DEF ShellShape, BootHolds
  <2> QED BY <2>1, <2>2, <2>3, <2>4
<1>2. ASSUME ShellSets, ScreenSets, CallsHold, BootHolds PROVE ShellShape
  <2>1. ShellTypeOK
    <3>1. \A x \in Workspaces \cup {NoWorkspace} : x \in 0 .. MaxWorkspaces
      BY ShellAssumption DEF Workspaces, NoWorkspace
    <3>2. /\ shell.workspaces \subseteq Workspaces /\ shell.activeId \in 0 .. MaxWorkspaces
          /\ shell.activeRole \in Grades /\ boot.at \in {"off", "list", "active", "role"}
      BY <1>2, <3>1 DEF ScreenSets
    <3>3. (boot.at = "active") = (\E i \in DOMAIN calls : calls[i].who = "boot")
      BY <1>2 DEF CallsHold, Asks
    <3> QED BY <1>2, <3>2, <3>3 DEF ShellTypeOK, ShellSets, CallsHold
  <2> QED BY <1>2, <2>1 DEF ShellShape, ShellSets, ScreenSets, CallsHold, BootHolds,
             OneBootCall, Numbered
<1> QED BY <1>1, <1>2

(* The session is not read yet, and nothing is under way.                  *)
LEMMA ShellBegins == ShellInit => ShellInv
<1> SUFFICES ASSUME ShellInit PROVE ShellInv
  OBVIOUS
<1>1. ShellSets
  <2>1. belongs \in [Workspaces -> Grades] /\ stored \in Workspaces \cup {NoWorkspace}
    BY ShellAssumption DEF ShellInit
  <2> QED BY <2>1 DEF ShellInit, ShellSets
<1>2. ScreenSets
  BY DEF ShellInit, ScreenSets, NoWorkspaces, IdleBoot, Grades
<1>3. CallsHold
  <2>1. calls \in Seq(SetActiveCalls) /\ DOMAIN calls = {}
    BY EmptySeq DEF ShellInit
  <2> QED BY <2>1 DEF ShellInit, CallsHold, OneBootCall, Asks, IdleBoot, Numbered
<1>4. BootHolds
  BY DEF ShellInit, BootHolds, NoWorkspaces, IdleBoot
<1>5. SessionFollows
  BY DEF ShellInit, SessionFollows, Mine, IdleBoot
<1>6. MenuHolds
  BY DEF ShellInit, MenuHolds, NoWorkspaces, IdleBoot, Shown
<1> QED BY <1>1, <1>2, <1>3, <1>4, <1>5, <1>6, ShapeIs DEF ShellInv

(* The invariant of the shell, in the parts the proofs cite.               *)
ShellIs == ShellSets /\ ScreenSets /\ CallsHold /\ BootHolds /\ SessionFollows /\ MenuHolds

(* A bootstrap starts over.                                                *)
LEMMA Restarts ==
    ASSUME ShellIs, NEW s \in Workspaces \cup {NoWorkspace}, Restart(s),
           session' = s, s = stored' \/ unread', ShellSets',
           UNCHANGED <<belongs, stored, roleReads, generation, adrift>>
    PROVE  ShellIs'
<1>1. /\ calls' \in Seq(SetActiveCalls) /\ OneBootCall(calls') /\ ~ Asks(calls', "boot")
      /\ Exits(calls') <=> Exits(calls)
      /\ Numbered(calls', generation)
  <2>1. calls \in Seq(SetActiveCalls) /\ Numbered(calls, generation)
    BY DEF ShellIs, CallsHold
  <2> QED BY <2>1, CallsDisowned DEF Restart
<1>2. ScreenSets'
  BY DEF ShellIs, ScreenSets, Restart
<1>3. CallsHold'
  <2>1. boot'.at # "active"
    BY DEF Restart
  <2>2. /\ roleReads' \subseteq [to : Workspaces \cup {NoWorkspace}, gen : Nat]
        /\ \A r \in roleReads' : r.gen <= generation'
        /\ generation' = generation
    BY DEF ShellIs, CallsHold
  <2> QED BY <1>1, <2>1, <2>2 DEF CallsHold
<1>4. BootHolds'
  <2>1. s # Pending
    BY ShellAssumption DEF Workspaces, NoWorkspace, Pending
  <2> QED BY <2>1 DEF BootHolds, Restart
<1>5. SessionFollows'
  BY <1>1 DEF ShellIs, SessionFollows, Restart, Mine, ExitUnderWay, Exits
<1>6. MenuHolds'
  BY DEF MenuHolds, Restart, Shown
<1> QED BY <1>2, <1>3, <1>4, <1>5, <1>6 DEF ShellIs

(* The session is read again, and what it says is loaded.                  *)
LEMMA SessionRead == ShellIs /\ RefetchSession => ShellIs'
<1> SUFFICES ASSUME ShellIs, RefetchSession PROVE ShellIs'
  OBVIOUS
<1>1. stored \in Workspaces \cup {NoWorkspace}
  BY DEF ShellIs, ShellSets
<1>2. ShellSets'
  BY <1>1 DEF ShellIs, ShellSets, RefetchSession, NoWork
<1> QED BY <1>1, <1>2, Restarts DEF RefetchSession

(* A bootstrap that failed is tried again.                                 *)
LEMMA BootRetried == ShellIs /\ RetryBootstrap => ShellIs'
<1> SUFFICES ASSUME ShellIs, RetryBootstrap PROVE ShellIs'
  OBVIOUS
<1>1. session \in Workspaces \cup {NoWorkspace} /\ (session = stored \/ unread)
  BY DEF ShellIs, ShellSets, BootHolds, RetryBootstrap
<1>2. ShellSets'
  BY <1>1 DEF ShellIs, ShellSets, RetryBootstrap, Works
<1> QED BY <1>1, <1>2, Restarts DEF RetryBootstrap

(* The list is read: a bootstrap goes on with the session's workspace, or  *)
(* tells the session of the first one.                                     *)
LEMMA WorkspacesRead == ShellIs /\ ReadWorkspaces => ShellIs'
<1> SUFFICES ASSUME ShellIs, ReadWorkspaces PROVE ShellIs'
  OBVIOUS
<1> DEFINE id == IF boot.session # NoWorkspace THEN boot.session ELSE Min(Mine)
<1>0. /\ boot.at = "list" /\ boot.session = session /\ session \in Workspaces \cup {NoWorkspace}
      /\ ~ Asks(calls, "boot") /\ calls \in Seq(SetActiveCalls) /\ OneBootCall(calls)
      /\ Numbered(calls, generation) /\ generation \in Nat
  BY DEF ShellIs, ShellSets, ReadWorkspaces, BootHolds, ScreenSets, CallsHold
<1>1. ShellSets'
  BY DEF ShellIs, ShellSets, ReadWorkspaces, NoWork
<1>2. CASE Mine = {}
  <2>1. boot' = IdleBoot /\ shell' = NoWorkspaces /\ UNCHANGED calls
    BY <1>2 DEF ReadWorkspaces
  <2>2. ScreenSets'
    BY <2>1 DEF ScreenSets, IdleBoot, NoWorkspaces, Grades
  <2>3. CallsHold'
    BY <1>0, <2>1 DEF ShellIs, CallsHold, IdleBoot, ReadWorkspaces
  <2>4. BootHolds'
    BY <2>1 DEF ShellIs, BootHolds, IdleBoot, NoWorkspaces, ReadWorkspaces
  <2>5. SessionFollows'
    <3> SUFFICES ASSUME ~ adrift, ~ unread, calls = << >>
                 PROVE  ShowsSession' /\ (stored = NoWorkspace \/ stored \in Mine \/ ExitUnderWay)
      BY <2>1 DEF ShellIs, SessionFollows, IdleBoot, ReadWorkspaces, ExitUnderWay, Mine
    <3>1. stored = NoWorkspace /\ session = stored
      <4>1. DOMAIN calls = {}
        OBVIOUS
      <4> QED BY <1>2, <4>1 DEF ShellIs, SessionFollows, ExitUnderWay, BootHolds
    <3>2. UNCHANGED <<session, belongs>>
      BY DEF ReadWorkspaces
    <3>3. Mine' = {} /\ RoleIn(NoWorkspace)' = "NONE"
      BY <1>2, <3>2, ShellAssumption DEF Mine, RoleIn, Workspaces, NoWorkspace
    <3> QED BY <2>1, <3>1, <3>2, <3>3 DEF ShowsSession, NoWorkspaces
  <2>6. MenuHolds'
    BY <2>1 DEF MenuHolds, IdleBoot, NoWorkspaces
  <2> QED BY <1>1, <2>2, <2>3, <2>4, <2>5, <2>6 DEF ShellIs
<1>3. CASE Mine # {}
  <2>0. id \in Workspaces
    BY <1>0, <1>3, FirstIsMine
  <2> DEFINE next == IF id # boot.session THEN "active" ELSE "role"
  <2>1. /\ UNCHANGED shell
        /\ boot' = [boot EXCEPT !.id = id, !.found = Mine, !.at = next]
        /\ calls' = IF id # boot.session THEN Append(calls, Call("boot", id, 0)) ELSE calls
    BY <1>3 DEF ReadWorkspaces
  <2>2. /\ boot'.at = next /\ boot'.id = id /\ boot'.found = Mine /\ boot'.session = boot.session
        /\ boot' \in [at : {"off", "list", "active", "role"}, found : SUBSET Workspaces,
                      session : Workspaces \cup {NoWorkspace}, id : Workspaces \cup {NoWorkspace}]
    <3>1. Mine \subseteq Workspaces
      BY DEF Mine
    <3> HIDE DEF id
    <3> QED BY <2>0, <2>1, <3>1 DEF ShellIs, ScreenSets
  <2>3. ScreenSets'
    BY <2>1, <2>2 DEF ShellIs, ScreenSets
  <2>4. CallsHold' /\ (Exits(calls) => Exits(calls')) /\ (next = "active" => calls' # << >>)
        /\ (calls # << >> => calls' # << >>)
    <3>1. CASE id # boot.session
      <4>1. Call("boot", id, 0) \in SetActiveCalls /\ Call("boot", id, 0).who = "boot"
            /\ Call("boot", id, 0).gen <= generation
        <5> HIDE DEF id
        <5> QED BY <1>0, <2>0 DEF Call, SetActiveCalls
      <4>2. /\ calls' \in Seq(SetActiveCalls) /\ calls' # << >> /\ OneBootCall(calls')
            /\ Asks(calls', "boot") /\ (Exits(calls) => Exits(calls'))
            /\ Numbered(calls', generation)
        <5> HIDE DEF id
        <5> QED BY <1>0, <2>1, <3>1, <4>1, CallSent
      <4> QED BY <2>2, <3>1, <4>2 DEF ShellIs, CallsHold, ReadWorkspaces
    <3>2. CASE id = boot.session
      <4>1. calls' = calls /\ next = "role"
        BY <2>1, <3>2
      <4> QED BY <1>0, <2>2, <4>1 DEF ShellIs, CallsHold, ReadWorkspaces
    <3> QED BY <3>1, <3>2
  <2>5. BootHolds'
    <3>1. id # NoWorkspace
      BY <2>0 DEF Workspaces, NoWorkspace
    <3>2. UNCHANGED <<session, unread, stored>>
      BY DEF ReadWorkspaces
    <3> HIDE DEF id, next
    <3> QED BY <1>0, <2>1, <2>2, <3>1, <3>2 DEF ShellIs, BootHolds
  <2>6. SessionFollows'
    <3>1. UNCHANGED <<adrift, stored, unread, belongs>>
      BY DEF ReadWorkspaces
    <3>2. boot'.at # "off" /\ (boot'.at = "role" => boot'.id = boot'.session)
      BY <2>2
    <3> HIDE DEF id, next
    <3> QED BY <2>4, <3>1, <3>2 DEF ShellIs, SessionFollows, ExitUnderWay, Exits, Mine
  <2>7. MenuHolds'
    <3>1. UNCHANGED <<belongs>> /\ ~ Shown'
      BY <2>2 DEF ReadWorkspaces, Shown
    <3> HIDE DEF id, next
    <3> QED BY <2>2, <3>1 DEF MenuHolds, Mine
  <2> QED BY <1>1, <2>3, <2>4, <2>5, <2>6, <2>7 DEF ShellIs
<1> QED BY <1>2, <1>3

(* The role is read: the shell shows the workspace, or an error.           *)
LEMMA OwnRoleRead == ShellIs /\ ReadOwnMembership => ShellIs'
<1> SUFFICES ASSUME ShellIs, ReadOwnMembership PROVE ShellIs'
  OBVIOUS
<1>0. /\ boot.at = "role" /\ boot.id \in Workspaces /\ boot.found \subseteq Workspaces
      /\ boot.session = session /\ session \in Workspaces \cup {NoWorkspace}
      /\ ~ Asks(calls, "boot") /\ session # Pending
  <2>1. boot.session # Pending
    BY ShellAssumption DEF ShellIs, ScreenSets, Workspaces, NoWorkspace, Pending
  <2> QED BY <2>1 DEF ShellIs, ReadOwnMembership, BootHolds, ScreenSets, CallsHold
<1>1. ShellSets'
  BY DEF ShellIs, ShellSets, ReadOwnMembership, NoWork
<1>2. boot' = IdleBoot /\ UNCHANGED <<belongs, stored, session, unread, calls, roleReads,
                                      generation, adrift>>
  BY DEF ReadOwnMembership, BootFailed
<1>3. CallsHold'
  BY <1>0, <1>2 DEF ShellIs, CallsHold, IdleBoot
<1>4. BootHolds'
  BY <1>0, <1>2 DEF ShellIs, BootHolds, IdleBoot
<1>5. CASE RoleIn(boot.id) = "NONE"
  <2>1. shell' = [NoWorkspaces EXCEPT !.error = TRUE]
    BY <1>5 DEF ReadOwnMembership, BootFailed
  <2>2. ScreenSets'
    BY <1>2, <2>1 DEF ScreenSets, IdleBoot, NoWorkspaces, Grades
  <2>3. SessionFollows'
    <3> SUFFICES ASSUME ~ adrift, ~ unread, calls = << >> PROVE FALSE
      BY <1>2 DEF ShellIs, SessionFollows, ExitUnderWay, Mine, IdleBoot
    <3>1. boot.id = stored /\ DOMAIN calls = {}
      BY <1>0 DEF ShellIs, SessionFollows, BootHolds
    <3>2. stored \in Mine
      BY <1>0, <3>1 DEF ShellIs, SessionFollows, ExitUnderWay, BootHolds
    <3> QED BY <1>0, <1>5, <3>1, <3>2 DEF Mine, RoleIn
  <2>4. MenuHolds'
    BY <1>2, <2>1 DEF MenuHolds, Shown, IdleBoot, NoWorkspaces
  <2> QED BY <1>1, <1>3, <1>4, <2>2, <2>3, <2>4 DEF ShellIs
<1>6. CASE RoleIn(boot.id) # "NONE"
  <2>1. shell' = [workspaces |-> boot.found, activeId |-> boot.id,
                  activeRole |-> belongs[boot.id], error |-> FALSE]
    BY <1>6 DEF ReadOwnMembership
  <2>2. belongs[boot.id] \in Grades /\ boot.id \in Mine /\ RoleIn(boot.id) = belongs[boot.id]
    BY <1>0, <1>6 DEF ShellIs, ShellSets, Mine, RoleIn
  <2>3. ScreenSets'
    BY <1>0, <1>2, <2>1, <2>2 DEF ScreenSets, IdleBoot
  <2>4. SessionFollows'
    <3> SUFFICES ASSUME ~ adrift, ~ unread PROVE ShowsSession'
      BY <1>2 DEF ShellIs, SessionFollows, ExitUnderWay, Mine, IdleBoot
    <3>1. boot.id = session
      BY <1>0 DEF ShellIs, SessionFollows
    <3>2. RoleIn(session)' = RoleIn(session) /\ Mine' = Mine
      BY <1>2 DEF RoleIn, Mine
    <3>3. session # NoWorkspace /\ Mine # {}
      BY <1>0, <2>2, <3>1 DEF Workspaces, NoWorkspace
    <3> QED BY <1>2, <2>1, <2>2, <3>1, <3>2, <3>3 DEF ShowsSession
  <2>5. MenuHolds'
    <3> SUFFICES ASSUME shellFaults' = 0
                 PROVE  /\ (shell'.workspaces \cup {shell'.activeId}) \ {NoWorkspace} \subseteq Mine'
                        /\ shell'.activeId \in Mine'
      BY <1>2 DEF MenuHolds, IdleBoot
    <3>1. Mine' = Mine /\ shellFaults = 0
      BY <1>2 DEF Mine, ReadOwnMembership, NoWork
    <3>2. boot.found \subseteq Mine
      BY <1>0, <3>1 DEF ShellIs, MenuHolds
    <3> QED BY <2>1, <2>2, <3>1, <3>2
  <2> QED BY <1>1, <1>3, <1>4, <2>3, <2>4, <2>5 DEF ShellIs
<1> QED BY <1>5, <1>6

(* A read of the bootstrap fails.                                          *)
LEMMA BootBreaks == ShellIs /\ BootReadFails => ShellIs'
<1> SUFFICES ASSUME ShellIs, BootReadFails PROVE ShellIs'
  OBVIOUS
<1>0. session # Pending /\ ~ Asks(calls, "boot")
  <2>1. boot.session # Pending
    BY ShellAssumption DEF ShellIs, ScreenSets, Workspaces, NoWorkspace, Pending
  <2> QED BY <2>1 DEF ShellIs, BootReadFails, BootHolds, CallsHold
<1>1. /\ boot' = IdleBoot /\ shell' = [NoWorkspaces EXCEPT !.error = TRUE] /\ adrift' = TRUE
      /\ UNCHANGED <<belongs, stored, session, unread, calls, roleReads, generation, shellWork>>
      /\ shellFaults' = shellFaults + 1
  BY DEF BootReadFails, BootFailed, Faults
<1>2. ShellSets'
  BY <1>1 DEF ShellIs, ShellSets
<1>3. ScreenSets'
  BY <1>1 DEF ScreenSets, IdleBoot, NoWorkspaces, Grades
<1>4. CallsHold'
  BY <1>0, <1>1 DEF ShellIs, CallsHold, IdleBoot
<1>5. BootHolds'
  BY <1>0, <1>1 DEF ShellIs, BootHolds, IdleBoot
<1>6. SessionFollows' /\ MenuHolds'
  BY <1>1 DEF SessionFollows, MenuHolds, Shown, ShellIs, ShellSets
<1> QED BY <1>2, <1>3, <1>4, <1>5, <1>6 DEF ShellIs

(* What follows an answered set-active call, whatever the answer.          *)
LEMMA CallOver ==
    ASSUME ShellIs, NEW i \in DOMAIN calls, calls' = RemoveAt(calls, i), Continue(calls[i]),
           UNCHANGED <<session, shell, generation>>,
           stored' = stored \/ unread', unread => unread'
    PROVE  /\ ScreenSets' /\ CallsHold' /\ BootHolds'
           /\ Exits(calls) => (Exits(calls') \/ calls[i].to = NoWorkspace)
           /\ boot'.at \in {"active", "role"} => boot.at \in {"active", "role"}
           /\ boot'.found = boot.found /\ boot'.id = boot.id /\ boot'.session = boot.session
           /\ boot'.at = "off" <=> boot.at = "off"
           /\ boot'.at = "role" => boot.at = "role" \/ calls[i].who = "boot"
           /\ calls[i] \in SetActiveCalls
<1> DEFINE c == calls[i]
<1>0. /\ calls \in Seq(SetActiveCalls) /\ OneBootCall(calls) /\ Numbered(calls, generation)
      /\ c \in SetActiveCalls
  <2>1. calls \in Seq(SetActiveCalls) /\ OneBootCall(calls) /\ Numbered(calls, generation)
    BY DEF ShellIs, CallsHold
  <2>2. c \in SetActiveCalls
    BY <2>1, LenProperties
  <2> QED BY <2>1, <2>2
<1>2. /\ calls' \in Seq(SetActiveCalls) /\ OneBootCall(calls')
      /\ Asks(calls', "boot") <=> (Asks(calls, "boot") /\ c.who # "boot")
      /\ Exits(calls) => (Exits(calls') \/ c.to = NoWorkspace)
      /\ Numbered(calls', generation)
  BY <1>0, CallGone
<1>3. c.who = "boot" => boot.at = "active"
  BY DEF ShellIs, CallsHold, Asks
<1>4. /\ boot' \in [at : {"off", "list", "active", "role"}, found : SUBSET Workspaces,
                    session : Workspaces \cup {NoWorkspace}, id : Workspaces \cup {NoWorkspace}]
      /\ boot'.at = IF c.who = "boot" THEN "role" ELSE boot.at
      /\ boot'.found = boot.found /\ boot'.id = boot.id /\ boot'.session = boot.session
  <2>1. boot' = IF c.who = "boot" THEN [boot EXCEPT !.at = "role"] ELSE boot
    BY DEF Continue
  <2> HIDE DEF c
  <2> QED BY <2>1 DEF ShellIs, ScreenSets
<1>5. /\ roleReads' \subseteq [to : Workspaces \cup {NoWorkspace}, gen : Nat]
      /\ \A r \in roleReads' : r.gen <= generation'
  <2>1. roleReads' \subseteq roleReads \cup {[to |-> c.to, gen |-> c.gen]}
    BY DEF Continue
  <2>2. c.to \in Workspaces \cup {NoWorkspace} /\ c.gen \in Nat /\ c.gen <= generation
    <3>1. c.gen <= generation
      BY <1>0 DEF Numbered
    <3> HIDE DEF c
    <3> QED BY <1>0, <3>1 DEF SetActiveCalls
  <2> HIDE DEF c
  <2> QED BY <2>1, <2>2 DEF ShellIs, CallsHold
<1>6. ScreenSets'
  BY <1>4 DEF ShellIs, ScreenSets
<1>7. CallsHold'
  <2>1. boot'.at = "active" <=> Asks(calls', "boot")
    BY <1>2, <1>3, <1>4 DEF ShellIs, CallsHold
  <2> HIDE DEF c
  <2> QED BY <1>2, <1>5, <2>1 DEF CallsHold
<1>8. BootHolds'
  <2> HIDE DEF c
  <2> QED BY <1>3, <1>4 DEF ShellIs, BootHolds
<1>9. boot'.at \in {"active", "role"} => boot.at \in {"active", "role"}
  <2> HIDE DEF c
  <2> QED BY <1>3, <1>4
<1> QED BY <1>0, <1>2, <1>3, <1>4, <1>6, <1>7, <1>8, <1>9

(* The server answers a set-active call: it is the session's workspace now,*)
(* and the session is to be read again.                                    *)
LEMMA CallServed ==
    ASSUME ShellIs, NEW i \in DOMAIN calls, ServeSetActive(i)
    PROVE  ShellIs'
<1> DEFINE c == calls[i]
           accepted == c.to = NoWorkspace \/ RoleIn(c.to) # "NONE"
<1>1. /\ calls' = RemoveAt(calls, i) /\ Continue(c)
      /\ stored' = IF accepted THEN c.to ELSE stored
      /\ unread' = (unread \/ accepted)
      /\ adrift' = (adrift \/ i # 1 \/ ~accepted)
      /\ UNCHANGED <<belongs, session, shell, generation, shellWork, shellFaults>>
  BY DEF ServeSetActive, NoWork
<1>2. stored' = stored \/ unread'
  BY <1>1
<1>3. /\ ScreenSets' /\ CallsHold' /\ BootHolds'
      /\ Exits(calls) => (Exits(calls') \/ c.to = NoWorkspace)
      /\ boot'.at \in {"active", "role"} => boot.at \in {"active", "role"}
      /\ boot'.found = boot.found
      /\ boot'.at = "off" <=> boot.at = "off"
      /\ c \in SetActiveCalls
  <2>1. /\ calls' = RemoveAt(calls, i) /\ Continue(calls[i])
        /\ UNCHANGED <<session, shell, generation>> /\ (unread => unread')
    BY <1>1
  <2> HIDE DEF c, accepted
  <2> QED BY <1>2, <2>1, CallOver DEF c
<1>4. c.to \in Workspaces \cup {NoWorkspace}
  <2> HIDE DEF c
  <2> QED BY <1>3 DEF SetActiveCalls
<1> HIDE DEF c
<1>5. ShellSets'
  BY <1>1, <1>4 DEF ShellIs, ShellSets
<1>6. SessionFollows'
  <2> SUFFICES ASSUME ~ adrift' PROVE unread' /\ (stored' = NoWorkspace \/ stored' \in Mine')
    BY DEF SessionFollows
  <2>1. accepted /\ stored' = c.to
    BY <1>1
  <2>2. c.to \in Mine \/ c.to = NoWorkspace
    BY <1>4, <2>1 DEF Mine, RoleIn
  <2> QED BY <1>1, <2>1, <2>2 DEF Mine
<1>7. MenuHolds'
  <2> SUFFICES ASSUME shellFaults = 0
               PROVE  /\ boot'.at \in {"active", "role"} => boot'.found \subseteq Mine'
                      /\ Shown' => \/ unread' \/ ExitUnderWay'
                                   \/ (shell'.workspaces \cup {shell'.activeId}) \ {NoWorkspace} \subseteq Mine'
                      /\ Shown' /\ shellWork' = 0 => shell'.activeId \in Mine' \cup {NoWorkspace}
    BY <1>1 DEF MenuHolds
  <2>1. Mine' = Mine /\ (Shown' <=> Shown)
    BY <1>1, <1>3 DEF Mine, Shown
  <2>2. ExitUnderWay => ExitUnderWay' \/ unread'
    BY <1>1, <1>3 DEF ExitUnderWay, Exits
  <2> QED BY <1>1, <1>3, <2>1, <2>2 DEF ShellIs, MenuHolds
<1> QED BY <1>3, <1>5, <1>6, <1>7 DEF ShellIs

(* Or the call fails.                                                      *)
LEMMA CallFails ==
    ASSUME ShellIs, NEW i \in DOMAIN calls, SetActiveFails(i)
    PROVE  ShellIs'
<1>1. /\ calls' = RemoveAt(calls, i) /\ Continue(calls[i]) /\ adrift' = TRUE
      /\ UNCHANGED <<belongs, stored, session, unread, shell, generation, shellWork>>
      /\ shellFaults' = shellFaults + 1
  BY DEF SetActiveFails, Faults
<1>2. ScreenSets' /\ CallsHold' /\ BootHolds'
  BY <1>1, CallOver
<1>3. ShellSets'
  BY <1>1 DEF ShellIs, ShellSets
<1>4. SessionFollows' /\ MenuHolds'
  BY <1>1 DEF SessionFollows, MenuHolds, ShellIs, ShellSets
<1> QED BY <1>2, <1>3, <1>4 DEF ShellIs

(* The role a switch waited for comes.                                     *)
LEMMA RoleComes ==
    ASSUME ShellIs, NEW r \in roleReads, ReadSwitchedRole(r) \/ SwitchReadFails(r)
    PROVE  ShellIs'
<1>1. /\ r \in [to : Workspaces \cup {NoWorkspace}, gen : Nat]
      /\ \A w : RoleIn(w) \in Grades
  BY DEF ShellIs, CallsHold, ShellSets, RoleIn, Grades
<1>2. PICK g \in Grades : SwitchAnswered(r, g) /\ (g = RoleIn(r.to) \/ adrift')
  <2>1. "NONE" \in Grades
    BY DEF Grades
  <2> QED BY <1>1, <2>1 DEF ReadSwitchedRole, SwitchReadFails
<1>3. /\ roleReads' = roleReads \ {r}
      /\ UNCHANGED <<belongs, stored, session, unread, boot, calls, generation>>
      /\ shell' = IF r.gen = generation THEN [shell EXCEPT !.activeRole = g] ELSE shell
      /\ adrift \/ (r.gen = generation /\ r.to # shell.activeId) => adrift'
      /\ adrift' \in BOOLEAN
      /\ shellWork' \in Nat /\ shellFaults' \in Nat
      /\ shellFaults' = 0 => shellFaults = 0
      /\ shellWork' = shellWork
  <2>1. /\ roleReads' = roleReads \ {r}
        /\ UNCHANGED <<belongs, stored, session, unread, boot, calls, generation>>
        /\ shell' = IF r.gen = generation THEN [shell EXCEPT !.activeRole = g] ELSE shell
    BY <1>2 DEF SwitchAnswered
  <2>2. adrift \in BOOLEAN /\ shellWork \in Nat /\ shellFaults \in Nat
    BY DEF ShellIs, ShellSets
  <2>3. CASE ReadSwitchedRole(r)
    <3>1. /\ adrift' = (adrift \/ (r.gen = generation /\ r.to # shell.activeId))
          /\ shellWork' = shellWork /\ shellFaults' = shellFaults
      BY <2>3 DEF ReadSwitchedRole, NoWork
    <3>2. adrift' \in BOOLEAN
      BY <3>1
    <3> QED BY <2>1, <2>2, <3>1, <3>2
  <2>4. CASE SwitchReadFails(r)
    <3>1. adrift' = TRUE /\ shellWork' = shellWork /\ shellFaults' = shellFaults + 1
      BY <2>4 DEF SwitchReadFails, Faults
    <3> QED BY <2>1, <2>2, <3>1
  <2> QED BY <2>3, <2>4
<1>4. ShellSets'
  BY <1>3 DEF ShellIs, ShellSets
<1>5. /\ ScreenSets'
      /\ shell'.workspaces = shell.workspaces /\ shell'.activeId = shell.activeId
      /\ shell'.error = shell.error
      /\ shell'.activeRole = IF r.gen = generation THEN g ELSE shell.activeRole
  BY <1>3 DEF ShellIs, ScreenSets
<1>6. CallsHold'
  BY <1>3 DEF ShellIs, CallsHold
<1>7. BootHolds'
  BY <1>3, <1>5 DEF ShellIs, BootHolds
<1>8. SessionFollows'
  <2>1. Mine' = Mine /\ (ExitUnderWay' <=> ExitUnderWay) /\ RoleIn(session)' = RoleIn(session)
    BY <1>3 DEF Mine, ExitUnderWay, RoleIn
  <2>2. ASSUME ShowsSession, ~ adrift' PROVE ShowsSession'
    <3>1. r.gen = generation => g = RoleIn(shell.activeId)
      BY <1>2, <1>3, <2>2
    <3> QED BY <1>3, <1>5, <2>1, <2>2, <3>1 DEF ShowsSession
  <2>3. ~ adrift' => ~ adrift
    BY <1>3
  <2>4. ASSUME ~ adrift' PROVE unread \/ calls # << >> \/ boot.at # "off" \/ ShowsSession'
    BY <2>2, <2>3, <2>4 DEF ShellIs, SessionFollows
  <2> QED BY <1>3, <2>1, <2>3, <2>4 DEF ShellIs, SessionFollows
<1>9. MenuHolds'
  <2>1. Mine' = Mine /\ (ExitUnderWay' <=> ExitUnderWay) /\ (Shown' <=> Shown)
    BY <1>3, <1>5 DEF Mine, ExitUnderWay, Shown
  <2> QED BY <1>3, <1>5, <2>1 DEF ShellIs, MenuHolds
<1> QED BY <1>4, <1>5, <1>6, <1>7, <1>8, <1>9 DEF ShellIs

(* A call is sent from the page.                                           *)
LEMMA CallSentHere ==
    ASSUME ShellIs, NEW c \in SetActiveCalls, c.who # "boot", c.gen <= generation',
           calls' = Append(calls, c), generation' \in Nat, generation <= generation',
           UNCHANGED <<boot, roleReads>>
    PROVE  /\ CallsHold' /\ calls' # << >>
           /\ Exits(calls') <=> (Exits(calls) \/ c.to = NoWorkspace)
<1>1. /\ calls \in Seq(SetActiveCalls) /\ OneBootCall(calls)
      /\ Numbered(calls, generation) /\ generation \in Nat
  BY DEF ShellIs, CallsHold, ShellSets
<1>2. Numbered(calls, generation')
  <2>1. \A i \in DOMAIN calls : calls[i].gen \in Nat
    <3>1. \A i \in DOMAIN calls : calls[i] \in SetActiveCalls
      BY <1>1, LenProperties
    <3> QED BY <3>1 DEF SetActiveCalls
  <2> QED BY <1>1, <2>1 DEF Numbered
<1>3. /\ calls' \in Seq(SetActiveCalls) /\ calls' # << >> /\ OneBootCall(calls')
      /\ Asks(calls', "boot") <=> Asks(calls, "boot")
      /\ Exits(calls') <=> (Exits(calls) \/ c.to = NoWorkspace)
      /\ Numbered(calls', generation')
  BY <1>1, <1>2, CallSent
<1>4. \A r \in roleReads' : r.gen <= generation'
  BY <1>1 DEF ShellIs, CallsHold
<1> QED BY <1>3, <1>4 DEF ShellIs, CallsHold

(* The user switches the workspace.                                        *)
LEMMA SwitchMade == ASSUME ShellIs, NEW w, onSwitch(w) PROVE ShellIs'
<1> DEFINE c == Call("switch", w, generation + 1)
<1>0. /\ w \in Workspaces /\ w \in shell.workspaces /\ Shown
      /\ generation \in Nat /\ shellWork \in Nat
  BY DEF onSwitch, Switchable, ShellIs, ShellSets, ScreenSets
<1>1. /\ generation' = generation + 1
      /\ shell' = [shell EXCEPT !.activeId = w]
      /\ calls' = Append(calls, c)
      /\ UNCHANGED <<belongs, stored, session, unread, boot, roleReads, adrift, shellFaults>>
      /\ shellWork' = shellWork + 1
  BY DEF onSwitch, Works
<1>2. c \in SetActiveCalls /\ c.who # "boot" /\ c.gen <= generation' /\ c.to # NoWorkspace
  BY <1>0, <1>1 DEF SetActiveCalls, Call, Workspaces, NoWorkspace
<1> HIDE DEF c
<1>3. CallsHold' /\ calls' # << >> /\ (Exits(calls') <=> Exits(calls))
  <2>1. generation' \in Nat /\ generation <= generation'
    BY <1>0, <1>1
  <2> QED BY <1>1, <1>2, <2>1, CallSentHere
<1>4. ShellSets'
  BY <1>0, <1>1 DEF ShellIs, ShellSets
<1>5. /\ ScreenSets' /\ shell'.workspaces = shell.workspaces /\ shell'.error = shell.error
      /\ shell'.activeId = w
  BY <1>0, <1>1 DEF ShellIs, ScreenSets
<1>6. BootHolds'
  BY <1>1, <1>5 DEF ShellIs, BootHolds
<1>7. SessionFollows'
  BY <1>1, <1>3 DEF ShellIs, SessionFollows, ExitUnderWay, Exits, Mine
<1>8. MenuHolds'
  <2>1. Mine' = Mine /\ (ExitUnderWay' <=> ExitUnderWay)
    BY <1>1, <1>3 DEF Mine, ExitUnderWay, Exits
  <2>2. shellWork' # 0
    BY <1>0, <1>1
  <2> QED BY <1>0, <1>1, <1>5, <2>1, <2>2 DEF ShellIs, MenuHolds
<1> QED BY <1>3, <1>4, <1>5, <1>6, <1>7, <1>8 DEF ShellIs

(* The user leaves or deletes the workspace, and the session is told.      *)
LEMMA EndedHere == ASSUME ShellIs, LeaveWorkspace \/ DeleteWorkspace PROVE ShellIs'
<1> DEFINE c == Call("exit", NoWorkspace, 0)
           w == shell.activeId
<1>0. Shown /\ w \in Workspaces /\ shellWork \in Nat /\ generation \in Nat
  <2>1. shell.activeId \in Workspaces \cup {NoWorkspace}
    BY DEF ShellIs, ScreenSets
  <2> QED BY <2>1 DEF LeaveWorkspace, DeleteWorkspace, Deletable, ShellIs, ShellSets
<1>1. /\ belongs' = [belongs EXCEPT ![w] = "NONE"]
      /\ calls' = Append(calls, c)
      /\ UNCHANGED <<stored, session, unread, shell, boot, roleReads, generation, adrift,
                     shellFaults>>
      /\ shellWork' = shellWork + 1
  BY DEF LeaveWorkspace, DeleteWorkspace, EndsHere, Works
<1>2. c \in SetActiveCalls /\ c.who # "boot" /\ c.gen <= generation' /\ c.to = NoWorkspace
  BY <1>0, <1>1 DEF SetActiveCalls, Call
<1> HIDE DEF c, w
<1>3. CallsHold' /\ calls' # << >> /\ Exits(calls')
  BY <1>0, <1>1, <1>2, CallSentHere
<1>4. ShellSets'
  BY <1>0, <1>1 DEF ShellIs, ShellSets, Grades
<1>5. ScreenSets' /\ BootHolds'
  BY <1>1 DEF ShellIs, ScreenSets, BootHolds
<1>6. SessionFollows'
  BY <1>1, <1>3 DEF ShellIs, SessionFollows, ExitUnderWay, Exits
<1>7. MenuHolds'
  BY <1>0, <1>1, <1>3 DEF MenuHolds, ExitUnderWay, Exits, Shown
<1> QED BY <1>3, <1>4, <1>5, <1>6, <1>7 DEF ShellIs

(* A membership ends, and the session is not told.                         *)
LEMMA EndedElsewhere ==
    ASSUME ShellIs, ExitAnswerLost \/ \E w \in Workspaces : RemovedElsewhere(w)
    PROVE  ShellIs'
<1>1. PICK w : belongs' = [belongs EXCEPT ![w] = "NONE"]
  BY DEF ExitAnswerLost, RemovedElsewhere
<1>2. /\ adrift' = TRUE /\ shellFaults' = shellFaults + 1
      /\ UNCHANGED <<stored, session, unread, shell, boot, calls, roleReads, generation,
                     shellWork>>
  BY DEF ExitAnswerLost, RemovedElsewhere, Faults
<1>3. ShellSets'
  <2>1. belongs \in [Workspaces -> Grades] /\ "NONE" \in Grades
    BY DEF ShellIs, ShellSets, Grades
  <2>2. belongs' \in [Workspaces -> Grades]
    BY <1>1, <2>1
  <2> QED BY <1>2, <2>2 DEF ShellIs, ShellSets
<1>4. ScreenSets' /\ CallsHold' /\ BootHolds'
  BY <1>2 DEF ShellIs, ScreenSets, CallsHold, BootHolds
<1>5. SessionFollows' /\ MenuHolds'
  BY <1>2 DEF ShellIs, ShellSets, SessionFollows, MenuHolds
<1> QED BY <1>3, <1>4, <1>5 DEF ShellIs

(* A workspace is founded.                                                 *)
LEMMA WorkspaceFounded == ASSUME ShellIs, CreateWorkspace PROVE ShellIs'
<1> DEFINE w == MaxWorkspaces
           c == Call("new", w, 0)
<1>0. Shown /\ w \in Workspaces /\ shellWork \in Nat /\ generation \in Nat
  BY ShellAssumption DEF CreateWorkspace, Workspaces, ShellIs, ShellSets
<1>1. /\ belongs' = [belongs EXCEPT ![w] = "OWNER"]
      /\ calls' = Append(calls, c)
      /\ UNCHANGED <<stored, session, unread, shell, boot, roleReads, generation, adrift,
                     shellFaults>>
      /\ shellWork' = shellWork + 1
  BY DEF CreateWorkspace, Works
<1>2. c \in SetActiveCalls /\ c.who # "boot" /\ c.gen <= generation' /\ c.to # NoWorkspace
  BY <1>0, <1>1 DEF SetActiveCalls, Call, Workspaces, NoWorkspace
<1> HIDE DEF c, w
<1>3. CallsHold' /\ calls' # << >> /\ (Exits(calls') <=> Exits(calls))
  BY <1>0, <1>1, <1>2, CallSentHere
<1>4. ShellSets'
  BY <1>0, <1>1 DEF ShellIs, ShellSets, Grades
<1>5. ScreenSets' /\ BootHolds'
  BY <1>1 DEF ShellIs, ScreenSets, BootHolds
<1>6. Mine \subseteq Mine'
  BY <1>0, <1>1 DEF ShellIs, ShellSets, Mine
<1>7. SessionFollows'
  BY <1>1, <1>3, <1>6 DEF ShellIs, SessionFollows, ExitUnderWay, Exits
<1>8. MenuHolds'
  <2>1. shellWork' # 0 /\ boot.at = "off"
    BY <1>0, <1>1 DEF Shown
  <2>2. ExitUnderWay => ExitUnderWay'
    BY <1>3 DEF ExitUnderWay, Exits
  <2> QED BY <1>0, <1>1, <1>6, <2>1, <2>2 DEF ShellIs, MenuHolds
<1> QED BY <1>3, <1>4, <1>5, <1>7, <1>8 DEF ShellIs

(* Every step of the shell keeps what holds of it.                         *)
LEMMA ShellKept == ShellIs /\ ShellNext => ShellIs'
<1> SUFFICES ASSUME ShellIs, ShellNext PROVE ShellIs'
  OBVIOUS
<1>1. CASE Answering
  BY <1>1, SessionRead, WorkspacesRead, OwnRoleRead, CallServed, RoleComes DEF Answering
<1>2. CASE RetryBootstrap \/ BootReadFails
  BY <1>2, BootRetried, BootBreaks
<1>3. CASE \E i \in DOMAIN calls : SetActiveFails(i)
  BY <1>3, CallFails
<1>4. CASE \E r \in roleReads : SwitchReadFails(r)
  BY <1>4, RoleComes
<1>5. CASE \E w \in Workspaces : onSwitch(w)
  BY <1>5, SwitchMade
<1>6. CASE ExitAnswerLost \/ \E w \in Workspaces : RemovedElsewhere(w)
  BY <1>6, EndedElsewhere
<1>7. CASE LeaveWorkspace \/ DeleteWorkspace \/ CreateWorkspace
  BY <1>7, EndedHere, WorkspaceFounded
<1> QED BY <1>1, <1>2, <1>3, <1>4, <1>5, <1>6, <1>7 DEF ShellNext

(* What counts only what the user did or what failed leaves it alone.      *)
LEMMA ShellLeft ==
    ASSUME ShellIs, UNCHANGED shellRest, shellWork' \in Nat, shellFaults' \in Nat,
           shellFaults' = 0 => shellFaults = 0, shellWork' = 0 => shellWork = 0
    PROVE  ShellIs'
<1>1. UNCHANGED <<belongs, stored, session, unread, shell, boot, calls, roleReads, generation,
                  adrift>>
  BY DEF shellRest
<1>2. ShellSets' /\ ScreenSets'
  BY <1>1 DEF ShellIs, ShellSets, ScreenSets
<1>3. CallsHold' /\ BootHolds'
  BY <1>1 DEF ShellIs, CallsHold, BootHolds
<1>4. SessionFollows'
  BY <1>1 DEF ShellIs, SessionFollows, ExitUnderWay, ShowsSession, RoleIn, Mine
<1>5. MenuHolds'
  BY <1>1 DEF ShellIs, MenuHolds, Shown, Mine, ExitUnderWay
<1> QED BY <1>2, <1>3, <1>4, <1>5 DEF ShellIs

(* A list without a row lists nothing it did not.                          *)
LEMMA WithoutKept ==
    ASSUME NEW S, NEW s \in Seq(S), NEW r
    PROVE  Without(s, r) \in Seq(S) /\ Elements(Without(s, r)) \subseteq Elements(s)
<1> DEFINE kept == {i \in DOMAIN s : s[i] # r}
           below(i) == {j \in kept : j < i}
           at(k) == CHOOSE i \in kept : Cardinality(below(i)) = k - 1
           n == Cardinality(kept)
           t == [k \in 1 .. n |-> s[at(k)]]
           f == [i \in kept |-> Cardinality(below(i)) + 1]
<1>1. DOMAIN s = 1 .. Len(s) /\ Len(s) \in Nat /\ \A i \in 1 .. Len(s) : s[i] \in S
  BY LenProperties
<1>2. Without(s, r) = t
  BY DEF Without
<1>3. IsFiniteSet(kept) /\ n \in Nat /\ kept \subseteq 1 .. Len(s)
  <2>1. IsFiniteSet(1 .. Len(s)) /\ kept \in SUBSET (1 .. Len(s))
    BY <1>1, FS_Interval
  <2>2. IsFiniteSet(kept)
    BY <2>1, FS_Subset
  <2> QED BY <2>1, <2>2, FS_CardinalityType
<1>4. ASSUME NEW i \in kept
      PROVE  IsFiniteSet(below(i)) /\ Cardinality(below(i)) \in Nat /\ Cardinality(below(i)) < n
  <2>1. below(i) \in SUBSET kept /\ i \notin below(i)
    BY <1>3
  <2>2. /\ IsFiniteSet(below(i)) /\ Cardinality(below(i)) <= n
        /\ n = Cardinality(below(i)) => kept = below(i)
    <3> HIDE DEF kept, below
    <3> QED BY <1>3, <2>1, FS_Subset
  <2>3. Cardinality(below(i)) \in Nat
    BY <2>2, FS_CardinalityType
  <2> HIDE DEF kept, below
  <2> QED BY <1>3, <2>1, <2>2, <2>3
<1>5. ASSUME NEW i \in kept, NEW j \in kept, i < j PROVE Cardinality(below(i)) < Cardinality(below(j))
  <2>1. below(i) \in SUBSET below(j) /\ i \in below(j) /\ i \notin below(i)
    BY <1>1, <1>3, <1>5
  <2>2. /\ Cardinality(below(i)) <= Cardinality(below(j))
        /\ Cardinality(below(j)) = Cardinality(below(i)) => below(j) = below(i)
    <3>1. IsFiniteSet(below(j))
      BY <1>4
    <3> HIDE DEF below
    <3> QED BY <2>1, <3>1, FS_Subset
  <2>3. Cardinality(below(i)) \in Nat /\ Cardinality(below(j)) \in Nat
    BY <1>4
  <2> HIDE DEF below, kept
  <2> QED BY <2>1, <2>2, <2>3
<1>6. f \in Injection(kept, 1 .. n)
  <2>1. f \in [kept -> 1 .. n] /\ DOMAIN f = kept
    <3>1. \A i \in kept : Cardinality(below(i)) + 1 \in 1 .. n
      <4> HIDE DEF kept, below
      <4> QED BY <1>3, <1>4
    <3> HIDE DEF kept, below
    <3> QED BY <3>1
  <2>2. ASSUME NEW i \in kept, NEW j \in kept, f[i] = f[j] PROVE i = j
    <3>1. i \in Int /\ j \in Int
      BY <1>1, <1>3
    <3>2. Cardinality(below(i)) = Cardinality(below(j))
      <4>1. Cardinality(below(i)) \in Nat /\ Cardinality(below(j)) \in Nat
        BY <1>4
      <4>2. Cardinality(below(i)) + 1 = Cardinality(below(j)) + 1
        BY <2>2
      <4> HIDE DEF kept, below
      <4> QED BY <4>1, <4>2
    <3>3. ~ (i < j) /\ ~ (j < i)
      <4>1. Cardinality(below(i)) \in Nat
        BY <1>4
      <4> HIDE DEF kept, below
      <4> QED BY <1>5, <3>2, <4>1
    <3> HIDE DEF kept
    <3> QED BY <3>1, <3>3
  <2> HIDE DEF f, kept, n
  <2> QED BY <2>1, <2>2 DEF Injection, IsInjective
<1>7. f \in Surjection(kept, 1 .. n)
  <2>1. IsFiniteSet(1 .. n) /\ Cardinality(1 .. n) = n
    BY <1>3, FS_Interval
  <2>2. Cardinality(kept) = Cardinality(1 .. n)
    BY <2>1
  <2> HIDE DEF f, kept, n
  <2> QED BY <1>6, <2>1, <2>2, FS_Injection
<1>8. ASSUME NEW k \in 1 .. n PROVE at(k) \in kept
  <2>1. PICK i \in kept : f[i] = k
    <3> HIDE DEF f, kept, n
    <3> QED BY <1>7 DEF Surjection
  <2>2. Cardinality(below(i)) \in Nat
    BY <1>4
  <2>3. Cardinality(below(i)) + 1 = k
    BY <2>1
  <2>4. Cardinality(below(i)) = k - 1
    <3> HIDE DEF kept, below, n
    <3> QED BY <2>2, <2>3
  <2> HIDE DEF kept, below
  <2> QED BY <2>4
<1>9. \A k \in 1 .. n : s[at(k)] \in S /\ s[at(k)] \in Elements(s)
  <2> TAKE k \in 1 .. n
  <2>1. at(k) \in 1 .. Len(s)
    BY <1>3, <1>8
  <2> HIDE DEF at, n
  <2> QED BY <1>1, <2>1 DEF Elements
<1>10. t \in Seq(S)
  <2> HIDE DEF at, n
  <2> QED BY <1>3, <1>9, IsASeq
<1>11. Elements(t) \subseteq Elements(s)
  <2>1. DOMAIN t = 1 .. n /\ \A k \in 1 .. n : t[k] = s[at(k)]
    OBVIOUS
  <2> HIDE DEF t, at, n
  <2> QED BY <1>9, <2>1 DEF Elements
<1> HIDE DEF t
<1> QED BY <1>2, <1>10, <1>11

(* A mounted list is the active workspace's, by the right to manage it.    *)
LEMMA MountedHere ==
    ASSUME ShellIs, ListsShape, MountHolds, view.phase # "off"
    PROVE  /\ Shown /\ screen # "none" /\ view.of = shell.activeId
           /\ view.of \in Workspaces /\ view.of # NoWorkspace
           /\ view.managed <=> (screen = "members" /\ Manages(shell.activeRole))
<1>1. Shown /\ screen # "none" /\ shell.activeId # NoWorkspace
  BY DEF MountHolds
<1>2. <<view.of, view.managed>> = LoadKey(shell)
  BY <1>1 DEF MountHolds
<1>3. view.of = shell.activeId /\ view.managed = (screen = "members" /\ Manages(shell.activeRole))
  BY <1>2 DEF LoadKey
<1>4. shell.activeId \in Workspaces \cup {NoWorkspace}
  BY DEF ShellIs, ScreenSets
<1> QED BY <1>1, <1>3, <1>4

(* What the list is expected to be does not change.                        *)
LEMMA ListCarried ==
    ASSUME ListHolds, Astray => Astray',
           screen' = screen, Gone' = Gone, Coming' = Coming, Leaving' \subseteq Leaving,
           view'.phase = "ready" =>
              /\ view.phase = "ready" /\ view'.list = view.list
              /\ view'.of = view.of /\ view'.managed = view.managed
              /\ rows'[view.of] = rows[view.of]
    PROVE  ListHolds'
<1> SUFFICES ASSUME view'.phase = "ready", ~ Astray' PROVE ListHolds'
  BY DEF ListHolds
<1>1. /\ view.phase = "ready" /\ ~ Astray /\ view'.list = view.list
      /\ view'.of = view.of /\ view'.managed = view.managed
      /\ rows'[view'.of] = rows[view.of]
  OBVIOUS
<1>2. Hidden(view.managed)' = Hidden(view.managed)
  BY <1>1 DEF Hidden
<1>3. CASE Hidden(view.managed)
  BY <1>1, <1>2, <1>3 DEF ListHolds
<1>4. CASE ~ Hidden(view.managed)
  <2> DEFINE there == rows[view.of]
  <2>1. /\ Distinct(view.list)
        /\ Coming \cap (Elements(view.list) \cup Leaving) = {}
        /\ Elements(there) = (Elements(view.list) \ Gone) \cup Coming
        /\ \A x, y \in Elements(there) : Prior(there, x, y) <=> Precedes(x, y)
    BY <1>1, <1>4 DEF ListHolds
  <2>2. \A x, y : Precedes(x, y)' <=> Precedes(x, y)
    BY <1>1 DEF Precedes
  <2>3. /\ Distinct(view'.list)
        /\ Coming' \cap (Elements(view'.list) \cup Leaving') = {}
        /\ Elements(rows'[view'.of]) = (Elements(view'.list) \ Gone') \cup Coming'
    BY <1>1, <2>1
  <2>4. \A x, y \in Elements(rows'[view'.of]) : Prior(rows'[view'.of], x, y) <=> Precedes(x, y)'
    BY <1>1, <2>1, <2>2
  <2> QED BY <1>2, <1>4, <2>3, <2>4 DEF ListHolds
<1> QED BY <1>3, <1>4

(* A load starts: nothing that was asked before is of its turn.            *)
LEMMA ReloadIs ==
    ASSUME NEW v \in ListViews, NEW of \in Workspaces \cup {NoWorkspace}, NEW managed \in BOOLEAN,
           Reload(v, of, managed)
    PROVE  /\ view' \in ListViews /\ load' \in ListReads
           /\ line' \in [role : Grades, pending : BOOLEAN, confirming : BOOLEAN]
           /\ view'.phase = "loading" /\ view'.of = of /\ view'.managed = managed
           /\ view'.list = v.list /\ view'.turn = v.turn + 1
           /\ load'.at = "asked" /\ load'.of = of /\ load'.managed = managed /\ load'.list = << >>
<1>1. "NONE" \in Grades /\ << >> \in Seq(RowSet)
  BY EmptySeq DEF Grades
<1>2. view' = [v EXCEPT !.phase = "loading", !.of = of, !.managed = managed, !.turn = @ + 1]
  BY DEF Reload
<1>3. /\ view' \in ListViews /\ view'.phase = "loading" /\ view'.of = of /\ view'.managed = managed
      /\ view'.list = v.list /\ view'.turn = v.turn + 1
  <2>1. v.turn \in Nat
    BY DEF ListViews
  <2>2. v.turn + 1 \in Nat
    BY <2>1
  <2>3. view' = [v EXCEPT !.phase = "loading", !.of = of, !.managed = managed, !.turn = v.turn + 1]
    BY <1>2
  <2> QED BY <2>2, <2>3 DEF ListViews
<1>4. load' = [NoLoad EXCEPT !.at = "asked", !.of = of, !.managed = managed]
  BY DEF Reload, Ask
<1>5. /\ load' \in ListReads /\ load'.at = "asked" /\ load'.of = of /\ load'.managed = managed
      /\ load'.list = << >>
  BY <1>1, <1>4 DEF ListReads, NoLoad
<1>6. line' \in [role : Grades, pending : BOOLEAN, confirming : BOOLEAN]
  BY <1>1 DEF Reload, Line
<1> QED BY <1>3, <1>5, <1>6

(* The render that follows the shell: nothing is listed, a load starts, or *)
(* the list stays.                                                         *)
LEMMA FollowIs ==
    ASSUME ListsShape, Follow, ScreenSets', MountHolds
    PROVE  /\ view' \in ListViews /\ load' \in ListReads
           /\ line' \in [role : Grades, pending : BOOLEAN, confirming : BOOLEAN]
           /\ held' \in {held, NoHeld}
           /\ IF Shown' /\ screen # "none" /\ shell'.activeId # NoWorkspace
              THEN view'.phase # "off" /\ <<view'.of, view'.managed>> = LoadKey(shell')
              ELSE view'.phase = "off" /\ held' = NoHeld
           /\ \/ /\ view'.phase = "off" /\ view'.list = << >> /\ load' = NoLoad
                 /\ view'.turn = view.turn /\ held' = NoHeld
              \/ /\ view'.phase = "loading" /\ view'.turn = view.turn + 1
                 /\ view'.list \in {view.list, << >>}
                 /\ load'.at = "asked" /\ load'.of = view'.of /\ load'.managed = view'.managed
                 /\ load'.list = << >>
              \/ UNCHANGED <<view, load, held, line>> /\ view.phase # "off"
<1> DEFINE key == LoadKey(shell')
           fresh == [Unmounted EXCEPT !.turn = view.turn, !.mount = view.mount]
           idle == ~ Shown' \/ screen = "none" \/ shell'.activeId = NoWorkspace
<1>1. /\ "NONE" \in Grades /\ << >> \in Seq(RowSet) /\ view \in ListViews /\ load \in ListReads
      /\ held \in [row : Nat, turn : Nat]
  BY EmptySeq DEF Grades, ListsShape
<1>2. key[1] \in Workspaces \cup {NoWorkspace} /\ key[2] \in BOOLEAN /\ key = <<key[1], key[2]>>
      /\ key[1] = shell'.activeId
  BY DEF ScreenSets, LoadKey, Manages
<1>3. /\ fresh \in ListViews /\ fresh.phase = "off" /\ fresh.list = << >> /\ fresh.turn = view.turn
      /\ [fresh EXCEPT !.mount = @ + 1] \in ListViews
      /\ [fresh EXCEPT !.mount = @ + 1].turn = view.turn
      /\ [fresh EXCEPT !.mount = @ + 1].list = << >>
  <2>1. view.turn \in Nat /\ view.mount \in Nat
    BY <1>1 DEF ListViews
  <2>2. Unmounted \in ListViews /\ Unmounted.phase = "off" /\ Unmounted.list = << >>
    BY <1>1 DEF ListViews, Unmounted
  <2>3. /\ fresh \in ListViews /\ fresh.phase = "off" /\ fresh.list = << >> /\ fresh.turn = view.turn
        /\ fresh.mount = view.mount
    BY <2>1, <2>2 DEF ListViews
  <2>4. fresh.mount + 1 \in Nat
    BY <2>1, <2>3
  <2> HIDE DEF fresh
  <2> QED BY <2>3, <2>4 DEF ListViews
<1>4. NoLoad \in ListReads /\ Line("NONE") \in [role : Grades, pending : BOOLEAN, confirming : BOOLEAN]
  BY <1>1 DEF ListReads, NoLoad, Line
<1>5. CASE idle
  <2>1. view' = fresh /\ load' = NoLoad /\ held' = NoHeld /\ line' = Line("NONE")
    BY <1>5 DEF Follow
  <2> HIDE DEF fresh
  <2> QED BY <1>3, <1>4, <1>5, <2>1
<1>6. CASE ~ idle /\ view.phase = "off"
  <2>1. Reload([fresh EXCEPT !.mount = @ + 1], key[1], key[2]) /\ UNCHANGED held
    BY <1>6 DEF Follow
  <2> HIDE DEF fresh, key
  <2> QED BY <1>2, <1>3, <1>6, <2>1, ReloadIs DEF key
<1>7. CASE ~ idle /\ view.phase # "off" /\ key # <<view.of, view.managed>>
  <2>1. Reload(view, key[1], key[2]) /\ UNCHANGED held
    BY <1>7 DEF Follow
  <2> HIDE DEF fresh, key
  <2> QED BY <1>1, <1>2, <1>7, <2>1, ReloadIs DEF key
<1>8. CASE ~ idle /\ view.phase # "off" /\ key = <<view.of, view.managed>>
  <2>1. UNCHANGED <<view, load, held, line>>
    BY <1>8 DEF Follow
  <2>2. line \in [role : Grades, pending : BOOLEAN, confirming : BOOLEAN]
    BY DEF ListsShape
  <2> HIDE DEF fresh
  <2> QED BY <1>1, <1>8, <2>1, <2>2
<1> QED BY <1>5, <1>6, <1>7, <1>8

(* Where nothing fails the shell never gives back the workspace it shows.  *)
LEMMA ShellDenies ==
    ASSUME ShellIs, ShellNext, Shown, NEW w \in Workspaces, w = shell.activeId, shellFaults' = 0
    PROVE  /\ shellFaults = 0
           /\ RoleIn(w)' \in {RoleIn(w), "NONE"}
<1>1. shellFaults \in Nat /\ belongs \in [Workspaces -> Grades]
  BY DEF ShellIs, ShellSets
<1>2. ~ (shellFaults' = shellFaults + 1)
  BY <1>1
<1>3. CASE UNCHANGED <<belongs, shellFaults>>
  BY <1>3 DEF RoleIn
<1>4. CASE LeaveWorkspace \/ DeleteWorkspace
  <2>1. belongs' = [belongs EXCEPT ![w] = "NONE"] /\ shellFaults' = shellFaults
    BY <1>4 DEF LeaveWorkspace, DeleteWorkspace, EndsHere, Works
  <2>2. belongs'[w] = "NONE"
    BY <1>1, <2>1
  <2> QED BY <2>1, <2>2 DEF RoleIn
<1>5. CASE CreateWorkspace
  <2>1. /\ belongs' = [belongs EXCEPT ![MaxWorkspaces] = "OWNER"] /\ shellFaults' = shellFaults
        /\ belongs[MaxWorkspaces] = "NONE" /\ shellWork = 0 /\ shellFaults = 0
    BY <1>5 DEF CreateWorkspace, Works
  <2>2. w \in Mine \cup {NoWorkspace}
    BY <2>1 DEF ShellIs, MenuHolds
  <2>3. w # MaxWorkspaces
    <3>1. MaxWorkspaces # NoWorkspace
      BY ShellAssumption DEF NoWorkspace
    <3> QED BY <2>1, <2>2, <3>1 DEF Mine
  <2>4. belongs'[w] = belongs[w]
    BY <1>1, <2>1, <2>3
  <2> QED BY <2>1, <2>4 DEF RoleIn
<1>6. UNCHANGED <<belongs, shellFaults>> \/ LeaveWorkspace \/ DeleteWorkspace \/ CreateWorkspace
  <2>1. Answering => UNCHANGED <<belongs, shellFaults>>
    BY DEF Answering, RefetchSession, ReadWorkspaces, ReadOwnMembership, ServeSetActive,
       ReadSwitchedRole,
           SwitchAnswered, NoWork
  <2>2. RetryBootstrap \/ (\E v \in Workspaces : onSwitch(v)) => UNCHANGED <<belongs,
                                                                             shellFaults>>
    BY DEF RetryBootstrap, onSwitch, Works
  <2>3. /\ ~ BootReadFails /\ ~ ExitAnswerLost
        /\ \A i \in DOMAIN calls : ~ SetActiveFails(i)
        /\ \A r \in roleReads : ~ SwitchReadFails(r)
        /\ \A v \in Workspaces : ~ RemovedElsewhere(v)
    BY <1>2 DEF BootReadFails, ExitAnswerLost, SetActiveFails, SwitchReadFails,
       RemovedElsewhere, Faults
  <2> QED BY <2>1, <2>2, <2>3 DEF ShellNext
<1> QED BY <1>3, <1>4, <1>5, <1>6

(* The invariant of the screen, apart from the shell's.                    *)
ListsHold ==
    /\ ListsShape /\ MountHolds /\ SentHolds /\ NewRowHolds
    /\ ListHolds /\ LoadHolds /\ MemberHolds /\ RefusalHolds

(* A step of the shell, and the render that follows it.                    *)
LEMMA ShellStepKept == ASSUME ShellIs, ListsHold, ShellStep PROVE ShellIs' /\ ListsHold'
<1>0. /\ ListsShape /\ MountHolds /\ SentHolds /\ NewRowHolds
      /\ ListHolds /\ LoadHolds /\ MemberHolds /\ RefusalHolds
  BY DEF ListsHold
<1>1. /\ ShellNext /\ Follow
      /\ UNCHANGED <<screen, rows, made, grade, writes, patches, strayed>>
  BY DEF ShellStep
<1>2. ShellIs'
  BY <1>1, ShellKept
<1>3. /\ view' \in ListViews /\ load' \in ListReads
      /\ line' \in [role : Grades, pending : BOOLEAN, confirming : BOOLEAN]
      /\ held' \in {held, NoHeld}
      /\ IF Shown' /\ screen # "none" /\ shell'.activeId # NoWorkspace
         THEN view'.phase # "off" /\ <<view'.of, view'.managed>> = LoadKey(shell')
         ELSE view'.phase = "off" /\ held' = NoHeld
      /\ \/ /\ view'.phase = "off" /\ view'.list = << >> /\ load' = NoLoad
            /\ view'.turn = view.turn /\ held' = NoHeld
         \/ /\ view'.phase = "loading" /\ view'.turn = view.turn + 1
            /\ view'.list \in {view.list, << >>}
            /\ load'.at = "asked" /\ load'.of = view'.of /\ load'.managed = view'.managed
            /\ load'.list = << >>
         \/ UNCHANGED <<view, load, held, line>> /\ view.phase # "off"
  BY <1>0, <1>1, <1>2, FollowIs DEF ShellIs
<1>4. ListsShape'
  <2>1. NoHeld \in [row : Nat, turn : Nat]
    BY DEF NoHeld
  <2> QED BY <1>0, <1>1, <1>3, <2>1 DEF ListsShape
<1>5. MountHolds'
  <2>1. LoadKey(shell)' = LoadKey(shell')
    BY <1>1 DEF LoadKey
  <2>2. NoLoad.at = "none"
    BY DEF NoLoad
  <2> QED BY <1>0, <1>1, <1>3, <2>1, <2>2 DEF MountHolds
<1>6. SentHolds'
  <2>1. view.turn \in Nat /\ \A x \in writes \cup patches : x.turn \in Nat
    BY <1>0 DEF ListsShape, ListViews, RowWrites, RolePatches
  <2>2. held.turn \in Nat
    BY <1>0 DEF ListsShape
  <2>3. \A x \in writes \cup patches : SentFrom(x)'
    BY <1>0, <1>1, <1>3, <2>1 DEF SentHolds, SentFrom
  <2>4. \A q \in writes : q.turn = view'.turn /\ view'.phase = "ready" /\ screen = "members" => view'.managed
    BY <1>0, <1>3 DEF SentHolds
  <2>5. held' # NoHeld => /\ held'.turn <= view'.turn
                          /\ held'.turn = view'.turn => view'.phase \notin {"loading", "error"}
    BY <1>0, <1>3, <2>1, <2>2 DEF SentHolds
  <2> QED BY <1>1, <2>3, <2>4, <2>5 DEF SentHolds
<1>7. NewRowHolds'
  <2>1. Elements(<< >>) = {}
    BY DEF Elements
  <2>2. load'.list \in {load.list, << >>} /\ view'.list \in {view.list, << >>}
    BY <1>3 DEF NoLoad
  <2>3. Makers' = Makers /\ (Unmade' <=> Unmade)
    BY <1>1 DEF Makers, Unmade
  <2> QED BY <1>0, <1>1, <1>3, <2>1, <2>2, <2>3 DEF NewRowHolds
<1>8. CASE UNCHANGED <<view, load, held, line>> /\ view.phase # "off"
  <2>1. /\ Landing' = Landing /\ Gone' = Gone /\ Coming' = Coming /\ Leaving' = Leaving
        /\ Astray' <=> Astray
    BY <1>1, <1>8 DEF Landing, Gone, Coming, Leaving, Makers, Astray, Foreign
  <2>2. ListHolds'
    BY <1>0, <1>1, <1>8, <2>1, ListCarried
  <2>3. LoadHolds' /\ MemberHolds'
    BY <1>0, <1>1, <1>8, <2>1 DEF LoadHolds, MemberHolds, Hidden
  <2>4. RefusalHolds'
    <3> SUFFICES ASSUME shellFaults' = 0, view.phase = "error" \/ load.at = "refused"
                 PROVE  Denied(view.of, view.managed)'
      BY <1>8 DEF RefusalHolds
    <3>1. Shown /\ view.of \in Workspaces /\ view.of = shell.activeId
      BY <1>0, <1>8, MountedHere
    <3> DEFINE w == view.of
    <3>2. PICK u \in Workspaces : u = w
      BY <3>1
    <3>3. shellFaults = 0 /\ RoleIn(u)' \in {RoleIn(u), "NONE"}
      BY <1>1, <3>1, <3>2, ShellDenies
    <3>4. Denied(u, view.managed)
      BY <1>0, <3>2, <3>3 DEF RefusalHolds
    <3>5. Denied(u, view.managed)'
      BY <1>8, <3>3, <3>4 DEF Denied, Manages
    <3> QED BY <1>8, <3>2, <3>5
  <2> QED BY <1>2, <1>4, <1>5, <1>6, <1>7, <2>2, <2>3, <2>4 DEF ListsHold
<1>9. CASE view'.phase \in {"off", "loading"} /\ load'.at \in {"none", "asked"}
  <2>1. ListHolds' /\ LoadHolds' /\ RefusalHolds'
    BY <1>9 DEF ListHolds, LoadHolds, RefusalHolds
  <2>2. MemberHolds'
    BY <1>0, <1>1, <1>9 DEF MemberHolds
  <2> QED BY <1>2, <1>4, <1>5, <1>6, <1>7, <2>1, <2>2 DEF ListsHold
<1>10. NoLoad.at = "none"
  BY DEF NoLoad
<1> QED BY <1>3, <1>8, <1>9, <1>10

(* A step of the screen leaves the shell alone, but for the counters.      *)
LEMMA ShellBeside ==
    ASSUME ShellIs, UNCHANGED shellRest, Works \/ Faults \/ UNCHANGED <<shellWork, shellFaults>>
    PROVE  /\ ShellIs' /\ (Shown' <=> Shown) /\ shell' = shell /\ belongs' = belongs
           /\ shellFaults' = 0 => shellFaults = 0
           /\ \A w : RoleIn(w)' = RoleIn(w)
<1>1. shellWork \in Nat /\ shellFaults \in Nat
  BY DEF ShellIs, ShellSets
<1>2. /\ shellWork' \in Nat /\ shellFaults' \in Nat
      /\ shellFaults' = 0 => shellFaults = 0
      /\ shellWork' = 0 => shellWork = 0
  BY <1>1 DEF Works, Faults
<1>3. ShellIs'
  BY <1>2, ShellLeft
<1>4. UNCHANGED <<shell, belongs, session, boot>>
  BY DEF shellRest
<1> QED BY <1>2, <1>3, <1>4 DEF Shown, RoleIn

(* The list stays mounted as it was.                                       *)
LEMMA MountCarried ==
    ASSUME MountHolds, shell' = shell, Shown' <=> Shown, screen' = screen,
           view'.phase = "off" <=> view.phase = "off",
           view'.of = view.of, view'.managed = view.managed,
           held' \in {held, NoHeld} \/ view.phase # "off",
           (load'.at # "none") = (view'.phase = "loading"),
           load'.at # "none" => load'.of = view'.of /\ load'.managed = view'.managed
    PROVE  MountHolds'
<1>1. LoadKey(shell)' = LoadKey(shell)
  BY DEF LoadKey
<1> QED BY <1>1 DEF MountHolds

(* What is under way keeps where it was sent from, while the list changes. *)
LEMMA SentCarried ==
    ASSUME SentHolds, ListsShape, screen' = screen, writes' = writes, patches' = patches, held' = held,
           view'.turn = view.turn, view'.of = view.of, view'.mount = view.mount,
           view'.managed = view.managed,
           view'.phase = view.phase \/ view.phase \in {"loading", "error"}
    PROVE  SentHolds'
<1>1. \A x \in writes \cup patches : SentFrom(x)'
  BY DEF SentHolds, SentFrom
<1>2. \A q \in writes : q.turn = view'.turn /\ view'.phase = "ready" /\ screen = "members" => view'.managed
  BY DEF SentHolds, SentFrom
<1>3. held # NoHeld => /\ held.turn <= view'.turn
                       /\ held.turn = view'.turn => view'.phase \notin {"loading", "error"}
  BY DEF SentHolds
<1> QED BY <1>1, <1>2, <1>3 DEF SentHolds

(* A load that starts leaves everything under way behind.                  *)
LEMMA SentBefore ==
    ASSUME SentHolds, ListsShape, screen' = screen, writes' \subseteq writes, patches' = patches,
           held' = held, view'.turn = view.turn + 1
    PROVE  SentHolds'
<1>1. view.turn \in Nat /\ \A x \in writes \cup patches : x.turn \in Nat
  BY DEF ListsShape, ListViews, RowWrites, RolePatches
<1>2. held.turn \in Nat
  BY DEF ListsShape
<1>3. \A x \in writes' \cup patches' : x.turn <= view'.turn /\ x.turn # view'.turn
  BY <1>1 DEF SentHolds, SentFrom
<1>4. held # NoHeld => held.turn <= view'.turn /\ held.turn # view'.turn
  BY <1>1, <1>2 DEF SentHolds
<1> QED BY <1>3, <1>4 DEF SentHolds, SentFrom

(* The server answers a load.                                              *)
LEMMA LoadServed == ASSUME ShellIs, ListsHold, ServeLoad PROVE ShellIs' /\ ListsHold'
<1>0. /\ ListsShape /\ MountHolds /\ SentHolds /\ NewRowHolds
      /\ ListHolds /\ LoadHolds /\ MemberHolds /\ RefusalHolds
  BY DEF ListsHold
<1> DEFINE mine == belongs[load.of]
           refused == mine = "NONE" \/ (load.managed /\ ~Manages(mine))
<1>1. /\ load.at = "asked"
      /\ load' = [load EXCEPT
                  !.at = IF refused THEN "refused" ELSE "answered",
                  !.list = IF screen = "members" /\ ~load.managed THEN << >> ELSE rows[load.of],
                  !.member = grade[load.of]]
      /\ UNCHANGED <<screen, rows, made, grade, view, writes, held, line, patches, strayed>>
      /\ UNCHANGED <<shellRest, shellWork, shellFaults>>
  BY DEF ServeLoad, shellVars, shellRest
<1>2. /\ ShellIs' /\ (Shown' <=> Shown) /\ shell' = shell /\ belongs' = belongs
      /\ shellFaults' = 0 => shellFaults = 0
      /\ \A w : RoleIn(w)' = RoleIn(w)
  BY <1>1, ShellBeside
<1>3. /\ view.phase = "loading" /\ load.of = view.of /\ load.managed = view.managed
      /\ view.of \in Workspaces
  BY <1>0, <1>1, MountedHere DEF MountHolds
<1>4. /\ load' \in ListReads /\ load'.of = load.of /\ load'.managed = load.managed
      /\ load'.at = IF refused THEN "refused" ELSE "answered"
      /\ load'.list = IF screen = "members" /\ ~load.managed THEN << >> ELSE rows[load.of]
      /\ load'.member = grade[load.of]
  <2>1. /\ load \in ListReads /\ rows[load.of] \in Seq(RowSet) /\ grade[load.of] \in Grades
        /\ << >> \in Seq(RowSet)
    BY <1>0, <1>3, EmptySeq DEF ListsShape
  <2> HIDE DEF refused
  <2> QED BY <1>1, <2>1 DEF ListReads
<1> HIDE DEF refused
<1>5. ListsShape'
  BY <1>0, <1>1, <1>4 DEF ListsShape
<1>6. MountHolds'
  BY <1>0, <1>1, <1>2, <1>3, <1>4, MountCarried
<1>7. SentHolds'
  BY <1>0, <1>1, SentCarried
<1>8. NewRowHolds'
  <2>1. Elements(<< >>) = {}
    BY DEF Elements
  <2>2. Elements(load'.list) \subseteq Elements(rows[load.of])
    BY <1>4, <2>1
  <2>3. Makers' = Makers /\ (Unmade' <=> Unmade)
    BY <1>1 DEF Makers, Unmade
  <2> QED BY <1>0, <1>1, <1>3, <2>2, <2>3 DEF NewRowHolds
<1>9. /\ Landing' = Landing /\ Gone' = Gone /\ Coming' = Coming /\ Leaving' = Leaving
      /\ Astray' <=> Astray
  BY <1>1 DEF Landing, Gone, Coming, Leaving, Makers, Astray, Foreign
<1>10. ListHolds'
  BY <1>0, <1>1, <1>9, ListCarried
<1>11. LoadHolds'
  BY <1>1, <1>4 DEF LoadHolds, Hidden
<1>12. MemberHolds'
  BY <1>0, <1>1, <1>3 DEF MemberHolds
<1>13. RefusalHolds'
  <2> SUFFICES ASSUME refused PROVE Denied(view.of, view.managed)'
    BY <1>1, <1>3, <1>4 DEF RefusalHolds
  <2>1. RoleIn(view.of) = belongs[view.of]
    BY <1>3 DEF RoleIn
  <2> QED BY <1>1, <1>2, <1>3, <2>1 DEF Denied, refused
<1> QED BY <1>2, <1>5, <1>6, <1>7, <1>8, <1>10, <1>11, <1>12, <1>13 DEF ListsHold

(* Its answer lands: the list is what the server has, and nothing sent     *)
(* from this load is under way.                                            *)
LEMMA LoadLanded == ASSUME ShellIs, ListsHold, LandLoad PROVE ShellIs' /\ ListsHold'
<1>0. /\ ListsShape /\ MountHolds /\ SentHolds /\ NewRowHolds
      /\ ListHolds /\ LoadHolds /\ MemberHolds /\ RefusalHolds
  BY DEF ListsHold
<1>1. /\ load.at \in {"answered", "refused"} /\ load' = NoLoad /\ line' = Line(view'.member)
      /\ UNCHANGED <<screen, rows, made, grade, writes, held, patches, strayed>>
      /\ UNCHANGED <<shellRest, shellWork, shellFaults>>
  BY DEF LandLoad, shellVars, shellRest
<1>2. /\ ShellIs' /\ (Shown' <=> Shown) /\ shell' = shell /\ belongs' = belongs
      /\ shellFaults' = 0 => shellFaults = 0
      /\ \A w : RoleIn(w)' = RoleIn(w)
  BY <1>1, ShellBeside
<1>3. view.phase = "loading" /\ load.of = view.of /\ load.managed = view.managed
  BY <1>0, <1>1 DEF MountHolds
<1>4. /\ view' \in ListViews /\ view'.of = view.of /\ view'.managed = view.managed
      /\ view'.turn = view.turn /\ view'.mount = view.mount
      /\ IF load.at = "refused" THEN view'.phase = "error" /\ view'.list = << >>
         ELSE view'.phase = "ready" /\ view'.list = load.list /\ view'.member = load.member
  <2>1. /\ view \in ListViews /\ load.list \in Seq(RowSet) /\ load.member \in Grades
        /\ << >> \in Seq(RowSet) /\ "NONE" \in Grades
    BY <1>0, EmptySeq DEF ListsShape, ListReads, Grades
  <2>2. CASE load.at = "refused"
    <3>1. view' = [view EXCEPT !.phase = "error", !.list = << >>, !.member = "NONE"]
      BY <2>2 DEF LandLoad, LoadFailed
    <3> QED BY <2>1, <2>2, <3>1 DEF ListViews
  <2>3. CASE load.at # "refused"
    <3>1. view' = [view EXCEPT !.phase = "ready", !.list = load.list, !.member = load.member]
      BY <2>3 DEF LandLoad
    <3> QED BY <2>1, <2>3, <3>1 DEF ListViews
  <2> QED BY <2>2, <2>3
<1>5. NoLoad \in ListReads /\ NoLoad.at = "none" /\ NoLoad.list = << >>
  BY EmptySeq DEF ListReads, NoLoad, Grades
<1>6. /\ line' \in [role : Grades, pending : BOOLEAN, confirming : BOOLEAN]
      /\ line'.role = view'.member
  <2>1. view'.member \in Grades
    BY <1>4 DEF ListViews
  <2> QED BY <1>1, <2>1 DEF Line
<1>7. ListsShape'
  BY <1>0, <1>1, <1>4, <1>5, <1>6 DEF ListsShape
<1>8. MountHolds'
  BY <1>0, <1>1, <1>2, <1>3, <1>4, <1>5, MountCarried
<1>9. SentHolds'
  BY <1>0, <1>1, <1>3, <1>4, SentCarried
<1>10. NewRowHolds'
  <2>1. Elements(<< >>) = {}
    BY DEF Elements
  <2>2. Elements(load'.list) = {} /\ Elements(view'.list) \subseteq Elements(load.list)
    BY <1>1, <1>4, <1>5, <2>1
  <2>3. Makers' = Makers /\ (Unmade' <=> Unmade)
    BY <1>1 DEF Makers, Unmade
  <2> QED BY <1>0, <1>1, <2>2, <2>3 DEF NewRowHolds
<1>11. /\ Landing' = {} /\ Gone' = {} /\ Leaving' = {}
       /\ \A x \in writes \cup patches : x.turn # view.turn
       /\ ~ Astray => Coming' = {}
       /\ Astray' <=> Astray
  <2>1. \A x \in writes \cup patches : x.turn # view.turn
    BY <1>0, <1>3 DEF SentHolds, SentFrom
  <2>2. held # NoHeld => held.turn # view.turn
    BY <1>0, <1>3 DEF SentHolds
  <2>3. Landing' = {} /\ Gone' = {} /\ Leaving' = {}
    BY <1>1, <1>4, <2>1 DEF Landing, Gone, Leaving
  <2>4. Astray' <=> Astray
    BY <1>1, <1>4 DEF Astray, Foreign
  <2>5. ~ Astray => held = NoHeld
    BY <2>2 DEF Astray
  <2> QED BY <1>1, <2>1, <2>3, <2>4, <2>5 DEF Coming
<1>12. ListHolds'
  <2> SUFFICES ASSUME load.at = "answered", ~ Astray PROVE ListHolds'
    BY <1>1, <1>4, <1>11 DEF ListHolds
  <2>1. /\ view'.phase = "ready" /\ Coming' = {}
        /\ view'.list = IF Hidden(view.managed) THEN << >> ELSE rows[view.of]
    BY <1>0, <1>3, <1>4, <1>11 DEF LoadHolds
  <2>2. Hidden(view.managed)' <=> Hidden(view.managed)
    BY <1>1, <1>4 DEF Hidden
  <2>3. CASE Hidden(view.managed)
    BY <2>1, <2>2, <2>3 DEF ListHolds
  <2>4. CASE ~ Hidden(view.managed)
    <3>1. view'.list = rows'[view'.of]
      BY <1>1, <1>4, <2>1, <2>4
    <3>2. Distinct(view'.list)
      <4>1. view.of \in Workspaces
        BY <1>0, <1>2, <1>3, MountedHere
      <4> QED BY <1>0, <2>1, <2>4, <4>1 DEF NewRowHolds
    <3>3. \A x, y : Precedes(x, y)' <=> Prior(view'.list, x, y)
      BY <2>1 DEF Precedes
    <3> QED BY <1>11, <2>1, <2>2, <2>4, <3>1, <3>2, <3>3 DEF ListHolds
  <2> QED BY <2>3, <2>4
<1>13. LoadHolds'
  BY <1>1, <1>5 DEF LoadHolds
<1>14. MemberHolds'
  <2> SUFFICES ASSUME load.at = "answered", ~ Astray
               PROVE  /\ grade[view.of] =
                           IF view'.member = "NONE" \/ \E q \in Landing' : q.op = "expel" THEN "NONE"
                           ELSE IF \E p \in patches : p.at = "done" THEN (CHOOSE p \in patches : TRUE).to
                           ELSE view'.member
                      /\ line'.role = view'.member
    BY <1>0, <1>1, <1>4, <1>11 DEF MemberHolds
  <2>1. view'.member = grade[view.of]
    BY <1>0, <1>3, <1>4 DEF LoadHolds
  <2>2. \A p \in patches : p.at # "done"
    BY <1>11 DEF Astray, Foreign
  <2> QED BY <1>6, <1>11, <2>1, <2>2
<1>15. RefusalHolds'
  <2> SUFFICES ASSUME shellFaults = 0, load.at = "refused" PROVE Denied(view.of, view.managed)'
    BY <1>1, <1>2, <1>4, <1>5 DEF RefusalHolds
  <2>1. Denied(view.of, view.managed)
    BY <1>0 DEF RefusalHolds
  <2> QED BY <1>2, <1>4, <2>1 DEF Denied
<1> QED BY <1>2, <1>7, <1>8, <1>9, <1>10, <1>12, <1>13, <1>14, <1>15 DEF ListsHold

(* A load fails: the list stands in error.                                 *)
LEMMA LoadLost == ASSUME ShellIs, ListsHold, LoadFails PROVE ShellIs' /\ ListsHold'
<1>0. /\ ListsShape /\ MountHolds /\ SentHolds /\ NewRowHolds
      /\ ListHolds /\ LoadHolds /\ MemberHolds /\ RefusalHolds
  BY DEF ListsHold
<1>1. /\ load.at = "asked" /\ load' = NoLoad /\ Faults
      /\ view' = [view EXCEPT !.phase = "error", !.list = << >>, !.member = "NONE"]
      /\ UNCHANGED <<screen, rows, made, grade, writes, held, line, patches, strayed, shellRest>>
  BY DEF LoadFails, LoadFailed
<1>2. ShellIs' /\ (Shown' <=> Shown) /\ shell' = shell /\ shellFaults' # 0
  <2>1. shellFaults \in Nat /\ shellFaults' = shellFaults + 1
    BY <1>1 DEF ShellIs, ShellSets, Faults
  <2>2. shellFaults' # 0
    BY <2>1
  <2> QED BY <1>1, <2>2, ShellBeside
<1>3. view.phase = "loading"
  BY <1>0, <1>1 DEF MountHolds
<1>4. /\ view' \in ListViews /\ view'.of = view.of /\ view'.managed = view.managed
      /\ view'.turn = view.turn /\ view'.mount = view.mount
      /\ view'.phase = "error" /\ view'.list = << >>
  BY <1>0, <1>1, EmptySeq DEF ListsShape, ListViews, Grades
<1>5. NoLoad \in ListReads /\ NoLoad.at = "none" /\ NoLoad.list = << >>
  BY EmptySeq DEF ListReads, NoLoad, Grades
<1>6. ListsShape'
  BY <1>0, <1>1, <1>4, <1>5 DEF ListsShape
<1>7. MountHolds'
  BY <1>0, <1>1, <1>2, <1>3, <1>4, <1>5, MountCarried
<1>8. SentHolds'
  BY <1>0, <1>1, <1>3, <1>4, SentCarried
<1>9. NewRowHolds'
  <2>1. Elements(<< >>) = {}
    BY DEF Elements
  <2>2. Makers' = Makers /\ (Unmade' <=> Unmade)
    BY <1>1 DEF Makers, Unmade
  <2> QED BY <1>0, <1>1, <1>4, <1>5, <2>1, <2>2 DEF NewRowHolds
<1>10. ListHolds' /\ LoadHolds' /\ RefusalHolds'
  BY <1>1, <1>2, <1>4, <1>5 DEF ListHolds, LoadHolds, RefusalHolds
<1>11. MemberHolds'
  BY <1>0, <1>1, <1>4 DEF MemberHolds
<1> QED BY <1>2, <1>6, <1>7, <1>8, <1>9, <1>10, <1>11 DEF ListsHold

(* A list that is mounted loads again.                                     *)
LEMMA LoadsAgain ==
    ASSUME ListsHold, Reload(view, view.of, view.managed), view.phase # "off",
           shell' = shell, Shown' <=> Shown, writes' \subseteq writes, strayed' \in BOOLEAN,
           strayed => strayed', UNCHANGED <<screen, rows, made, grade, held, patches>>
    PROVE  ListsHold'
<1>0. ListsShape /\ MountHolds /\ SentHolds /\ NewRowHolds /\ MemberHolds
  BY DEF ListsHold
<1>1. /\ view' \in ListViews /\ load' \in ListReads
      /\ line' \in [role : Grades, pending : BOOLEAN, confirming : BOOLEAN]
      /\ view'.phase = "loading" /\ view'.of = view.of /\ view'.managed = view.managed
      /\ view'.list = view.list /\ view'.turn = view.turn + 1
      /\ load'.at = "asked" /\ load'.of = view.of /\ load'.managed = view.managed
      /\ load'.list = << >>
  <2>1. view \in ListViews /\ view.of \in Workspaces \cup {NoWorkspace} /\ view.managed \in BOOLEAN
    BY <1>0 DEF ListsShape, ListViews
  <2> QED BY <2>1, ReloadIs
<1>2. ListsShape'
  BY <1>0, <1>1 DEF ListsShape
<1>3. MountHolds'
  BY <1>0, <1>1, MountCarried
<1>4. SentHolds'
  BY <1>0, <1>1, SentBefore
<1>5. NewRowHolds'
  <2>1. Elements(<< >>) = {}
    BY DEF Elements
  <2>2. Makers' \subseteq Makers /\ (Unmade' => Unmade)
    BY DEF Makers, Unmade
  <2> QED BY <1>0, <1>1, <2>1, <2>2 DEF NewRowHolds
<1>6. ListHolds' /\ LoadHolds' /\ RefusalHolds'
  BY <1>1 DEF ListHolds, LoadHolds, RefusalHolds
<1>7. MemberHolds'
  BY <1>0, <1>1 DEF MemberHolds
<1> QED BY <1>2, <1>3, <1>4, <1>5, <1>6, <1>7 DEF ListsHold

(* As after an error.                                                      *)
LEMMA ListRetried == ASSUME ShellIs, ListsHold, RetryList PROVE ShellIs' /\ ListsHold'
<1>1. /\ view.phase = "error" /\ Reload(view, view.of, view.managed) /\ Works
      /\ UNCHANGED shellRest
      /\ UNCHANGED <<screen, rows, made, grade, writes, held, patches, strayed>>
  BY DEF RetryList
<1>2. ShellIs' /\ (Shown' <=> Shown) /\ shell' = shell
  BY <1>1, ShellBeside
<1>3. strayed' \in BOOLEAN
  BY <1>1 DEF ListsHold, ListsShape
<1> QED BY <1>1, <1>2, <1>3, LoadsAgain

(* A dialog sends its request.                                             *)
LEMMA RequestSent ==
    ASSUME ShellIs, ListsHold, NEW op \in {"create", "import", "remove", "expel"},
           NEW row \in Nat, Send(op, row),
           screen = "members" => Manages(shell.activeRole),
           \/ op \in {"create", "import"} /\ made < MaxRows /\ made' = made + 1 /\ row = made + 1
           \/ op = "remove" /\ made' = made /\ row \in Elements(view.list)
           \/ op = "expel" /\ made' = made
    PROVE  ShellIs' /\ ListsHold'
<1>0. /\ ListsShape /\ MountHolds /\ SentHolds /\ NewRowHolds
      /\ ListHolds /\ LoadHolds /\ MemberHolds /\ RefusalHolds
  BY DEF ListsHold
<1> DEFINE q == [op |-> op, row |-> row, of |-> shell.activeId, turn |-> view.turn,
                 mount |-> view.mount, at |-> "asked"]
<1>1. /\ view.phase = "ready" /\ writes' = writes \cup {q} /\ Works
      /\ UNCHANGED shellRest
      /\ UNCHANGED <<screen, rows, grade, view, load, held, line, patches, strayed>>
  BY DEF Send, Ready
<1>2. /\ ShellIs' /\ (Shown' <=> Shown) /\ shell' = shell /\ belongs' = belongs
      /\ shellFaults' = 0 => shellFaults = 0
      /\ \A w : RoleIn(w)' = RoleIn(w)
  BY <1>1, ShellBeside
<1>3. /\ view.of \in Workspaces /\ view.of = shell.activeId
      /\ view.managed <=> (screen = "members" /\ Manages(shell.activeRole))
  BY <1>0, <1>1, MountedHere
<1>4. /\ q \in RowWrites /\ q.op = op /\ q.row = row /\ q.of = view.of /\ q.turn = view.turn
      /\ q.mount = view.mount /\ q.at = "asked"
  <2>1. view.turn \in Nat /\ view.mount \in Nat
    BY <1>0 DEF ListsShape, ListViews
  <2> QED BY <1>3, <2>1 DEF RowWrites
<1> HIDE DEF q
<1>5. MaxRows \in Nat /\ made \in {MaxRows - 1, MaxRows} /\ view.turn \in Nat
  BY <1>0, ListsAssumption DEF ListsShape, ListViews
<1>6. made' \in {MaxRows - 1, MaxRows} /\ (made < MaxRows => made + 1 = MaxRows)
  BY <1>5
<1>7. ListsShape'
  BY <1>0, <1>1, <1>4, <1>6 DEF ListsShape
<1>8. MountHolds'
  BY <1>0, <1>1, <1>2, MountCarried DEF MountHolds
<1>9. SentHolds'
  <2>1. SentFrom(q)
    BY <1>1, <1>4, <1>5 DEF SentFrom
  <2>2. \A x \in writes' \cup patches : SentFrom(x)'
    BY <1>0, <1>1, <2>1 DEF SentHolds, SentFrom
  <2> QED BY <1>0, <1>1, <1>3, <1>4, <2>2 DEF SentHolds
<1>10. NewRowHolds'
  <2>1. CASE op \in {"create", "import"}
    <3>1. made < MaxRows /\ row = MaxRows /\ made' = MaxRows
      BY <1>6, <2>1
    <3>2. Unmade /\ Makers = {} /\ held = NoHeld
      BY <1>0, <1>5, <3>1 DEF Unmade, NewRowHolds
    <3>3. Makers' = {q}
      BY <1>1, <1>4, <2>1, <3>2 DEF Makers
    <3>4. \A x \in writes' : x.op = "remove" => x \in writes
      BY <1>1, <1>4, <2>1
    <3> QED BY <1>0, <1>1, <1>4, <3>1, <3>2, <3>3, <3>4 DEF NewRowHolds
  <2>2. CASE op \in {"remove", "expel"}
    <3>1. Makers' = Makers /\ (Unmade' <=> Unmade) /\ made' = made
      BY <1>1, <1>4, <2>2 DEF Makers, Unmade
    <3>2. Unmade => \A x \in writes' : x.op = "remove" => x.row # MaxRows
      BY <1>0, <1>1, <1>4, <2>2 DEF NewRowHolds
    <3> QED BY <1>0, <1>1, <3>1, <3>2 DEF NewRowHolds
  <2> QED BY <2>1, <2>2
<1>11. /\ Landing' = Landing /\ Gone' = Gone /\ Coming' = Coming
       /\ Astray' <=> Astray
  <2>1. Landing' = Landing
    BY <1>1, <1>4 DEF Landing
  <2>2. Landing \cap Makers' = Landing \cap Makers
    BY <1>1, <1>4 DEF Landing, Makers
  <2>3. Astray' <=> Astray
    BY <1>1, <1>4 DEF Astray, Foreign
  <2> QED BY <1>1, <2>1, <2>2, <2>3 DEF Gone, Coming
<1>12. ListHolds'
  <2>1. CASE op # "remove"
    <3>1. Leaving' = Leaving
      BY <1>1, <1>4, <2>1 DEF Leaving
    <3> QED BY <1>0, <1>1, <1>11, <3>1, ListCarried
  <2>2. CASE op = "remove"
    <3>1. Leaving' \subseteq Leaving \cup {row}
      BY <1>1, <1>4 DEF Leaving
    <3>2. row \in Elements(view.list)
      BY <2>2
    <3> SUFFICES ASSUME ~ Astray PROVE ListHolds'
      BY <1>11 DEF ListHolds
    <3>3. Hidden(view.managed)' <=> Hidden(view.managed)
      BY <1>1 DEF Hidden
    <3>4. CASE Hidden(view.managed)
      BY <1>0, <1>1, <3>3, <3>4 DEF ListHolds
    <3>5. CASE ~ Hidden(view.managed)
      <4>1. \A x, y : Precedes(x, y)' <=> Precedes(x, y)
        BY <1>1, <1>11 DEF Precedes
      <4>2. /\ Distinct(view.list)
            /\ Coming \cap (Elements(view.list) \cup Leaving) = {}
            /\ Elements(rows[view.of]) = (Elements(view.list) \ Gone) \cup Coming
            /\ \A x, y \in Elements(rows[view.of]) : Prior(rows[view.of], x, y) <=> Precedes(x, y)
        BY <1>0, <1>1, <3>5 DEF ListHolds
      <4>3. Coming \cap (Elements(view.list) \cup Leaving') = {}
        BY <3>1, <3>2, <4>2
      <4> QED BY <1>1, <1>11, <3>3, <3>5, <4>1, <4>2, <4>3 DEF ListHolds
    <3> QED BY <3>4, <3>5
  <2> QED BY <2>1, <2>2
<1>13. LoadHolds'
  BY <1>0, <1>1, <1>11 DEF LoadHolds, Hidden
<1>14. MemberHolds'
  BY <1>0, <1>1, <1>11 DEF MemberHolds
<1>15. RefusalHolds'
  BY <1>0, <1>1, <1>2 DEF RefusalHolds, Denied
<1> QED BY <1>2, <1>7, <1>8, <1>9, <1>10, <1>12, <1>13, <1>14, <1>15 DEF ListsHold

(* Each dialog of the screens.                                             *)
LEMMA DialogsSend ==
    ASSUME ShellIs, ListsHold,
           \/ InviteMember \/ RevokeInvitation \/ RemoveMember \/ CreateAccessToken
           \/ RevokeAccessToken \/ CreateBoard \/ DeleteBoard \/ ImportBoard
    PROVE  ShellIs' /\ ListsHold'
<1>1. MaxRows \in Nat \ {0} /\ made \in {MaxRows - 1, MaxRows}
  BY ListsAssumption DEF ListsHold, ListsShape
<1>2. made + 1 \in Nat
  BY <1>1
<1>3. CASE InviteMember \/ CreateAccessToken \/ CreateBoard \/ ImportBoard
  <2>1. PICK op \in {"create", "import"} : New(op) /\ (screen = "members" => Manages(shell.activeRole))
    BY <1>3 DEF InviteMember, CreateAccessToken, CreateBoard, ImportBoard, MayCreate
  <2>2. made < MaxRows /\ made' = made + 1 /\ Send(op, made + 1)
    BY <2>1 DEF New
  <2> QED BY <1>2, <2>1, <2>2, RequestSent
<1>4. CASE RevokeInvitation \/ RevokeAccessToken \/ DeleteBoard
  <2>1. Old("remove") /\ (screen = "members" => Manages(shell.activeRole))
    BY <1>4 DEF RevokeInvitation, RevokeAccessToken, DeleteBoard, MayRemove
  <2>2. PICK i \in DOMAIN view.list : Send("remove", view.list[i]) /\ made' = made
    BY <2>1 DEF Old
  <2>3. view.list[i] \in Elements(view.list) /\ view.list[i] \in Nat
    <3>1. view.list \in Seq(RowSet) /\ RowSet \subseteq Nat
      BY <1>1 DEF ListsHold, ListsShape, ListViews, RowSet
    <3>2. view.list[i] \in RowSet
      BY <3>1, LenProperties
    <3> QED BY <3>1, <3>2 DEF Elements
  <2> QED BY <2>1, <2>2, <2>3, RequestSent
<1>5. CASE RemoveMember
  <2>1. Manages(shell.activeRole) /\ Send("expel", 0) /\ made' = made
    BY <1>5 DEF RemoveMember
  <2> QED BY <2>1, RequestSent
<1> QED BY <1>3, <1>4, <1>5

(* The list a loaded screen expects to end up with, part by part.          *)
ListFits(there, list, gone, coming) ==
    /\ Distinct(list)
    /\ Elements(there) = (Elements(list) \ gone) \cup coming
    /\ \A x, y \in Elements(there) :
          Prior(there, x, y) <=>
              IF {x, y} \cap coming = {} THEN Prior(list, x, y)
              ELSE IF screen = "tokens" THEN x \in coming /\ y \notin coming
              ELSE x \notin coming /\ y \in coming

(* The list a screen is to show, by the lists and rows it depends on.      *)
LEMMA ListHoldsIs ==
    ListHolds <=> (view.phase = "ready" /\ ~ Astray =>
                      IF Hidden(view.managed) THEN view.list = << >>
                      ELSE /\ ListFits(rows[view.of], view.list, Gone, Coming)
                           /\ Coming \cap (Elements(view.list) \cup Leaving) = {})
BY DEF ListHolds, ListFits, Precedes

(* The new row's place: the head of the tokens, the end of other lists.    *)
LEMMA RowPut ==
    ASSUME NEW s \in Seq(RowSet), Distinct(s), MaxRows \notin Elements(s),
           NEW t, t = IF screen = "tokens" THEN <<MaxRows>> \o s ELSE Append(s, MaxRows)
    PROVE  /\ t \in Seq(RowSet) /\ Distinct(t) /\ Elements(t) = Elements(s) \cup {MaxRows}
           /\ \A x, y \in Elements(s) : Prior(t, x, y) <=> Prior(s, x, y)
           /\ \A x \in Elements(s) : /\ Prior(t, x, MaxRows) <=> screen # "tokens"
                                     /\ Prior(t, MaxRows, x) <=> screen = "tokens"
           /\ ~ Prior(t, MaxRows, MaxRows)
<1>1. MaxRows \in RowSet
  BY ListsAssumption DEF RowSet
<1>2. CASE screen = "tokens"
  <2>1. t = <<MaxRows>> \o s
    BY <1>2
  <2> DEFINE p == <<MaxRows>> \o s
  <2>2. /\ p \in Seq(RowSet) /\ Distinct(p) /\ Elements(p) = Elements(s) \cup {MaxRows}
        /\ \A x, y \in Elements(s) : Prior(p, x, y) <=> Prior(s, x, y)
        /\ \A y \in Elements(s) : Prior(p, MaxRows, y)
        /\ \A x \in Elements(s) \cup {MaxRows} : ~ Prior(p, x, MaxRows)
    BY <1>1, Prefixed
  <2> HIDE DEF p
  <2> QED BY <1>2, <2>1, <2>2 DEF p
<1>3. CASE screen # "tokens"
  <2>1. t = Append(s, MaxRows)
    BY <1>3
  <2> DEFINE p == Append(s, MaxRows)
  <2>2. /\ p \in Seq(RowSet) /\ Distinct(p) /\ Elements(p) = Elements(s) \cup {MaxRows}
        /\ \A x, y \in Elements(s) : Prior(p, x, y) <=> Prior(s, x, y)
        /\ \A x \in Elements(s) : Prior(p, x, MaxRows)
        /\ \A y \in Elements(s) \cup {MaxRows} : ~ Prior(p, MaxRows, y)
    BY <1>1, Appended
  <2> HIDE DEF p
  <2> QED BY <1>3, <2>1, <2>2 DEF p
<1> QED BY <1>2, <1>3

(* The server makes the row: it is on its way to the list.                 *)
LEMMA FitsRowMade ==
    ASSUME NEW there \in Seq(RowSet), NEW list, NEW gone, Distinct(there),
           ListFits(there, list, gone, {}), MaxRows \notin Elements(there),
           NEW put, put = IF screen = "tokens" THEN <<MaxRows>> \o there ELSE Append(there, MaxRows)
    PROVE  ListFits(put, list, gone, {MaxRows})
<1>1. /\ Elements(put) = Elements(there) \cup {MaxRows}
      /\ \A x, y \in Elements(there) : Prior(put, x, y) <=> Prior(there, x, y)
      /\ \A x \in Elements(there) : /\ Prior(put, x, MaxRows) <=> screen # "tokens"
                                    /\ Prior(put, MaxRows, x) <=> screen = "tokens"
      /\ ~ Prior(put, MaxRows, MaxRows)
  BY RowPut
<1>2. /\ Distinct(list) /\ Elements(there) = Elements(list) \ gone
      /\ \A x, y \in Elements(there) : Prior(there, x, y) <=> Prior(list, x, y)
  BY DEF ListFits
<1>3. Elements(put) = (Elements(list) \ gone) \cup {MaxRows}
  BY <1>1, <1>2
<1>4. ASSUME NEW x \in Elements(put), NEW y \in Elements(put)
      PROVE  Prior(put, x, y) <=>
                IF {x, y} \cap {MaxRows} = {} THEN Prior(list, x, y)
                ELSE IF screen = "tokens" THEN x \in {MaxRows} /\ y \notin {MaxRows}
                ELSE x \notin {MaxRows} /\ y \in {MaxRows}
  <2>1. CASE x # MaxRows /\ y # MaxRows
    <3>1. x \in Elements(there) /\ y \in Elements(there) /\ {x, y} \cap {MaxRows} = {}
      BY <1>1, <2>1
    <3> QED BY <1>1, <1>2, <3>1
  <2>2. CASE x = MaxRows /\ y # MaxRows
    <3>1. y \in Elements(there) /\ {x, y} \cap {MaxRows} # {}
      BY <1>1, <2>2
    <3> QED BY <1>1, <2>2, <3>1
  <2>3. CASE x # MaxRows /\ y = MaxRows
    <3>1. x \in Elements(there) /\ {x, y} \cap {MaxRows} # {}
      BY <1>1, <2>3
    <3> QED BY <1>1, <2>3, <3>1
  <2>4. CASE x = MaxRows /\ y = MaxRows
    BY <1>1, <2>4
  <2> QED BY <2>1, <2>2, <2>3, <2>4
<1> QED BY <1>2, <1>3, <1>4 DEF ListFits

(* The server removes a row: the answer will take it from the list.        *)
LEMMA FitsRowRemoved ==
    ASSUME NEW there \in Seq(RowSet), NEW list, NEW gone, NEW coming, NEW row, Distinct(there),
           ListFits(there, list, gone, coming), row \notin coming
    PROVE  ListFits(Without(there, row), list, gone \cup {row}, coming)
<1> DEFINE t == Without(there, row)
<1>1. /\ Elements(t) = Elements(there) \ {row}
      /\ \A x, y \in Elements(there) \ {row} : Prior(t, x, y) <=> Prior(there, x, y)
  BY WithoutIs
<1> HIDE DEF t
<1> QED BY <1>1 DEF ListFits, t

(* The answer takes it.                                                    *)
LEMMA FitsRowTaken ==
    ASSUME NEW there, NEW list \in Seq(RowSet), NEW gone, NEW rest, NEW coming, NEW row,
           ListFits(there, list, gone, coming), gone = rest \cup {row}, coming \cap gone = {}
    PROVE  ListFits(there, Without(list, row), rest, coming)
<1> DEFINE t == Without(list, row)
<1>1. Distinct(list)
  BY DEF ListFits
<1>2. /\ Elements(t) = Elements(list) \ {row} /\ Distinct(t)
      /\ \A x, y \in Elements(list) \ {row} : Prior(t, x, y) <=> Prior(list, x, y)
  BY <1>1, WithoutIs
<1> HIDE DEF t
<1>3. \A x \in Elements(there) : x \notin coming => x \in Elements(list) \ {row}
  BY DEF ListFits
<1>4. Elements(there) = (Elements(t) \ rest) \cup coming
  BY <1>2 DEF ListFits
<1>5. ASSUME NEW x \in Elements(there), NEW y \in Elements(there), {x, y} \cap coming = {}
      PROVE  Prior(list, x, y) <=> Prior(t, x, y)
  BY <1>2, <1>3, <1>5
<1> QED BY <1>2, <1>4, <1>5 DEF ListFits, t

(* The answer, or the closing of the token's dialog, brings the new row.   *)
LEMMA FitsRowComes ==
    ASSUME NEW there, NEW list \in Seq(RowSet), NEW gone,
           ListFits(there, list, gone, {MaxRows}), MaxRows \notin gone, MaxRows \notin Elements(list),
           NEW put, put = IF screen = "tokens" THEN <<MaxRows>> \o list ELSE Append(list, MaxRows)
    PROVE  put \in Seq(RowSet) /\ ListFits(there, put, gone, {})
<1>1. Distinct(list) /\ Elements(there) = (Elements(list) \ gone) \cup {MaxRows}
  BY DEF ListFits
<1>2. /\ put \in Seq(RowSet) /\ Distinct(put) /\ Elements(put) = Elements(list) \cup {MaxRows}
      /\ \A x, y \in Elements(list) : Prior(put, x, y) <=> Prior(list, x, y)
      /\ \A x \in Elements(list) : /\ Prior(put, x, MaxRows) <=> screen # "tokens"
                                   /\ Prior(put, MaxRows, x) <=> screen = "tokens"
      /\ ~ Prior(put, MaxRows, MaxRows)
  BY <1>1, RowPut
<1>3. Elements(there) = (Elements(put) \ gone) \cup {}
  BY <1>1, <1>2
<1>4. ASSUME NEW x \in Elements(there), NEW y \in Elements(there)
      PROVE  Prior(there, x, y) <=> Prior(put, x, y)
  <2>0. Prior(there, x, y) <=>
           IF {x, y} \cap {MaxRows} = {} THEN Prior(list, x, y)
           ELSE IF screen = "tokens" THEN x \in {MaxRows} /\ y \notin {MaxRows}
           ELSE x \notin {MaxRows} /\ y \in {MaxRows}
    BY DEF ListFits
  <2>1. CASE x # MaxRows /\ y # MaxRows
    <3>1. x \in Elements(list) /\ y \in Elements(list) /\ {x, y} \cap {MaxRows} = {}
      BY <1>1, <2>1
    <3> QED BY <1>2, <2>0, <3>1
  <2>2. CASE x = MaxRows /\ y # MaxRows
    <3>1. y \in Elements(list) /\ {x, y} \cap {MaxRows} # {}
      BY <1>1, <2>2
    <3> QED BY <1>2, <2>0, <2>2, <3>1
  <2>3. CASE x # MaxRows /\ y = MaxRows
    <3>1. x \in Elements(list) /\ {x, y} \cap {MaxRows} # {}
      BY <1>1, <2>3
    <3> QED BY <1>2, <2>0, <2>3, <3>1
  <2>4. CASE x = MaxRows /\ y = MaxRows
    <3>1. {x, y} \cap {MaxRows} # {}
      BY <2>4
    <3> QED BY <1>2, <2>0, <2>4, <3>1
  <2> QED BY <2>1, <2>2, <2>3, <2>4
<1> QED BY <1>2, <1>3, <1>4 DEF ListFits

(* A request is served: what it was sent for it stays.                     *)
LEMMA WriteTurned ==
    ASSUME ListsHold, NEW q \in writes, q.at = "asked", NEW a \in {"done", "refused"},
           NEW r, r = [q EXCEPT !.at = a], writes' = (writes \ {q}) \cup {r},
           UNCHANGED <<screen, made, view, held, patches, strayed>>
    PROVE  /\ r \in RowWrites /\ r.op = q.op /\ r.row = q.row /\ r.of = q.of /\ r.turn = q.turn
           /\ r.mount = q.mount /\ r.at = a
           /\ SentHolds'
           /\ IF q \in Makers THEN Makers' = {r} /\ ~ Unmade' /\ Unmade ELSE Makers' = Makers
           /\ Unmade' => Unmade
           /\ Landing' = IF a = "done" /\ q.turn = view.turn THEN Landing \cup {r} ELSE Landing
           /\ Leaving' = Leaving
           /\ Astray => Astray'
           /\ a = "done" /\ q.turn # view.turn => Astray'
<1>0. ListsShape /\ SentHolds /\ NewRowHolds
  BY DEF ListsHold
<1>1. /\ r \in RowWrites /\ r.op = q.op /\ r.row = q.row /\ r.of = q.of /\ r.turn = q.turn
      /\ r.mount = q.mount /\ r.at = a
  <2>1. q \in RowWrites
    BY <1>0 DEF ListsShape
  <2> QED BY <2>1 DEF RowWrites
<1>2. SentHolds'
  <2>1. SentFrom(r)
    BY <1>0, <1>1 DEF SentHolds, SentFrom
  <2>2. \A x \in writes' \cup patches : SentFrom(x)'
    BY <1>0, <2>1 DEF SentHolds, SentFrom
  <2>3. \A x \in writes' : x.turn = view.turn /\ view.phase = "ready" /\ screen = "members" => view.managed
    BY <1>0, <1>1 DEF SentHolds
  <2> QED BY <1>0, <2>2, <2>3 DEF SentHolds
<1>3. ASSUME q \in Makers PROVE Makers' = {r} /\ ~ Unmade' /\ Unmade
  <2>1. Makers = {q} /\ made = MaxRows
    BY <1>0, <1>3 DEF NewRowHolds
  <2>2. Makers' = {r}
    BY <1>1, <1>3, <2>1 DEF Makers
  <2>3. MaxRows \in Nat
    BY ListsAssumption
  <2>4. ~ Unmade' /\ Unmade
    BY <1>1, <1>3, <2>1, <2>2, <2>3 DEF Unmade
  <2> QED BY <2>2, <2>4
<1>4. ASSUME q \notin Makers PROVE Makers' = Makers /\ (Unmade' => Unmade)
  <2>1. Makers' = Makers
    BY <1>1, <1>4 DEF Makers
  <2> QED BY <2>1 DEF Unmade
<1>5. Landing' = IF a = "done" /\ q.turn = view.turn THEN Landing \cup {r} ELSE Landing
  BY <1>1 DEF Landing
<1>6. Leaving' = Leaving
  <2> DEFINE removals == {x \in writes : x.op = "remove" /\ x.turn = view.turn}
  <2>1. removals' = IF q \in removals THEN (removals \ {q}) \cup {r} ELSE removals
    BY <1>1
  <2>2. {x.row : x \in removals'} = {x.row : x \in removals}
    <3> HIDE DEF removals
    <3> QED BY <1>1, <2>1
  <2> QED BY <2>2 DEF Leaving
<1>7. Astray => Astray'
  <2>1. ~ Foreign(q)
    BY DEF Foreign
  <2>2. \A x \in writes \cup patches : Foreign(x) => x \in writes' \cup patches' /\ Foreign(x)'
    BY <2>1 DEF Foreign
  <2> QED BY <2>2 DEF Astray
<1>8. a = "done" /\ q.turn # view.turn => Astray'
  BY <1>1 DEF Astray, Foreign
<1> QED BY <1>1, <1>2, <1>3, <1>4, <1>5, <1>6, <1>7, <1>8

(* The server serves a request of a dialog.                                *)
LEMMA WriteServed ==
    ASSUME ShellIs, ListsHold, NEW q \in writes, ServeWrite(q)
    PROVE  ShellIs' /\ ListsHold'
<1>0. /\ ListsShape /\ MountHolds /\ SentHolds /\ NewRowHolds
      /\ ListHolds /\ LoadHolds /\ MemberHolds /\ RefusalHolds
  BY DEF ListsHold
<1> DEFINE mine == belongs[q.of]
           granted == CASE q.op = "create" -> MayCreate(mine)
                        [] q.op = "import" -> Manages(mine)
                        [] q.op = "remove" -> MayRemove(mine) /\ Contains(rows[q.of], q.row)
                        [] q.op = "expel" -> Manages(mine) /\ grade[q.of] # "NONE"
           put == IF screen = "tokens" THEN <<q.row>> \o rows[q.of] ELSE Append(rows[q.of], q.row)
           a == IF granted THEN "done" ELSE "refused"
           r == [q EXCEPT !.at = a]
           makes == granted /\ q.op \in {"create", "import"}
           takes == granted /\ q.op = "remove"
           expels == granted /\ q.op = "expel"
<1>1. /\ q.at = "asked" /\ writes' = (writes \ {q}) \cup {r}
      /\ makes => rows' = [rows EXCEPT ![q.of] = put]
      /\ takes => rows' = [rows EXCEPT ![q.of] = Without(rows[q.of], q.row)]
      /\ ~ makes /\ ~ takes => rows' = rows
      /\ grade' = IF expels THEN [grade EXCEPT ![q.of] = "NONE"] ELSE grade
      /\ UNCHANGED <<screen, made, view, load, held, line, patches, strayed>>
      /\ UNCHANGED <<shellRest, shellWork, shellFaults>>
  <2>1. /\ rows' = CASE granted /\ q.op \in {"create", "import"} -> [rows EXCEPT ![q.of] = put]
                     [] granted /\ q.op = "remove" -> [rows EXCEPT ![q.of] = Without(@, q.row)]
                     [] OTHER -> rows
        /\ q.at = "asked" /\ writes' = (writes \ {q}) \cup {r}
        /\ grade' = IF expels THEN [grade EXCEPT ![q.of] = "NONE"] ELSE grade
        /\ UNCHANGED <<screen, made, view, load, held, line, patches, strayed>>
        /\ UNCHANGED <<shellRest, shellWork, shellFaults>>
    BY DEF ServeWrite, shellVars, shellRest
  <2> HIDE DEF granted, put
  <2> QED BY <2>1
<1> HIDE DEF granted
<1>2. /\ ShellIs' /\ (Shown' <=> Shown) /\ shell' = shell /\ belongs' = belongs
      /\ shellFaults' = 0 => shellFaults = 0
      /\ \A w : RoleIn(w)' = RoleIn(w)
  BY <1>1, ShellBeside
<1>3. /\ q \in RowWrites /\ q.of \in Workspaces /\ a \in {"done", "refused"}
      /\ rows[q.of] \in Seq(RowSet) /\ Distinct(rows[q.of])
  BY <1>0 DEF ListsShape, RowWrites, NewRowHolds
<1>4. /\ r \in RowWrites /\ r.op = q.op /\ r.row = q.row /\ r.of = q.of /\ r.turn = q.turn
      /\ r.mount = q.mount /\ r.at = a
      /\ SentHolds'
      /\ IF q \in Makers THEN Makers' = {r} /\ ~ Unmade' /\ Unmade ELSE Makers' = Makers
      /\ Unmade' => Unmade
      /\ Landing' = IF a = "done" /\ q.turn = view.turn THEN Landing \cup {r} ELSE Landing
      /\ Leaving' = Leaving
      /\ Astray => Astray'
      /\ a = "done" /\ q.turn # view.turn => Astray'
  <2> HIDE DEF a
  <2> QED BY <1>1, <1>3, WriteTurned
<1>5. makes => /\ q \in Makers /\ q.row = MaxRows /\ Unmade /\ held = NoHeld /\ made = MaxRows
               /\ MaxRows \notin Elements(rows[q.of])
               /\ put = IF screen = "tokens" THEN <<MaxRows>> \o rows[q.of] ELSE Append(rows[q.of], MaxRows)
               /\ put \in Seq(RowSet) /\ Distinct(put)
  <2> SUFFICES ASSUME makes
               PROVE  /\ q \in Makers /\ q.row = MaxRows /\ Unmade /\ held = NoHeld /\ made = MaxRows
                      /\ MaxRows \notin Elements(rows[q.of])
                      /\ put = IF screen = "tokens" THEN <<MaxRows>> \o rows[q.of] ELSE Append(rows[q.of], MaxRows)
                      /\ put \in Seq(RowSet) /\ Distinct(put)
    OBVIOUS
  <2>1. q \in Makers /\ q.row = MaxRows /\ held = NoHeld /\ made = MaxRows
    BY <1>0 DEF Makers, NewRowHolds
  <2>2. Unmade
    BY <1>4, <2>1
  <2>3. MaxRows \notin Elements(rows[q.of])
    BY <1>0, <1>3, <2>2 DEF NewRowHolds
  <2>4. put = IF screen = "tokens" THEN <<MaxRows>> \o rows[q.of] ELSE Append(rows[q.of], MaxRows)
    BY <2>1
  <2> HIDE DEF put
  <2>5. put \in Seq(RowSet) /\ Distinct(put)
    BY <1>3, <2>3, <2>4, RowPut
  <2> QED BY <2>1, <2>2, <2>3, <2>4, <2>5
<1>6. /\ Without(rows[q.of], q.row) \in Seq(RowSet) /\ Distinct(Without(rows[q.of], q.row))
      /\ Elements(Without(rows[q.of], q.row)) \subseteq Elements(rows[q.of])
  BY <1>3, WithoutIs
<1> HIDE DEF put, r
<1>7. /\ rows' \in [Workspaces -> Seq(RowSet)] /\ \A w \in Workspaces : Distinct(rows'[w])
      /\ Unmade' => \A w \in Workspaces : Elements(rows'[w]) \subseteq Elements(rows[w])
  <2>0. rows \in [Workspaces -> Seq(RowSet)] /\ \A w \in Workspaces : Distinct(rows[w])
    BY <1>0 DEF ListsShape, NewRowHolds
  <2>1. CASE makes
    <3>1. /\ rows' \in [Workspaces -> Seq(RowSet)]
          /\ \A w \in Workspaces : rows'[w] = IF w = q.of THEN put ELSE rows[w]
      <4> HIDE DEF makes, takes
      <4> QED BY <1>1, <1>3, <1>5, <2>0, <2>1
    <3> QED BY <1>4, <1>5, <2>0, <2>1, <3>1
  <2>2. CASE takes
    <3>1. /\ rows' \in [Workspaces -> Seq(RowSet)]
          /\ \A w \in Workspaces : rows'[w] = IF w = q.of THEN Without(rows[q.of], q.row) ELSE rows[w]
      <4> HIDE DEF makes, takes
      <4> QED BY <1>1, <1>3, <1>6, <2>0, <2>2
    <3> QED BY <1>6, <2>0, <3>1
  <2>3. CASE ~ makes /\ ~ takes
    BY <1>1, <2>0, <2>3
  <2> QED BY <2>1, <2>2, <2>3
<1>8. ListsShape'
  <2>1. grade' \in [Workspaces -> Grades]
    <3>1. grade \in [Workspaces -> Grades] /\ "NONE" \in Grades
      BY <1>0 DEF ListsShape, Grades
    <3> QED BY <1>1, <3>1
  <2> QED BY <1>0, <1>1, <1>4, <1>7, <2>1 DEF ListsShape
<1>9. MountHolds'
  BY <1>0, <1>1, <1>2, MountCarried DEF MountHolds
<1>10. NewRowHolds'
  <2>1. /\ \A x \in Makers' : x.row = MaxRows /\ made = MaxRows /\ held = NoHeld
        /\ \A x, y \in Makers' : x = y
    BY <1>0, <1>4 DEF NewRowHolds
  <2>2. ASSUME Unmade'
        PROVE  /\ \A w \in Workspaces : MaxRows \notin Elements(rows'[w])
               /\ MaxRows \notin Elements(view.list) \cup Elements(load.list)
               /\ \A x \in writes' : x.op = "remove" => x.row # MaxRows
    BY <1>0, <1>1, <1>4, <1>7, <2>2 DEF NewRowHolds
  <2> QED BY <1>0, <1>1, <1>7, <2>1, <2>2 DEF NewRowHolds
<1>11. RefusalHolds'
  BY <1>0, <1>1, <1>2 DEF RefusalHolds, Denied
<1>12. CASE Astray'
  <2>1. ListHolds' /\ LoadHolds'
    BY <1>12 DEF ListHolds, LoadHolds
  <2>2. MemberHolds'
    BY <1>0, <1>1, <1>12 DEF MemberHolds
  <2> QED BY <1>2, <1>4, <1>8, <1>9, <1>10, <1>11, <2>1, <2>2 DEF ListsHold
<1>13. CASE ~ Astray' /\ ~ granted
  <2>1. a = "refused" /\ rows' = rows /\ grade' = grade /\ Landing' = Landing
    BY <1>1, <1>4, <1>13
  <2>2. Gone' = Gone /\ Coming' = Coming
    <3>1. Landing \cap Makers' = Landing \cap Makers
      BY <1>1, <1>4, <2>1 DEF Makers, Landing
    <3> QED BY <1>1, <2>1, <3>1 DEF Gone, Coming
  <2>3. ListHolds'
    BY <1>0, <1>1, <1>4, <2>1, <2>2, ListCarried
  <2>4. LoadHolds' /\ MemberHolds'
    BY <1>0, <1>1, <1>4, <1>13, <2>1 DEF LoadHolds, MemberHolds, Hidden
  <2> QED BY <1>2, <1>4, <1>8, <1>9, <1>10, <1>11, <2>3, <2>4 DEF ListsHold
<1>14. CASE ~ Astray' /\ granted
  <2>1. a = "done" /\ q.turn = view.turn /\ ~ Astray /\ Landing' = Landing \cup {r}
    BY <1>4, <1>14
  <2>2. view.phase \notin {"loading", "error"} /\ SentFrom(q)
    BY <1>0, <2>1 DEF SentHolds, SentFrom
  <2>3. LoadHolds'
    BY <1>0, <1>1, <2>2 DEF LoadHolds, MountHolds
  <2>4. view.phase = "ready" => q.of = view.of /\ ~ Hidden(view.managed) /\ ~ Hidden(view.managed)'
    BY <1>0, <1>1, <2>1 DEF SentHolds, SentFrom, Hidden
  <2>5. q \notin Landing /\ r.at = "done" /\ (q \in Makers <=> makes) /\ (r \in Makers' <=> makes)
    BY <1>1, <1>3, <1>4, <1>14, <2>1 DEF Landing, Makers
  <2>6. Gone' = IF takes THEN Gone \cup {q.row} ELSE Gone
    BY <1>4, <1>14, <2>1 DEF Gone
  <2>7. IF makes THEN Coming' = {MaxRows} /\ Coming = {} ELSE Coming' = Coming
    <3>1. CASE makes
      <4>1. r \in Landing' \cap Makers' /\ Landing \cap Makers = {} /\ held = NoHeld
        <5>1. Landing \cap Makers = {}
          BY <1>0, <2>5, <3>1 DEF NewRowHolds
        <5> QED BY <1>5, <2>1, <2>5, <3>1, <5>1
      <4> QED BY <1>1, <3>1, <4>1 DEF Coming
    <3>2. CASE ~ makes
      <4>1. Makers' = Makers /\ r \notin Makers'
        BY <1>4, <2>5, <3>2
      <4>2. Landing' \cap Makers' = Landing \cap Makers
        BY <2>1, <4>1
      <4> QED BY <1>1, <3>2, <4>2 DEF Coming
    <3> QED BY <3>1, <3>2
  <2>8. ListHolds'
    <3> SUFFICES ASSUME view.phase = "ready"
                 PROVE  /\ ListFits(rows'[view.of], view.list, Gone', Coming')
                        /\ Coming' \cap (Elements(view.list) \cup Leaving) = {}
      <4>1. ListFits(rows[view.of], view.list, Gone, Coming)' <=> ListFits(rows'[view.of], view.list, Gone', Coming')
        BY <1>1 DEF ListFits
      <4> HIDE DEF makes, takes, expels, a
      <4> QED BY <1>1, <1>4, <2>4, <4>1 DEF ListHolds, ListFits, Precedes
    <3>1. /\ ListFits(rows[view.of], view.list, Gone, Coming)
          /\ Coming \cap (Elements(view.list) \cup Leaving) = {}
      BY <1>0, <2>1, <2>4, ListHoldsIs
    <3>2. q.of = view.of /\ rows \in [Workspaces -> Seq(RowSet)]
      BY <1>0, <2>4 DEF ListsShape
    <3>3. CASE makes
      <4>1. rows'[view.of] = put
        <5> HIDE DEF makes, takes
        <5> QED BY <1>1, <1>3, <3>2, <3>3
      <4>2. Coming = {} /\ Coming' = {MaxRows} /\ Gone' = Gone
        BY <2>6, <2>7, <3>3
      <4>3. ListFits(put, view.list, Gone, {MaxRows})
        BY <1>3, <1>5, <3>1, <3>2, <3>3, <4>2, FitsRowMade
      <4>4. MaxRows \notin Elements(view.list) \cup Leaving
        BY <1>0, <1>5, <3>3 DEF NewRowHolds, Leaving
      <4> QED BY <4>1, <4>2, <4>3, <4>4
    <3>4. CASE takes
      <4>1. rows'[view.of] = Without(rows[view.of], q.row)
        <5> HIDE DEF makes, takes
        <5> QED BY <1>1, <1>3, <3>2, <3>4
      <4>2. Coming' = Coming /\ Gone' = Gone \cup {q.row}
        BY <2>6, <2>7, <3>4
      <4>3. q.row \in Leaving
        BY <2>1, <3>4 DEF Leaving
      <4>4. ListFits(Without(rows[view.of], q.row), view.list, Gone \cup {q.row}, Coming)
        BY <1>3, <3>1, <3>2, <4>3, FitsRowRemoved
      <4> QED BY <3>1, <4>1, <4>2, <4>4
    <3>5. CASE ~ makes /\ ~ takes
      BY <1>1, <2>6, <2>7, <3>1, <3>5
    <3> QED BY <3>3, <3>4, <3>5
  <2>9. MemberHolds'
    <3>1. CASE expels
      <4>1. grade'[q.of] = "NONE"
        BY <1>0, <1>1, <1>3, <3>1 DEF ListsShape
      <4>2. \E x \in Landing' : x.op = "expel"
        BY <1>4, <2>1, <3>1
      <4> HIDE DEF expels
      <4> QED BY <1>0, <1>1, <2>1, <2>4, <4>1, <4>2 DEF MemberHolds
    <3>2. CASE ~ expels
      <4>1. (\E x \in Landing' : x.op = "expel") <=> (\E x \in Landing : x.op = "expel")
        BY <1>4, <1>14, <2>1, <3>2
      <4>2. grade' = grade
        BY <1>1, <3>2
      <4> HIDE DEF expels
      <4> QED BY <1>0, <1>1, <2>1, <4>1, <4>2 DEF MemberHolds
    <3> QED BY <3>1, <3>2
  <2> QED BY <1>2, <1>4, <1>8, <1>9, <1>10, <1>11, <2>3, <2>8, <2>9 DEF ListsHold
<1> QED BY <1>12, <1>13, <1>14

(* An answered request is gone.                                            *)
LEMMA WriteOver ==
    ASSUME ListsHold, NEW q \in writes, q.at \in {"done", "refused"}, writes' = writes \ {q},
           made' = made, screen' = screen, view'.turn = view.turn
    PROVE  /\ Makers' = Makers \ {q} /\ (Unmade' => Unmade)
           /\ q \in Makers => ~ Unmade' /\ Makers' = {}
           /\ Landing' = Landing \ {q} /\ Leaving' \subseteq Leaving
           /\ q.op # "remove" => Leaving' = Leaving /\ Gone' = Gone
           /\ q.op = "remove" /\ q \in Landing => Gone = Gone' \cup {q.row}
           /\ Gone \subseteq Leaving
<1>0. NewRowHolds
  BY DEF ListsHold
<1>1. Makers' = Makers \ {q} /\ (Unmade' => Unmade)
  <2>1. Makers' = Makers \ {q}
    BY DEF Makers
  <2> QED BY <2>1 DEF Unmade
<1>2. ASSUME q \in Makers PROVE ~ Unmade' /\ Makers' = {}
  <2>1. made = MaxRows /\ Makers' = {}
    BY <1>0, <1>1, <1>2 DEF NewRowHolds
  <2>2. MaxRows \in Nat
    BY ListsAssumption
  <2> QED BY <2>1, <2>2 DEF Unmade
<1>3. Landing' = Landing \ {q} /\ Leaving' \subseteq Leaving /\ Gone \subseteq Leaving
  BY DEF Landing, Leaving, Gone
<1>4. q.op # "remove" => Leaving' = Leaving /\ Gone' = Gone
  BY DEF Landing, Leaving, Gone
<1>5. q.op = "remove" /\ q \in Landing => Gone = Gone' \cup {q.row}
  BY DEF Landing, Gone
<1> QED BY <1>1, <1>2, <1>3, <1>4, <1>5

(* An answer nobody waits for, or a refusal: the list stays.               *)
LEMMA AnswerDropped ==
    ASSUME ListsHold, NEW q \in writes, q.at \in {"done", "refused"}, writes' = writes \ {q},
           shell' = shell, Shown' <=> Shown, belongs' = belongs, shellFaults' = shellFaults,
           strayed' = (strayed \/ (q.at = "done" /\ q.turn # view.turn)),
           q.at = "refused" \/ ~ Mounted(q),
           UNCHANGED <<screen, rows, made, grade, view, load, held, line, patches>>
    PROVE  ListsHold'
<1>0. /\ ListsShape /\ MountHolds /\ SentHolds /\ NewRowHolds
      /\ ListHolds /\ LoadHolds /\ MemberHolds /\ RefusalHolds
  BY DEF ListsHold
<1>1. /\ Makers' = Makers \ {q} /\ (Unmade' => Unmade)
      /\ Landing' = Landing \ {q} /\ Leaving' \subseteq Leaving
  BY WriteOver
<1>2. ListsShape'
  <2>1. strayed' \in BOOLEAN
    BY <1>0 DEF ListsShape
  <2> QED BY <1>0, <2>1 DEF ListsShape
<1>3. MountHolds'
  BY <1>0, MountCarried DEF MountHolds
<1>4. SentHolds'
  BY <1>0 DEF SentHolds, SentFrom
<1>5. NewRowHolds'
  BY <1>0, <1>1 DEF NewRowHolds
<1>6. RefusalHolds'
  BY <1>0 DEF RefusalHolds, Denied, RoleIn
<1>7. MemberHolds' /\ ListHolds' /\ LoadHolds'
  <2>1. CASE Astray'
    <3>1. ListHolds' /\ LoadHolds'
      BY <2>1 DEF ListHolds, LoadHolds
    <3>2. MemberHolds'
      BY <1>0, <2>1 DEF MemberHolds
    <3> QED BY <3>1, <3>2
  <2>2. CASE ~ Astray' /\ q.at = "refused"
    <3>1. Landing' = Landing /\ Gone' = Gone /\ Coming' = Coming
      <4>1. Landing' = Landing
        BY <1>1, <2>2 DEF Landing
      <4>2. Landing \cap Makers' = Landing \cap Makers
        BY <1>1, <2>2 DEF Landing
      <4> QED BY <4>1, <4>2 DEF Gone, Coming
    <3>2. Astray => Astray'
      BY <2>2 DEF Astray, Foreign
    <3>3. ListHolds'
      BY <1>0, <1>1, <3>1, <3>2, ListCarried
    <3>4. LoadHolds' /\ MemberHolds'
      BY <1>0, <2>2, <3>1, <3>2 DEF LoadHolds, MemberHolds, Hidden, Astray
    <3> QED BY <3>3, <3>4
  <2>3. CASE ~ Astray' /\ q.at # "refused"
    <3>1. ~ strayed' /\ q.turn = view.turn /\ ~ Mounted(q) /\ strayed' = strayed
      BY <1>0, <2>3 DEF Astray, ListsShape
    <3>2. view.phase \notin {"loading", "ready"}
      BY <1>0, <3>1 DEF SentHolds, SentFrom, Mounted
    <3>3. load.at # "answered"
      BY <1>0, <3>2 DEF MountHolds
    <3> QED BY <1>0, <3>1, <3>2, <3>3 DEF ListHolds, LoadHolds, MemberHolds
  <2> QED BY <2>1, <2>2, <2>3
<1> QED BY <1>2, <1>3, <1>4, <1>5, <1>6, <1>7 DEF ListsHold

(* An answer edits the list it finds.                                      *)
LEMMA AnswerEdits ==
    ASSUME ShellIs, ListsHold, NEW q \in writes, q.at = "done", writes' = writes \ {q},
           shell' = shell, Shown' <=> Shown, belongs' = belongs, shellFaults' = shellFaults,
           strayed' = (strayed \/ q.turn # view.turn), Mounted(q), q.op # "import",
           held' = IF q.op = "create" /\ screen = "tokens"
                   THEN [row |-> q.row, turn |-> q.turn] ELSE held,
           view' = [view EXCEPT !.list = Edited(q), !.member = IF q.op = "expel" THEN "NONE" ELSE @],
           line' = IF q.op = "expel" THEN Line("NONE") ELSE line,
           UNCHANGED <<screen, rows, made, grade, load, patches>>
    PROVE  ListsHold'
<1>0. /\ ListsShape /\ MountHolds /\ SentHolds /\ NewRowHolds
      /\ ListHolds /\ LoadHolds /\ MemberHolds /\ RefusalHolds
  BY DEF ListsHold
<1>1. /\ q \in RowWrites /\ q.op \in {"create", "remove", "expel"} /\ view.list \in Seq(RowSet)
      /\ view \in ListViews /\ screen \in {"members", "tokens", "boards"}
      /\ SentFrom(q)
  <2>1. q \in RowWrites /\ view \in ListViews
    BY <1>0 DEF ListsShape
  <2>2. view.phase # "off" /\ screen # "none"
    BY <1>0, MountedHere DEF Mounted
  <2> QED BY <1>0, <2>1, <2>2 DEF ListsShape, RowWrites, ListViews, SentHolds
<1>2. q.op = "create" => /\ q \in Makers /\ Makers = {q} /\ q.row = MaxRows /\ made = MaxRows
                         /\ held = NoHeld
  BY <1>0 DEF NewRowHolds, Makers
<1>3. Edited(q) \in Seq(RowSet) /\ (q.op # "create" => Elements(Edited(q)) \subseteq Elements(view.list))
  <2>1. CASE q.op = "create"
    <3>1. q.row \in RowSet
      BY <1>2, <2>1, ListsAssumption DEF RowSet
    <3>2. Without(view.list, q.row) \in Seq(RowSet)
      BY <1>1, WithoutKept
    <3>3. Edited(q) \in {Append(Without(view.list, q.row), q.row), Append(view.list, q.row), view.list}
      BY <2>1 DEF Edited
    <3> QED BY <1>1, <2>1, <3>1, <3>2, <3>3, AppendProperties
  <2>2. CASE q.op = "remove"
    <3>1. Edited(q) = Without(view.list, q.row)
      BY <2>2 DEF Edited
    <3> QED BY <1>1, <3>1, WithoutKept
  <2>3. CASE q.op = "expel"
    <3>1. Edited(q) = view.list
      BY <2>3 DEF Edited
    <3> QED BY <1>1, <3>1
  <2> QED BY <1>1, <2>1, <2>2, <2>3
<1>4. /\ view' \in ListViews /\ view'.phase = view.phase /\ view'.of = view.of
      /\ view'.managed = view.managed /\ view'.turn = view.turn /\ view'.mount = view.mount
      /\ view'.list = Edited(q)
      /\ view'.member = IF q.op = "expel" THEN "NONE" ELSE view.member
  <2>1. "NONE" \in Grades
    BY DEF Grades
  <2> QED BY <1>1, <1>3, <2>1 DEF ListViews
<1>5. /\ Makers' = Makers \ {q} /\ (Unmade' => Unmade)
      /\ q \in Makers => ~ Unmade' /\ Makers' = {}
      /\ Landing' = Landing \ {q} /\ Leaving' \subseteq Leaving
      /\ q.op # "remove" => Leaving' = Leaving /\ Gone' = Gone
      /\ q.op = "remove" /\ q \in Landing => Gone = Gone' \cup {q.row}
      /\ Gone \subseteq Leaving
  BY <1>4, WriteOver
<1>6. ListsShape'
  <2>1. strayed' \in BOOLEAN
    BY <1>0 DEF ListsShape
  <2>2. held' \in [row : Nat, turn : Nat]
    BY <1>0, <1>1 DEF ListsShape, RowWrites
  <2>3. line' \in [role : Grades, pending : BOOLEAN, confirming : BOOLEAN]
    BY <1>0 DEF ListsShape, Line, Grades
  <2> QED BY <1>0, <1>4, <2>1, <2>2, <2>3 DEF ListsShape
<1>7. MountHolds'
  BY <1>0, <1>4, MountCarried DEF MountHolds, Mounted
<1>8. SentHolds'
  <2>1. \A x \in writes' \cup patches : SentFrom(x)'
    BY <1>0, <1>4 DEF SentHolds, SentFrom
  <2>2. \A x \in writes' : x.turn = view'.turn /\ view'.phase = "ready" /\ screen = "members" => view'.managed
    BY <1>0, <1>4 DEF SentHolds
  <2>3. held' # NoHeld => /\ held'.turn <= view'.turn
                          /\ held'.turn = view'.turn => view'.phase \notin {"loading", "error"}
    BY <1>0, <1>1, <1>4 DEF SentHolds, SentFrom
  <2> QED BY <2>1, <2>2, <2>3 DEF SentHolds
<1>9. NewRowHolds'
  <2>1. CASE q.op = "create"
    <3>1. ~ Unmade' /\ Makers' = {} /\ made = MaxRows /\ held = NoHeld /\ q.row = MaxRows
      BY <1>2, <1>5, <2>1
    <3>2. held' # NoHeld => held'.row = MaxRows /\ screen = "tokens"
      BY <3>1
    <3> QED BY <1>0, <3>1, <3>2 DEF NewRowHolds
  <2>2. CASE q.op # "create"
    <3>1. held' = held
      BY <2>2
    <3> QED BY <1>0, <1>3, <1>4, <1>5, <2>2, <3>1 DEF NewRowHolds
  <2> QED BY <2>1, <2>2
<1>10. RefusalHolds'
  BY <1>0, <1>4 DEF RefusalHolds, Denied, RoleIn
<1>11. CASE Astray'
  <2>1. ListHolds' /\ LoadHolds'
    BY <1>11 DEF ListHolds, LoadHolds
  <2>2. MemberHolds'
    BY <1>0, <1>11 DEF MemberHolds, Astray
  <2> QED BY <1>6, <1>7, <1>8, <1>9, <1>10, <2>1, <2>2 DEF ListsHold
<1>12. CASE ~ Astray'
  <2>1. ~ strayed' /\ q.turn = view.turn /\ q \in Landing
    BY <1>0, <1>12 DEF Astray, ListsShape, Landing
  <2>2. ~ Astray
    <3>1. ~ strayed /\ \A x \in writes \cup patches : ~ Foreign(x)
      BY <1>4, <1>12, <2>1 DEF Astray, Foreign
    <3>2. held # NoHeld => held' = held
      BY <1>2
    <3> QED BY <1>4, <1>12, <3>1, <3>2 DEF Astray
  <2>3. view.phase = "ready" /\ view.of \in Workspaces /\ ~ Hidden(view.managed)
    <3>1. view.phase \notin {"loading", "error", "off"}
      BY <1>1, <2>1 DEF SentFrom, Mounted
    <3>2. view.phase = "ready"
      BY <1>1, <3>1 DEF ListViews
    <3>3. screen = "members" => view.managed
      BY <1>0, <2>1, <3>2 DEF SentHolds
    <3> QED BY <1>0, <3>2, <3>3, MountedHere DEF Hidden
  <2>4. LoadHolds'
    BY <1>0, <2>3 DEF LoadHolds, MountHolds
  <2>5. MemberHolds'
    <3>1. \E x \in Landing : x.op = "expel" => q.op = "expel" \/ \E y \in Landing' : y.op = "expel"
      BY <1>5, <2>1
    <3>2. strayed' = strayed
      BY <2>1, <1>0 DEF ListsShape
    <3>3. CASE q.op = "expel"
      <4>1. grade[view.of] = "NONE"
        BY <1>0, <2>1, <2>2, <2>3, <3>3 DEF MemberHolds
      <4>2. line'.role = "NONE" /\ view'.member = "NONE"
        BY <1>4, <3>3 DEF Line
      <4> QED BY <1>0, <1>4, <2>3, <3>2, <4>1, <4>2 DEF MemberHolds
    <3>4. CASE q.op # "expel"
      <4>1. (\E x \in Landing : x.op = "expel") <=> (\E x \in Landing' : x.op = "expel")
        BY <1>5, <3>4
      <4>2. line' = line /\ view'.member = view.member
        BY <1>4, <3>4
      <4> QED BY <1>0, <1>4, <2>2, <3>2, <4>1, <4>2 DEF MemberHolds
    <3> QED BY <3>3, <3>4
  <2>6. ListHolds'
    <3>0. /\ ListFits(rows[view.of], view.list, Gone, Coming)
          /\ Coming \cap (Elements(view.list) \cup Leaving) = {}
      BY <1>0, <2>2, <2>3, ListHoldsIs
    <3> SUFFICES /\ ListFits(rows[view.of], Edited(q), Gone', Coming')
                 /\ Coming' \cap (Elements(Edited(q)) \cup Leaving') = {}
      <4>1. Hidden(view.managed)' <=> Hidden(view.managed)
        BY <1>4 DEF Hidden
      <4> QED BY <1>4, <2>3, <4>1 DEF ListHolds, ListFits, Precedes
    <3>1. CASE q.op = "create"
      <4>1. Coming = {MaxRows} /\ Gone' = Gone /\ Leaving' = Leaving
        BY <1>2, <1>5, <2>1, <3>1 DEF Coming
      <4>2. MaxRows \notin Elements(view.list) /\ MaxRows \notin Gone /\ MaxRows \notin Leaving
        BY <1>5, <3>0, <4>1
      <4>3. CASE screen = "tokens"
        <5>1. held' # NoHeld
          <6>1. held'.row = MaxRows /\ MaxRows # 0
            BY <1>2, <3>1, <4>3, ListsAssumption
          <6> QED BY <6>1 DEF NoHeld
        <5>2. Coming' = {MaxRows}
          BY <5>1 DEF Coming
        <5>3. Edited(q) = view.list
          BY <3>1, <4>3 DEF Edited
        <5> QED BY <3>0, <4>1, <5>2, <5>3
      <4>4. CASE screen # "tokens"
        <5>1. Coming' = {}
          <6>1. held' = NoHeld /\ Makers' = {}
            BY <1>2, <1>5, <3>1, <4>4
          <6> QED BY <6>1 DEF Coming
        <5>2. Without(view.list, MaxRows) = view.list
          <6>1. Distinct(view.list)
            BY <3>0 DEF ListFits
          <6> QED BY <1>1, <4>2, <6>1, WithoutIs
        <5>3. Edited(q) = Append(view.list, MaxRows)
          BY <1>1, <1>2, <3>1, <4>4, <5>2 DEF Edited
        <5>4. ListFits(rows[view.of], Edited(q), Gone, {})
          BY <1>1, <3>0, <4>1, <4>2, <4>4, <5>3, FitsRowComes
        <5> QED BY <4>1, <5>1, <5>4
      <4> QED BY <4>3, <4>4
    <3>2. CASE q.op = "remove"
      <4>1. Coming' = Coming
        <5>1. Landing' \cap Makers' = Landing \cap Makers
          BY <1>5, <3>2 DEF Makers
        <5> QED BY <3>2, <5>1 DEF Coming
      <4>2. Edited(q) = Without(view.list, q.row) /\ Elements(Edited(q)) \subseteq Elements(view.list)
        BY <1>3, <3>2 DEF Edited
      <4>3. Gone = Gone' \cup {q.row} /\ Coming \cap Gone = {}
        BY <1>5, <2>1, <3>0, <3>2
      <4>4. ListFits(rows[view.of], Edited(q), Gone', Coming)
        BY <1>1, <3>0, <4>2, <4>3, FitsRowTaken
      <4>5. Coming \cap (Elements(Edited(q)) \cup Leaving') = {}
        BY <1>5, <3>0, <4>2
      <4> QED BY <4>1, <4>4, <4>5
    <3>3. CASE q.op = "expel"
      <4>1. Coming' = Coming
        <5>1. Landing' \cap Makers' = Landing \cap Makers
          BY <1>5, <3>3 DEF Makers
        <5> QED BY <3>3, <5>1 DEF Coming
      <4>2. Edited(q) = view.list /\ Gone' = Gone /\ Leaving' = Leaving
        BY <1>5, <3>3 DEF Edited
      <4> QED BY <3>0, <4>1, <4>2
    <3> QED BY <1>1, <3>1, <3>2, <3>3
  <2> QED BY <1>6, <1>7, <1>8, <1>9, <1>10, <2>4, <2>5, <2>6 DEF ListsHold
<1> QED BY <1>11, <1>12

(* A dialog's answer comes.                                                *)
LEMMA WriteOverKept ==
    ASSUME ShellIs, ListsHold, NEW q \in writes, WriteAnswered(q)
    PROVE  ShellIs' /\ ListsHold'
<1>1. /\ q.at \in {"done", "refused"} /\ writes' = writes \ {q}
      /\ strayed' = (strayed \/ (q.at = "done" /\ q.turn # view.turn))
      /\ held' = IF q.at = "done" /\ q.op = "create" /\ screen = "tokens" /\ Mounted(q)
                 THEN [row |-> q.row, turn |-> q.turn] ELSE held
      /\ UNCHANGED <<screen, rows, made, grade, patches>>
      /\ UNCHANGED <<shellRest, shellWork, shellFaults>>
  BY DEF WriteAnswered, shellVars, shellRest
<1>2. ShellIs' /\ (Shown' <=> Shown) /\ shell' = shell /\ belongs' = belongs
  BY <1>1, ShellBeside
<1>3. CASE q.at = "refused" \/ ~ Mounted(q)
  <2>1. UNCHANGED <<view, load, line>>
    BY <1>3 DEF WriteAnswered
  <2>2. held' = held
    BY <1>1, <1>3
  <2> QED BY <1>1, <1>2, <1>3, <2>1, <2>2, AnswerDropped
<1>4. CASE q.at = "done" /\ Mounted(q) /\ q.op = "import"
  <2>1. Reload(view, view.of, view.managed) /\ view.phase # "off" /\ held' = held
    BY <1>1, <1>4 DEF WriteAnswered, Mounted
  <2>2. strayed' \in BOOLEAN /\ (strayed => strayed')
    BY <1>1 DEF ListsHold, ListsShape
  <2> QED BY <1>1, <1>2, <2>1, <2>2, LoadsAgain
<1>5. CASE q.at = "done" /\ Mounted(q) /\ q.op # "import"
  <2>1. /\ view' = [view EXCEPT !.list = Edited(q), !.member = IF q.op = "expel" THEN "NONE" ELSE @]
        /\ line' = IF q.op = "expel" THEN Line("NONE") ELSE line
        /\ load' = load
    BY <1>5 DEF WriteAnswered
  <2>2. ListsHold'
    BY <1>1, <1>2, <1>5, <2>1, AnswerEdits
  <2> QED BY <1>2, <2>2
<1> QED BY <1>1, <1>3, <1>4, <1>5

(* The dialog of a new token closes, and puts it into the list.            *)
LEMMA TokenListed ==
    ASSUME ShellIs, ListsHold, CloseTokenDialog
    PROVE  ShellIs' /\ ListsHold'
<1>0. /\ ListsShape /\ MountHolds /\ SentHolds /\ NewRowHolds
      /\ ListHolds /\ LoadHolds /\ MemberHolds /\ RefusalHolds
  BY DEF ListsHold
<1>1. /\ view.phase = "ready" /\ held # NoHeld /\ held' = NoHeld
      /\ view' = [view EXCEPT !.list = <<held.row>> \o view.list]
      /\ strayed' = (strayed \/ held.turn # view.turn)
      /\ UNCHANGED <<screen, rows, made, grade, load, writes, line, patches>>
      /\ UNCHANGED <<shellRest, shellWork, shellFaults>>
  BY DEF CloseTokenDialog, Ready, shellVars, shellRest
<1>2. /\ ShellIs' /\ (Shown' <=> Shown) /\ shell' = shell /\ belongs' = belongs
      /\ shellFaults' = 0 => shellFaults = 0
      /\ \A w : RoleIn(w)' = RoleIn(w)
  BY <1>1, ShellBeside
<1>3. held.row = MaxRows /\ made = MaxRows /\ screen = "tokens" /\ Makers = {} /\ MaxRows \in RowSet
  BY <1>0, <1>1, ListsAssumption DEF NewRowHolds, RowSet
<1> DEFINE put == <<MaxRows>> \o view.list
<1>4. /\ view' \in ListViews /\ view'.phase = "ready" /\ view'.of = view.of
      /\ view'.managed = view.managed /\ view'.turn = view.turn /\ view'.mount = view.mount
      /\ view'.member = view.member /\ view'.list = put
  <2>1. view \in ListViews /\ view.list \in Seq(RowSet) /\ <<MaxRows>> \in Seq(RowSet)
    BY <1>0, <1>3 DEF ListsShape, ListViews
  <2>2. put \in Seq(RowSet)
    BY <2>1, ConcatProperties
  <2>3. view' = [view EXCEPT !.list = put]
    BY <1>1, <1>3
  <2> HIDE DEF put
  <2> QED BY <1>1, <2>1, <2>2, <2>3 DEF ListViews
<1>5. ~ Unmade /\ Makers' = {} /\ ~ Unmade'
  <2>1. MaxRows \in Nat
    BY ListsAssumption
  <2> QED BY <1>1, <1>3, <2>1 DEF Unmade, Makers
<1>6. ListsShape'
  <2>1. strayed' \in BOOLEAN
    BY <1>0, <1>1 DEF ListsShape
  <2> QED BY <1>0, <1>1, <1>4, <2>1 DEF ListsShape, NoHeld
<1>7. MountHolds'
  BY <1>0, <1>1, <1>2, <1>4, MountCarried DEF MountHolds
<1>8. SentHolds'
  BY <1>0, <1>1, <1>4 DEF SentHolds, SentFrom
<1>9. NewRowHolds'
  BY <1>0, <1>1, <1>5 DEF NewRowHolds
<1>10. RefusalHolds'
  BY <1>0, <1>1, <1>2, <1>4 DEF RefusalHolds, Denied
<1>11. LoadHolds'
  BY <1>0, <1>1 DEF LoadHolds, MountHolds
<1>12. Landing' = Landing /\ Gone' = Gone /\ Leaving' = Leaving /\ Coming' = {}
  BY <1>1, <1>4, <1>5 DEF Landing, Gone, Leaving, Coming
<1>13. CASE Astray'
  <2>1. MemberHolds'
    BY <1>0, <1>1, <1>13 DEF MemberHolds
  <2> QED BY <1>2, <1>6, <1>7, <1>8, <1>9, <1>10, <1>11, <1>13, <2>1 DEF ListsHold, ListHolds
<1>14. CASE ~ Astray'
  <2>1. ~ strayed' /\ held.turn = view.turn /\ strayed' = strayed /\ ~ Astray
    BY <1>0, <1>1, <1>4, <1>14 DEF Astray, Foreign, ListsShape
  <2>2. MemberHolds'
    BY <1>0, <1>1, <1>4, <1>12, <2>1 DEF MemberHolds
  <2>3. Coming = {MaxRows} /\ ~ Hidden(view.managed) /\ ~ Hidden(view.managed)'
    BY <1>1, <1>3 DEF Coming, Hidden
  <2>4. /\ ListFits(rows[view.of], view.list, Gone, Coming)
        /\ Coming \cap (Elements(view.list) \cup Leaving) = {}
    BY <1>0, <1>1, <2>1, <2>3, ListHoldsIs
  <2>5. MaxRows \notin Gone /\ MaxRows \notin Elements(view.list)
    BY <2>3, <2>4 DEF Gone, Leaving, Landing
  <2>6. ListFits(rows[view.of], put, Gone, {})
    <3>1. view.list \in Seq(RowSet)
      BY <1>0 DEF ListsShape, ListViews
    <3>2. put = IF screen = "tokens" THEN <<MaxRows>> \o view.list ELSE Append(view.list, MaxRows)
      BY <1>3
    <3> HIDE DEF put
    <3> QED BY <2>3, <2>4, <2>5, <3>1, <3>2, FitsRowComes
  <2>7. ListHolds'
    <3> HIDE DEF put
    <3> QED BY <1>1, <1>4, <1>12, <2>3, <2>6 DEF ListHolds, ListFits, Precedes
  <2> QED BY <1>2, <1>6, <1>7, <1>8, <1>9, <1>10, <1>11, <2>2, <2>7 DEF ListsHold
<1> QED BY <1>13, <1>14

(* Steps of the member's row leave the list and what is made alone.        *)
LEMMA RowAside ==
    ASSUME ShellIs, ListsHold, shell' = shell, Shown' <=> Shown,
           shellFaults' = 0 => shellFaults = 0, \A w : RoleIn(w)' = RoleIn(w),
           UNCHANGED <<screen, rows, made, load, writes, held>>,
           view' \in ListViews, view'.phase = view.phase, view'.of = view.of,
           view'.managed = view.managed, view'.turn = view.turn, view'.mount = view.mount,
           view'.list = view.list
    PROVE  /\ MountHolds' /\ NewRowHolds' /\ RefusalHolds'
           /\ Landing' = Landing
           /\ \A x \in writes : SentFrom(x)'
           /\ (\A p \in patches' : SentFrom(p)') => SentHolds'
           /\ (Astray => Astray') => ListHolds'
<1>0. /\ ListsShape /\ MountHolds /\ SentHolds /\ NewRowHolds /\ ListHolds /\ RefusalHolds
  BY DEF ListsHold
<1>1. MountHolds'
  BY <1>0, MountCarried DEF MountHolds
<1>2. Makers' = Makers /\ (Unmade' <=> Unmade)
  BY DEF Makers, Unmade
<1>3. NewRowHolds'
  BY <1>0, <1>2 DEF NewRowHolds
<1>4. RefusalHolds'
  BY <1>0 DEF RefusalHolds, Denied
<1>5. Landing' = Landing /\ Gone' = Gone /\ Leaving' = Leaving /\ Coming' = Coming
  BY <1>2 DEF Landing, Gone, Leaving, Coming
<1>6. \A x \in writes : SentFrom(x)'
  BY <1>0 DEF SentHolds, SentFrom
<1>7. (\A p \in patches' : SentFrom(p)') => SentHolds'
  BY <1>0, <1>6 DEF SentHolds
<1>8. (Astray => Astray') => ListHolds'
  BY <1>0, <1>5, ListCarried
<1> QED BY <1>1, <1>3, <1>4, <1>5, <1>6, <1>7, <1>8

(* A role request goes out.                                                *)
LEMMA PatchSent ==
    ASSUME ShellIs, ListsHold, view.phase = "ready", NEW to \in Grades,
           NEW how \in {"direct", "confirmed"}, SendPatch(Patch(to, how)),
           line' \in [role : Grades, pending : BOOLEAN, confirming : BOOLEAN],
           line'.role = IF how = "direct" THEN to ELSE line.role,
           how = "direct" => view.member # "NONE",
           UNCHANGED <<grade, shellRest>>, UNCHANGED patchRest
    PROVE  ShellIs' /\ ListsHold'
<1>0. /\ ListsShape /\ MountHolds /\ SentHolds /\ NewRowHolds
      /\ ListHolds /\ LoadHolds /\ MemberHolds /\ RefusalHolds
  BY DEF ListsHold
<1> DEFINE p == Patch(to, how)
<1>1. /\ patches' = patches \cup {p} /\ strayed' = (strayed \/ patches # {}) /\ Works
      /\ UNCHANGED <<screen, rows, made, grade, view, load, writes, held, shellRest>>
  BY DEF SendPatch, patchRest
<1>2. /\ ShellIs' /\ (Shown' <=> Shown) /\ shell' = shell
      /\ shellFaults' = 0 => shellFaults = 0
      /\ \A w : RoleIn(w)' = RoleIn(w)
  BY <1>1, ShellBeside
<1>3. view.of \in Workspaces /\ view.of = shell.activeId /\ view \in ListViews
  BY <1>0, MountedHere DEF ListsShape
<1>4. /\ p \in RolePatches /\ p.to = to /\ p.how = how /\ p.was = view.member /\ p.of = view.of
      /\ p.turn = view.turn /\ p.mount = view.mount /\ p.at = "asked"
  BY <1>3 DEF RolePatches, ListViews, Patch
<1> HIDE DEF p
<1>5. ListsShape'
  <2>1. strayed' \in BOOLEAN
    BY <1>0, <1>1 DEF ListsShape
  <2> QED BY <1>0, <1>1, <1>4, <2>1 DEF ListsShape
<1>6. \A x \in patches' : SentFrom(x)'
  <2>1. view.turn \in Nat
    BY <1>3 DEF ListViews
  <2>2. SentFrom(p)
    BY <1>4, <2>1 DEF SentFrom
  <2> QED BY <1>0, <1>1, <2>2 DEF SentHolds, SentFrom
<1>7. Astray => Astray'
  BY <1>1 DEF Astray, Foreign
<1>8. /\ MountHolds' /\ NewRowHolds' /\ RefusalHolds' /\ SentHolds' /\ ListHolds'
      /\ Landing' = Landing
  BY <1>1, <1>2, <1>3, <1>6, <1>7, RowAside
<1>9. LoadHolds'
  BY <1>0, <1>1 DEF LoadHolds, MountHolds
<1>10. MemberHolds'
  <2> SUFFICES ASSUME ~ strayed' PROVE MemberHolds'
    BY DEF MemberHolds, Astray
  <2>1. patches = {} /\ patches' = {p} /\ ~ strayed
    BY <1>0, <1>1 DEF ListsShape
  <2>2. (CHOOSE x \in {p} : TRUE) = p
    OBVIOUS
  <2>3. ASSUME ~ Astray' PROVE ~ Astray
    BY <1>7, <2>3
  <2>4. ASSUME ~ Astray
        PROVE  /\ grade[view.of] = IF view.member = "NONE" \/ \E x \in Landing : x.op = "expel" THEN "NONE"
                                   ELSE view.member
               /\ line.role = view.member
    BY <1>0, <2>1, <2>4 DEF MemberHolds
  <2>5. line'.role = IF view.member # "NONE" /\ how = "direct" THEN to ELSE line.role
    OBVIOUS
  <2> QED BY <1>1, <1>4, <1>8, <2>1, <2>2, <2>3, <2>4, <2>5 DEF MemberHolds
<1> QED BY <1>2, <1>5, <1>8, <1>9, <1>10 DEF ListsHold

(* The confirmation of a new owner opens or closes.                        *)
LEMMA ConfirmTurned ==
    ASSUME ShellIs, ListsHold, NEW c \in BOOLEAN, line' = [line EXCEPT !.confirming = c],
           UNCHANGED <<grade, patches, strayed, shellRest, shellWork, shellFaults>>,
           UNCHANGED patchRest
    PROVE  ShellIs' /\ ListsHold'
<1>0. /\ ListsShape /\ LoadHolds /\ MemberHolds /\ SentHolds
  BY DEF ListsHold
<1>1. UNCHANGED <<screen, rows, made, grade, view, load, writes, held, patches, strayed>>
  BY DEF patchRest
<1>2. /\ ShellIs' /\ (Shown' <=> Shown) /\ shell' = shell
      /\ shellFaults' = 0 => shellFaults = 0
      /\ \A w : RoleIn(w)' = RoleIn(w)
  BY ShellBeside
<1>3. line' \in [role : Grades, pending : BOOLEAN, confirming : BOOLEAN] /\ line'.role = line.role
  BY <1>0 DEF ListsShape
<1>4. ListsShape'
  BY <1>0, <1>1, <1>3 DEF ListsShape
<1>5. Astray' <=> Astray
  BY <1>1 DEF Astray, Foreign
<1>6. \A x \in patches' : SentFrom(x)'
  BY <1>0, <1>1 DEF SentHolds, SentFrom
<1>7. /\ MountHolds' /\ NewRowHolds' /\ RefusalHolds' /\ SentHolds' /\ ListHolds'
      /\ Landing' = Landing
  BY <1>0, <1>1, <1>2, <1>5, <1>6, RowAside DEF ListsShape
<1>8. LoadHolds' /\ MemberHolds'
  BY <1>0, <1>1, <1>3, <1>5, <1>7 DEF LoadHolds, MemberHolds, Hidden
<1> QED BY <1>2, <1>4, <1>7, <1>8 DEF ListsHold

(* The select of the row, and the confirmation of a new owner.             *)
LEMMA RoleChosen ==
    ASSUME ShellIs, ListsHold,
           (\E next \in Grades : onSelectChange(next)) \/ ConfirmOwner \/ DismissConfirm
    PROVE  ShellIs' /\ ListsHold'
<1>0. line \in [role : Grades, pending : BOOLEAN, confirming : BOOLEAN]
  BY DEF ListsHold, ListsShape
<1>1. CASE \E next \in Grades : onSelectChange(next)
  <2>1. PICK next \in Grades : onSelectChange(next)
    BY <1>1
  <2>2. CASE next = "OWNER"
    <3>1. /\ line' = [line EXCEPT !.confirming = TRUE]
          /\ UNCHANGED <<grade, patches, strayed, shellRest, shellWork, shellFaults>>
          /\ UNCHANGED patchRest
      BY <2>1, <2>2 DEF onSelectChange
    <3> QED BY <3>1, ConfirmTurned
  <2>3. CASE next # "OWNER"
    <3>1. /\ line' = [line EXCEPT !.role = next, !.pending = TRUE]
          /\ SendPatch(Patch(next, "direct")) /\ view.phase = "ready" /\ view.member # "NONE"
          /\ UNCHANGED <<grade, shellRest>> /\ UNCHANGED patchRest
      BY <2>1, <2>3 DEF onSelectChange, Choosable, Ready
    <3>2. line' \in [role : Grades, pending : BOOLEAN, confirming : BOOLEAN] /\ line'.role = next
      BY <1>0, <3>1
    <3> QED BY <3>1, <3>2, PatchSent
  <2> QED BY <2>2, <2>3
<1>2. CASE ConfirmOwner
  <2>1. /\ line' = [line EXCEPT !.confirming = FALSE]
        /\ SendPatch(Patch("OWNER", "confirmed")) /\ view.phase = "ready"
        /\ UNCHANGED <<grade, shellRest>> /\ UNCHANGED patchRest
    BY <1>2 DEF ConfirmOwner, Ready
  <2>2. line' \in [role : Grades, pending : BOOLEAN, confirming : BOOLEAN] /\ line'.role = line.role
    BY <1>0, <2>1
  <2>3. "OWNER" \in Grades
    BY DEF Grades
  <2> QED BY <2>1, <2>2, <2>3, PatchSent
<1>3. CASE DismissConfirm
  <2>1. /\ line' = [line EXCEPT !.confirming = FALSE]
        /\ UNCHANGED <<grade, patches, strayed, shellRest, shellWork, shellFaults>>
        /\ UNCHANGED patchRest
    BY <1>3 DEF DismissConfirm, shellVars, shellRest
  <2> QED BY <2>1, ConfirmTurned
<1> QED BY <1>1, <1>2, <1>3

(* The server serves a role request, or it is lost.                        *)
LEMMA PatchServed ==
    ASSUME ShellIs, ListsHold, NEW p \in patches, ServePatch(p) \/ PatchLost(p)
    PROVE  ShellIs' /\ ListsHold'
<1>0. /\ ListsShape /\ MountHolds /\ SentHolds /\ NewRowHolds
      /\ ListHolds /\ LoadHolds /\ MemberHolds /\ RefusalHolds
  BY DEF ListsHold
<1>1. PICK a \in {"done", "refused", "lost"} :
         /\ p.at = "asked" /\ patches' = (patches \ {p}) \cup {[p EXCEPT !.at = a]}
         /\ IF a = "done" THEN grade' = [grade EXCEPT ![p.of] = p.to] /\ grade[p.of] # "NONE"
            ELSE grade' = grade
         /\ UNCHANGED <<screen, rows, made, view, load, writes, held, line, strayed, shellRest>>
         /\ Works \/ Faults \/ UNCHANGED <<shellWork, shellFaults>>
  <2>1. CASE ServePatch(p)
    <3> DEFINE granted == /\ CanManageMember(belongs[p.of], grade[p.of]) /\ grade[p.of] # "NONE"
                          /\ p.to \in Assignable(belongs[p.of])
    <3>1. /\ p.at = "asked"
          /\ grade' = IF granted THEN [grade EXCEPT ![p.of] = p.to] ELSE grade
          /\ patches' = (patches \ {p}) \cup {[p EXCEPT !.at = IF granted THEN "done" ELSE "refused"]}
          /\ UNCHANGED <<screen, rows, made, view, load, writes, held, line, strayed, shellRest>>
          /\ UNCHANGED <<shellWork, shellFaults>>
      BY <2>1 DEF ServePatch, patchRest, shellVars, shellRest
    <3>2. granted => grade[p.of] # "NONE"
      OBVIOUS
    <3> HIDE DEF granted
    <3> QED BY <3>1, <3>2
  <2>2. CASE PatchLost(p)
    BY <2>2 DEF PatchLost, patchRest
  <2> QED BY <2>1, <2>2
<1> DEFINE r == [p EXCEPT !.at = a]
<1>2. /\ ShellIs' /\ (Shown' <=> Shown) /\ shell' = shell
      /\ shellFaults' = 0 => shellFaults = 0
      /\ \A w : RoleIn(w)' = RoleIn(w)
  BY <1>1, ShellBeside
<1>3. /\ p \in RolePatches /\ r \in RolePatches /\ r.to = p.to /\ r.was = p.was /\ r.how = p.how /\ r.of = p.of
      /\ r.turn = p.turn /\ r.mount = p.mount /\ r.at = a /\ p.of \in Workspaces /\ p.to \in Grades
  <2>1. p \in RolePatches
    BY <1>0 DEF ListsShape
  <2> QED BY <2>1 DEF RolePatches
<1>4. patches' = (patches \ {p}) \cup {r}
  BY <1>1
<1> HIDE DEF r
<1>5. ListsShape'
  <2>1. grade' \in [Workspaces -> Grades]
    BY <1>0, <1>1, <1>3 DEF ListsShape
  <2> QED BY <1>0, <1>1, <1>3, <1>4, <2>1 DEF ListsShape
<1>6. \A x \in patches' : SentFrom(x)'
  <2>1. SentFrom(r)
    BY <1>0, <1>3 DEF SentHolds, SentFrom
  <2> QED BY <1>0, <1>1, <1>4, <2>1 DEF SentHolds, SentFrom
<1>7. /\ Astray => Astray'
      /\ a = "done" /\ p.turn # view.turn => Astray'
  <2>1. ~ Foreign(p)
    BY <1>1 DEF Foreign
  <2> QED BY <1>1, <1>3, <1>4, <2>1 DEF Astray, Foreign
<1>8. /\ MountHolds' /\ NewRowHolds' /\ RefusalHolds' /\ SentHolds' /\ ListHolds'
      /\ Landing' = Landing
  BY <1>0, <1>1, <1>2, <1>6, <1>7, RowAside DEF ListsShape
<1>9. LoadHolds'
  <2> SUFFICES ASSUME load.at = "answered", ~ Astray' PROVE LoadHolds'
    BY <1>1 DEF LoadHolds
  <2>1. p.turn # view.turn
    BY <1>0 DEF MountHolds, SentHolds, SentFrom
  <2>2. grade' = grade /\ ~ Astray
    BY <1>1, <1>7, <2>1
  <2> QED BY <1>0, <1>1, <2>2 DEF LoadHolds, Hidden
<1>10. MemberHolds'
  <2> SUFFICES ASSUME ~ strayed PROVE MemberHolds'
    BY <1>1 DEF MemberHolds, Astray
  <2>1. patches = {p} /\ patches' = {r}
    BY <1>0, <1>4 DEF MemberHolds
  <2>2. (CHOOSE x \in {p} : TRUE) = p /\ (CHOOSE x \in {r} : TRUE) = r
    OBVIOUS
  <2> SUFFICES ASSUME view.phase = "ready", ~ Astray' PROVE MemberHolds'
    BY <1>1, <2>1 DEF MemberHolds
  <2> DEFINE ended == view.member = "NONE" \/ \E q \in Landing : q.op = "expel"
  <2>3. /\ grade[view.of] = IF ended THEN "NONE" ELSE view.member
        /\ line.role = IF view.member # "NONE" /\ p.turn = view.turn /\ p.how = "direct"
                       THEN p.to ELSE view.member
        /\ view.member # "NONE" => (p.turn = view.turn => p.was = view.member)
    <3>1. ~ Astray
      BY <1>7
    <3>2. ~ (\E x \in patches : x.at = "done")
      BY <1>1, <2>1
    <3> QED BY <1>0, <2>1, <2>2, <3>1, <3>2 DEF MemberHolds
  <2>4. grade'[view.of] = IF ended THEN "NONE" ELSE IF a = "done" THEN p.to ELSE view.member
    <3>1. CASE a = "done"
      <4>1. p.of = view.of
        BY <1>0, <1>7, <3>1 DEF SentHolds, SentFrom
      <4>2. grade[view.of] # "NONE" /\ grade'[view.of] = p.to
        BY <1>0, <1>1, <1>3, <3>1, <4>1 DEF ListsShape
      <4> HIDE DEF ended
      <4> QED BY <2>3, <3>1, <4>2
    <3>2. CASE a # "done"
      BY <1>1, <2>3, <3>2
    <3> QED BY <3>1, <3>2
  <2>5. (\E x \in patches' : x.at = "done") <=> a = "done"
    BY <1>3, <2>1
  <2>6. (CHOOSE x \in patches' : TRUE) = r
    BY <2>1, <2>2
  <2>7. line'.role = IF view'.member # "NONE" /\ (\E x \in patches' : x.turn = view'.turn /\ x.how = "direct")
                     THEN (CHOOSE x \in patches' : TRUE).to ELSE view'.member
    BY <1>1, <1>3, <2>1, <2>3, <2>6
  <2>8. grade'[view'.of] = IF view'.member = "NONE" \/ \E q \in Landing' : q.op = "expel" THEN "NONE"
                           ELSE IF \E x \in patches' : x.at = "done" THEN (CHOOSE x \in patches' : TRUE).to
                           ELSE view'.member
    BY <1>1, <1>3, <1>8, <2>4, <2>5, <2>6
  <2>9. view'.member # "NONE" => \A x \in patches' : x.turn = view'.turn => x.was = view'.member
    BY <1>1, <1>3, <2>1, <2>3
  <2> QED BY <2>1, <2>7, <2>8, <2>9 DEF MemberHolds
<1> QED BY <1>2, <1>5, <1>8, <1>9, <1>10 DEF ListsHold

(* Its answer reaches the row.                                             *)
LEMMA PatchOver ==
    ASSUME ShellIs, ListsHold, NEW p \in patches, PatchDone(p) \/ PatchRefused(p)
    PROVE  ShellIs' /\ ListsHold'
<1>0. /\ ListsShape /\ MountHolds /\ SentHolds /\ NewRowHolds
      /\ ListHolds /\ LoadHolds /\ MemberHolds /\ RefusalHolds
  BY DEF ListsHold
<1>1. /\ p.at # "asked" /\ patches' = patches \ {p}
      /\ UNCHANGED <<screen, rows, made, grade, load, writes, held>>
      /\ UNCHANGED <<shellRest, shellWork, shellFaults>>
      /\ strayed' = (strayed \/ (p.at = "done" /\ p.turn # view.turn))
      /\ view' = IF p.at # "done" \/ ~ Mounted(p) \/ view.member = "NONE" THEN view
                 ELSE [view EXCEPT !.member = p.to]
      /\ line' = IF ~ LineMounted(p) THEN line
                 ELSE IF p.at = "done"
                 THEN [line EXCEPT !.role = p.to, !.pending = IF p.how = "direct" THEN FALSE ELSE @]
                 ELSE IF p.how = "direct" THEN [line EXCEPT !.role = p.was, !.pending = FALSE] ELSE line
  <2>1. CASE PatchDone(p)
    <3>1. /\ p.at = "done" /\ patches' = patches \ {p}
          /\ strayed' = (strayed \/ p.turn # view.turn)
          /\ view' = IF ~Mounted(p) \/ view.member = "NONE" THEN view ELSE [view EXCEPT !.member = p.to]
          /\ line' = IF LineMounted(p)
                     THEN [line EXCEPT !.role = p.to, !.pending = IF p.how = "direct" THEN FALSE ELSE @]
                     ELSE line
          /\ UNCHANGED <<screen, rows, made, grade, load, writes, held>>
          /\ UNCHANGED <<shellRest, shellWork, shellFaults>>
      BY <2>1 DEF PatchDone, shellVars, shellRest
    <3> QED BY <3>1
  <2>2. CASE PatchRefused(p)
    <3>1. /\ p.at \in {"refused", "lost"} /\ patches' = patches \ {p}
          /\ line' = IF LineMounted(p) /\ p.how = "direct"
                     THEN [line EXCEPT !.role = p.was, !.pending = FALSE] ELSE line
          /\ UNCHANGED <<screen, rows, made, grade, view, load, writes, held, strayed>>
          /\ UNCHANGED <<shellRest, shellWork, shellFaults>>
      BY <2>2 DEF PatchRefused, patchRest, shellVars, shellRest
    <3>2. strayed \in BOOLEAN
      BY <1>0 DEF ListsShape
    <3> QED BY <3>1, <3>2
  <2> QED BY <2>1, <2>2
<1>2. /\ ShellIs' /\ (Shown' <=> Shown) /\ shell' = shell
      /\ shellFaults' = 0 => shellFaults = 0
      /\ \A w : RoleIn(w)' = RoleIn(w)
  BY <1>1, ShellBeside
<1>3. /\ p \in RolePatches /\ p.to \in Grades /\ p.was \in Grades /\ view \in ListViews
      /\ line \in [role : Grades, pending : BOOLEAN, confirming : BOOLEAN]
  BY <1>0 DEF ListsShape, RolePatches
<1>4. /\ view' \in ListViews /\ view'.phase = view.phase /\ view'.of = view.of
      /\ view'.managed = view.managed /\ view'.turn = view.turn /\ view'.mount = view.mount
      /\ view'.list = view.list
      /\ view'.member = IF p.at # "done" \/ ~ Mounted(p) \/ view.member = "NONE" THEN view.member
                        ELSE p.to
  BY <1>1, <1>3 DEF ListViews
<1>5. /\ line' \in [role : Grades, pending : BOOLEAN, confirming : BOOLEAN]
      /\ line'.role = IF ~ LineMounted(p) THEN line.role
                      ELSE IF p.at = "done" THEN p.to
                      ELSE IF p.how = "direct" THEN p.was ELSE line.role
  BY <1>1, <1>3
<1>6. ListsShape'
  <2>1. strayed' \in BOOLEAN
    BY <1>0, <1>1 DEF ListsShape
  <2> QED BY <1>0, <1>1, <1>4, <1>5, <2>1 DEF ListsShape
<1>7. \A x \in patches' : SentFrom(x)'
  BY <1>0, <1>1, <1>4 DEF SentHolds, SentFrom
<1>8. Astray => Astray'
  BY <1>1, <1>4 DEF Astray, Foreign
<1>9. /\ MountHolds' /\ NewRowHolds' /\ RefusalHolds' /\ SentHolds' /\ ListHolds'
      /\ Landing' = Landing
  BY <1>1, <1>2, <1>4, <1>7, <1>8, RowAside
<1>10. LoadHolds'
  BY <1>0, <1>1, <1>4, <1>8 DEF LoadHolds, Hidden
<1>11. MemberHolds'
  <2> SUFFICES ASSUME ~ strayed' PROVE MemberHolds'
    BY DEF MemberHolds, Astray
  <2>1. patches = {p} /\ patches' = {} /\ (p.at = "done" => p.turn = view.turn)
    BY <1>0, <1>1 DEF MemberHolds
  <2>2. (CHOOSE x \in {p} : TRUE) = p
    OBVIOUS
  <2> SUFFICES ASSUME view.phase = "ready", ~ Astray
               PROVE  /\ grade[view.of] = IF view'.member = "NONE" \/ \E q \in Landing : q.op = "expel" THEN "NONE"
                                          ELSE view'.member
                      /\ line'.role = view'.member
    BY <1>1, <1>4, <1>8, <1>9, <2>1 DEF MemberHolds
  <2> DEFINE ended == view.member = "NONE" \/ \E q \in Landing : q.op = "expel"
  <2>3. /\ grade[view.of] = IF ended THEN "NONE" ELSE IF p.at = "done" THEN p.to ELSE view.member
        /\ line.role = IF view.member # "NONE" /\ p.turn = view.turn /\ p.how = "direct"
                       THEN p.to ELSE view.member
        /\ view.member # "NONE" => (p.turn = view.turn => p.was = view.member)
    <3>1. (\E x \in patches : x.at = "done") <=> p.at = "done"
      BY <2>1
    <3> QED BY <1>0, <2>1, <2>2, <3>1 DEF MemberHolds
  <2>4. p.turn = view.turn => Mounted(p)
    BY <1>0 DEF SentHolds, SentFrom, Mounted
  <2>5. LineMounted(p) <=> (p.turn = view.turn /\ view.member # "NONE")
    BY DEF LineMounted
  <2>6. line'.role = view'.member
    <3> HIDE DEF ended
    <3> QED BY <1>4, <1>5, <2>1, <2>3, <2>4, <2>5
  <2>7. grade[view.of] = IF view'.member = "NONE" \/ \E q \in Landing : q.op = "expel" THEN "NONE"
                         ELSE view'.member
    BY <1>4, <2>1, <2>3, <2>4
  <2> QED BY <2>6, <2>7
<1> QED BY <1>2, <1>6, <1>9, <1>10, <1>11 DEF ListsHold

(* Nothing is mounted and nothing under way at first.                      *)
LEMMA ListsBegin ==
    ASSUME ShellInit, ListsInit
    PROVE  ListsHold
<1>1. /\ rows = FirstRows /\ made = MaxRows - 1 /\ screen \in Screens
      /\ grade = [w \in Workspaces |-> "MEMBER"]
      /\ view = Unmounted /\ load = NoLoad
      /\ writes = {} /\ held = NoHeld /\ line = Line("NONE") /\ patches = {} /\ strayed = FALSE
  BY DEF ListsInit
<1>2. /\ MaxRows \in Nat \ {0} /\ FirstRows \in [Workspaces -> Seq(1..(MaxRows - 1))]
      /\ \A w \in Workspaces : Distinct(FirstRows[w])
  BY ListsAssumption DEF Distinct
<1>3. \A w \in Workspaces : /\ FirstRows[w] \in Seq(RowSet)
                            /\ MaxRows \notin Elements(FirstRows[w])
  <2> TAKE w \in Workspaces
  <2>1. FirstRows[w] \in Seq(1..(MaxRows - 1))
    BY <1>2
  <2>2. /\ Len(FirstRows[w]) \in Nat /\ DOMAIN FirstRows[w] = 1 .. Len(FirstRows[w])
        /\ FirstRows[w] \in [1 .. Len(FirstRows[w]) -> 1..(MaxRows - 1)]
    BY <2>1, LenProperties
  <2>3. \A i \in 1 .. Len(FirstRows[w]) : FirstRows[w][i] \in RowSet /\ FirstRows[w][i] # MaxRows
    BY <1>2, <2>2 DEF RowSet
  <2> QED BY <2>2, <2>3, IsASeq DEF Elements
<1>4. rows \in [Workspaces -> Seq(RowSet)]
  BY <1>1, <1>2, <1>3
<1>5. << >> \in Seq(RowSet) /\ Elements(<< >>) = {}
  BY EmptySeq DEF Elements
<1>6. ListsShape
  BY <1>1, <1>2, <1>4, <1>5, ListsAssumption
     DEF ListsShape, Unmounted, NoLoad, NoHeld, Line, ListViews, ListReads, RowWrites, RolePatches, Grades
<1>7. MountHolds
  BY <1>1 DEF MountHolds, Unmounted, NoLoad, ShellInit, Shown
<1>8. NewRowHolds
  BY <1>1, <1>2, <1>3, <1>5 DEF NewRowHolds, Makers, Unmounted, NoLoad
<1>9. SentHolds /\ ListHolds /\ LoadHolds /\ MemberHolds /\ RefusalHolds
  BY <1>1 DEF SentHolds, ListHolds, LoadHolds, MemberHolds, RefusalHolds, Unmounted, NoLoad
<1> QED BY <1>6, <1>7, <1>8, <1>9 DEF ListsHold

(* A step of the client keeps both.                                        *)
LEMMA ListsKept ==
    ASSUME ShellIs, ListsHold, ListsNext
    PROVE  ShellIs' /\ ListsHold'
<1>1. CASE ShellStep
  BY <1>1, ShellStepKept
<1>2. CASE ServeLoad \/ LandLoad \/ LoadFails \/ RetryList
  BY <1>2, LoadServed, LoadLanded, LoadLost, ListRetried
<1>3. CASE \/ InviteMember \/ RevokeInvitation \/ RemoveMember \/ CreateAccessToken
           \/ RevokeAccessToken \/ CreateBoard \/ DeleteBoard \/ ImportBoard
  BY <1>3, DialogsSend
<1>4. CASE CloseTokenDialog
  BY <1>4, TokenListed
<1>5. CASE \E q \in writes : ServeWrite(q) \/ WriteAnswered(q)
  BY <1>5, WriteServed, WriteOverKept
<1>6. CASE (\E next \in Grades : onSelectChange(next)) \/ ConfirmOwner \/ DismissConfirm
  BY <1>6, RoleChosen
<1>7. CASE \E p \in patches : ServePatch(p) \/ PatchDone(p) \/ PatchRefused(p) \/ PatchLost(p)
  BY <1>7, PatchServed, PatchOver
<1> QED BY <1>1, <1>2, <1>3, <1>4, <1>5, <1>6, <1>7 DEF ListsNext

(* The other parts of the specification leave the client alone.            *)
LEMMA ListsLeft ==
    ASSUME ShellIs, ListsHold, UNCHANGED clientVars
    PROVE  ShellIs' /\ ListsHold'
<1>1. /\ UNCHANGED <<grade, patches, strayed, shellRest, shellWork, shellFaults>>
      /\ UNCHANGED patchRest /\ line' = line
  BY DEF clientVars, shellVars, listVars, shellRest, patchRest
<1>2. line \in [role : Grades, pending : BOOLEAN, confirming : BOOLEAN]
  BY DEF ListsHold, ListsShape
<1>3. line.confirming \in BOOLEAN /\ line' = [line EXCEPT !.confirming = line.confirming]
  BY <1>1, <1>2
<1> QED BY <1>1, <1>3, ConfirmTurned

(* Once nothing is under way, a list is the server's.                      *)
LEMMA QuietListIs ==
    ASSUME ShellIs, ListsHold
    PROVE  QuietListIsCurrent
<1> DEFINE w == shell.activeId
<1> SUFFICES ASSUME Quiet, Shown, RoleKnown, ~ strayed, screen # "none", w # NoWorkspace
             PROVE  /\ shellFaults = 0 => Ready
                    /\ Ready => view.of = w /\ view.list = Visible(w)
  BY DEF QuietListIsCurrent
<1>0. /\ ListsShape /\ MountHolds /\ NewRowHolds /\ ListHolds /\ RefusalHolds
  BY DEF ListsHold
<1>1. view.phase # "off"
  BY <1>0 DEF MountHolds
<1>2. /\ view.of = w /\ w \in Workspaces
      /\ view.managed <=> (screen = "members" /\ Manages(shell.activeRole))
  BY <1>0, <1>1, MountedHere
<1>3. load.at = "none" /\ writes = {} /\ held = NoHeld /\ patches = {} /\ Settled
  BY DEF Quiet
<1>4. view.phase \in {"ready", "error"}
  BY <1>0, <1>1, <1>3 DEF MountHolds, ListsShape, ListViews
<1>5. RoleIn(w) = belongs[w] /\ shell.activeRole = belongs[w]
  BY <1>2 DEF RoleIn, RoleKnown
<1>6. ASSUME shellFaults = 0 PROVE Ready
  <2>1. ~ unread /\ ~ ExitUnderWay
    <3>1. calls = << >> /\ ~ unread
      BY <1>3 DEF Settled
    <3>2. DOMAIN calls = {}
      BY <3>1
    <3> QED BY <3>1, <3>2 DEF ExitUnderWay
  <2>2. w \in Mine
    BY <1>6, <2>1 DEF ShellIs, MenuHolds
  <2>3. ~ Denied(view.of, view.managed)
    BY <1>2, <1>5, <2>2 DEF Denied, Mine
  <2> QED BY <1>0, <1>4, <1>6, <2>3 DEF RefusalHolds, Ready
<1>7. ASSUME Ready PROVE view.list = Visible(w)
  <2>1. ~ Astray
    BY <1>3 DEF Astray
  <2>2. Hidden(view.managed) <=> (screen = "members" /\ ~ Manages(belongs[w]))
    BY <1>2, <1>5 DEF Hidden
  <2>3. CASE Hidden(view.managed)
    BY <1>0, <1>7, <2>1, <2>2, <2>3 DEF ListHolds, Ready, Visible
  <2>4. CASE ~ Hidden(view.managed)
    <3>1. Gone = {} /\ Coming = {}
      BY <1>3 DEF Gone, Landing, Coming
    <3>2. /\ Distinct(view.list) /\ Elements(rows[w]) = (Elements(view.list) \ Gone) \cup Coming
          /\ \A x, y \in Elements(rows[w]) : Prior(rows[w], x, y) <=> Precedes(x, y)
      BY <1>0, <1>2, <1>7, <2>1, <2>4 DEF ListHolds, Ready
    <3>3. Elements(rows[w]) = Elements(view.list)
      BY <3>1, <3>2
    <3>4. \A x, y \in Elements(rows[w]) : Prior(rows[w], x, y) <=> Prior(view.list, x, y)
      BY <3>1, <3>2 DEF Precedes
    <3>5. /\ rows[w] \in Seq(RowSet) /\ Distinct(rows[w]) /\ view.list \in Seq(RowSet)
      BY <1>0, <1>2 DEF ListsShape, ListViews, NewRowHolds
    <3>6. rows[w] = view.list
      BY <3>2, <3>3, <3>4, <3>5, SameOrder
    <3> QED BY <2>2, <2>4, <3>6 DEF Visible
  <2> QED BY <2>3, <2>4
<1> QED BY <1>2, <1>6, <1>7

(* What the client shows once quiet follows from the invariant.            *)
LEMMA ListsAreCurrent ==
    ASSUME ShellIs, ListsHold
    PROVE  ScreensAreCurrent
<1>0. /\ ListsShape /\ MountHolds /\ MemberHolds
  BY DEF ListsHold
<1>1. ListsTypeOK
  <2>1. ShellTypeOK
    BY ShapeIs DEF ShellIs, ShellShape
  <2>2. \A w \in Workspaces : ToSet(rows[w]) \subseteq 1..MaxRows /\ grade[w] \in Grades
    <3> TAKE w \in Workspaces
    <3>1. rows[w] \in Seq(RowSet) /\ grade[w] \in Grades
      BY <1>0 DEF ListsShape
    <3>2. \A i \in DOMAIN rows[w] : rows[w][i] \in RowSet
      BY <3>1, LenProperties
    <3> QED BY <3>1, <3>2 DEF ToSet, RowSet
  <2>3. view.phase \in {"ready", "loading"} => Shown /\ view.of = shell.activeId
    BY <1>0, MountedHere
  <2> QED BY <1>0, <2>1, <2>2, <2>3 DEF ListsTypeOK, ListsShape, ListViews, MountHolds
<1>2. ScreenMatchesSession
  <2> SUFFICES ASSUME Settled, ~ adrift PROVE ShowsSession /\ session = stored
    BY DEF ScreenMatchesSession, ShowsSession
  <2>1. /\ unread \/ calls # << >> \/ boot.at # "off" \/ ShowsSession
        /\ unread \/ session = stored
    BY DEF ShellIs, SessionFollows, BootHolds
  <2> QED BY <2>1 DEF Settled
<1>3. RowShowsStoredRole
  <2> SUFFICES ASSUME Quiet, Ready, screen = "members", ~ strayed
               PROVE  line.role = grade[shell.activeId] /\ view.member = grade[shell.activeId]
    BY DEF RowShowsStoredRole
  <2>1. view.of = shell.activeId
    BY <1>0, MountedHere DEF Ready
  <2>2. writes = {} /\ held = NoHeld /\ patches = {}
    BY DEF Quiet
  <2>3. ~ Astray /\ Landing = {}
    BY <2>2 DEF Astray, Landing
  <2>4. /\ grade[view.of] = IF view.member = "NONE" THEN "NONE" ELSE view.member
        /\ line.role = view.member
    BY <1>0, <2>2, <2>3 DEF MemberHolds, Ready
  <2> QED BY <2>1, <2>4
<1> QED BY <1>1, <1>2, <1>3, QuietListIs DEF ScreensAreCurrent

(* Whatever switches, roles, answers and failures come in between, a       *)
(* client that waits for nothing shows the workspace and the role of the   *)
(* session, the rows the server has, and the other member's stored role    *)
(* (workspace-provider.tsx, members-settings.tsx, boards-grid.tsx).        *)
THEOREM ScreensStayCurrent == EndsSpec => []ScreensAreCurrent
<1> DEFINE Inv == ShellIs /\ ListsHold
<1>1. EndsInit => Inv
  <2>1. EndsInit => ShellInit /\ ListsInit
    BY DEF EndsInit
  <2>2. ShellInit => ShellIs
    BY ShellBegins, ShapeIs DEF ShellInv, ShellIs
  <2> QED BY <2>1, <2>2, ListsBegin
<1>2. Inv /\ [EndsNext]_<<part, vars, purgeVars, clientVars>> => Inv'
  <2>1. [EndsNext]_<<part, vars, purgeVars, clientVars>> => ListsNext \/ UNCHANGED clientVars
    BY DEF EndsNext
  <2> QED BY <2>1, ListsKept, ListsLeft
<1>3. Inv => ScreensAreCurrent
  BY ListsAreCurrent
<1> QED BY <1>1, <1>2, <1>3, PTL DEF EndsSpec
=============================================================================
