--------------------------- MODULE WorkspacePlans ---------------------------
(***************************************************************************)
(* What a workspace and an instance may hold: plan/plan-limits.ts and the  *)
(* writes it guards, which are invitations (workspace-invitation.service), *)
(* boards (board.service), workspaces (workspace.service) and sign-ups     *)
(* (auth/mount-better-auth).                                               *)
(*                                                                         *)
(* Every ceiling is counted in one statement and used in a later one, and  *)
(* the organization plugin of Better Auth, which owns the writes of        *)
(* invitations, members and workspaces, reads again before it writes.      *)
(* Each await of a handler is a step of its process.                       *)
(***************************************************************************)
EXTENDS RequestPool, Sequences

CONSTANTS Users,          \* addresses; an account is registered on one
          Owner,          \* the account that owns the first workspace
          InvitableRoles, \* the roles create-invitation.dto.ts admits but OWNER
          Workspaces,     \* workspace ids, FirstWs among them
          FirstWs,
          Slugs,
          NoSlug,
          Names,          \* the values a board's name takes
          EnvCeilings,    \* values of a PLAN_MAX_* variable, 0 for unset
          StoredValues,   \* values of a key of Workspace.planLimits
          Absent, Null, Malformed,
          NoCeiling,
          Traffics        \* the sets of handlers a behaviour may exercise

ASSUME PlansAssumption ==
    /\ Owner \in Users /\ FirstWs \in Workspaces
    /\ IsFiniteSet(Users) /\ IsFiniteSet(Workspaces)
    /\ Slugs # {} /\ NoSlug \notin Slugs \cup {Absent}
    /\ Absent \notin Slugs \cup Names \cup {Null, Malformed, NoCeiling}
    /\ EnvCeilings \subseteq Nat
    /\ StoredValues \subseteq Nat \cup {Absent, Null, Malformed}
    /\ Null # Malformed
    /\ \A v \in {Absent, Null, Malformed, NoCeiling} : v \notin Nat

VARIABLES env,        \* PLAN_MAX_*: one number for each kind of ceiling
          stored,     \* Workspace.planLimits of the first workspace
          traffic,    \* the handlers this behaviour exercises
          accounts,   \* registered and not deleted
          verified,   \* accounts whose address is verified
          wsSlug,     \* the Workspace rows; NoSlug before, Absent after
          members,    \* WorkspaceMember rows <<workspace, user>>
          invites,    \* WorkspaceInvitation rows, oldest first
          boards,     \* names of the boards of the first workspace, Absent once removed
          boardTrail, \* BOARD_* activity rows <<board, name>>
          deletions,  \* workspace.deleted lines in the JSON log
          offered,    \* 201 answers of createInvitation <<invitation, role>>
          planJob,    \* the request each process serves
          planRequests

planRows == <<accounts, verified, wsSlug, members, invites, boards, boardTrail,
              deletions, offered>>
planVars == <<env, stored, traffic, planRows, planJob, planRequests>>

CeilingKinds == {"seats", "boards", "workspaces", "users"}
Statuses == {"pending", "accepted", "canceled"}
Invitation == [email : Users, role : InvitableRoles, status : Statuses, stale : BOOLEAN]

(* A request: its step, its inputs, and what it has read so far.           *)
IdleJob == [op |-> "none", step |-> "idle", user |-> Owner, role |-> Null,
            ws |-> FirstWs, slug |-> NoSlug, board |-> 0, name |-> Null,
            seen |-> {}, counted |-> {}, count |-> 0, got |-> 0, answer |-> "none"]

PlansInit ==
    /\ env \in [CeilingKinds -> EnvCeilings]
    /\ stored \in [{"seats", "boards"} -> StoredValues]
    /\ traffic \in Traffics
    /\ \A k \in CeilingKinds \ traffic : env[k] = 0   \* the others do not matter
    /\ \A k \in {"seats", "boards"} \ traffic : stored[k] = Absent
    /\ accounts = IF "users" \in traffic THEN {Owner} ELSE Users
    /\ verified \in IF "seats" \in traffic THEN {accounts, {Owner}} ELSE {accounts}
    /\ wsSlug = [w \in Workspaces |->
                    IF w = FirstWs THEN CHOOSE s \in Slugs : TRUE ELSE NoSlug]
    /\ members = {<<FirstWs, Owner>>}
    /\ invites = << >>
    /\ boards = << >>
    /\ boardTrail = << >>
    /\ deletions = << >>
    /\ offered = {}
    /\ planJob = [p \in Procs |-> IdleJob]
    /\ planRequests = 0

-----------------------------------------------------------------------------
(* The ceilings.                                                           *)

readCeiling(n) == IF n = 0 THEN NoCeiling ELSE n

(* A value that cannot be parsed is a key that was never set.              *)
parseOverrideValue(v) ==
    IF v = Null THEN NoCeiling
    ELSE IF v \in {Absent, Malformed} THEN Absent
    ELSE readCeiling(v)

(* The workspace's own value where it has one, else the instance's.        *)
resolveWorkspacePlanLimits(k) ==
    LET own == parseOverrideValue(stored[k])
    IN IF own = Absent THEN readCeiling(env[k]) ELSE own

instanceLimits(k) == readCeiling(env[k])

(* Faulty variant: the last place counts as free when it is taken.         *)
ExceedsLoose(n, ceiling) == ceiling # NoCeiling /\ n > ceiling

(* One more would be one too many.                                         *)
Exceeds(n, ceiling) == ceiling # NoCeiling /\ n >= ceiling

pendingInvitations == {i \in DOMAIN invites : invites[i].status = "pending" /\ ~invites[i].stale}
memberCount == Cardinality({m \in members : m[1] = FirstWs})

-----------------------------------------------------------------------------
(* Moves of a process.                                                     *)

Admit(p, job) ==
    /\ planJob[p].step \in {"idle", "done"}
    /\ planRequests < MaxRequests
    /\ planRequests' = planRequests + 1
    /\ planJob' = [planJob EXCEPT ![p] = job]
    /\ UNCHANGED <<env, stored, traffic, planRows>>

(* The job goes on as job; the rows are what the caller says.              *)
Goes(p, job) ==
    /\ planJob' = [planJob EXCEPT ![p] = job]
    /\ UNCHANGED <<env, stored, traffic, planRequests>>

(* The handler returns; what it read is forgotten.                         *)
Answered(job, answer) ==
    [IdleJob EXCEPT !.op = job.op, !.step = "done", !.answer = answer]

-----------------------------------------------------------------------------
(* Invitations.                                                            *)

BeginInvite(p) ==
    \E u \in Users, r \in InvitableRoles :
        /\ "seats" \in traffic
        /\ Admit(p, [IdleJob EXCEPT !.op = "invite", !.step = "pending", !.user = u, !.role = r])

(* The pending invitations decide between a new seat and a resend, and     *)
(* between a resend and a replacement.                                     *)
findPendingInvitations(p) ==
    LET job == planJob[p]
        own == {i \in pendingInvitations : invites[i].email = job.user}
    IN /\ job.op = "invite" /\ job.step = "pending"
       /\ Goes(p, [job EXCEPT
             !.seen = own,
             !.step = IF own = {} THEN "count"
                      ELSE IF \E i \in own : invites[i].role # job.role THEN "cancel"
                      ELSE "find"])
       /\ UNCHANGED planRows

(* seatsUsed asks for both counts at once: they are answered in any order. *)
(* An acceptance counts members only.                                      *)
CountSeats(p, what) ==
    LET job == planJob[p] IN
    /\ job.op \in {"invite", "accept"} /\ job.step = "count"
    /\ what \notin job.counted
    /\ what = "invitations" => job.op = "invite"
    /\ Goes(p, [job EXCEPT !.counted = @ \cup {what},
                           !.count = @ + IF what = "members" THEN memberCount
                                         ELSE Cardinality(pendingInvitations)])
    /\ UNCHANGED planRows

assertSeatAvailable(p) ==
    LET job == planJob[p]
        full == Exceeds(job.count, resolveWorkspacePlanLimits("seats"))
    IN /\ job.op \in {"invite", "accept"} /\ job.step = "count"
       /\ job.counted = IF job.op = "invite" THEN {"members", "invitations"} ELSE {"members"}
       /\ Goes(p, IF full THEN Answered(job, "plan")
                  ELSE [job EXCEPT !.step = "find", !.counted = {}, !.count = 0])
       /\ UNCHANGED planRows

SetStatus(i, status) == invites' = [invites EXCEPT ![i].status = status]

(* A changed role: the pending ones are canceled one call at a time.       *)
CancelPending(p) ==
    LET job == planJob[p] IN
    /\ job.op = "invite" /\ job.step = "cancel"
    /\ \E i \in job.seen :
          /\ SetStatus(i, "canceled")
          /\ Goes(p, [job EXCEPT !.seen = @ \ {i},
                                 !.step = IF job.seen = {i} THEN "find" ELSE "cancel"])
    /\ UNCHANGED <<accounts, verified, wsSlug, members, boards, boardTrail, deletions, offered>>

(* The plugin with resend: a pending invitation of the address is returned *)
(* as it is, a member is refused.                                          *)
pluginResend(p) ==
    LET job == planJob[p]
        own == {i \in pendingInvitations : invites[i].email = job.user}
    IN /\ job.op = "invite" /\ job.step = "find"
       /\ IF <<FirstWs, job.user>> \in members THEN Goes(p, Answered(job, "refused"))
          ELSE IF own = {} THEN Goes(p, [job EXCEPT !.step = "insert", !.seen = {}])
          ELSE \E i \in own : Goes(p, [job EXCEPT !.step = "check", !.got = i, !.seen = {}])
       /\ UNCHANGED planRows

pluginInvite(p) ==
    LET job == planJob[p] IN
    /\ job.op = "invite" /\ job.step = "insert"
    /\ invites' = Append(invites, [email |-> job.user, role |-> job.role,
                                   status |-> "pending", stale |-> FALSE])
    /\ Goes(p, [job EXCEPT !.step = "check", !.got = Len(invites) + 1])
    /\ UNCHANGED <<accounts, verified, wsSlug, members, boards, boardTrail, deletions, offered>>

(* Faulty variant: what the plugin returned is reported as what was asked. *)
createInvitationUnchecked(p) ==
    LET job == planJob[p] IN
    /\ job.op = "invite" /\ job.step = "check"
    /\ offered' = offered \cup {<<job.got, job.role>>}
    /\ Goes(p, Answered(job, "ok"))
    /\ UNCHANGED <<accounts, verified, wsSlug, members, invites, boards, boardTrail, deletions>>

(* createInvitation: another admin's invitation came back at their role.   *)
createInvitation(p) ==
    LET job == planJob[p]
        asked == invites[job.got].role = job.role
    IN /\ job.op = "invite" /\ job.step = "check"
       /\ offered' = IF asked THEN offered \cup {<<job.got, job.role>>} ELSE offered
       /\ Goes(p, Answered(job, IF asked THEN "ok" ELSE "conflict"))
       /\ UNCHANGED <<accounts, verified, wsSlug, members, invites, boards, boardTrail, deletions>>

(* revokeInvitation: any invitation of the workspace, then the plugin.     *)
BeginRevoke(p) ==
    \E i \in DOMAIN invites :
        Admit(p, [IdleJob EXCEPT !.op = "revoke", !.step = "cancel", !.got = i])

revokeInvitation(p) ==
    LET job == planJob[p] IN
    /\ job.op = "revoke" /\ job.step = "cancel"
    /\ SetStatus(job.got, "canceled")
    /\ Goes(p, Answered(job, "ok"))
    /\ UNCHANGED <<accounts, verified, wsSlug, members, boards, boardTrail, deletions, offered>>

(* acceptInvitation: a pending invitation, expired or not.                 *)
BeginAccept(p) ==
    \E i \in DOMAIN invites :
        /\ invites[i].status = "pending"
        /\ invites[i].email \in accounts
        /\ Admit(p, [IdleJob EXCEPT !.op = "accept", !.step = "count", !.got = i])

(* The plugin looks again: pending, not expired, a verified address.       *)
pluginAcceptable(i) ==
    /\ i \in pendingInvitations
    /\ invites[i].email \in verified
    /\ <<FirstWs, invites[i].email>> \notin members

acceptInvitation(p) ==
    LET job == planJob[p] IN
    /\ job.op = "accept" /\ job.step = "find"
    /\ IF pluginAcceptable(job.got)
       THEN /\ SetStatus(job.got, "accepted")
            /\ members' = members \cup {<<FirstWs, invites[job.got].email>>}
            /\ Goes(p, Answered(job, "ok"))
       ELSE /\ UNCHANGED <<invites, members>>
            /\ Goes(p, Answered(job, "refused"))
    /\ UNCHANGED <<accounts, verified, wsSlug, boards, boardTrail, deletions, offered>>

(* expiresAt passes.                                                       *)
Expire ==
    /\ \E i \in pendingInvitations : invites' = [invites EXCEPT ![i].stale = TRUE]
    /\ UNCHANGED <<env, stored, traffic, accounts, verified, wsSlug, members, boards,
                   boardTrail, deletions, offered, planJob, planRequests>>

-----------------------------------------------------------------------------
(* Boards of the first workspace.                                          *)

liveBoards == {b \in DOMAIN boards : boards[b] # Absent}

(* assertBoardAvailable: the first statement of the transaction.           *)
BeginBoard(p) ==
    \E n \in Names :
        /\ "boards" \in traffic
        /\ Admit(p, [IdleJob EXCEPT !.op = "board", !.step = "insert", !.name = n,
                                    !.count = Cardinality(liveBoards)])

(* The board with its columns, its labels and its audit row, or nothing.   *)
createBoard(p) ==
    LET job == planJob[p]
        full == Exceeds(job.count, resolveWorkspacePlanLimits("boards"))
    IN /\ job.op = "board" /\ job.step = "insert"
       /\ boards' = IF full THEN boards ELSE Append(boards, job.name)
       /\ boardTrail' = IF full THEN boardTrail
                        ELSE Append(boardTrail, <<Len(boards) + 1, job.name>>)
       /\ Goes(p, Answered(job, IF full THEN "plan" ELSE "ok"))
       /\ UNCHANGED <<accounts, verified, wsSlug, members, invites, deletions, offered>>

BeginBoardUpdate(p) ==
    \E b \in liveBoards, n \in Names :
        Admit(p, [IdleJob EXCEPT !.op = "rename", !.step = "write", !.board = b, !.name = n])

(* update: the write and its audit row commit together, or the row is gone. *)
updateBoard(p) ==
    LET job == planJob[p]
        gone == job.board \notin liveBoards
    IN /\ job.op = "rename" /\ job.step = "write"
       /\ boards' = IF gone THEN boards ELSE [boards EXCEPT ![job.board] = job.name]
       /\ boardTrail' = IF gone THEN boardTrail
                        ELSE Append(boardTrail, <<job.board, job.name>>)
       /\ Goes(p, Answered(job, IF gone THEN "refused" ELSE "ok"))
       /\ UNCHANGED <<accounts, verified, wsSlug, members, invites, deletions, offered>>

(* remove, as BoardLayout has it: the row and its audit row together.      *)
removeBoard(p) ==
    \E b \in liveBoards :
        /\ planJob[p].step \in {"idle", "done"} /\ planRequests < MaxRequests
        /\ planRequests' = planRequests + 1
        /\ boards' = [boards EXCEPT ![b] = Absent]
        /\ boardTrail' = Append(boardTrail, <<b, Absent>>)
        /\ planJob' = [planJob EXCEPT ![p] = Answered([IdleJob EXCEPT !.op = "drop"], "ok")]
        /\ UNCHANGED <<env, stored, traffic, accounts, verified, wsSlug, members, invites,
                       deletions, offered>>

-----------------------------------------------------------------------------
(* Workspaces and sign-ups.                                                *)

liveWorkspaces == {w \in Workspaces : wsSlug[w] \in Slugs}

(* create: the account is not a tombstone, the count, then the slug.       *)
BeginWorkspace(p) ==
    \E u \in accounts, s \in Slugs :
        /\ "workspaces" \in traffic
        /\ Admit(p, [IdleJob EXCEPT !.op = "create", !.step = "slug", !.user = u,
                                    !.slug = s, !.count = Cardinality(liveWorkspaces)])

BeginWorkspaceUpdate(p) ==
    \E w \in liveWorkspaces, s \in Slugs :
        /\ "workspaces" \in traffic
        /\ Admit(p, [IdleJob EXCEPT !.op = "reslug", !.step = "slug", !.ws = w, !.slug = s])

SlugTaken(job) == \E w \in liveWorkspaces :
    wsSlug[w] = job.slug /\ (job.op = "reslug" => w # job.ws)

(* The plan comes before the slug; both are answered before the plugin.    *)
CheckSlug(p) ==
    LET job == planJob[p] IN
    /\ job.op \in {"create", "reslug"} /\ job.step = "slug"
    /\ Goes(p, IF job.op = "create" /\ Exceeds(job.count, instanceLimits("workspaces"))
               THEN Answered(job, "plan")
               ELSE IF SlugTaken(job) THEN Answered(job, "conflict")
               ELSE [job EXCEPT !.step = "plugin"])
    /\ UNCHANGED planRows

(* isSlugConflict: the plugin answers 400, the API a 409.                  *)
pluginSlugConflict(job) == "conflict"

createWorkspace(p) ==
    LET job == planJob[p]
        free == {w \in Workspaces : wsSlug[w] = NoSlug}
    IN /\ job.op = "create" /\ job.step = "plugin"
       /\ free # {}
       /\ IF SlugTaken(job)
          THEN UNCHANGED <<wsSlug, members>> /\ Goes(p, Answered(job, pluginSlugConflict(job)))
          ELSE LET w == CHOOSE x \in free : TRUE IN
               /\ wsSlug' = [wsSlug EXCEPT ![w] = job.slug]
               /\ members' = members \cup {<<w, job.user>>}
               /\ Goes(p, Answered(job, "ok"))
       /\ UNCHANGED <<accounts, verified, invites, boards, boardTrail, deletions, offered>>

updateWorkspace(p) ==
    LET job == planJob[p] IN
    /\ job.op = "reslug" /\ job.step = "plugin"
    /\ IF job.ws \notin liveWorkspaces
       THEN UNCHANGED wsSlug /\ Goes(p, Answered(job, "refused"))
       ELSE IF SlugTaken(job)
       THEN UNCHANGED wsSlug /\ Goes(p, Answered(job, pluginSlugConflict(job)))
       ELSE wsSlug' = [wsSlug EXCEPT ![job.ws] = job.slug] /\ Goes(p, Answered(job, "ok"))
    /\ UNCHANGED <<accounts, verified, members, invites, boards, boardTrail, deletions, offered>>

(* remove: the details are gathered first, the row goes, the line follows. *)
(* What a workspace takes along when it goes is not modelled: the first    *)
(* one stays in a behaviour that fills it.                                 *)
BeginWorkspaceRemove(p) ==
    \E w \in liveWorkspaces :
        /\ "workspaces" \in traffic
        /\ w = FirstWs => traffic \cap {"seats", "boards"} = {}
        /\ Admit(p, [IdleJob EXCEPT !.op = "remove", !.step = "delete", !.ws = w])

removeWorkspace(p) ==
    LET job == planJob[p] IN
    /\ job.op = "remove" /\ job.step = "delete"
    /\ wsSlug' = [wsSlug EXCEPT ![job.ws] = Absent]
    /\ members' = {m \in members : m[1] # job.ws}
    /\ Goes(p, IF job.ws \in liveWorkspaces THEN [job EXCEPT !.step = "log"]
               ELSE Answered(job, "refused"))
    /\ UNCHANGED <<accounts, verified, invites, boards, boardTrail, deletions, offered>>

LogDeletion(p) ==
    LET job == planJob[p] IN
    /\ job.op = "remove" /\ job.step = "log"
    /\ deletions' = Append(deletions, job.ws)
    /\ Goes(p, Answered(job, "ok"))
    /\ UNCHANGED <<accounts, verified, wsSlug, members, invites, boards, boardTrail, offered>>

(* signUpRefusal counts the accounts that are not tombstones.              *)
BeginSignUp(p) ==
    \E u \in Users \ accounts :
        /\ "users" \in traffic
        /\ Admit(p, [IdleJob EXCEPT !.op = "signUp", !.step = "plugin", !.user = u,
                                    !.count = Cardinality(accounts)])

signUp(p) ==
    LET job == planJob[p]
        full == Exceeds(job.count, instanceLimits("users"))
    IN /\ job.op = "signUp" /\ job.step = "plugin"
       /\ accounts' = IF full THEN accounts ELSE accounts \cup {job.user}
       /\ Goes(p, Answered(job, IF full THEN "plan" ELSE "ok"))
       /\ UNCHANGED <<verified, wsSlug, members, invites, boards, boardTrail, deletions, offered>>

(* An account without a workspace is deleted: its row becomes a tombstone. *)
DeleteAccount ==
    /\ "users" \in traffic
    /\ \E u \in accounts :
          /\ \A m \in members : m[2] # u
          /\ accounts' = accounts \ {u}
          /\ verified' = verified \ {u}
    /\ UNCHANGED <<env, stored, traffic, wsSlug, members, invites, boards, boardTrail,
                   deletions, offered, planJob, planRequests>>

InvitationStep(p) ==
    \/ BeginInvite(p) \/ findPendingInvitations(p)
    \/ \E what \in {"members", "invitations"} : CountSeats(p, what)
    \/ assertSeatAvailable(p) \/ CancelPending(p)
    \/ pluginResend(p) \/ pluginInvite(p) \/ createInvitation(p)
    \/ BeginRevoke(p) \/ revokeInvitation(p) \/ BeginAccept(p) \/ acceptInvitation(p)

BoardStep(p) == \/ BeginBoard(p) \/ createBoard(p) \/ removeBoard(p)
                \/ BeginBoardUpdate(p) \/ updateBoard(p)

WorkspaceStep(p) ==
    \/ BeginWorkspace(p) \/ BeginWorkspaceUpdate(p) \/ CheckSlug(p)
    \/ createWorkspace(p) \/ updateWorkspace(p)
    \/ BeginWorkspaceRemove(p) \/ removeWorkspace(p) \/ LogDeletion(p)

PlanStep(p) == InvitationStep(p) \/ BoardStep(p) \/ WorkspaceStep(p)
               \/ BeginSignUp(p) \/ signUp(p)

PlansNext == (\E p \in Procs : PlanStep(p)) \/ Expire \/ DeleteAccount

PlansSpec == PlansInit /\ [][PlansNext]_planVars
-----------------------------------------------------------------------------
(* Every variable keeps its type, and a process reads only what exists.    *)
PlanTypeOK ==
    /\ env \in [CeilingKinds -> EnvCeilings]
    /\ stored \in [{"seats", "boards"} -> StoredValues]
    /\ verified \subseteq accounts /\ accounts \subseteq Users
    /\ wsSlug \in [Workspaces -> Slugs \cup {NoSlug, Absent}]
    /\ members \subseteq liveWorkspaces \X Users
    /\ \A i \in DOMAIN invites : invites[i] \in Invitation
    /\ \A b \in DOMAIN boards : boards[b] \in Names \cup {Absent}
    /\ \A p \in Procs : /\ planJob[p].got \in 0 .. Len(invites)
                         /\ planJob[p].seen \subseteq DOMAIN invites
                         /\ planJob[p].board \in 0 .. Len(boards)

(* The workspace's number of k is at most what the operator wrote, plus    *)
(* one write for every other request in flight: the first of the workspace's *)
(* own value and the instance's that says anything.                        *)
WithinOverride(k, n) ==
    \/ stored[k] \in {Null, 0}
    \/ stored[k] \in Nat \ {0} /\ n <= stored[k] + Cardinality(Procs) - 1
    \/ stored[k] \in {Absent, Malformed}
        /\ (env[k] = 0 \/ n <= env[k] + Cardinality(Procs) - 1)

WithinInstance(k, n) == env[k] = 0 \/ n <= env[k] + Cardinality(Procs) - 1

seated == {m \in members : m[1] = FirstWs}
invitees == {invites[i].email : i \in pendingInvitations}

(* Members and invitees each pass the ceiling of seats by at most one for   *)
(* every other request served at the time: the checks of createInvitation   *)
(* and acceptInvitation, with their resends and replacements, overshoot by  *)
(* the requests in flight and no further.                                   *)
SeatsWithinCeiling == /\ WithinOverride("seats", Cardinality(seated))
                      /\ WithinOverride("seats", Cardinality(invitees))

(* ADR 0032, "The ceilings are soft, and bounded": the people who hold a    *)
(* seat, members and invitees together, pass the ceiling by at most the     *)
(* number of simultaneous requests.  seatsUsed asks for its two counts at   *)
(* once, and an invitee who becomes a member after the members were counted *)
(* and before the invitations were is in neither.                           *)
PeopleWithinSeats ==
    WithinOverride("seats", Cardinality({m[2] : m \in seated} \cup invitees) - 1)

(* The same bound for boards, workspaces and accounts.                     *)
CountsWithinCeilings ==
    /\ WithinOverride("boards", Cardinality(liveBoards))
    /\ WithinInstance("workspaces", Cardinality(liveWorkspaces))
    /\ WithinInstance("users", Cardinality(accounts))

(* A workspace whose own value lifts the ceiling (null or 0) is never told *)
(* that its plan is full, whatever the instance's ceiling is.              *)
LiftedCeilingNeverRefuses ==
    \A p \in Procs : \A k \in {"seats", "boards"} :
        (planJob[p].answer = "plan" /\ stored[k] \in {Null, 0})
            => planJob[p].op \notin IF k = "seats" THEN {"invite", "accept"} ELSE {"board"}

(* An admin who was answered 201 invited at the role that was asked for,   *)
(* whoever else invited the same address in between.                       *)
InvitedAtAskedRole == \A o \in offered : invites[o[1]].role = o[2]

(* The last audit row of a board names it as it is: the trail commits with *)
(* the write and in its order.                                             *)
BoardTrailIsCurrent ==
    \A b \in DOMAIN boards :
        LET own == {i \in DOMAIN boardTrail : boardTrail[i][1] = b}
        IN \E i \in own : /\ \A j \in own : j <= i
                           /\ boardTrail[i][2] = boards[b]

logLines(w) == {i \in DOMAIN deletions : deletions[i] = w}
logging(w) == {p \in Procs : planJob[p].step = "log" /\ planJob[p].ws = w}

(* A workspace that was deleted has exactly one line in the log once the   *)
(* request that deleted it is done, and no other workspace has one: the    *)
(* line is the only record there can be.                                   *)
DeletionLoggedOnce ==
    \A w \in Workspaces :
        Cardinality(logLines(w)) = IF wsSlug[w] = Absent /\ logging(w) = {} THEN 1 ELSE 0

(* A slug that was taken in between is a 409 like one taken before: a      *)
(* create is never answered with the plugin's own refusal.                 *)
SlugRaceIsConflict ==
    \A p \in Procs : planJob[p].op = "create" => planJob[p].answer # "refused"

(* The ceilings of plan-limits.ts hold as far as checks without a lock     *)
(* can, and bind nobody they do not apply to.                              *)
CeilingsHold == SeatsWithinCeiling /\ CountsWithinCeilings /\ LiftedCeilingNeverRefuses

(* What a request is answered, and what the trail and the log say of it,   *)
(* is what it did.                                                         *)
PlansRecorded ==
    PlanTypeOK /\ InvitedAtAskedRole /\ BoardTrailIsCurrent /\ DeletionLoggedOnce /\ SlugRaceIsConflict

-----------------------------------------------------------------------------
(* Why the ceilings hold: the inductive strengthening of CeilingsHold.     *)
Ops == {"none", "invite", "accept", "revoke", "board", "rename", "drop",
        "create", "reslug", "remove", "signUp"}
Steps == {"idle", "pending", "count", "cancel", "find", "insert", "check",
          "write", "slug", "plugin", "delete", "log", "done"}
Answers == {"none", "ok", "plan", "refused", "conflict"}

Job == [op : Ops, step : Steps, user : Users, role : InvitableRoles \cup {Null},
        ws : Workspaces, slug : Slugs \cup {NoSlug}, board : Nat,
        name : Names \cup {Null}, seen : SUBSET Nat,
        counted : SUBSET {"members", "invitations"}, count : Nat, got : Nat,
        answer : Answers]

(* The inputs of a request that is being served, and what it cannot have   *)
(* counted yet.                                                            *)
InputsFit(job) ==
    job.step \notin {"idle", "done"} =>
        /\ job.op = "invite" => job.role \in InvitableRoles
        /\ job.step = "pending" => job.counted = {}
        /\ job.op \in {"board", "rename"} => job.name \in Names
        /\ job.op \in {"create", "reslug"} => job.slug \in Slugs

RowShape ==
    /\ env \in [CeilingKinds -> EnvCeilings]
    /\ stored \in [{"seats", "boards"} -> StoredValues]
    /\ accounts \subseteq Users /\ members \subseteq Workspaces \X Users
    /\ wsSlug \in [Workspaces -> Slugs \cup {NoSlug, Absent}]
    /\ wsSlug[FirstWs] # NoSlug
    /\ invites \in Seq(Invitation) /\ boards \in Seq(Names \cup {Absent})

PlanShape ==
    /\ RowShape
    /\ planJob \in [Procs -> Job]
    /\ \A p \in Procs : /\ InputsFit(planJob[p])
                         /\ planJob[p].seen \subseteq DOMAIN invites
                         /\ planJob[p].got \in 0 .. Len(invites)

(* The requests that found room, or did not have to ask, and have not      *)
(* written yet.                                                            *)
HasRoom(job, c) == c = NoCeiling \/ job.count < c

TakesSeat(job) == /\ job.op = "accept"
                  /\ \/ job.step = "find"
                     \/ /\ job.step = "count" /\ "members" \in job.counted
                        /\ HasRoom(job, resolveWorkspacePlanLimits("seats"))

Invites(job) == /\ job.op = "invite"
                /\ \/ job.step \in {"cancel", "find", "insert"}
                   \/ /\ job.step = "count" /\ "invitations" \in job.counted
                      /\ HasRoom(job, resolveWorkspacePlanLimits("seats"))

TakesBoard(job) == /\ job.op = "board" /\ job.step = "insert"
                   /\ HasRoom(job, resolveWorkspacePlanLimits("boards"))

TakesWorkspace(job) == /\ job.op = "create"
                       /\ \/ job.step = "plugin"
                          \/ job.step = "slug" /\ HasRoom(job, instanceLimits("workspaces"))

TakesAccount(job) == /\ job.op = "signUp" /\ job.step = "plugin"
                     /\ HasRoom(job, instanceLimits("users"))

(* What is there and what is coming pass the ceiling by one for every      *)
(* other request.                                                          *)
Bounded(n, c) == c = NoCeiling \/ n <= c + Cardinality(Procs) - 1

Seating == {p \in Procs : TakesSeat(planJob[p])}
Inviting == {p \in Procs : Invites(planJob[p])}
Boarding == {p \in Procs : TakesBoard(planJob[p])}
Founding == {p \in Procs : TakesWorkspace(planJob[p])}
Joining == {p \in Procs : TakesAccount(planJob[p])}

(* Of one address asked for by several there is one invitee.               *)
Expected == invitees \cup {planJob[p].user : p \in Inviting}

CeilingInv ==
    /\ Bounded(Cardinality(seated) + Cardinality(Seating), resolveWorkspacePlanLimits("seats"))
    /\ Bounded(Cardinality(Expected), resolveWorkspacePlanLimits("seats"))
    /\ Bounded(Cardinality(liveBoards) + Cardinality(Boarding), resolveWorkspacePlanLimits("boards"))
    /\ Bounded(Cardinality(liveWorkspaces) + Cardinality(Founding), instanceLimits("workspaces"))
    /\ Bounded(Cardinality(accounts) + Cardinality(Joining), instanceLimits("users"))

(* Only a ceiling that is there refuses.                                   *)
RefusalsInv ==
    \A p \in Procs : planJob[p].answer = "plan" =>
        /\ planJob[p].op \in {"invite", "accept"} => resolveWorkspacePlanLimits("seats") # NoCeiling
        /\ planJob[p].op = "board" => resolveWorkspacePlanLimits("boards") # NoCeiling

PlansInv == PlanShape /\ CeilingInv /\ RefusalsInv

-----------------------------------------------------------------------------
(* Why PlansRecorded holds: what is written later names rows that are there. *)
RecordShape ==
    /\ boardTrail \in Seq(Nat \X (Names \cup {Absent}))
    /\ deletions \in Seq(Workspaces)
    /\ offered \subseteq (DOMAIN invites) \X InvitableRoles
    /\ verified \subseteq accounts
    /\ members \subseteq liveWorkspaces \X Users
    /\ \A p \in Procs :
          /\ planJob[p].board \in 0 .. Len(boards)
          /\ planJob[p].op = "rename" /\ planJob[p].step = "write" => planJob[p].board > 0
          /\ planJob[p].op = "invite" /\ planJob[p].step = "check" => planJob[p].got > 0
          /\ planJob[p].step = "delete" => wsSlug[planJob[p].ws] # NoSlug

(* Nobody is invited to a workspace that goes.                             *)
FirstStays ==
    /\ invites # << >> => "seats" \in traffic
    /\ \A p \in Procs : planJob[p].op = "invite" /\ planJob[p].step # "done" => "seats" \in traffic
    /\ "seats" \in traffic =>
          /\ FirstWs \in liveWorkspaces
          /\ \A p \in Procs : planJob[p].step = "delete" => planJob[p].ws # FirstWs

(* The line of a workspace that went is written, or one request will.      *)
LogInv ==
    \A w \in Workspaces :
        \/ wsSlug[w] # Absent /\ logLines(w) = {} /\ logging(w) = {}
        \/ wsSlug[w] = Absent /\ logLines(w) = {} /\ \E p \in Procs : logging(w) = {p}
        \/ wsSlug[w] = Absent /\ logging(w) = {} /\ \E i \in DOMAIN deletions : logLines(w) = {i}

RecordsInv == /\ PlanShape /\ RecordShape /\ FirstStays /\ LogInv
              /\ InvitedAtAskedRole /\ BoardTrailIsCurrent /\ SlugRaceIsConflict
=============================================================================
