--------------------------- MODULE RequestGuards ---------------------------
(***************************************************************************)
(* One HTTP request on its way through the API: the middleware chain of    *)
(* configure-app.ts, the Better Auth mount, the global guards, the guards  *)
(* of the route in the order Nest runs them (decorators apply from the     *)
(* bottom up), the pipes, the handler and the exception filter.            *)
(*                                                                         *)
(* The caller's role, session and token change while the request is under  *)
(* way.  A twin of the request asks the same of a workspace that does not  *)
(* exist, so that what a stranger can learn is the difference of the two.  *)
(***************************************************************************)
EXTENDS Sequences, FiniteSets, Naturals, Functions

CONSTANTS MaxChanges   \* bound: changes of role, session or token

ASSUME GuardsAssumption == MaxChanges \in Nat

VARIABLES setting,   \* demo mode, production, sign-up enabled
          role,      \* the caller's role in the workspace "home"
          session,   \* the session behind the cookie
          token,     \* the personal access token, bound to "home"
          req,       \* the request
          pending,   \* the stages it still has to pass
          answer,    \* what it was answered
          twin,      \* what the twin was answered
          roleSeen,  \* the role WorkspaceGuard read
          ran,       \* the handler ran
          changes

guardVars == <<setting, role, session, token, req, pending, answer, twin, roleSeen, ran, changes>>

Roles == {"OWNER", "ADMIN", "MEMBER", "GUEST"}
CONTENT_ROLES == {"OWNER", "ADMIN", "MEMBER"}
ADMIN_ROLES == {"OWNER", "ADMIN"}
-----------------------------------------------------------------------------
(* The routes of the controllers.                                          *)

On(names, unsafe, tenant, guards, roles) ==
    {[name |-> n, unsafe |-> unsafe, tenant |-> tenant, guards |-> guards, roles |-> roles] :
        n \in names}

(* WorkspaceScoped(): members only.                                        *)
WorkspaceScoped(names) == On(names, FALSE, TRUE, <<"Workspace">>, Roles)

(* WorkspaceRoles(...): members with one of these roles.                   *)
WorkspaceRoles(names, roles) == On(names, TRUE, TRUE, <<"Workspace", "Roles">>, roles)

(* WorkspaceRoles(...) above SessionOnly().                                *)
SessionRoles(names, roles) == On(names, TRUE, TRUE, <<"SessionOnly", "Workspace", "Roles">>, roles)

Outside(names, unsafe, guards) == On(names, unsafe, FALSE, guards, Roles)

WorkspaceRoutes ==
    Outside({"listForUser"}, FALSE, << >>) \cup Outside({"createWorkspace"}, TRUE, << >>)
        \cup WorkspaceScoped({"getWorkspace", "plan"})
        \cup SessionRoles({"updateWorkspace"}, ADMIN_ROLES)
        \cup On({"removeWorkspace"}, TRUE, TRUE,
                <<"SessionOnly", "Workspace", "Roles", "DemoRestricted">>, {"OWNER"})

MemberRoutes ==
    WorkspaceScoped({"getOwnMembership", "listMembers"})
        \cup On({"leaveWorkspace"}, TRUE, TRUE, <<"SessionOnly", "Workspace">>, Roles)
        \cup SessionRoles({"removeMember", "updateMemberRole"}, ADMIN_ROLES)

InvitationRoutes ==
    On({"listInvitations"}, FALSE, TRUE, <<"Workspace", "Roles">>, ADMIN_ROLES)
        \cup SessionRoles({"createInvitation", "revokeInvitation"}, ADMIN_ROLES)
        \cup On({"acceptInvitation"}, TRUE, TRUE, <<"SessionOnly">>, Roles)

BoardRoutes ==
    WorkspaceScoped({"listBoards", "getBoard", "listTemplates"})
        \cup WorkspaceRoles({"createBoard", "updateBoard"}, CONTENT_ROLES)
        \cup WorkspaceRoles({"removeBoard"}, ADMIN_ROLES)

ColumnRoutes ==
    WorkspaceScoped({"listColumns"})
        \cup WorkspaceRoles({"createColumn", "createDefaults", "updateColumn", "removeColumn",
                             "moveColumn"}, ADMIN_ROLES)

TaskRoutes ==
    WorkspaceScoped({"listTasks", "getTask"})
        \cup WorkspaceRoles({"createTask", "updateTask", "removeTask", "moveTask"}, CONTENT_ROLES)

AssigneeRoutes ==
    WorkspaceRoles({"addAssignee", "removeAssignee", "addTaskLabel", "removeTaskLabel"}, CONTENT_ROLES)

ChecklistRoutes ==
    WorkspaceRoles({"createChecklist", "updateChecklist", "moveChecklist", "removeChecklist",
                    "createChecklistItem", "updateChecklistItem", "moveChecklistItem",
                    "removeChecklistItem"}, CONTENT_ROLES)

(* The byte budget is charged before the membership is looked at.          *)
UploadRoutes ==
    WorkspaceScoped({"listAttachments"})
        \cup On({"createAttachment"}, TRUE, TRUE, <<"UploadBudget", "Workspace", "Roles">>,
                CONTENT_ROLES)

AttachmentRoutes ==
    WorkspaceScoped({"findAttachment", "content"})
        \cup WorkspaceRoles({"removeAttachment"}, CONTENT_ROLES)

(* TokenRoute(): membership first, session second.                         *)
TokenRoutes ==
    On({"listTokens"}, FALSE, TRUE, <<"Workspace", "SessionOnly">>, Roles)
        \cup On({"createToken", "revokeToken"}, TRUE, TRUE, <<"Workspace", "SessionOnly">>, Roles)

LabelRoutes ==
    WorkspaceScoped({"listLabels"})
        \cup WorkspaceRoles({"createLabel", "updateLabel", "removeLabel"}, ADMIN_ROLES)

CommentRoutes ==
    WorkspaceScoped({"listComments"})
        \cup WorkspaceRoles({"createComment", "removeComment"}, CONTENT_ROLES)

ImportRoutes == WorkspaceRoles({"importTrello"}, ADMIN_ROLES)

NotificationRoutes ==
    WorkspaceScoped({"listNotifications", "unreadCount"})
        \cup On({"markAllRead", "markRead"}, TRUE, TRUE, <<"Workspace">>, Roles)

ActivityRoutes == WorkspaceScoped({"listWorkspace", "listForTask"})
DashboardRoutes == WorkspaceScoped({"summary"})

AccountRoutes ==
    Outside({"deletionPreview"}, FALSE, <<"SessionAuth">>)
        \cup Outside({"removeAccount"}, TRUE, <<"SessionAuth", "DemoRestricted">>)

MeRoutes == Outside({"me"}, FALSE, <<"SessionAuth">>) \cup Outside({"updateMe"}, TRUE, <<"SessionAuth">>)

InstanceRoutes ==
    Outside({"instancePreview"}, FALSE, <<"InstanceAdmin">>)
        \cup Outside({"removeInstanceAccount"}, TRUE, <<"InstanceAdmin">>)

ActivationRoutes == Outside({"funnel"}, FALSE, <<"InstanceAdmin">>)
ConfigRoutes == Outside({"config"}, FALSE, << >>)
HealthRoutes == Outside({"health", "ready"}, FALSE, << >>)

(* What is mounted at /auth, in the groups the mount tells apart.          *)
AuthRoutes == Outside({"orgMutation", "signUp", "changePassword", "otherAuth"}, TRUE, << >>)

Routes == WorkspaceRoutes \cup MemberRoutes \cup InvitationRoutes \cup BoardRoutes
            \cup ColumnRoutes \cup TaskRoutes \cup AssigneeRoutes \cup ChecklistRoutes
            \cup UploadRoutes \cup AttachmentRoutes \cup TokenRoutes \cup LabelRoutes
            \cup CommentRoutes \cup ImportRoutes \cup NotificationRoutes \cup ActivityRoutes
            \cup DashboardRoutes \cup AccountRoutes \cup MeRoutes \cup InstanceRoutes
            \cup ActivationRoutes \cup ConfigRoutes \cup HealthRoutes \cup AuthRoutes

IsAuth(r) == r \in AuthRoutes
IsPublic(r) == r \in HealthRoutes
-----------------------------------------------------------------------------
(* The stages a request passes, middleware first.                          *)
configureApp(r) ==
    <<"OriginCheck">>
        \o (IF IsAuth(r) THEN <<"AuthBody", "OrgFirewall", "DemoAuth", "SignUp">>
            ELSE <<"BodyParser", "Throttler", "SessionAuth">> \o r.guards \o <<"Pipes">>)
        \o <<"Handler">>

NoAnswer == [status |-> 0, message |-> "none"]
Ok == [status |-> 200, message |-> "own"]
Refusal(status) == [status |-> status, message |-> "own"]

Creds == {"none", "session", "token", "badBearer"}
Flaws == {"none", "foreignOrigin", "foreignReferer", "brokenReferer", "oversized", "streamed",
          "overLimit", "overBudget", "instanceFull", "invalid"}

Request == [route : Routes, cred : Creds, ws : {"home", "away"}, admin : BOOLEAN, flaw : Flaws]

(* What can be wrong with a request for a route.                           *)
FlawsOf(route) ==
    IF setting.demo THEN {"none"}
    ELSE IF setting.production THEN {"none", "oversized", "streamed"}
    ELSE Flaws \ ((IF IsAuth(route) THEN {} ELSE {"streamed", "instanceFull"})
                    \cup (IF "UploadBudget" \in Range(route.guards) THEN {} ELSE {"overBudget"}))

GuardsInit ==
    /\ setting \in [demo : BOOLEAN, production : BOOLEAN, signUp : BOOLEAN]
    /\ \E route \in IF setting.signUp THEN Routes ELSE AuthRoutes :
          /\ role \in IF route.tenant THEN Roles \cup {"none"} ELSE {"none"}
          /\ req \in [route : {route}, cred : Creds, flaw : FlawsOf(route),
                      ws : IF route.tenant THEN {"home", "away"} ELSE {"home"},
                      admin : IF "InstanceAdmin" \in Range(route.guards) THEN BOOLEAN ELSE {FALSE}]
    /\ session = "live"
    /\ token = IF role = "none" THEN "revoked" ELSE "live"   \* revokeAllForMember
    /\ pending = configureApp(req.route)
    /\ answer = NoAnswer /\ twin = NoAnswer
    /\ roleSeen = "none" /\ ran = FALSE /\ changes = 0

-----------------------------------------------------------------------------
(* What a handler may throw, and AllExceptionsFilter.                      *)

Outcomes == {"ok", "http4xx", "http5xx", "unique", "missingRow", "relation", "prisma",
             "clientError", "error", "nonError", "betterAuth4xx", "betterAuth5xx"}

(* What the services make of an error of Better Auth: a refusal keeps its  *)
(* status, anything else is thrown on as it is.                            *)
rethrowBetterAuthError == [betterAuth4xx |-> "http4xx", betterAuth5xx |-> "error"]
Thrown(o) == IF o \in DOMAIN rethrowBetterAuthError THEN rethrowBetterAuthError[o] ELSE o

mapPrismaError == [unique |-> 409, missingRow |-> 404, relation |-> 409]

(* An exception of Nest speaks for itself; a known database error and an   *)
(* http-errors 4xx are mapped; anything else is a 500 whose text shows     *)
(* outside production only.                                                *)
catch(o) ==
    CASE o = "ok" -> Ok
      [] o = "http4xx" -> Refusal(404)
      [] o = "http5xx" -> Refusal(500)
      [] o \in DOMAIN mapPrismaError -> [status |-> mapPrismaError[o], message |-> "mapped"]
      [] o = "clientError" -> [status |-> 413, message |-> "mapped"]
      [] OTHER -> [status |-> 500,
                   message |-> IF setting.production THEN "generic" ELSE "internal"]

(* failClosed: the auth handler's failures never reach the filter.         *)
failClosed == [status |-> 500, message |-> IF setting.production THEN "generic" ELSE "internal"]
-----------------------------------------------------------------------------
(* Each stage refuses or lets the request on (NoAnswer).                   *)

RefuseIf(c, status) == IF c THEN Refusal(status) ELSE NoAnswer

(* The Origin header, otherwise the origin of the Referer; one that cannot *)
(* be read is no claim.                                                    *)
claimedOrigin == IF req.flaw \in {"foreignOrigin", "foreignReferer"} THEN "foreign"
                 ELSE IF req.flaw = "brokenReferer" THEN "none" ELSE "ours"

(* Unsafe methods only; a request without a claim passes.                  *)
createOriginCheckMiddleware ==
    RefuseIf(req.route.unsafe /\ claimedOrigin \notin {"none", "ours"}, 403)

(* getSession answers from the cookie cache for a while after the session  *)
(* is gone.                                                                *)
getSession == req.cred = "session" /\ session \in {"live", "cached"}

(* authenticateToken: a live token, on a route with a workspace, its own.  *)
authenticateToken(ws) ==
    IF req.cred = "badBearer" \/ token # "live" THEN Refusal(401)
    ELSE IF ~req.route.tenant THEN Refusal(403)
    ELSE RefuseIf(ws # "home", 404)

SessionAuthGuard(ws) ==
    IF IsPublic(req.route) THEN NoAnswer
    ELSE IF req.cred \in {"token", "badBearer"} THEN authenticateToken(ws)
    ELSE RefuseIf(~getSession, 401)

(* Faulty variant: a workspace that exists is confirmed to a stranger.     *)
WorkspaceGuardTelling(ws) ==
    IF ws = "missing" THEN Refusal(404) ELSE RefuseIf(ws # "home" \/ role = "none", 403)

WorkspaceGuard(ws) == RefuseIf(ws # "home" \/ role = "none", 404)

RolesGuard == RefuseIf(roleSeen \notin req.route.roles, 403)

(* Faulty variant: a token passes for a session.                           *)
SessionOnlyGuardBlind == NoAnswer

SessionOnlyGuard == RefuseIf(req.cred = "token", 403)

DemoRestrictedGuard == RefuseIf(setting.demo, 403)

InstanceAdminGuard == RefuseIf(~req.admin, 403)

(* createAuthRequestHandler and the organization firewall.                 *)
isBlockedOrganizationMutation == RefuseIf(req.route.name = "orgMutation", 403)
isDemoRestrictedAuthRequest == RefuseIf(req.route.name = "changePassword" /\ setting.demo, 403)
createAuthRequestHandler ==
    RefuseIf(req.route.name = "signUp" /\ (~setting.signUp \/ req.flaw = "instanceFull"), 403)

(* A declared length over the ceiling; a body that only turns out to be    *)
(* too long is cut off while Better Auth reads it.                         *)
declaresOversizedBody == RefuseIf(req.flaw = "oversized", 413)

Stage(s, ws) ==
    CASE s = "OriginCheck" -> createOriginCheckMiddleware
      [] s = "AuthBody" -> declaresOversizedBody
      [] s = "BodyParser" -> IF req.flaw = "oversized" THEN catch("clientError") ELSE NoAnswer
      [] s = "OrgFirewall" -> isBlockedOrganizationMutation
      [] s = "DemoAuth" -> isDemoRestrictedAuthRequest
      [] s = "SignUp" -> createAuthRequestHandler
      [] s = "Throttler" -> RefuseIf(req.flaw = "overLimit" /\ ~IsPublic(req.route), 429)
      [] s = "SessionAuth" -> SessionAuthGuard(ws)
      [] s = "UploadBudget" -> RefuseIf(req.flaw = "overBudget", 429)
      [] s = "Workspace" -> WorkspaceGuard(ws)
      [] s = "Roles" -> RolesGuard
      [] s = "SessionOnly" -> SessionOnlyGuard
      [] s = "DemoRestricted" -> DemoRestrictedGuard
      [] s = "InstanceAdmin" -> InstanceAdminGuard
      [] s = "Pipes" -> RefuseIf(req.flaw = "invalid", 400)

(* The request and, while it is unanswered, its twin take the next stage.  *)
Pass ==
    /\ answer = NoAnswer /\ Head(pending) # "Handler"
    /\ LET s == Head(pending) IN
       /\ answer' = Stage(s, req.ws)
       /\ twin' = IF twin # NoAnswer THEN twin ELSE Stage(s, "missing")
       /\ roleSeen' = IF s = "Workspace" /\ req.ws = "home" THEN role ELSE roleSeen
    /\ pending' = Tail(pending)
    /\ UNCHANGED <<setting, role, session, token, req, ran, changes>>

-----------------------------------------------------------------------------
(* The handler runs; a stranger who accepts finds no invitation.           *)
Handle ==
    /\ answer = NoAnswer /\ Head(pending) = "Handler"
    /\ \E o \in IF req.route.name = "acceptInvitation" /\ req.ws = "away" THEN {"http4xx"}
                ELSE IF req.flaw = "streamed" THEN {"error"} ELSE Outcomes :
          LET a == IF IsAuth(req.route) /\ o # "ok" THEN failClosed ELSE catch(Thrown(o))
          IN answer' = a /\ twin' = IF twin = NoAnswer THEN a ELSE twin
    /\ ran' = TRUE
    /\ pending' = << >>
    /\ UNCHANGED <<setting, role, session, token, req, roleSeen, changes>>

(* The world moves on: a role is changed or taken away, the session the    *)
(* request relies on is revoked and the cache runs out, or its token is.   *)
Change ==
    /\ answer = NoAnswer /\ changes < MaxChanges
    /\ changes' = changes + 1
    /\ \/ /\ role # "none" /\ role' \in (Roles \cup {"none"}) \ {role}
          /\ UNCHANGED <<session, token>>
       \/ /\ req.cred = "session" /\ session # "gone"
          /\ session' = [live |-> "cached", cached |-> "gone"][session]
          /\ UNCHANGED <<role, token>>
       \/ /\ req.cred = "token" /\ token = "live" /\ token' = "revoked"
          /\ UNCHANGED <<role, session>>
    /\ UNCHANGED <<setting, req, pending, answer, twin, roleSeen, ran>>

GuardsNext == Pass \/ Handle \/ Change

GuardsSpec == GuardsInit /\ [][GuardsNext]_guardVars
-----------------------------------------------------------------------------
(* What the web client offers.                                             *)

canCreateOrUpdateBoard(r) == r \in {"OWNER", "ADMIN", "MEMBER"}

canDeleteBoard(r) == r \in {"OWNER", "ADMIN"}
canMutateColumns(r) == r \in {"OWNER", "ADMIN"}
canMutateTasks(r) == r \in {"OWNER", "ADMIN", "MEMBER"}
canMutateLabels(r) == r \in {"OWNER", "ADMIN"}
canManageMembers(r) == r \in {"OWNER", "ADMIN"}
canChangeOwnership(r) == r = "OWNER"
canManageMember(r, target) == canManageMembers(r) /\ (target # "OWNER" \/ canChangeOwnership(r))
INVITABLE_ROLES == {"ADMIN", "MEMBER", "GUEST"}
assignableRoles(r) == IF canChangeOwnership(r) THEN Roles ELSE INVITABLE_ROLES

(* WorkspaceMemberService.updateMemberRole: whom it does not refuse for    *)
(* who they are.                                                           *)
updateMemberRole(r, target, next) == (target = "OWNER" \/ next = "OWNER") => r = "OWNER"

canRenameWorkspace(r) == r \in {"OWNER", "ADMIN"}
canDeleteWorkspace(r) == r = "OWNER"

(* The controls of the routes a role is shown.                             *)
Drawn(names, offered) == IF offered THEN names ELSE {}

Offers(r) ==
    Drawn({"createBoard", "updateBoard"}, canCreateOrUpdateBoard(r))
        \cup Drawn({"removeBoard"}, canDeleteBoard(r))
        \cup Drawn({"createColumn", "createDefaults", "updateColumn", "removeColumn", "moveColumn",
                    "importTrello"}, canMutateColumns(r))
        \cup Drawn({"createTask", "updateTask", "removeTask", "moveTask", "addAssignee",
                    "removeAssignee", "addTaskLabel", "removeTaskLabel", "createChecklist",
                    "createChecklistItem", "createAttachment", "removeAttachment",
                    "createComment"}, canMutateTasks(r))
        \cup Drawn({"createLabel", "updateLabel", "removeLabel"}, canMutateLabels(r))
        \cup Drawn({"removeMember", "updateMemberRole", "createInvitation", "revokeInvitation",
                    "listInvitations"}, canManageMembers(r))
        \cup Drawn({"updateWorkspace"}, canRenameWorkspace(r))
        \cup Drawn({"removeWorkspace"}, canDeleteWorkspace(r))
-----------------------------------------------------------------------------
(* The request is one of the routes', and an answer ends it.               *)
GuardsTypeOK == /\ req \in Request
                /\ role \in Roles \cup {"none"} /\ roleSeen \in Roles \cup {"none"}
                /\ answer # NoAnswer => answer.status \in {200, 400, 401, 403, 404, 409, 413, 429, 500}

(* A caller who is no member is answered alike whether the workspace       *)
(* exists or not: "a 403 would confirm that something exists across the    *)
(* tenant boundary" (workspace-roles.decorator.ts).                        *)
StrangerLearnsNothing ==
    (answer # NoAnswer /\ (req.ws = "away" \/ (role = "none" /\ changes = 0))) => twin = answer

(* A token acts in its own workspace, within its owner's role, and never   *)
(* where the write is made by Better Auth or tokens are handed out (what   *)
(* is mounted at /auth, and the health checks, do not look at tokens).     *)
TokenStaysHome ==
    (ran /\ req.cred = "token" /\ ~IsAuth(req.route) /\ ~IsPublic(req.route)) =>
        /\ req.ws = "home" /\ req.route.tenant
        /\ roleSeen \in req.route.roles
        /\ req.route \notin TokenRoutes \cup AccountRoutes
        /\ req.route.name \notin {"updateWorkspace", "removeWorkspace", "leaveWorkspace",
                                  "removeMember", "updateMemberRole", "createInvitation",
                                  "revokeInvitation", "acceptInvitation"}

(* A GUEST changes nothing but what is the guest's own, whatever route and *)
(* whatever happens to the role meanwhile.                                 *)
GuestsOnlyRead ==
    (ran /\ req.route.tenant /\ req.route.unsafe /\ roleSeen = "GUEST") =>
        req.route.name \in {"leaveWorkspace", "createToken", "revokeToken",
                            "markAllRead", "markRead", "acceptInvitation"}

(* A demo instance keeps its workspaces, its accounts and its password,    *)
(* nobody signs up where sign-up is off, and organizations change through  *)
(* the workspace routes only.                                              *)
LockedStaysLocked ==
    ran => /\ setting.demo => req.route.name \notin {"removeWorkspace", "removeAccount", "changePassword"}
           /\ req.route.name = "signUp" => setting.signUp
           /\ req.route.name # "orgMutation"
           /\ req.route.unsafe => req.flaw \notin {"foreignOrigin", "foreignReferer"}

(* In production no answer carries the text of an internal error.          *)
InternalsStayInside ==
    (answer # NoAnswer /\ setting.production) => answer.message # "internal"

(* A control is drawn exactly for the roles its route admits, down to the  *)
(* roles of the member it is about: nobody is offered what the API always  *)
(* refuses, and nobody misses what it allows.                              *)
OffersMatchRoutes ==
    roleSeen # "none" =>
        /\ req.route.name \in UNION {Offers(r) : r \in Roles} =>
              (req.route.name \in Offers(roleSeen) <=> roleSeen \in req.route.roles)
        /\ (req.route.name = "updateMemberRole" /\ roleSeen \in req.route.roles) =>
              \A target \in Roles : \A next \in Roles \ {target} :
                  (canManageMember(roleSeen, target) /\ next \in assignableRoles(roleSeen))
                      <=> updateMemberRole(roleSeen, target, next)

(* What the guards are for, whatever route is asked with whatever          *)
(* credential: tokens stay in their workspace, guests read, what is locked   *)
(* stays locked, internals stay inside, and the client offers what the     *)
(* routes admit.                                                           *)
GuardsHold ==
    /\ GuardsTypeOK /\ TokenStaysHome /\ GuestsOnlyRead
    /\ LockedStaysLocked /\ InternalsStayInside /\ OffersMatchRoutes

-----------------------------------------------------------------------------
(* Why they hold: what a stage that let the request on has established, in *)
(* an order in which nothing later undoes it.                              *)
StageNames == {"OriginCheck", "AuthBody", "OrgFirewall", "DemoAuth", "SignUp", "BodyParser",
               "Throttler", "SessionAuth", "UploadBudget", "Workspace", "Roles", "SessionOnly",
               "DemoRestricted", "InstanceAdmin", "Pipes", "Handler"}

Ahead(s) == \E i \in DOMAIN pending : pending[i] = s

Established(s) ==
    /\ s = "OriginCheck" => (req.route.unsafe => req.flaw \notin {"foreignOrigin", "foreignReferer"})
    /\ s = "OrgFirewall" => req.route.name # "orgMutation"
    /\ s = "DemoAuth" => (setting.demo => req.route.name # "changePassword")
    /\ s = "SignUp" => (req.route.name = "signUp" => setting.signUp)
    /\ s = "SessionAuth" => (req.cred = "token" /\ ~IsPublic(req.route) =>
                                req.route.tenant /\ req.ws = "home")
    /\ s = "Workspace" => req.ws = "home" /\ roleSeen \in Roles
    /\ s = "Roles" => roleSeen \in req.route.roles
    /\ s = "SessionOnly" => req.cred # "token"
    /\ s = "DemoRestricted" => ~setting.demo

(* The handler comes last and a membership is read once; what is not ahead *)
(* any more is established.                                                *)
OnItsWay ==
    /\ pending \in Seq(StageNames)
    /\ answer = NoAnswer => Ahead("Handler")
    /\ \A i, j \in DOMAIN pending : pending[i] = "Workspace" /\ pending[j] = "Workspace" => i = j
    /\ \A i \in DOMAIN pending : pending[i] = "Handler" => i = Len(pending)
    /\ Ahead("Workspace") => roleSeen = "none"
    /\ ran => answer # NoAnswer
    /\ answer = NoAnswer \/ ran =>
          \A i \in DOMAIN configureApp(req.route) :
              LET s == configureApp(req.route)[i] IN
              Established(s) \/ (Ahead(s) /\ ~ran)

(* Who is a stranger is told what the twin is told, stage by stage.        *)
TwinAlike ==
    /\ role = "none" /\ changes = 0 => token = "revoked"
    /\ req.ws = "away" \/ (role = "none" /\ changes = 0) => twin = answer

GuardsInv ==
    /\ GuardsTypeOK
    /\ setting \in [demo : BOOLEAN, production : BOOLEAN, signUp : BOOLEAN] /\ changes \in Nat
    /\ OnItsWay /\ TwinAlike /\ InternalsStayInside
=============================================================================
