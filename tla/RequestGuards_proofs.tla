------------------------ MODULE RequestGuards_proofs ------------------------
(***************************************************************************)
(* The guards of the API, whatever the route, the credential, the flaw and *)
(* the number of changes meanwhile: what each stage that let a request on  *)
(* has established still holds when the handler runs, and a stranger is    *)
(* told what would be told of a workspace that does not exist.             *)
(***************************************************************************)
EXTENDS RequestGuards, SequenceTheorems, TLAPS

Has(s, x) == \E i \in DOMAIN s : s[i] = x
Once(s, x) == \A i, j \in DOMAIN s : s[i] = x /\ s[j] = x => i = j

(* What a sequence of stages put together from two holds, and how often.   *)
LEMMA Joined ==
    ASSUME NEW S, NEW s \in Seq(S), NEW t \in Seq(S)
    PROVE  /\ s \o t \in Seq(S)
           /\ \A x : Has(s \o t, x) <=> Has(s, x) \/ Has(t, x)
           /\ \A x : Once(s, x) /\ Once(t, x) /\ ~(Has(s, x) /\ Has(t, x)) => Once(s \o t, x)
<1>1. /\ s \o t \in Seq(S) /\ Len(s \o t) = Len(s) + Len(t)
      /\ \A i \in 1 .. Len(s) + Len(t) :
            (s \o t)[i] = IF i <= Len(s) THEN s[i] ELSE t[i - Len(s)]
      /\ Len(s) \in Nat /\ Len(t) \in Nat
      /\ DOMAIN s = 1 .. Len(s) /\ DOMAIN t = 1 .. Len(t) /\ DOMAIN (s \o t) = 1 .. Len(s) + Len(t)
  BY ConcatProperties, LenProperties
<1>2. ASSUME NEW x PROVE Has(s \o t, x) <=> Has(s, x) \/ Has(t, x)
  <2>1. ASSUME Has(s \o t, x) PROVE Has(s, x) \/ Has(t, x)
    <3>1. PICK i \in 1 .. Len(s) + Len(t) : (s \o t)[i] = x
      BY <1>1, <2>1 DEF Has
    <3>2. CASE i <= Len(s)
      BY <1>1, <3>1, <3>2 DEF Has
    <3>3. CASE ~(i <= Len(s))
      <4>1. i - Len(s) \in 1 .. Len(t) /\ t[i - Len(s)] = x
        BY <1>1, <3>1, <3>3
      <4> QED BY <1>1, <4>1 DEF Has
    <3> QED BY <3>2, <3>3
  <2>2. ASSUME NEW i \in DOMAIN s, s[i] = x PROVE Has(s \o t, x)
    <3>1. i \in DOMAIN (s \o t) /\ (s \o t)[i] = x
      BY <1>1, <2>2
    <3> QED BY <3>1 DEF Has
  <2>3. ASSUME NEW i \in DOMAIN t, t[i] = x PROVE Has(s \o t, x)
    <3>1. /\ i + Len(s) \in 1 .. Len(s) + Len(t) /\ ~(i + Len(s) <= Len(s))
          /\ (i + Len(s)) - Len(s) = i
      BY <1>1
    <3>2. i + Len(s) \in DOMAIN (s \o t) /\ (s \o t)[i + Len(s)] = x
      BY <1>1, <2>3, <3>1
    <3> QED BY <3>2 DEF Has
  <2> QED BY <2>1, <2>2, <2>3 DEF Has
<1>3. ASSUME NEW x, Once(s, x), Once(t, x), ~(Has(s, x) /\ Has(t, x)) PROVE Once(s \o t, x)
  <2> SUFFICES ASSUME NEW i \in 1 .. Len(s) + Len(t), NEW j \in 1 .. Len(s) + Len(t),
                      (s \o t)[i] = x, (s \o t)[j] = x
               PROVE  i = j
    BY <1>1 DEF Once
  <2>1. CASE i <= Len(s) /\ j <= Len(s)
    BY <1>1, <1>3, <2>1 DEF Once
  <2>2. CASE ~(i <= Len(s)) /\ ~(j <= Len(s))
    <3>1. /\ i - Len(s) \in DOMAIN t /\ j - Len(s) \in DOMAIN t
          /\ t[i - Len(s)] = x /\ t[j - Len(s)] = x
      BY <1>1, <2>2
    <3>2. i - Len(s) = j - Len(s)
      BY <1>3, <3>1 DEF Once
    <3> QED BY <1>1, <3>2
  <2>3. ASSUME NEW k \in 1 .. Len(s) + Len(t), NEW l \in 1 .. Len(s) + Len(t),
               k <= Len(s), ~(l <= Len(s)), (s \o t)[k] = x, (s \o t)[l] = x
        PROVE  FALSE
    <3>1. k \in DOMAIN s /\ s[k] = x /\ l - Len(s) \in DOMAIN t /\ t[l - Len(s)] = x
      BY <1>1, <2>3
    <3> QED BY <1>3, <3>1 DEF Has
  <2> QED BY <2>1, <2>2, <2>3
<1> QED BY <1>1, <1>2, <1>3

-----------------------------------------------------------------------------
(* The guards a controller puts on a route.                                *)
Guards == {<< >>, <<"Workspace">>, <<"Workspace", "Roles">>, <<"SessionOnly", "Workspace", "Roles">>,
           <<"SessionOnly", "Workspace", "Roles", "DemoRestricted">>,
           <<"SessionOnly", "Workspace">>, <<"SessionOnly">>,
           <<"UploadBudget", "Workspace", "Roles">>, <<"Workspace", "SessionOnly">>,
           <<"SessionAuth">>, <<"SessionAuth", "DemoRestricted">>, <<"InstanceAdmin">>}

(* No list of guards reads the membership twice or hides the handler.      *)
LEMMA GuardsAre ==
    ASSUME NEW g \in Guards
    PROVE  g \in Seq(StageNames) /\ Once(g, "Workspace") /\ ~Has(g, "Handler")
<1>1. g \in Seq(StageNames)
  <2>1. /\ "Workspace" \in StageNames /\ "Roles" \in StageNames /\ "SessionOnly" \in StageNames
        /\ "DemoRestricted" \in StageNames /\ "UploadBudget" \in StageNames
        /\ "SessionAuth" \in StageNames /\ "InstanceAdmin" \in StageNames
    BY DEF StageNames
  <2>2. /\ << >> \in Seq(StageNames) /\ <<"Workspace">> \in Seq(StageNames)
        /\ <<"Workspace", "Roles">> \in Seq(StageNames)
        /\ <<"SessionOnly", "Workspace", "Roles">> \in Seq(StageNames)
        /\ <<"SessionOnly", "Workspace", "Roles", "DemoRestricted">> \in Seq(StageNames)
        /\ <<"SessionOnly", "Workspace">> \in Seq(StageNames)
        /\ <<"SessionOnly">> \in Seq(StageNames)
        /\ <<"UploadBudget", "Workspace", "Roles">> \in Seq(StageNames)
        /\ <<"Workspace", "SessionOnly">> \in Seq(StageNames)
        /\ <<"SessionAuth">> \in Seq(StageNames)
        /\ <<"SessionAuth", "DemoRestricted">> \in Seq(StageNames)
        /\ <<"InstanceAdmin">> \in Seq(StageNames)
    BY <2>1
  <2> QED BY <2>2 DEF Guards
<1>2. Once(g, "Workspace")
  BY DEF Guards, Once
<1>3. ~Has(g, "Handler")
  BY DEF Guards, Has
<1> QED BY <1>1, <1>2, <1>3

(* Where the guards that matter below stand.                               *)
LEMMA GuardsHave ==
    /\ Has(<<"Workspace">>, "Workspace") /\ Has(<<"SessionOnly">>, "SessionOnly")
    /\ Has(<<"Workspace", "Roles">>, "Roles")
    /\ Has(<<"SessionOnly", "Workspace", "Roles">>, "SessionOnly")
    /\ Has(<<"SessionOnly", "Workspace", "Roles">>, "Roles")
    /\ Has(<<"SessionOnly", "Workspace", "Roles", "DemoRestricted">>, "SessionOnly")
    /\ Has(<<"SessionOnly", "Workspace", "Roles", "DemoRestricted">>, "Roles")
    /\ Has(<<"SessionOnly", "Workspace", "Roles", "DemoRestricted">>, "DemoRestricted")
    /\ Has(<<"SessionOnly", "Workspace">>, "SessionOnly")
    /\ Has(<<"UploadBudget", "Workspace", "Roles">>, "Roles")
    /\ Has(<<"Workspace", "SessionOnly">>, "SessionOnly")
    /\ Has(<<"SessionAuth", "DemoRestricted">>, "DemoRestricted")
<1>1. /\ <<"SessionOnly", "Workspace", "Roles">>[1] = "SessionOnly"
      /\ <<"SessionOnly", "Workspace", "Roles">>[3] = "Roles"
      /\ <<"SessionOnly", "Workspace", "Roles", "DemoRestricted">>[1] = "SessionOnly"
      /\ <<"SessionOnly", "Workspace", "Roles", "DemoRestricted">>[3] = "Roles"
      /\ <<"SessionOnly", "Workspace", "Roles", "DemoRestricted">>[4] = "DemoRestricted"
      /\ <<"UploadBudget", "Workspace", "Roles">>[3] = "Roles"
  OBVIOUS
<1> QED BY <1>1 DEF Has

-----------------------------------------------------------------------------
(* What the controllers owe the invariant, route by route: who may be let  *)
(* in to act for a workspace is decided by a guard of the route.           *)
AuthNames == {"orgMutation", "signUp", "changePassword", "otherAuth"}
SessionNames == {"updateWorkspace", "removeWorkspace", "leaveWorkspace", "removeMember",
                 "updateMemberRole", "createInvitation", "revokeInvitation", "acceptInvitation",
                 "listTokens", "createToken", "revokeToken"}
GuestNames == {"leaveWorkspace", "createToken", "revokeToken", "markAllRead", "markRead",
               "acceptInvitation"}
LockedNames == {"removeWorkspace", "removeAccount"}

(* The controls the client draws, by the roles it draws them for.          *)
ContentNames == {"createBoard", "updateBoard", "createTask", "updateTask", "removeTask",
                 "moveTask", "addAssignee", "removeAssignee", "addTaskLabel", "removeTaskLabel",
                 "createChecklist", "createChecklistItem", "createAttachment",
                 "removeAttachment", "createComment"}
AdminNames == {"removeBoard", "createColumn", "createDefaults", "updateColumn", "removeColumn",
               "moveColumn", "importTrello", "createLabel", "updateLabel", "removeLabel",
               "removeMember", "updateMemberRole", "createInvitation", "revokeInvitation",
               "listInvitations", "updateWorkspace"}

NameSound(n, unsafe, tenant, guards, roles) ==
    /\ tenant => \/ Has(guards, "Roles") \/ Has(guards, "SessionOnly")
                 \/ Has(guards, "Workspace") /\ roles = Roles
    /\ n \in SessionNames => Has(guards, "SessionOnly")
    /\ tenant /\ unsafe => n \in GuestNames \/ (Has(guards, "Roles") /\ "GUEST" \notin roles)
    /\ n \in LockedNames => Has(guards, "DemoRestricted")
    /\ n \in ContentNames => roles = CONTENT_ROLES
    /\ n \in AdminNames => roles = ADMIN_ROLES
    /\ n = "removeWorkspace" => roles = {"OWNER"}

RouteSound(r) ==
    /\ r.guards \in Guards /\ r.roles \in SUBSET Roles
    /\ NameSound(r.name, r.unsafe, r.tenant, r.guards, r.roles)
    /\ r.name \in AuthNames => IsAuth(r)

(* A family of routes is sound when each of its names is.                  *)
LEMMA FamilyIs ==
    ASSUME NEW names, NEW unsafe, NEW tenant, NEW guards, NEW roles,
           NEW r \in On(names, unsafe, tenant, guards, roles)
    PROVE  /\ r.name \in names /\ r.unsafe = unsafe /\ r.tenant = tenant
           /\ r.guards = guards /\ r.roles = roles
BY DEF On

(* A list of guards is one of the lists.                                    *)
LEMMA GuardsIn ==
    /\ << >> \in Guards /\ <<"Workspace">> \in Guards /\ <<"Workspace", "Roles">> \in Guards
    /\ <<"SessionOnly", "Workspace", "Roles">> \in Guards
    /\ <<"SessionOnly", "Workspace", "Roles", "DemoRestricted">> \in Guards
    /\ <<"SessionOnly", "Workspace">> \in Guards /\ <<"SessionOnly">> \in Guards
    /\ <<"UploadBudget", "Workspace", "Roles">> \in Guards
    /\ <<"Workspace", "SessionOnly">> \in Guards /\ <<"SessionAuth">> \in Guards
    /\ <<"SessionAuth", "DemoRestricted">> \in Guards /\ <<"InstanceAdmin">> \in Guards
BY DEF Guards

(* The roles of the routes are roles, and exclude guests where named.      *)
LEMMA RolesAre ==
    /\ Roles \in SUBSET Roles /\ ADMIN_ROLES \in SUBSET Roles /\ CONTENT_ROLES \in SUBSET Roles
    /\ {"OWNER"} \in SUBSET Roles /\ "GUEST" \notin {"OWNER"}
    /\ "GUEST" \notin ADMIN_ROLES /\ "GUEST" \notin CONTENT_ROLES
BY DEF Roles, ADMIN_ROLES, CONTENT_ROLES

(* What a family must satisfy for its routes to be sound.                  *)
LEMMA FamilySound ==
    ASSUME NEW names, NEW unsafe, NEW tenant, NEW guards \in Guards, NEW roles \in SUBSET Roles,
           NEW r \in On(names, unsafe, tenant, guards, roles),
           \A n \in names : n \notin AuthNames /\ NameSound(n, unsafe, tenant, guards, roles)
    PROVE  RouteSound(r)
BY FamilyIs DEF RouteSound

(* WorkspaceScoped() is for names that change nothing.                      *)
LEMMA ScopedSound ==
    ASSUME NEW names,
           \A n \in names : n \notin AuthNames \cup SessionNames \cup LockedNames
                                      \cup ContentNames \cup AdminNames,
           NEW r \in WorkspaceScoped(names)
    PROVE  RouteSound(r)
<1>1. r \in On(names, FALSE, TRUE, <<"Workspace">>, Roles)
  BY DEF WorkspaceScoped
<1>2. \A n \in names : n \notin AuthNames
                          /\ NameSound(n, FALSE, TRUE, <<"Workspace">>, Roles)
  BY GuardsHave DEF NameSound, LockedNames
<1> QED BY <1>1, <1>2, FamilySound, GuardsIn, RolesAre

(* WorkspaceRoles() is for names whose controls go by the same roles.      *)
LEMMA RoledSound ==
    ASSUME NEW names, NEW roles \in {ADMIN_ROLES, CONTENT_ROLES},
           \A n \in names : /\ n \notin AuthNames \cup SessionNames \cup LockedNames
                            /\ n \in ContentNames => roles = CONTENT_ROLES
                            /\ n \in AdminNames => roles = ADMIN_ROLES,
           NEW r \in WorkspaceRoles(names, roles)
    PROVE  RouteSound(r)
<1>1. r \in On(names, TRUE, TRUE, <<"Workspace", "Roles">>, roles)
  BY DEF WorkspaceRoles
<1>2. \A n \in names : n \notin AuthNames
                          /\ NameSound(n, TRUE, TRUE, <<"Workspace", "Roles">>, roles)
  BY GuardsHave, RolesAre DEF NameSound, LockedNames
<1> QED BY <1>1, <1>2, FamilySound, GuardsIn, RolesAre

(* WorkspaceRoles() above SessionOnly() is for the administrators' names.  *)
LEMMA SessionSound ==
    ASSUME NEW names, \A n \in names : n \in AdminNames, NEW r \in SessionRoles(names, ADMIN_ROLES)
    PROVE  RouteSound(r)
<1>1. r \in On(names, TRUE, TRUE, <<"SessionOnly", "Workspace", "Roles">>, ADMIN_ROLES)
  BY DEF SessionRoles
<1>2. \A n \in names : n \notin AuthNames
          /\ NameSound(n, TRUE, TRUE, <<"SessionOnly", "Workspace", "Roles">>, ADMIN_ROLES)
  BY GuardsHave, RolesAre DEF NameSound, LockedNames, AdminNames, ContentNames, AuthNames
<1> QED BY <1>1, <1>2, FamilySound, GuardsIn, RolesAre

(* Outside any workspace only the names of an account are restricted.      *)
LEMMA OutsideSound ==
    ASSUME NEW names, NEW unsafe, NEW guards \in Guards,
           \A n \in names : /\ n \notin AuthNames \cup SessionNames \cup ContentNames \cup AdminNames
                            /\ n \in LockedNames => Has(guards, "DemoRestricted"),
           NEW r \in Outside(names, unsafe, guards)
    PROVE  RouteSound(r)
<1>1. r \in On(names, unsafe, FALSE, guards, Roles)
  BY DEF Outside
<1>2. \A n \in names : n \notin AuthNames /\ NameSound(n, unsafe, FALSE, guards, Roles)
  BY DEF NameSound, SessionNames
<1> QED BY <1>1, <1>2, FamilySound, RolesAre

(* The routes of WorkspaceRoutes. *)
LEMMA WorkspaceRoutesSound == ASSUME NEW r \in WorkspaceRoutes PROVE RouteSound(r)
<1>1. CASE r \in Outside({"listForUser"}, FALSE, << >>)
  BY <1>1, OutsideSound, GuardsIn, GuardsHave DEF AuthNames, SessionNames, LockedNames, ContentNames, AdminNames
<1>2. CASE r \in Outside({"createWorkspace"}, TRUE, << >>)
  BY <1>2, OutsideSound, GuardsIn, GuardsHave DEF AuthNames, SessionNames, LockedNames, ContentNames, AdminNames
<1>3. CASE r \in WorkspaceScoped({"getWorkspace", "plan"})
  BY <1>3, ScopedSound DEF AuthNames, SessionNames, LockedNames, ContentNames, AdminNames
<1>4. CASE r \in SessionRoles({"updateWorkspace"}, ADMIN_ROLES)
  BY <1>4, SessionSound DEF AdminNames
<1>5. CASE r \in On({"removeWorkspace"}, TRUE, TRUE,
                   <<"SessionOnly", "Workspace", "Roles", "DemoRestricted">>, {"OWNER"})
  <2> DEFINE Names == {"removeWorkspace"}
  <2>1. \A n \in Names : n \notin AuthNames
           /\ NameSound(n, TRUE, TRUE, <<"SessionOnly", "Workspace", "Roles", "DemoRestricted">>, {"OWNER"})
    BY GuardsHave, RolesAre DEF NameSound, GuestNames, AuthNames, SessionNames, LockedNames,
       ContentNames, AdminNames
  <2>2. r \in On(Names, TRUE, TRUE, <<"SessionOnly", "Workspace", "Roles", "DemoRestricted">>, {"OWNER"})
    BY <1>5
  <2> HIDE DEF Names
  <2> QED BY <2>1, <2>2, FamilySound, GuardsIn, RolesAre
<1> QED BY <1>1, <1>2, <1>3, <1>4, <1>5 DEF WorkspaceRoutes

(* The routes of MemberRoutes. *)
LEMMA MemberRoutesSound == ASSUME NEW r \in MemberRoutes PROVE RouteSound(r)
<1>1. CASE r \in WorkspaceScoped({"getOwnMembership", "listMembers"})
  BY <1>1, ScopedSound DEF AuthNames, SessionNames, LockedNames, ContentNames, AdminNames
<1>2. CASE r \in On({"leaveWorkspace"}, TRUE, TRUE,
                   <<"SessionOnly", "Workspace">>, Roles)
  <2> DEFINE Names == {"leaveWorkspace"}
  <2>1. \A n \in Names : n \notin AuthNames
           /\ NameSound(n, TRUE, TRUE, <<"SessionOnly", "Workspace">>, Roles)
    BY GuardsHave, RolesAre DEF NameSound, GuestNames, AuthNames, SessionNames, LockedNames,
       ContentNames, AdminNames
  <2>2. r \in On(Names, TRUE, TRUE, <<"SessionOnly", "Workspace">>, Roles)
    BY <1>2
  <2> HIDE DEF Names
  <2> QED BY <2>1, <2>2, FamilySound, GuardsIn, RolesAre
<1>3. CASE r \in SessionRoles({"removeMember", "updateMemberRole"}, ADMIN_ROLES)
  BY <1>3, SessionSound DEF AdminNames
<1> QED BY <1>1, <1>2, <1>3 DEF MemberRoutes

(* The routes of InvitationRoutes. *)
LEMMA InvitationRoutesSound == ASSUME NEW r \in InvitationRoutes PROVE RouteSound(r)
<1>1. CASE r \in On({"listInvitations"}, FALSE, TRUE,
                   <<"Workspace", "Roles">>, ADMIN_ROLES)
  <2> DEFINE Names == {"listInvitations"}
  <2>1. \A n \in Names : n \notin AuthNames
           /\ NameSound(n, FALSE, TRUE, <<"Workspace", "Roles">>, ADMIN_ROLES)
    BY GuardsHave, RolesAre DEF NameSound, GuestNames, AuthNames, SessionNames, LockedNames,
       ContentNames, AdminNames
  <2>2. r \in On(Names, FALSE, TRUE, <<"Workspace", "Roles">>, ADMIN_ROLES)
    BY <1>1
  <2> HIDE DEF Names
  <2> QED BY <2>1, <2>2, FamilySound, GuardsIn, RolesAre
<1>2. CASE r \in SessionRoles({"createInvitation", "revokeInvitation"}, ADMIN_ROLES)
  BY <1>2, SessionSound DEF AdminNames
<1>3. CASE r \in On({"acceptInvitation"}, TRUE, TRUE,
                   <<"SessionOnly">>, Roles)
  <2> DEFINE Names == {"acceptInvitation"}
  <2>1. \A n \in Names : n \notin AuthNames
           /\ NameSound(n, TRUE, TRUE, <<"SessionOnly">>, Roles)
    BY GuardsHave, RolesAre DEF NameSound, GuestNames, AuthNames, SessionNames, LockedNames,
       ContentNames, AdminNames
  <2>2. r \in On(Names, TRUE, TRUE, <<"SessionOnly">>, Roles)
    BY <1>3
  <2> HIDE DEF Names
  <2> QED BY <2>1, <2>2, FamilySound, GuardsIn, RolesAre
<1> QED BY <1>1, <1>2, <1>3 DEF InvitationRoutes

(* The routes of BoardRoutes. *)
LEMMA BoardRoutesSound == ASSUME NEW r \in BoardRoutes PROVE RouteSound(r)
<1>1. CASE r \in WorkspaceScoped({"listBoards", "getBoard", "listTemplates"})
  BY <1>1, ScopedSound DEF AuthNames, SessionNames, LockedNames, ContentNames, AdminNames
<1>2. CASE r \in WorkspaceRoles({"createBoard", "updateBoard"}, CONTENT_ROLES)
  BY <1>2, RoledSound DEF AuthNames, SessionNames, LockedNames, ContentNames, AdminNames
<1>3. CASE r \in WorkspaceRoles({"removeBoard"}, ADMIN_ROLES)
  BY <1>3, RoledSound DEF AuthNames, SessionNames, LockedNames, ContentNames, AdminNames
<1> QED BY <1>1, <1>2, <1>3 DEF BoardRoutes

(* The routes of ColumnRoutes. *)
LEMMA ColumnRoutesSound == ASSUME NEW r \in ColumnRoutes PROVE RouteSound(r)
<1>1. CASE r \in WorkspaceScoped({"listColumns"})
  BY <1>1, ScopedSound DEF AuthNames, SessionNames, LockedNames, ContentNames, AdminNames
<1>2. CASE r \in WorkspaceRoles({"createColumn", "createDefaults", "updateColumn", "removeColumn", "moveColumn"}, ADMIN_ROLES)
  BY <1>2, RoledSound DEF AuthNames, SessionNames, LockedNames, ContentNames, AdminNames
<1> QED BY <1>1, <1>2 DEF ColumnRoutes

(* The routes of TaskRoutes. *)
LEMMA TaskRoutesSound == ASSUME NEW r \in TaskRoutes PROVE RouteSound(r)
<1>1. CASE r \in WorkspaceScoped({"listTasks", "getTask"})
  BY <1>1, ScopedSound DEF AuthNames, SessionNames, LockedNames, ContentNames, AdminNames
<1>2. CASE r \in WorkspaceRoles({"createTask", "updateTask", "removeTask", "moveTask"}, CONTENT_ROLES)
  BY <1>2, RoledSound DEF AuthNames, SessionNames, LockedNames, ContentNames, AdminNames
<1> QED BY <1>1, <1>2 DEF TaskRoutes

(* The routes of AssigneeRoutes. *)
LEMMA AssigneeRoutesSound == ASSUME NEW r \in AssigneeRoutes PROVE RouteSound(r)
BY RoledSound DEF AssigneeRoutes, AuthNames, SessionNames, LockedNames, ContentNames, AdminNames

(* The routes of ChecklistRoutes. *)
LEMMA ChecklistRoutesSound == ASSUME NEW r \in ChecklistRoutes PROVE RouteSound(r)
BY RoledSound DEF ChecklistRoutes, AuthNames, SessionNames, LockedNames, ContentNames, AdminNames

(* The routes of UploadRoutes. *)
LEMMA UploadRoutesSound == ASSUME NEW r \in UploadRoutes PROVE RouteSound(r)
<1>1. CASE r \in WorkspaceScoped({"listAttachments"})
  BY <1>1, ScopedSound DEF AuthNames, SessionNames, LockedNames, ContentNames, AdminNames
<1>2. CASE r \in On({"createAttachment"}, TRUE, TRUE,
                   <<"UploadBudget", "Workspace", "Roles">>, CONTENT_ROLES)
  <2> DEFINE Names == {"createAttachment"}
  <2>1. \A n \in Names : n \notin AuthNames
           /\ NameSound(n, TRUE, TRUE, <<"UploadBudget", "Workspace", "Roles">>, CONTENT_ROLES)
    BY GuardsHave, RolesAre DEF NameSound, GuestNames, AuthNames, SessionNames, LockedNames,
       ContentNames, AdminNames
  <2>2. r \in On(Names, TRUE, TRUE, <<"UploadBudget", "Workspace", "Roles">>, CONTENT_ROLES)
    BY <1>2
  <2> HIDE DEF Names
  <2> QED BY <2>1, <2>2, FamilySound, GuardsIn, RolesAre
<1> QED BY <1>1, <1>2 DEF UploadRoutes

(* The routes of AttachmentRoutes. *)
LEMMA AttachmentRoutesSound == ASSUME NEW r \in AttachmentRoutes PROVE RouteSound(r)
<1>1. CASE r \in WorkspaceScoped({"findAttachment", "content"})
  BY <1>1, ScopedSound DEF AuthNames, SessionNames, LockedNames, ContentNames, AdminNames
<1>2. CASE r \in WorkspaceRoles({"removeAttachment"}, CONTENT_ROLES)
  BY <1>2, RoledSound DEF AuthNames, SessionNames, LockedNames, ContentNames, AdminNames
<1> QED BY <1>1, <1>2 DEF AttachmentRoutes

(* The routes of TokenRoutes. *)
LEMMA TokenRoutesSound == ASSUME NEW r \in TokenRoutes PROVE RouteSound(r)
<1>1. CASE r \in On({"listTokens"}, FALSE, TRUE,
                   <<"Workspace", "SessionOnly">>, Roles)
  <2> DEFINE Names == {"listTokens"}
  <2>1. \A n \in Names : n \notin AuthNames
           /\ NameSound(n, FALSE, TRUE, <<"Workspace", "SessionOnly">>, Roles)
    BY GuardsHave, RolesAre DEF NameSound, GuestNames, AuthNames, SessionNames, LockedNames,
       ContentNames, AdminNames
  <2>2. r \in On(Names, FALSE, TRUE, <<"Workspace", "SessionOnly">>, Roles)
    BY <1>1
  <2> HIDE DEF Names
  <2> QED BY <2>1, <2>2, FamilySound, GuardsIn, RolesAre
<1>2. CASE r \in On({"createToken", "revokeToken"}, TRUE, TRUE,
                   <<"Workspace", "SessionOnly">>, Roles)
  <2> DEFINE Names == {"createToken", "revokeToken"}
  <2>1. \A n \in Names : n \notin AuthNames
           /\ NameSound(n, TRUE, TRUE, <<"Workspace", "SessionOnly">>, Roles)
    BY GuardsHave, RolesAre DEF NameSound, GuestNames, AuthNames, SessionNames, LockedNames,
       ContentNames, AdminNames
  <2>2. r \in On(Names, TRUE, TRUE, <<"Workspace", "SessionOnly">>, Roles)
    BY <1>2
  <2> HIDE DEF Names
  <2> QED BY <2>1, <2>2, FamilySound, GuardsIn, RolesAre
<1> QED BY <1>1, <1>2 DEF TokenRoutes

(* The routes of LabelRoutes. *)
LEMMA LabelRoutesSound == ASSUME NEW r \in LabelRoutes PROVE RouteSound(r)
<1>1. CASE r \in WorkspaceScoped({"listLabels"})
  BY <1>1, ScopedSound DEF AuthNames, SessionNames, LockedNames, ContentNames, AdminNames
<1>2. CASE r \in WorkspaceRoles({"createLabel", "updateLabel", "removeLabel"}, ADMIN_ROLES)
  BY <1>2, RoledSound DEF AuthNames, SessionNames, LockedNames, ContentNames, AdminNames
<1> QED BY <1>1, <1>2 DEF LabelRoutes

(* The routes of CommentRoutes. *)
LEMMA CommentRoutesSound == ASSUME NEW r \in CommentRoutes PROVE RouteSound(r)
<1>1. CASE r \in WorkspaceScoped({"listComments"})
  BY <1>1, ScopedSound DEF AuthNames, SessionNames, LockedNames, ContentNames, AdminNames
<1>2. CASE r \in WorkspaceRoles({"createComment", "removeComment"}, CONTENT_ROLES)
  BY <1>2, RoledSound DEF AuthNames, SessionNames, LockedNames, ContentNames, AdminNames
<1> QED BY <1>1, <1>2 DEF CommentRoutes

(* The routes of ImportRoutes. *)
LEMMA ImportRoutesSound == ASSUME NEW r \in ImportRoutes PROVE RouteSound(r)
BY RoledSound DEF ImportRoutes, AuthNames, SessionNames, LockedNames, ContentNames, AdminNames

(* The routes of NotificationRoutes. *)
LEMMA NotificationRoutesSound == ASSUME NEW r \in NotificationRoutes PROVE RouteSound(r)
<1>1. CASE r \in WorkspaceScoped({"listNotifications", "unreadCount"})
  BY <1>1, ScopedSound DEF AuthNames, SessionNames, LockedNames, ContentNames, AdminNames
<1>2. CASE r \in On({"markAllRead", "markRead"}, TRUE, TRUE,
                   <<"Workspace">>, Roles)
  <2> DEFINE Names == {"markAllRead", "markRead"}
  <2>1. \A n \in Names : n \notin AuthNames
           /\ NameSound(n, TRUE, TRUE, <<"Workspace">>, Roles)
    BY GuardsHave, RolesAre DEF NameSound, GuestNames, AuthNames, SessionNames, LockedNames,
       ContentNames, AdminNames
  <2>2. r \in On(Names, TRUE, TRUE, <<"Workspace">>, Roles)
    BY <1>2
  <2> HIDE DEF Names
  <2> QED BY <2>1, <2>2, FamilySound, GuardsIn, RolesAre
<1> QED BY <1>1, <1>2 DEF NotificationRoutes

(* The routes of ActivityRoutes. *)
LEMMA ActivityRoutesSound == ASSUME NEW r \in ActivityRoutes PROVE RouteSound(r)
BY ScopedSound DEF ActivityRoutes, AuthNames, SessionNames, LockedNames, ContentNames, AdminNames

(* The routes of DashboardRoutes. *)
LEMMA DashboardRoutesSound == ASSUME NEW r \in DashboardRoutes PROVE RouteSound(r)
BY ScopedSound DEF DashboardRoutes, AuthNames, SessionNames, LockedNames, ContentNames, AdminNames

(* The routes of AccountRoutes. *)
LEMMA AccountRoutesSound == ASSUME NEW r \in AccountRoutes PROVE RouteSound(r)
<1>1. CASE r \in Outside({"deletionPreview"}, FALSE, <<"SessionAuth">>)
  BY <1>1, OutsideSound, GuardsIn, GuardsHave DEF AuthNames, SessionNames, LockedNames, ContentNames, AdminNames
<1>2. CASE r \in Outside({"removeAccount"}, TRUE, <<"SessionAuth", "DemoRestricted">>)
  BY <1>2, OutsideSound, GuardsIn, GuardsHave DEF AuthNames, SessionNames, LockedNames, ContentNames, AdminNames
<1> QED BY <1>1, <1>2 DEF AccountRoutes

(* The routes of MeRoutes. *)
LEMMA MeRoutesSound == ASSUME NEW r \in MeRoutes PROVE RouteSound(r)
<1>1. CASE r \in Outside({"me"}, FALSE, <<"SessionAuth">>)
  BY <1>1, OutsideSound, GuardsIn, GuardsHave DEF AuthNames, SessionNames, LockedNames, ContentNames, AdminNames
<1>2. CASE r \in Outside({"updateMe"}, TRUE, <<"SessionAuth">>)
  BY <1>2, OutsideSound, GuardsIn, GuardsHave DEF AuthNames, SessionNames, LockedNames, ContentNames, AdminNames
<1> QED BY <1>1, <1>2 DEF MeRoutes

(* The routes of InstanceRoutes. *)
LEMMA InstanceRoutesSound == ASSUME NEW r \in InstanceRoutes PROVE RouteSound(r)
<1>1. CASE r \in Outside({"instancePreview"}, FALSE, <<"InstanceAdmin">>)
  BY <1>1, OutsideSound, GuardsIn, GuardsHave DEF AuthNames, SessionNames, LockedNames, ContentNames, AdminNames
<1>2. CASE r \in Outside({"removeInstanceAccount"}, TRUE, <<"InstanceAdmin">>)
  BY <1>2, OutsideSound, GuardsIn, GuardsHave DEF AuthNames, SessionNames, LockedNames, ContentNames, AdminNames
<1> QED BY <1>1, <1>2 DEF InstanceRoutes

(* The routes of ActivationRoutes. *)
LEMMA ActivationRoutesSound == ASSUME NEW r \in ActivationRoutes PROVE RouteSound(r)
BY OutsideSound, GuardsIn, GuardsHave DEF ActivationRoutes, AuthNames, SessionNames, LockedNames, ContentNames, AdminNames

(* The routes of ConfigRoutes. *)
LEMMA ConfigRoutesSound == ASSUME NEW r \in ConfigRoutes PROVE RouteSound(r)
BY OutsideSound, GuardsIn, GuardsHave DEF ConfigRoutes, AuthNames, SessionNames, LockedNames, ContentNames, AdminNames

(* The routes of HealthRoutes. *)
LEMMA HealthRoutesSound == ASSUME NEW r \in HealthRoutes PROVE RouteSound(r)
BY OutsideSound, GuardsIn, GuardsHave DEF HealthRoutes, AuthNames, SessionNames, LockedNames, ContentNames, AdminNames

(* What is mounted at /auth serves no workspace.                           *)
LEMMA AuthRoutesSound ==
    ASSUME NEW r \in AuthRoutes
    PROVE  RouteSound(r) /\ ~r.tenant /\ r.name \in AuthNames
<1>1. r \in On(AuthNames, TRUE, FALSE, << >>, Roles)
  BY DEF AuthRoutes, Outside, AuthNames
<1>2. /\ r.name \in AuthNames /\ r.unsafe = TRUE /\ r.tenant = FALSE
      /\ r.guards = << >> /\ r.roles = Roles
  BY <1>1 DEF On
<1>3. NameSound(r.name, TRUE, FALSE, << >>, Roles)
  BY <1>2 DEF NameSound, AuthNames, SessionNames, LockedNames, ContentNames, AdminNames
<1> QED BY <1>2, <1>3, GuardsIn, RolesAre DEF RouteSound, IsAuth

(* Every route of the API is sound.                                        *)
LEMMA RoutesSound == ASSUME NEW r \in Routes PROVE RouteSound(r)
BY WorkspaceRoutesSound, MemberRoutesSound, InvitationRoutesSound, BoardRoutesSound,
   ColumnRoutesSound, TaskRoutesSound, AssigneeRoutesSound, ChecklistRoutesSound,
   UploadRoutesSound, AttachmentRoutesSound, TokenRoutesSound, LabelRoutesSound,
   CommentRoutesSound, ImportRoutesSound, NotificationRoutesSound, ActivityRoutesSound,
   DashboardRoutesSound, AccountRoutesSound, MeRoutesSound, InstanceRoutesSound,
   ActivationRoutesSound, ConfigRoutesSound, HealthRoutesSound, AuthRoutesSound
   DEF Routes

(* The routes of the tokens need a session, those of the account serve no  *)
(* workspace.                                                              *)
LEMMA TokensAndAccounts ==
    /\ \A r \in TokenRoutes : r.name \in SessionNames
    /\ \A r \in AccountRoutes : ~r.tenant
<1>1. ASSUME NEW r \in TokenRoutes PROVE r.name \in {"listTokens", "createToken", "revokeToken"}
  BY <1>1 DEF TokenRoutes, On
<1>2. ASSUME NEW r \in AccountRoutes PROVE ~r.tenant
  BY <1>2 DEF AccountRoutes, Outside, On
<1> QED BY <1>1, <1>2 DEF SessionNames

(* The stages of a request: every guard of its route among them, one       *)
(* membership read at the most, the handler last.                          *)
LEMMA StagesAre ==
    ASSUME NEW r, r.guards \in Guards, NEW st, st = configureApp(r)
    PROVE  /\ st \in Seq(StageNames) /\ Has(st, "OriginCheck") /\ Has(st, "Handler")
           /\ Once(st, "Workspace")
           /\ \A i \in DOMAIN st : st[i] = "Handler" => i = Len(st)
           /\ ~IsAuth(r) => Has(st, "SessionAuth") /\ \A x : Has(r.guards, x) => Has(st, x)
           /\ IsAuth(r) => Has(st, "OrgFirewall") /\ Has(st, "DemoAuth") /\ Has(st, "SignUp")
<1> DEFINE auth == <<"AuthBody", "OrgFirewall", "DemoAuth", "SignUp">>
           api == <<"BodyParser", "Throttler", "SessionAuth">>
           first == <<"OriginCheck">>
           pipes == <<"Pipes">>
           last == <<"Handler">>
           mid == IF IsAuth(r) THEN auth ELSE api \o r.guards \o pipes
<1>1. /\ auth \in Seq(StageNames) /\ api \in Seq(StageNames) /\ first \in Seq(StageNames)
      /\ pipes \in Seq(StageNames) /\ last \in Seq(StageNames)
  <2>1. /\ "AuthBody" \in StageNames /\ "OrgFirewall" \in StageNames /\ "DemoAuth" \in StageNames
        /\ "SignUp" \in StageNames /\ "BodyParser" \in StageNames /\ "Throttler" \in StageNames
        /\ "SessionAuth" \in StageNames /\ "OriginCheck" \in StageNames
        /\ "Pipes" \in StageNames /\ "Handler" \in StageNames
    BY DEF StageNames
  <2> QED BY <2>1
<1>2. /\ Has(auth, "OrgFirewall") /\ Has(auth, "DemoAuth") /\ Has(auth, "SignUp")
      /\ Has(api, "SessionAuth") /\ Has(first, "OriginCheck") /\ Has(last, "Handler")
  <2>1. auth[2] = "OrgFirewall" /\ auth[3] = "DemoAuth" /\ auth[4] = "SignUp" /\ api[3] = "SessionAuth"
    OBVIOUS
  <2> QED BY <2>1 DEF Has
<1>3. /\ ~Has(auth, "Handler") /\ ~Has(api, "Handler") /\ ~Has(first, "Handler") /\ ~Has(pipes, "Handler")
      /\ ~Has(auth, "Workspace") /\ ~Has(api, "Workspace") /\ ~Has(first, "Workspace")
      /\ ~Has(pipes, "Workspace") /\ ~Has(last, "Workspace")
  BY DEF Has
<1>4. \A s : ~Has(s, "Workspace") => Once(s, "Workspace")
  BY DEF Has, Once
<1>5. st = first \o mid \o last
  BY DEF configureApp
<1>a. Len(last) = 1
  OBVIOUS
<1> HIDE DEF auth, api, first, pipes, last
<1>6. /\ r.guards \in Seq(StageNames) /\ Once(r.guards, "Workspace") /\ ~Has(r.guards, "Handler")
  BY GuardsAre
<1>7. /\ api \o r.guards \in Seq(StageNames) /\ Once(api \o r.guards, "Workspace")
      /\ ~Has(api \o r.guards, "Handler") /\ Has(api \o r.guards, "SessionAuth")
      /\ \A x : Has(r.guards, x) => Has(api \o r.guards, x)
  BY <1>1, <1>2, <1>3, <1>4, <1>6, Joined
<1>8. /\ api \o r.guards \o pipes \in Seq(StageNames) /\ Once(api \o r.guards \o pipes, "Workspace")
      /\ ~Has(api \o r.guards \o pipes, "Handler") /\ Has(api \o r.guards \o pipes, "SessionAuth")
      /\ \A x : Has(r.guards, x) => Has(api \o r.guards \o pipes, x)
  <2>1. PICK half \in Seq(StageNames) : half = api \o r.guards
    BY <1>7
  <2>2. /\ Once(half, "Workspace") /\ ~Has(half, "Handler") /\ Has(half, "SessionAuth")
        /\ \A x : Has(r.guards, x) => Has(half, x)
    BY <1>7, <2>1
  <2>3. /\ half \o pipes \in Seq(StageNames) /\ Once(half \o pipes, "Workspace")
        /\ ~Has(half \o pipes, "Handler") /\ Has(half \o pipes, "SessionAuth")
        /\ \A x : Has(r.guards, x) => Has(half \o pipes, x)
    BY <1>1, <1>3, <1>4, <2>2, Joined
  <2> QED BY <2>1, <2>3
<1>9. /\ mid \in Seq(StageNames) /\ Once(mid, "Workspace") /\ ~Has(mid, "Handler")
      /\ ~IsAuth(r) => Has(mid, "SessionAuth") /\ \A x : Has(r.guards, x) => Has(mid, x)
      /\ IsAuth(r) => Has(mid, "OrgFirewall") /\ Has(mid, "DemoAuth") /\ Has(mid, "SignUp")
  BY <1>1, <1>2, <1>3, <1>4, <1>8
<1> HIDE DEF mid
<1>10. /\ first \o mid \in Seq(StageNames) /\ Once(first \o mid, "Workspace")
       /\ ~Has(first \o mid, "Handler") /\ Has(first \o mid, "OriginCheck")
       /\ \A x : Has(mid, x) => Has(first \o mid, x)
  BY <1>1, <1>2, <1>3, <1>4, <1>9, Joined
<1>11. PICK front \in Seq(StageNames) : front = first \o mid
  BY <1>10
<1>12. /\ st = front \o last /\ Once(front, "Workspace") /\ ~Has(front, "Handler")
       /\ Has(front, "OriginCheck") /\ \A x : Has(mid, x) => Has(front, x)
  BY <1>5, <1>10, <1>11
<1>13. /\ st \in Seq(StageNames) /\ Once(st, "Workspace") /\ Has(st, "Handler")
       /\ \A x : Has(front, x) => Has(st, x)
  BY <1>1, <1>2, <1>3, <1>4, <1>12, Joined
<1>14. ASSUME NEW i \in DOMAIN st, st[i] = "Handler" PROVE i = Len(st)
  <2>1. /\ Len(st) = Len(front) + 1 /\ i \in 1 .. Len(front) + 1 /\ Len(front) \in Nat
        /\ st[i] = IF i <= Len(front) THEN front[i] ELSE last[i - Len(front)]
        /\ DOMAIN front = 1 .. Len(front)
    <3>1. st = front \o last /\ front \in Seq(StageNames) /\ last \in Seq(StageNames)
      BY <1>1, <1>12
    <3>2. /\ Len(front \o last) = Len(front) + Len(last)
          /\ \A k \in 1 .. Len(front) + Len(last) :
                (front \o last)[k] = IF k <= Len(front) THEN front[k] ELSE last[k - Len(front)]
      BY <3>1, ConcatProperties
    <3>3. /\ Len(front) \in Nat /\ DOMAIN front = 1 .. Len(front) /\ DOMAIN st = 1 .. Len(st)
      BY <1>13, <3>1, LenProperties
    <3> QED BY <1>a, <3>1, <3>2, <3>3
  <2>2. ~(i <= Len(front))
    BY <1>12, <1>14, <2>1 DEF Has
  <2> QED BY <2>1, <2>2
<1> QED BY <1>9, <1>12, <1>13, <1>14

-----------------------------------------------------------------------------
(* A stage lets the request on or refuses it in its own words.             *)
LEMMA StageIs ==
    ASSUME NEW s \in StageNames \ {"Handler"}, NEW ws
    PROVE  \/ Stage(s, ws) = NoAnswer
           \/ /\ Stage(s, ws) # NoAnswer /\ Stage(s, ws).message # "internal"
              /\ Stage(s, ws).status \in {400, 401, 403, 404, 413, 429}
<1> DEFINE Fine(a) == \/ a = NoAnswer
                      \/ /\ a # NoAnswer /\ a.message # "internal"
                         /\ a.status \in {400, 401, 403, 404, 413, 429}
<1>1. \A status \in {400, 401, 403, 404, 413, 429} : Fine(Refusal(status))
  BY DEF Refusal, NoAnswer
<1>2. ASSUME NEW c, NEW status \in {400, 401, 403, 404, 413, 429} PROVE Fine(RefuseIf(c, status))
  <2>1. CASE c
    BY <1>1, <2>1 DEF RefuseIf
  <2>2. CASE ~c
    BY <2>2 DEF RefuseIf
  <2> QED BY <2>1, <2>2
<1>3. Fine(SessionAuthGuard(ws))
  <2>1. Fine(authenticateToken(ws))
    BY <1>1, <1>2 DEF authenticateToken
  <2> QED BY <1>2, <2>1 DEF SessionAuthGuard
<1>4. Fine(catch("clientError"))
  BY DEF catch, NoAnswer, mapPrismaError
<1>5. Fine(NoAnswer)
  OBVIOUS
<1> HIDE DEF Fine
<1>6. Fine(Stage(s, ws))
  BY <1>2, <1>3, <1>4, <1>5
     DEF Stage, StageNames, createOriginCheckMiddleware, declaresOversizedBody,
         isBlockedOrganizationMutation, isDemoRestrictedAuthRequest, createAuthRequestHandler,
         WorkspaceGuard, RolesGuard, SessionOnlyGuard, DemoRestrictedGuard, InstanceAdminGuard
<1> QED BY <1>6 DEF Fine

(* A stranger's request and the one for a workspace that does not exist    *)
(* are treated alike.                                                      *)
LEMMA StageAlike ==
    ASSUME NEW s \in StageNames \ {"Handler"},
           req.ws = "away" \/ (role = "none" /\ token = "revoked")
    PROVE  Stage(s, req.ws) = Stage(s, "missing")
<1>1. SessionAuthGuard(req.ws) = SessionAuthGuard("missing")
  BY DEF SessionAuthGuard, authenticateToken, RefuseIf
<1>2. WorkspaceGuard(req.ws) = WorkspaceGuard("missing")
  BY DEF WorkspaceGuard, RefuseIf
<1> QED BY <1>1, <1>2 DEF Stage, StageNames

(* What a stage that lets the request on has established.                  *)
LEMMA StageEstablishes ==
    ASSUME GuardsTypeOK, setting \in [demo : BOOLEAN, production : BOOLEAN, signUp : BOOLEAN],
           NEW s \in StageNames \ {"Handler"}, Stage(s, req.ws) = NoAnswer,
           UNCHANGED <<req, setting>>, roleSeen' = IF s = "Workspace" /\ req.ws = "home" THEN role ELSE roleSeen
    PROVE  Established(s)'
<1>0. \A status \in {401, 403, 404} : Refusal(status) # NoAnswer
  BY DEF Refusal, NoAnswer
<1>1. CASE s = "OriginCheck"
  BY <1>1, <1>0 DEF RefuseIf, Stage, createOriginCheckMiddleware, claimedOrigin, Established
<1>2. CASE s = "OrgFirewall"
  BY <1>2, <1>0 DEF RefuseIf, Stage, isBlockedOrganizationMutation, Established
<1>3. CASE s = "DemoAuth"
  BY <1>3, <1>0 DEF RefuseIf, Stage, isDemoRestrictedAuthRequest, Established
<1>4. CASE s = "SignUp"
  BY <1>4, <1>0 DEF RefuseIf, Stage, createAuthRequestHandler, Established
<1>5. CASE s = "SessionAuth"
  BY <1>5, <1>0 DEF RefuseIf, Stage, SessionAuthGuard, authenticateToken, RefuseIf, Established
<1>6. CASE s = "Workspace"
  <2>1. req.ws = "home" /\ role # "none"
    BY <1>6, <1>0 DEF RefuseIf, Stage, WorkspaceGuard
  <2> QED BY <1>6, <2>1 DEF Established, GuardsTypeOK
<1>7. CASE s = "Roles"
  BY <1>7, <1>0 DEF RefuseIf, Stage, RolesGuard, Established
<1>8. CASE s = "SessionOnly"
  BY <1>8, <1>0 DEF RefuseIf, Stage, SessionOnlyGuard, Established
<1>9. CASE s = "DemoRestricted"
  BY <1>9, <1>0 DEF RefuseIf, Stage, DemoRestrictedGuard, Established
<1> QED BY <1>1, <1>2, <1>3, <1>4, <1>5, <1>6, <1>7, <1>8, <1>9 DEF Established

(* What the filter makes of what a handler throws.                         *)
LEMMA CatchIs ==
    ASSUME NEW o \in Outcomes, NEW a,
           a = IF IsAuth(req.route) /\ o # "ok" THEN failClosed ELSE catch(Thrown(o))
    PROVE  /\ a # NoAnswer /\ a.status \in {200, 404, 409, 413, 500}
           /\ setting.production => a.message # "internal"
<1> DEFINE Fine(x) == /\ x # NoAnswer /\ x.status \in {200, 404, 409, 413, 500}
                      /\ setting.production => x.message # "internal"
<1>1. Fine(failClosed)
  BY DEF failClosed, NoAnswer
<1>2. Thrown(o) \in Outcomes
  BY DEF Thrown, rethrowBetterAuthError, Outcomes
<1>3. /\ mapPrismaError["unique"] = 409 /\ mapPrismaError["missingRow"] = 404
      /\ mapPrismaError["relation"] = 409 /\ DOMAIN mapPrismaError = {"unique", "missingRow", "relation"}
  BY DEF mapPrismaError
<1>4. ASSUME NEW e \in Outcomes PROVE Fine(catch(e))
  BY <1>3 DEF catch, Ok, Refusal, NoAnswer
<1> QED BY <1>1, <1>2, <1>4

-----------------------------------------------------------------------------
(* What every state knows of the route it is about.                        *)
LEMMA RouteIs ==
    ASSUME GuardsTypeOK
    PROVE  /\ req.route \in Routes /\ RouteSound(req.route)
           /\ req.cred \in Creds /\ req.ws \in {"home", "away"}
BY RoutesSound DEF GuardsTypeOK, Request

(* A request enters with all its stages ahead.                             *)
LEMMA GuardsBegin == GuardsInit => GuardsInv
<1> SUFFICES ASSUME GuardsInit PROVE GuardsInv
  OBVIOUS
<1>1. PICK route \in Routes :
        /\ role \in IF route.tenant THEN Roles \cup {"none"} ELSE {"none"}
        /\ req \in [route : {route}, cred : Creds, flaw : FlawsOf(route),
                    ws : IF route.tenant THEN {"home", "away"} ELSE {"home"},
                    admin : IF "InstanceAdmin" \in Range(route.guards) THEN BOOLEAN ELSE {FALSE}]
  <2>1. AuthRoutes \subseteq Routes
    BY DEF Routes
  <2> QED BY <2>1 DEF GuardsInit
<1>2. FlawsOf(route) \subseteq Flaws
  BY DEF FlawsOf, Flaws
<1>3. req \in Request /\ req.route \in Routes
  <2>1. req \in [route : {route}, cred : Creds, flaw : FlawsOf(route),
                 ws : IF route.tenant THEN {"home", "away"} ELSE {"home"},
                 admin : IF "InstanceAdmin" \in Range(route.guards) THEN BOOLEAN ELSE {FALSE}]
    BY <1>1
  <2> DEFINE R == [route : Routes, cred : Creds, ws : {"home", "away"}, admin : BOOLEAN, flaw : Flaws]
             A == IF "InstanceAdmin" \in Range(route.guards) THEN BOOLEAN ELSE {FALSE}
             W == IF route.tenant THEN {"home", "away"} ELSE {"home"}
  <2>2. A \subseteq BOOLEAN /\ W \subseteq {"home", "away"}
    OBVIOUS
  <2>3. req \in [route : {route}, cred : Creds, flaw : FlawsOf(route), ws : W, admin : A]
    BY <2>1
  <2> HIDE DEF A, W
  <2>4. req \in R /\ req.route \in Routes
    BY <1>2, <2>2, <2>3
  <2> QED BY <2>4 DEF Request
<1>4. /\ token = (IF role = "none" THEN "revoked" ELSE "live")
      /\ pending = configureApp(req.route) /\ answer = NoAnswer /\ twin = NoAnswer
      /\ roleSeen = "none" /\ ran = FALSE /\ changes = 0
      /\ setting \in [demo : BOOLEAN, production : BOOLEAN, signUp : BOOLEAN]
  BY DEF GuardsInit
<1>5. GuardsTypeOK
  BY <1>1, <1>3, <1>4 DEF GuardsTypeOK
<1>6. req.route.guards \in Guards
  BY <1>5, RouteIs DEF RouteSound
<1>7. OnItsWay
  <2>1. /\ pending \in Seq(StageNames) /\ Has(pending, "Handler") /\ Once(pending, "Workspace")
        /\ \A i \in DOMAIN pending : pending[i] = "Handler" => i = Len(pending)
    BY <1>4, <1>6, StagesAre
  <2>2. \A i \in DOMAIN configureApp(req.route) : Ahead(configureApp(req.route)[i])
    BY <1>4 DEF Ahead
  <2> QED BY <1>4, <2>1, <2>2 DEF OnItsWay, Has, Once, Ahead
<1>8. TwinAlike
  BY <1>4 DEF TwinAlike
<1> QED BY <1>4, <1>5, <1>7, <1>8 DEF GuardsInv, InternalsStayInside

(* The world moves on, and takes nothing back that a stage established.    *)
LEMMA ChangeKeeps == GuardsInv /\ Change => GuardsInv'
<1> SUFFICES ASSUME GuardsInv, Change PROVE GuardsInv'
  OBVIOUS
<1>1. /\ UNCHANGED <<setting, req, pending, answer, twin, roleSeen, ran>>
      /\ changes' = changes + 1 /\ changes \in Nat
      /\ role' = role \/ role' \in Roles \cup {"none"}
  BY DEF Change, GuardsInv
<1>2. GuardsTypeOK'
  BY <1>1 DEF GuardsInv, GuardsTypeOK
<1>3. OnItsWay'
  BY <1>1 DEF GuardsInv, OnItsWay, Ahead, Established
<1>4. TwinAlike'
  <2>1. changes' \in Nat /\ changes' # 0
    BY <1>1
  <2>2. req.ws = "away" => twin = answer
    BY DEF GuardsInv, TwinAlike
  <2> QED BY <1>1, <2>1, <2>2 DEF TwinAlike
<1> QED BY <1>1, <1>2, <1>3, <1>4 DEF GuardsInv, InternalsStayInside

(* The handler runs when everything before it has let the request on.      *)
LEMMA HandleKeeps == GuardsInv /\ Handle => GuardsInv'
<1> SUFFICES ASSUME GuardsInv, Handle PROVE GuardsInv'
  OBVIOUS
<1>1. PICK o \in Outcomes : \E a :
        /\ a = (IF IsAuth(req.route) /\ o # "ok" THEN failClosed ELSE catch(Thrown(o)))
        /\ answer' = a /\ twin' = IF twin = NoAnswer THEN a ELSE twin
  <2>1. {"http4xx"} \subseteq Outcomes /\ {"error"} \subseteq Outcomes
    BY DEF Outcomes
  <2> QED BY <2>1 DEF Handle
<1>a. PICK a :
        /\ a = (IF IsAuth(req.route) /\ o # "ok" THEN failClosed ELSE catch(Thrown(o)))
        /\ answer' = a /\ twin' = IF twin = NoAnswer THEN a ELSE twin
  BY <1>1
<1>2. /\ answer = NoAnswer /\ Head(pending) = "Handler"
      /\ ran' = TRUE /\ pending' = << >>
      /\ UNCHANGED <<setting, role, session, token, req, roleSeen, changes>>
  BY DEF Handle
<1>3. /\ a # NoAnswer /\ a.status \in {200, 404, 409, 413, 500}
      /\ setting.production => a.message # "internal"
  BY <1>a, CatchIs
<1>4. \A s : Ahead(s) => s = "Handler"
  <2>1. pending \in Seq(StageNames) /\ Ahead("Handler")
        /\ \A i \in DOMAIN pending : pending[i] = "Handler" => i = Len(pending)
    BY <1>2 DEF GuardsInv, OnItsWay
  <2>2. Len(pending) \in Nat /\ DOMAIN pending = 1 .. Len(pending) /\ pending # << >>
    BY <2>1, LenProperties DEF Ahead
  <2>3. 1 \in DOMAIN pending /\ pending[1] = "Handler"
    BY <1>2, <2>1, <2>2
  <2>4. Len(pending) = 1
    BY <2>1, <2>3
  <2> QED BY <2>2, <2>3, <2>4 DEF Ahead
<1>5. \A i \in DOMAIN configureApp(req.route) : Established(configureApp(req.route)[i])
  <2>2. Established("Handler")
    BY DEF Established
  <2> QED BY <1>2, <1>4, <2>2 DEF GuardsInv, OnItsWay
<1>6. GuardsTypeOK'
  BY <1>a, <1>2, <1>3 DEF GuardsInv, GuardsTypeOK
<1>7. OnItsWay'
  BY <1>a, <1>2, <1>3, <1>5 DEF OnItsWay, Ahead, Established
<1>8. TwinAlike'
  BY <1>a, <1>2, <1>3 DEF GuardsInv, TwinAlike
<1> QED BY <1>a, <1>2, <1>3, <1>6, <1>7, <1>8 DEF GuardsInv, InternalsStayInside

(* A stage refuses, or adds what it establishes to what stands.            *)
LEMMA PassKeeps == GuardsInv /\ Pass => GuardsInv'
<1> SUFFICES ASSUME GuardsInv, Pass PROVE GuardsInv'
  OBVIOUS
<1>1. PICK s : s = Head(pending)
  OBVIOUS
<1>2. /\ answer = NoAnswer /\ s # "Handler"
      /\ answer' = Stage(s, req.ws)
      /\ twin' = IF twin # NoAnswer THEN twin ELSE Stage(s, "missing")
      /\ roleSeen' = IF s = "Workspace" /\ req.ws = "home" THEN role ELSE roleSeen
      /\ pending' = Tail(pending)
      /\ UNCHANGED <<setting, role, session, token, req, ran, changes>>
  BY <1>1 DEF Pass
<1>3. /\ GuardsTypeOK /\ OnItsWay /\ TwinAlike /\ InternalsStayInside /\ ~ran
      /\ setting \in [demo : BOOLEAN, production : BOOLEAN, signUp : BOOLEAN] /\ changes \in Nat
      /\ pending \in Seq(StageNames) /\ Ahead("Handler")
  BY <1>2 DEF GuardsInv, OnItsWay
<1>4. PICK n \in Nat \ {0} : n = Len(pending) /\ DOMAIN pending = 1 .. n
  <2>1. pending # << >>
    BY <1>3 DEF Ahead
  <2> QED BY <1>3, <2>1, LenProperties, EmptySeq
<1>5. /\ pending' \in Seq(StageNames) /\ Len(pending') = n - 1 /\ DOMAIN pending' = 1 .. n - 1
      /\ \A i \in 1 .. n - 1 : pending'[i] = pending[i + 1]
      /\ pending[1] = s /\ s \in StageNames \ {"Handler"}
  <2>1. pending # << >>
    BY <1>4
  <2>2. pending' \in Seq(StageNames) /\ Len(pending') = n - 1
    BY <1>2, <1>3, <1>4, <2>1
  <2>3. DOMAIN pending' = 1 .. n - 1
    BY <2>2, LenProperties
  <2>4. \A i \in 1 .. n - 1 : pending'[i] = pending[i + 1]
    BY <1>2, <1>3, <1>4, <2>1
  <2>5. pending[1] = s /\ s \in StageNames
    BY <1>1, <1>3, <1>4, <2>1
  <2> QED BY <1>2, <2>2, <2>3, <2>4, <2>5
<1>6. \A x : Ahead(x) /\ x # s => Ahead(x)'
  <2> SUFFICES ASSUME NEW x, NEW i \in 1 .. n, pending[i] = x, x # s PROVE Ahead(x)'
    BY <1>4 DEF Ahead
  <2>1. i # 1 /\ i - 1 \in 1 .. n - 1 /\ (i - 1) + 1 = i
    BY <1>5
  <2>2. pending'[i - 1] = x /\ i - 1 \in DOMAIN pending'
    BY <1>5, <2>1
  <2> QED BY <2>2 DEF Ahead
<1>7. \A x : Ahead(x)' => Ahead(x)
  <2> SUFFICES ASSUME NEW x, NEW i \in 1 .. n - 1, pending'[i] = x PROVE Ahead(x)
    BY <1>5 DEF Ahead
  <2>1. i + 1 \in 1 .. n /\ pending[i + 1] = x
    BY <1>5
  <2> QED BY <1>4, <2>1 DEF Ahead
<1>8. /\ \A i, j \in DOMAIN pending' : pending'[i] = "Workspace" /\ pending'[j] = "Workspace" => i = j
      /\ \A i \in DOMAIN pending' : pending'[i] = "Handler" => i = Len(pending')
  <2>1. ASSUME NEW i \in 1 .. n - 1, NEW j \in 1 .. n - 1,
               pending'[i] = "Workspace", pending'[j] = "Workspace"
        PROVE  i = j
    <3>1. /\ i + 1 \in DOMAIN pending /\ j + 1 \in DOMAIN pending
          /\ pending[i + 1] = "Workspace" /\ pending[j + 1] = "Workspace"
      BY <1>4, <1>5, <2>1
    <3>2. i + 1 = j + 1
      BY <1>3, <3>1 DEF OnItsWay
    <3> QED BY <3>2
  <2>2. ASSUME NEW i \in 1 .. n - 1, pending'[i] = "Handler" PROVE i = n - 1
    <3>1. i + 1 \in DOMAIN pending /\ pending[i + 1] = "Handler"
      BY <1>4, <1>5, <2>2
    <3>2. i + 1 = n
      BY <1>3, <1>4, <3>1 DEF OnItsWay
    <3> QED BY <3>2
  <2> QED BY <1>5, <2>1, <2>2
<1>9. Ahead(s)
  BY <1>4, <1>5 DEF Ahead
<1>10. Ahead("Workspace")' => roleSeen' = "none"
  <2> SUFFICES ASSUME Ahead("Workspace")' PROVE roleSeen' = "none"
    OBVIOUS
  <2>1. roleSeen = "none"
    BY <1>3, <1>7 DEF OnItsWay
  <2>2. PICK i \in 1 .. n - 1 : pending'[i] = "Workspace"
    BY <1>5 DEF Ahead
  <2>3. i + 1 \in DOMAIN pending /\ pending[i + 1] = "Workspace" /\ i + 1 # 1 /\ 1 \in DOMAIN pending
    BY <1>4, <1>5, <2>2
  <2>4. s # "Workspace"
    BY <1>3, <1>5, <2>3 DEF OnItsWay
  <2> QED BY <1>2, <2>1, <2>4
<1>11. ASSUME answer' = NoAnswer, NEW i \in DOMAIN configureApp(req.route)
       PROVE  Established(configureApp(req.route)[i])' \/ Ahead(configureApp(req.route)[i])'
  <2>0. PICK x : x = configureApp(req.route)[i]
    OBVIOUS
  <2>1. x = configureApp(req.route)[i] /\ x = configureApp(req.route)'[i]
    BY <1>2, <2>0 DEF configureApp, IsAuth
  <2>2. Established(x) \/ Ahead(x)
    BY <1>2, <1>3, <2>1 DEF OnItsWay
  <2>3. CASE x = s
    BY <1>2, <1>3, <1>5, <1>11, <2>1, <2>3, StageEstablishes
  <2>4. CASE x # s /\ Ahead(x)
    BY <1>6, <2>1, <2>4
  <2>5. CASE x # s /\ Established(x)
    <3>1. CASE s # "Workspace"
      BY <1>2, <2>1, <2>5, <3>1 DEF Established
    <3>2. CASE s = "Workspace"
      <4>1. roleSeen = "none"
        BY <1>3, <1>9, <3>2 DEF OnItsWay
      <4>2. req.route.roles \in SUBSET Roles
        BY <1>3, RouteIs DEF RouteSound
      <4>3. x # "Roles" /\ x # "Workspace"
        BY <2>5, <4>1, <4>2 DEF Established, Roles
      <4> QED BY <1>2, <2>1, <2>5, <4>3 DEF Established
    <3> QED BY <3>1, <3>2
  <2> QED BY <2>2, <2>3, <2>4, <2>5
<1>12. OnItsWay'
  <2>1. Ahead("Handler")'
    BY <1>2, <1>3, <1>6
  <2>2. ~ran' /\ req' = req
    BY <1>2, <1>3
  <2> QED BY <1>5, <1>8, <1>10, <1>11, <2>1, <2>2 DEF OnItsWay
<1>13. \/ answer' = NoAnswer
       \/ /\ answer' # NoAnswer /\ answer'.message # "internal"
          /\ answer'.status \in {400, 401, 403, 404, 413, 429}
  BY <1>2, <1>5, StageIs
<1>14. GuardsTypeOK'
  BY <1>2, <1>3, <1>13 DEF GuardsTypeOK
<1>15. TwinAlike'
  <2>1. CASE req.ws = "away" \/ (role = "none" /\ changes = 0)
    <3>1. Stage(s, req.ws) = Stage(s, "missing") /\ twin = NoAnswer
      BY <1>2, <1>3, <1>5, <2>1, StageAlike DEF TwinAlike
    <3> QED BY <1>2, <1>3, <3>1 DEF TwinAlike
  <2>2. CASE ~(req.ws = "away" \/ (role = "none" /\ changes = 0))
    BY <1>2, <2>2 DEF TwinAlike
  <2> QED BY <2>1, <2>2
<1>16. InternalsStayInside'
  BY <1>2, <1>13 DEF InternalsStayInside
<1> QED BY <1>2, <1>3, <1>12, <1>14, <1>15, <1>16 DEF GuardsInv

(* Every step keeps the invariant.                                         *)
LEMMA GuardsKeep == GuardsInv /\ [GuardsNext]_guardVars => GuardsInv'
<1> SUFFICES ASSUME GuardsInv, [GuardsNext]_guardVars PROVE GuardsInv'
  OBVIOUS
<1>1. CASE UNCHANGED guardVars
  BY <1>1 DEF guardVars, GuardsInv, GuardsTypeOK, OnItsWay, Ahead, Established, TwinAlike,
     InternalsStayInside
<1> QED BY <1>1, PassKeeps, HandleKeeps, ChangeKeeps DEF GuardsNext

-----------------------------------------------------------------------------
(* Who is shown a control, in the order of the names.                      *)
LEMMA OffersAre ==
    ASSUME NEW q \in Roles, NEW n
    PROVE  n \in Offers(q) <=> \/ n \in ContentNames /\ q \in CONTENT_ROLES
                               \/ n \in AdminNames /\ q \in ADMIN_ROLES
                               \/ n = "removeWorkspace" /\ q = "OWNER"
<1>1. CASE q \in ADMIN_ROLES
  BY <1>1 DEF Offers, Drawn, ContentNames, AdminNames, CONTENT_ROLES, ADMIN_ROLES,
     canCreateOrUpdateBoard, canDeleteBoard, canMutateColumns, canMutateTasks, canMutateLabels,
     canManageMembers, canRenameWorkspace, canDeleteWorkspace
<1>2. CASE q = "MEMBER"
  BY <1>2 DEF Offers, Drawn, ContentNames, AdminNames, CONTENT_ROLES, ADMIN_ROLES,
     canCreateOrUpdateBoard, canDeleteBoard, canMutateColumns, canMutateTasks, canMutateLabels,
     canManageMembers, canRenameWorkspace, canDeleteWorkspace
<1>3. CASE q = "GUEST"
  BY <1>3 DEF Offers, Drawn, ContentNames, AdminNames, CONTENT_ROLES, ADMIN_ROLES,
     canCreateOrUpdateBoard, canDeleteBoard, canMutateColumns, canMutateTasks, canMutateLabels,
     canManageMembers, canRenameWorkspace, canDeleteWorkspace
<1> QED BY <1>1, <1>2, <1>3 DEF Roles, ADMIN_ROLES

(* The client draws what the route admits.                                 *)
LEMMA OffersFit == GuardsTypeOK => OffersMatchRoutes
<1> SUFFICES ASSUME GuardsTypeOK, roleSeen # "none" PROVE OffersMatchRoutes
  BY DEF OffersMatchRoutes
<1>1. roleSeen \in Roles /\ RouteSound(req.route)
  BY RouteIs DEF GuardsTypeOK
<1>2. PICK n : n = req.route.name
  OBVIOUS
<1>3. ASSUME n \in UNION {Offers(r) : r \in Roles}
      PROVE  n \in Offers(roleSeen) <=> roleSeen \in req.route.roles
  <2>1. n \in ContentNames \/ n \in AdminNames \/ n = "removeWorkspace"
    BY <1>3, OffersAre
  <2>2. /\ n \in ContentNames => n \notin AdminNames /\ n # "removeWorkspace"
        /\ n \in AdminNames => n # "removeWorkspace"
    BY DEF ContentNames, AdminNames
  <2>3. CASE n \in ContentNames
    BY <1>1, <1>2, <2>2, <2>3, OffersAre DEF RouteSound, NameSound
  <2>4. CASE n \in AdminNames
    BY <1>1, <1>2, <2>2, <2>4, OffersAre DEF RouteSound, NameSound
  <2>5. CASE n = "removeWorkspace"
    BY <1>1, <1>2, <2>2, <2>5, OffersAre DEF RouteSound, NameSound
  <2> QED BY <2>1, <2>3, <2>4, <2>5
<1>4. ASSUME NEW target \in Roles, NEW next \in Roles \ {target}, roleSeen \in ADMIN_ROLES
      PROVE  (canManageMember(roleSeen, target) /\ next \in assignableRoles(roleSeen))
                <=> updateMemberRole(roleSeen, target, next)
  BY <1>4 DEF ADMIN_ROLES, Roles, canManageMember, canManageMembers, canChangeOwnership,
     assignableRoles, INVITABLE_ROLES, updateMemberRole
<1>5. n = "updateMemberRole" => req.route.roles = ADMIN_ROLES
  BY <1>1, <1>2 DEF RouteSound, NameSound, AdminNames
<1> QED BY <1>2, <1>3, <1>4, <1>5 DEF OffersMatchRoutes

(* What the stages of its route established when a handler has run.        *)
LEMMA RanEstablished ==
    ASSUME GuardsInv, ran, NEW x, Has(configureApp(req.route), x)
    PROVE  Established(x)
BY DEF GuardsInv, OnItsWay, Has

(* The guards hold: whatever route is asked with whatever credential, and  *)
(* whatever becomes of the role, the session and the token while the       *)
(* request is under way, a token acts in its own workspace only and never  *)
(* where a session is asked for, a guest changes nothing but what is the   *)
(* guest's own, what is locked stays locked, no answer carries an internal *)
(* error in production, and the client draws what the routes admit         *)
(* (configure-app.ts, the guards, all-exceptions.filter.ts, permissions).  *)
THEOREM GuardsAlwaysHold == GuardsSpec => []GuardsHold
<1>1. GuardsInv => GuardsHold
  <2> SUFFICES ASSUME GuardsInv PROVE GuardsHold
    OBVIOUS
  <2>0. /\ GuardsTypeOK /\ InternalsStayInside /\ OffersMatchRoutes
        /\ setting \in [demo : BOOLEAN, production : BOOLEAN, signUp : BOOLEAN]
    BY OffersFit DEF GuardsInv
  <2>1. PICK r \in Routes : r = req.route
    BY <2>0, RouteIs
  <2>2. RouteSound(r) /\ req.ws \in {"home", "away"} /\ roleSeen \in Roles \cup {"none"}
    BY <2>0, <2>1, RouteIs DEF GuardsTypeOK
  <2>3. PICK st : st = configureApp(r)
    OBVIOUS
  <2>4. /\ Has(st, "OriginCheck")
        /\ ~IsAuth(r) => Has(st, "SessionAuth") /\ \A x : Has(r.guards, x) => Has(st, x)
        /\ IsAuth(r) => Has(st, "OrgFirewall") /\ Has(st, "DemoAuth") /\ Has(st, "SignUp")
    BY <2>2, <2>3, StagesAre DEF RouteSound
  <2>5. ASSUME ran, NEW x, Has(st, x) PROVE Established(x)
    BY <2>1, <2>3, <2>5, RanEstablished
  <2>6. r.name \in AuthNames <=> IsAuth(r)
    BY <2>2, AuthRoutesSound DEF RouteSound, IsAuth
  <2>7. IsAuth(r) => ~r.tenant
    BY AuthRoutesSound DEF IsAuth
  <2>8. TokenStaysHome
    <3> SUFFICES ASSUME ran, req.cred = "token", ~IsAuth(r), ~IsPublic(r)
                 PROVE  /\ req.ws = "home" /\ r.tenant /\ roleSeen \in r.roles
                        /\ r \notin TokenRoutes \cup AccountRoutes
                        /\ r.name \notin SessionNames
      BY <2>1 DEF TokenStaysHome, SessionNames
    <3>1. r.tenant /\ req.ws = "home"
      BY <2>1, <2>4, <2>5 DEF Established
    <3>2. ~Has(r.guards, "SessionOnly")
      BY <2>4, <2>5 DEF Established
    <3>3. r.name \notin SessionNames
      BY <2>2, <3>2 DEF RouteSound, NameSound
    <3>4. roleSeen \in r.roles
      <4>1. CASE Has(r.guards, "Roles")
        BY <2>1, <2>4, <2>5, <4>1 DEF Established
      <4>2. CASE Has(r.guards, "Workspace") /\ r.roles = Roles
        BY <2>4, <2>5, <4>2 DEF Established
      <4> QED BY <2>2, <3>1, <3>2, <4>1, <4>2 DEF RouteSound, NameSound
    <3> QED BY <3>1, <3>3, <3>4, TokensAndAccounts
  <2>9. GuestsOnlyRead
    <3> SUFFICES ASSUME ran, r.tenant, r.unsafe, roleSeen = "GUEST" PROVE r.name \in GuestNames
      BY <2>1 DEF GuestsOnlyRead, GuestNames
    <3>1. Has(r.guards, "Roles") => roleSeen \in r.roles
      BY <2>1, <2>4, <2>5, <2>7 DEF Established
    <3> QED BY <2>2, <3>1 DEF RouteSound, NameSound
  <2>10. LockedStaysLocked
    <3> SUFFICES ASSUME ran
                 PROVE  /\ setting.demo => r.name \notin {"removeWorkspace", "removeAccount", "changePassword"}
                        /\ r.name = "signUp" => setting.signUp
                        /\ r.name # "orgMutation"
                        /\ r.unsafe => req.flaw \notin {"foreignOrigin", "foreignReferer"}
      BY <2>1 DEF LockedStaysLocked
    <3>1. r.unsafe => req.flaw \notin {"foreignOrigin", "foreignReferer"}
      BY <2>1, <2>4, <2>5 DEF Established
    <3>2. IsAuth(r) => /\ r.name # "orgMutation"
                       /\ setting.demo => r.name # "changePassword"
                       /\ r.name = "signUp" => setting.signUp
      BY <2>1, <2>4, <2>5 DEF Established
    <3>3. ~IsAuth(r) => r.name \notin {"orgMutation", "changePassword", "signUp"}
      BY <2>6 DEF AuthNames
    <3>4. r.name \in LockedNames => ~setting.demo
      <4>1. r.name \in LockedNames => Has(r.guards, "DemoRestricted") /\ ~IsAuth(r)
        BY <2>2, <2>6 DEF RouteSound, NameSound, LockedNames, AuthNames
      <4> QED BY <2>4, <2>5, <4>1 DEF Established
    <3> QED BY <3>1, <3>2, <3>3, <3>4 DEF LockedNames
  <2> QED BY <2>0, <2>8, <2>9, <2>10 DEF GuardsHold
<1> QED BY <1>1, GuardsBegin, GuardsKeep, PTL DEF GuardsSpec

(* A caller who is no member is answered as for a workspace that does not  *)
(* exist, whatever route, credential or flaw (workspace-roles.decorator.ts *)
(* and the guards in the order Nest runs them).                            *)
THEOREM StrangersLearnNothing == GuardsSpec => []StrangerLearnsNothing
<1>1. GuardsInv => StrangerLearnsNothing
  BY DEF GuardsInv, TwinAlike, StrangerLearnsNothing
<1> QED BY <1>1, GuardsBegin, GuardsKeep, PTL DEF GuardsSpec
=============================================================================
