---------------------------- MODULE MCAccessEnds ----------------------------
(* The ends of an access for TLC: a membership is ended by a request, with *)
(* the tokens and the rooms that hang on it; sessions, invitations and the *)
(* other dated rows by the nightly purge; and the web client moves between *)
(* the workspaces its user still belongs to.  A behaviour is one of these. *)
EXTENDS WorkspaceAccess, Retention, WorkspaceLists

CONSTANT ScreenWork     \* bound: what the user does where a screen is looked at

PurgeRow(t, created, expired) == [table |-> t, created |-> created, expires |-> expired]
MCPurgeRows ==
    [r \in {"s1", "n1", "a1", "a2", "a3", "i1"} |->
        CASE r = "s1" -> PurgeRow("Session", 0, 1)
          [] r = "n1" -> PurgeRow("Notification", 0, Never)
          [] r = "i1" -> PurgeRow("Invitation", 0, 2)
          [] OTHER -> PurgeRow("Activity", 0, Never)]
MCKeepSettings == {[notification |-> 1, activity |-> a, invitation |-> 1] : a \in {0, 1}}
MCLoads == {{"a1", "a2", "a3"}, {"n1", "i1"}, {"s1"}}
MCMemberships == {<<"ADMIN", "MEMBER">>, <<"OWNER", "NONE">>, <<"MEMBER", "OWNER">>}
MCFirstRows == << <<1>>, <<2>> >>

VARIABLE part

clientVars == <<shellVars, listVars>>

EndsInit ==
    /\ part \in {"access", "purge", "client"}
    /\ Init /\ (part = "access" \/ role = [u \in Users |-> "OWNER"])
    /\ IF part = "purge" THEN PurgeInit
       ELSE PurgeWith([notification |-> 1, activity |-> 0, invitation |-> 1], {})
    /\ ShellInit /\ ListsInit
    /\ part # "client" => screen = "none" /\ belongs = <<"ADMIN", "MEMBER">>
    /\ part # "client" \/ screen # "none" => stored = 1

EndsNext ==
    /\ UNCHANGED part
    /\ \/ part = "access" /\ Next /\ UNCHANGED <<purgeVars, clientVars>>
       \/ part = "purge" /\ PurgeNext /\ UNCHANGED <<vars, clientVars>>
       \/ /\ part = "client" /\ ListsNext /\ UNCHANGED <<vars, purgeVars>>
          /\ screen # "none" => shellWork' <= ScreenWork

(* Requests are served; the scheduler keeps scheduling, the workers keep   *)
(* working; the client's reads and set-active calls are answered.          *)
EndsSpec ==
    /\ EndsInit /\ [][EndsNext]_<<part, vars, purgeVars, clientVars>>
    /\ \A p \in Procs : WF_vars(part = "access" /\ Serve(p))
    /\ WF_purgeVars(part = "purge" /\ Schedule)
    /\ \A w \in Replicas : WF_purgeVars(part = "purge" /\ Purging(w))
    /\ WF_shellVars(part = "client" /\ Answering)

(* What has ended leaves nothing behind: a membership neither a token that  *)
(* works again nor a socket in the room, a finished purge no row that was   *)
(* due when it began.                                                       *)
NothingLeftBehind ==
    TypeOK /\ PurgeTypeOK /\ NoTokenRevived /\ RoomsHoldMembers /\ CleanWhenDone

(* What has to end does: the tokens of an ended membership, the rows past   *)
(* their date, the bootstrap of the shell.                                  *)
EndsCome == TokensEndWithMembership /\ DueIsPurged /\ BootstrapEnds
=============================================================================
