------------------------------ MODULE MCSeats ------------------------------
(* The seats of one workspace as an admin fills it.  The run starts from a *)
(* workspace whose seats are all taken, by its owner and by invitations;   *)
(* the admin goes on inviting new addresses, one request at a time, while  *)
(* the invitees accept, one request at a time and in the order they were   *)
(* invited.                                                                *)
EXTENDS WorkspacePlans

CONSTANTS Admin, Invitee,  \* the two requests served at a time
          Waiting          \* bound: how many invitations are pending at first

MCUsers == 0 .. Waiting + 3
MCTraffics == {{"seats"}}

Init ==
    /\ env = [k \in CeilingKinds |-> IF k = "seats" THEN 1 + Waiting ELSE 0]
    /\ stored = [k \in {"seats", "boards"} |-> Absent]
    /\ traffic = {"seats"}
    /\ accounts = Users /\ verified = Users
    /\ wsSlug = [w \in Workspaces |-> CHOOSE s \in Slugs : TRUE]
    /\ members = {<<FirstWs, Owner>>}
    /\ invites = [i \in 1 .. Waiting |-> [email |-> i, role |-> CHOOSE r \in InvitableRoles : TRUE,
                                          status |-> "pending", stale |-> FALSE]]
    /\ boards = << >> /\ boardTrail = << >> /\ deletions = << >> /\ offered = {}
    /\ planJob = [p \in Procs |-> IdleJob]
    /\ planRequests = 0

Next ==
    \/ /\ PlanStep(Admin)
       /\ planJob'[Admin].op = "invite"
       /\ \A i \in DOMAIN invites : planJob'[Admin].user # invites[i].email
    \/ /\ PlanStep(Invitee)
       /\ planJob'[Invitee].op = "accept"
       /\ \A i \in pendingInvitations : planJob'[Invitee].got <= i

Spec == Init /\ [][Next]_planVars
============================================================================
