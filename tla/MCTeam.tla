------------------------------- MODULE MCTeam -------------------------------
(* The people of a workspace on the server, and the board they look at in  *)
(* a browser, with one task and one more to be created.  What is checked   *)
(* of one reads nothing of the other, so a behaviour moves one of the two  *)
(* and leaves the other as it began.  Users and processes are numbers: a   *)
(* workspace starts with two owners and a member, and a request goes to    *)
(* the first process that is free.                                         *)
EXTENDS WorkspaceAccess, BoardSync

VARIABLE side

MCRole == [u \in Users |-> IF u = 3 THEN "MEMBER" ELSE "OWNER"]

TeamInit == side \in {"people", "board"} /\ Init /\ role = MCRole /\ SyncInit

FirstFree == \A p, q \in Procs : p < q /\ pc[p] = "idle" /\ pc[q] = "idle" => pc'[q] = "idle"

TeamNext ==
    /\ UNCHANGED side
    /\ \/ side = "people" /\ Next /\ FirstFree /\ UNCHANGED syncVars
       \/ side = "board" /\ SyncNext /\ UNCHANGED vars

TeamSpec == TeamInit /\ [][TeamNext]_<<side, vars, syncVars>>
=============================================================================
