----------------------------- MODULE MCScreens -----------------------------
(* A task's panel in a browser (its fields and lists, its attachments, its *)
(* discussion), or the socket its tab shares between a board and two       *)
(* notification hooks: a behaviour is one of the four.                     *)
EXTENDS TaskPanel, TaskFiles, TaskTalk, ClientSocket

MCSections == {{"tick", "add", "remove"}, {"save"}, {"label", "drop"}, {"tick", "drop"}, {"tick", "field"}}
MCStored == [t \in Shown |-> IF t = "A" THEN {"f1"} ELSE {"f2"}]
MCThread == [t \in TalkTasks |-> IF t = "A" THEN {1, 2, 3} ELSE {4}]

MCRoomOf == [h \in Hooks |-> IF h = "board" THEN "boardRoom" ELSE "userRoom"]

VARIABLE screen

Init ==
    /\ screen \in {"fields", "files", "talk", "socket"}
    /\ IF screen = "fields" THEN PanelInit ELSE PanelWith({}, TRUE) /\ section = {"save"}
    /\ IF screen = "files" THEN FilesInit ELSE shownTask = "A" /\ FilesWith({})
    /\ IF screen = "talk" THEN TalkInit ELSE TalkWith("A", {})
    /\ SocketInit /\ (screen = "socket" \/ path = "up")

Next ==
    /\ UNCHANGED screen
    /\ \/ screen = "fields" /\ PanelNext /\ UNCHANGED <<filesVars, talkVars, socketVars>>
       \/ screen = "files" /\ FilesNext /\ UNCHANGED <<panelVars, talkVars, socketVars>>
       \/ screen = "talk" /\ TalkNext /\ UNCHANGED <<panelVars, filesVars, socketVars>>
       \/ screen = "socket" /\ SocketNext /\ UNCHANGED <<panelVars, filesVars, talkVars>>

Spec == /\ Init /\ [][Next]_<<screen, panelVars, filesVars, talkVars, socketVars>>
        /\ PanelFairness /\ FilesFairness /\ TalkFairness /\ SocketFairness

(* The lists, the files and the discussion of a panel stop loading, and     *)
(* every hook gets into its room once the API stays reachable.              *)
ScreensSettle == LoadingEnds /\ FilesLoadingEnds /\ TalkLoadingEnds /\ HooksGetLive
=============================================================================
