------------------------------ MODULE MCLists ------------------------------
(* The tables behind the lists and the plans: columns, checklists, pages,  *)
(* what a workspace's ceilings and invitations leave room for, and the     *)
(* list of columns a browser keeps of the first.  A behaviour is a         *)
(* behaviour of exactly one of the five components.                        *)
EXTENDS BoardLayout, BoardColumns, ChecklistOrder, PagedList, WorkspacePlans, TLC

(* A checklist with two items, and two ids left.                           *)
MCStartParent == <<TaskRow, 1, 1, NoParent, NoParent>>

MCStartLists == {<< >>, <<Col(1, "n"), Col(2, "n")>>}

(* One kind of traffic in a behaviour.                                     *)
MCTraffics == {{"seats"}, {"boards"}, {"workspaces"}, {"users"}}

VARIABLE area

Init == /\ area \in {"layout", "screen", "checklists", "pages", "plans"}
        /\ LayoutInit /\ (area = "layout" \/ colRows = {})
        /\ ColumnsInit /\ (area = "screen" \/ columns = << >>)
        /\ ChecklistInit
        /\ PageInit /\ (area = "pages" \/ (listRows = {} /\ ascending /\ asked = 0))
        /\ PlansInit
        /\ area = "plans" \/ (traffic = {"users"} /\ env["users"] = 0)

Next == /\ UNCHANGED area
        /\ \/ area = "layout" /\ LayoutNext /\ UNCHANGED <<colsVars, checkVars, pageVars, planVars>>
           \/ area = "screen" /\ ColumnsNext /\ UNCHANGED <<layoutVars, checkVars, pageVars, planVars>>
           \/ area = "checklists" /\ ChecklistNext /\ UNCHANGED <<colsVars, layoutVars, pageVars, planVars>>
           \/ area = "pages" /\ PageNext /\ UNCHANGED <<colsVars, layoutVars, checkVars, planVars>>
           \/ area = "plans" /\ PlansNext /\ UNCHANGED <<colsVars, layoutVars, checkVars, pageVars>>

Spec == Init /\ [][Next]_<<area, layoutVars, colsVars, checkVars, pageVars, planVars>>

MCSymmetry == Permutations(Procs) \cup Permutations(Users \ {Owner})
                \cup Permutations(InvitableRoles) \cup Permutations(Names)

(* A row is put where its request asked, and nothing else moves: the        *)
(* default columns only into an empty board, a created or moved column into *)
(* its slot, a checklist or an item behind the row it named (the module of  *)
(* each says when).                                                         *)
RowsLandWhereAsked == DefaultsOnlyIntoEmpty /\ ColumnLandsInSlot /\ QuietMoveLands
=============================================================================
