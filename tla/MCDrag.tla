------------------------------- MODULE MCDrag -------------------------------
(* The cards of two columns under drags, in the browser of one of several  *)
(* people at work on the board.                                            *)
EXTENDS BoardDrag

(* A gap too narrow for a third card between the first two.                *)
MCSeed == [t \in Cards |-> CASE t = 1 -> Drop("a", 64)
                              [] t = 2 -> Drop("a", 80)
                              [] t = 3 -> Drop("a", 144)
                              [] OTHER -> Off]

DragSpec == DragInit /\ [][DragNext]_dragVars
=============================================================================
