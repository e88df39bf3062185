---------------------------- MODULE MCTaskOrder ----------------------------
(* Small boards for TLC: two columns, each with two tasks one unit apart,   *)
(* the state repeated splitting of a gap leads to, and one id to create.   *)
EXTENDS TaskOrder, TLC

CONSTANTS c1, c2, c3, p1, p2

MCTasks == 1 .. 5
MCSeedColumn == <<c1, c1, c2, c2, NoColumn>>
MCSeedPosition == <<2, 3, 2, 3, 0>>

(* Three tasks of one column and an empty one, for the removals.           *)
MCFewTasks == 1 .. 3
MCFewColumn == <<c1, c1, NoColumn>>
MCFewPosition == <<2, 4, 0>>
=============================================================================
