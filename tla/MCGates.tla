------------------------------ MODULE MCGates ------------------------------
(* What a request meets before its handler - the guards, or the limiters   *)
(* that count in Redis - and two of the handlers behind them: the import   *)
(* and the moves that drags ask for.  A behaviour is one of the four.      *)
EXTENDS RequestGuards, ByteBudget, MCImport, MCDrag

VARIABLE gate

(* The request that waits while the others run.                            *)
Idle == /\ role = "none" /\ ~setting.demo /\ ~setting.production
        /\ req.route.name = "health" /\ req.cred = "none" /\ req.flaw = "none"

Init == /\ gate \in {"guards", "budget", "import", "drag"}
        /\ GuardsInit /\ (gate = "guards" \/ Idle)
        /\ BudgetInit /\ (gate = "budget" \/ limiter = "auth")
        /\ gate # "import" => (export = Oversized /\ hash = [i \in 1 .. 9 |-> i])
        /\ ImportInit
        /\ DragInit

Next ==
  /\ UNCHANGED gate
  /\ \/ gate = "guards" /\ GuardsNext /\ UNCHANGED <<budgetVars, importVars, dragVars>>
     \/ gate = "budget" /\ BudgetNext /\ UNCHANGED <<guardVars, importVars, dragVars>>
     \/ gate = "import" /\ ImportNext /\ UNCHANGED <<guardVars, budgetVars, dragVars>>
     \/ gate = "drag"   /\ DragNext   /\ UNCHANGED <<guardVars, budgetVars, importVars>>

Spec == /\ Init /\ [][Next]_<<gate, guardVars, budgetVars, importVars, dragVars>>
        /\ (gate = "budget") => BudgetFairness
=============================================================================
