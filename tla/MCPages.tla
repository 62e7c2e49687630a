-------------------------------- MODULE MCPages --------------------------------
(***************************************************************************)
(* The parts of the task list that share no state with one another, and    *)
(* the board with the gantt, checked in one run as in MCServices: the      *)
(* initial state chooses the part that moves.                              *)
(***************************************************************************)
EXTENDS MCTaskMovePlan, MCTaskFilters, MCTaskColumns, TaskPage,
        MCTaskCharts

VARIABLE focus

Focuses == {"move", "filters", "columns", "panel", "charts"}

vars == <<focus, movePlanVars, filterVars, columnVars, pageVars, chartVars>>

Init ==
    /\ focus \in Focuses
    /\ IF focus = "move" THEN MovePlanInit ELSE
       MovePlanFrom(CHOOSE seed \in MoveSeeds : TRUE, CHOOSE j \in Jobs : TRUE)
    /\ IF focus = "filters" THEN FiltersInit ELSE FiltersFrom(FALSE)
    /\ ColumnsInit
    /\ IF focus = "panel" THEN PageInit ELSE PageFrom([s \in Seqs |-> "open"])
    /\ IF focus = "charts" THEN ChartsInit ELSE ChartsFrom(<<>>, {})

Next ==
    \/ /\ focus = "move" /\ MovePlanNext
       /\ UNCHANGED <<focus, filterVars, columnVars, pageVars, chartVars>>
    \/ /\ focus = "filters" /\ FiltersNext
       /\ UNCHANGED <<focus, movePlanVars, columnVars, pageVars, chartVars>>
    \/ /\ focus = "columns" /\ ColumnsNext
       /\ UNCHANGED <<focus, movePlanVars, filterVars, pageVars, chartVars>>
    \/ /\ focus = "panel" /\ PageNext
       /\ UNCHANGED <<focus, movePlanVars, filterVars, columnVars, chartVars>>
    \/ /\ focus = "charts" /\ ChartsNext
       /\ UNCHANGED <<focus, movePlanVars, filterVars, columnVars, pageVars>>

Spec == Init /\ [][Next]_vars

TypeOK ==
    /\ focus \in Focuses
    /\ focus = "move" => MovePlanTypeOK
    /\ focus = "filters" => FiltersTypeOK
    /\ focus = "columns" => ColumnsTypeOK
    /\ focus = "panel" => PageTypeOK
    /\ focus = "charts" => ChartsTypeOK
=============================================================================
