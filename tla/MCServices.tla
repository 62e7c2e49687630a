------------------------------ MODULE MCServices ------------------------------
(***************************************************************************)
(* The services that share no state with one another, checked in one run:  *)
(* the initial state chooses the one that moves, the others stay as they   *)
(* began.  What holds of each of them alone holds of them all together,    *)
(* because no variable belongs to two of them.  The orders of the masters  *)
(* move twice: with all that is done to masters ("masters"), and alone, for *)
(* more requests ("places").                                               *)
(***************************************************************************)
EXTENDS UserRoster, ProjectAccess, Masters, SavedViews, TaskRelations, TaskHistory, SubtaskList

VARIABLE focus

Focuses == {"roster", "access", "masters", "places", "views", "relations", "history", "pieces"}

vars == <<focus, rosterVars, accessVars, mastersVars, savedViewsVars, taskRelationsVars,
          taskHistoryVars, subtaskListVars>>

Init ==
    /\ focus \in Focuses
    /\ RosterInit /\ SavedViewsInit /\ TaskRelationsInit /\ TaskHistoryInit /\ SubtaskListInit
    /\ IF focus = "access" THEN AccessInit
       ELSE AccessFrom([u \in People |-> "member"], {}, Me, CHOOSE r \in Rows : TRUE)
    /\ IF focus \in {"masters", "places"} THEN MastersInit
       ELSE MastersFrom(Cardinality(Codes), {}, CHOOSE c \in Codes : TRUE)

Next ==
    \/ /\ focus = "roster" /\ RosterNext
       /\ UNCHANGED <<focus, accessVars, mastersVars, savedViewsVars,
                      taskRelationsVars, taskHistoryVars, subtaskListVars>>
    \/ /\ focus = "access" /\ AccessNext
       /\ UNCHANGED <<focus, rosterVars, mastersVars, savedViewsVars,
                      taskRelationsVars, taskHistoryVars, subtaskListVars>>
    \/ /\ \/ focus = "masters" /\ MastersNext /\ requests' <= MaxRequests
          \/ focus = "places" /\ OrderNext
       /\ UNCHANGED <<focus, rosterVars, accessVars, savedViewsVars,
                      taskRelationsVars, taskHistoryVars, subtaskListVars>>
    \/ /\ focus = "views" /\ SavedViewsNext
       /\ UNCHANGED <<focus, rosterVars, accessVars, mastersVars,
                      taskRelationsVars, taskHistoryVars, subtaskListVars>>
    \/ /\ focus = "relations" /\ TaskRelationsNext
       /\ UNCHANGED <<focus, rosterVars, accessVars, mastersVars,
                      savedViewsVars, taskHistoryVars, subtaskListVars>>
    \/ /\ focus = "history" /\ TaskHistoryNext
       /\ UNCHANGED <<focus, rosterVars, accessVars, mastersVars,
                      savedViewsVars, taskRelationsVars, subtaskListVars>>
    \/ /\ focus = "pieces" /\ SubtaskListNext
       /\ UNCHANGED <<focus, rosterVars, accessVars, mastersVars,
                      savedViewsVars, taskRelationsVars, taskHistoryVars>>

Spec == Init /\ [][Next]_vars

TypeOK ==
    /\ focus \in Focuses
    /\ focus = "roster" => RosterTypeOK
    /\ focus = "access" => AccessTypeOK
    /\ focus \in {"masters", "places"} => MastersTypeOK
    /\ focus = "views" => SavedViewsTypeOK
    /\ focus = "relations" => TaskRelationsTypeOK
    /\ focus = "history" => TaskHistoryTypeOK
    /\ focus = "pieces" => SubtaskListTypeOK
=============================================================================
