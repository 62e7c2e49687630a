------------------------------- MODULE MCDialogs -------------------------------
(***************************************************************************)
(* The panel of a task, the form of a new one, the dialog for many and the *)
(* bell, which share no state with one another, checked in one run as in   *)
(* MCServices: the initial state chooses the one that moves.               *)
(***************************************************************************)
EXTENDS TaskDetail, TaskDraft, BulkEdit, MCNotices

VARIABLE focus

Focuses == {"detail", "draft", "bulk", "bell"}

vars == <<focus, detailVars, draftVars, bulkVars, noticeVars>>

Init ==
    /\ focus \in Focuses
    /\ IF focus = "detail" THEN DetailInit ELSE DetailFrom(<<>>)
    /\ DraftInit /\ NoticesInit
    /\ IF focus = "bulk" THEN BulkInit ELSE BulkFrom([t \in Batch |-> Fresh])

Next ==
    \/ /\ focus = "detail" /\ DetailNext
       /\ UNCHANGED <<focus, draftVars, bulkVars, noticeVars>>
    \/ /\ focus = "draft" /\ DraftNext
       /\ UNCHANGED <<focus, detailVars, bulkVars, noticeVars>>
    \/ /\ focus = "bulk" /\ BulkNext
       /\ UNCHANGED <<focus, detailVars, draftVars, noticeVars>>
    \/ /\ focus = "bell" /\ NoticesNext
       /\ UNCHANGED <<focus, detailVars, draftVars, bulkVars>>

Spec == Init /\ [][Next]_vars

TypeOK ==
    /\ focus \in Focuses
    /\ focus = "detail" => DetailTypeOK
    /\ focus = "draft" => DraftTypeOK
    /\ focus = "bulk" => BulkTypeOK
    /\ focus = "bell" => NoticesTypeOK
=============================================================================
