------------------------------- MODULE BulkEdit -------------------------------
(***************************************************************************)
(* Editing many tasks at once: the rows ticked in the list (tasks/index.vue), *)
(* the dialog that asks what to change and has it confirmed                *)
(* (BulkEditDialog.vue), and the server, which edits one task after the    *)
(* other and passes over those it refuses (TasksService.bulkUpdate).       *)
(*                                                                         *)
(* Of the columns that are replaced there are the status, which may be     *)
(* refused, and the assignee, which may be none; the priority and the      *)
(* dates are treated like the latter.  Of tags and flags there are tags.   *)
(* Every await of update that reads or writes a task is a step.  The       *)
(* number of tasks updated, which a toast shows, is left out.              *)
(***************************************************************************)
EXTENDS Naturals, Sequences, SequencesExt

CONSTANTS
    Batch,        \* tasks
    Stages,       \* codes of statuses
    Terminal,     \* those of closed tasks
    Assignees,    \* members, and NoAssignee
    NoAssignee,
    LabelCodes,       \* codes of tags
    MaxPresses,   \* bound: what the user does
    MaxIntrusions, \* bound: what others do
    Undefined     \* not chosen yet, no request

ASSUME BulkAssumption ==
    /\ IsFiniteSet(Batch) /\ Terminal \subseteq Stages /\ Stages \ Terminal # {}
    /\ NoAssignee \in Assignees
    /\ MaxPresses \in Nat /\ MaxIntrusions \in Nat

VARIABLES
    rows,          \* tasks, with their tags and whether a subtask is open
    masters,       \* tags, and members that may be assigned
    tasksList,     \* tasks.value
    hidden,        \* what the filters, and the limit on rows, leave out
    selectedTaskIds,
    bulkEditOpen, dialogStep,
    enabled,       \* the ticks at the fields
    picked,        \* the values chosen
    tagMode,
    request,       \* PATCH tasks/bulk
    promised,      \* what the dialog said when the button was pressed
    presses, intrusions

dialogVars == <<dialogStep, enabled, picked, tagMode>>
bulkVars == <<rows, masters, tasksList, hidden, selectedTaskIds, bulkEditOpen, dialogVars,
              request, promised, presses, intrusions>>

Fields == {"status", "assignee", "tags"}
TaskRow == [status : Stages, assignee : Assignees, tags : SUBSET LabelCodes, openSubs : BOOLEAN,
        here : BOOLEAN]

BulkTypeOK ==
    /\ rows \in [Batch -> TaskRow]
    /\ masters.tags \subseteq LabelCodes /\ NoAssignee \in masters.assignable
    /\ tasksList \subseteq Batch /\ hidden \subseteq Batch /\ selectedTaskIds \subseteq Batch
    /\ bulkEditOpen \in BOOLEAN /\ dialogStep \in {"edit", "confirm"}
    /\ enabled \subseteq Fields /\ tagMode \in {"add", "remove"}
    /\ picked.status \in Stages \cup {Undefined}
    /\ picked.assignee \in Assignees \cup {Undefined} /\ picked.tags \subseteq LabelCodes
    /\ request # Undefined =>
         /\ ToSet(request.ids) \subseteq Batch
         /\ request.at \in {"tags", "read", "member", "subs", "select", "write"}
         /\ request.tags \subseteq LabelCodes
         /\ {request.ent, request.old} \subseteq TaskRow \cup {Undefined}
         /\ request.state \in {"serving", "done", "failed", "refreshing"}
    /\ presses \in 0..MaxPresses /\ intrusions \in 0..MaxIntrusions

---------------------------------------------------------------------------
(* The list *)

(* Only rows that are drawn can be edited, whatever was ticked before. *)
Selectable == tasksList \ hidden
TargetTaskIds_Ticked == selectedTaskIds
TargetTaskIds == Selectable \cap selectedTaskIds

(* The list leaves out what is closed. *)
NotClosed == {t \in Batch : rows[t].here /\ rows[t].status \notin Terminal}

Press == presses < MaxPresses /\ presses' = presses + 1 /\ UNCHANGED intrusions
Intrusion == intrusions < MaxIntrusions /\ intrusions' = intrusions + 1 /\ UNCHANGED presses
Follows == UNCHANGED <<presses, intrusions>>

ToggleTaskSelected(t) ==
    /\ Press
    /\ t \in Selectable
    /\ selectedTaskIds' = IF t \in selectedTaskIds THEN selectedTaskIds \ {t}
                          ELSE selectedTaskIds \cup {t}
    /\ UNCHANGED <<rows, masters, tasksList, hidden, bulkEditOpen, dialogVars, request,
                   promised>>

ToggleSelectAll ==
    /\ Press
    /\ Selectable # {}
    /\ selectedTaskIds' = IF TargetTaskIds = Selectable THEN selectedTaskIds \ Selectable
                          ELSE selectedTaskIds \cup Selectable
    /\ UNCHANGED <<rows, masters, tasksList, hidden, bulkEditOpen, dialogVars, request,
                   promised>>

(* A filter, or the order of a list longer than what is drawn. *)
Refilter(out) ==
    /\ Press
    /\ ~bulkEditOpen
    /\ hidden' = out
    /\ UNCHANGED <<rows, masters, tasksList, selectedTaskIds, bulkEditOpen, dialogVars, request,
                   promised>>

---------------------------------------------------------------------------
(* The dialog *)

Picked0 == [status |-> Undefined, assignee |-> Undefined, tags |-> {}]

(* The bar with the button is there while something is selected.  Opening *)
(* forgets what was entered before.                                       *)
OpenBulkEdit ==
    /\ Press
    /\ ~bulkEditOpen /\ TargetTaskIds # {}
    /\ bulkEditOpen' = TRUE
    /\ dialogStep' = "edit" /\ enabled' = {} /\ picked' = Picked0 /\ tagMode' = "add"
    /\ UNCHANGED <<rows, masters, tasksList, hidden, selectedTaskIds, request, promised>>

CloseBulkEdit ==
    /\ Press
    /\ bulkEditOpen
    /\ bulkEditOpen' = FALSE
    /\ UNCHANGED <<rows, masters, tasksList, hidden, selectedTaskIds, dialogVars, request,
                   promised>>

Entering ==
    /\ Press
    /\ bulkEditOpen /\ dialogStep = "edit"
    /\ UNCHANGED <<rows, masters, tasksList, hidden, selectedTaskIds, bulkEditOpen, dialogStep,
                   request, promised>>

ToggleField(f) ==
    /\ Entering
    /\ enabled' = IF f \in enabled THEN enabled \ {f} ELSE enabled \cup {f}
    /\ UNCHANGED <<picked, tagMode>>

PickValue(f, v) ==
    /\ Entering
    /\ f \in enabled
    /\ picked' = [picked EXCEPT ![f] = v]
    /\ UNCHANGED <<enabled, tagMode>>

ToggleTag(l) ==
    /\ Entering
    /\ "tags" \in enabled
    /\ picked' = [picked EXCEPT !.tags = IF l \in @ THEN @ \ {l} ELSE @ \cup {l}]
    /\ UNCHANGED <<enabled, tagMode>>

SwitchMode ==
    /\ Entering
    /\ "tags" \in enabled
    /\ tagMode' = IF tagMode = "add" THEN "remove" ELSE "add"
    /\ UNCHANGED <<enabled, picked>>

CanApply ==
    /\ enabled # {}
    /\ \A f \in enabled : IF f = "tags" THEN picked.tags # {} ELSE picked[f] # Undefined

(* summaryLines: what is shown to be confirmed. *)
Summary == [f \in enabled |-> IF f = "tags" THEN [mode |-> tagMode, codes |-> picked.tags]
                              ELSE picked[f]]

(* buildPatch: what is sent. *)
BuildPatch ==
    LET tags == IF "tags" \in enabled THEN picked.tags ELSE {}
        Of(f) == IF f \in enabled THEN picked[f] ELSE Undefined
    IN [status |-> Of("status"), assignee |-> Of("assignee"),
        addTagCodes |-> IF tagMode = "add" THEN tags ELSE {},
        removeTagCodes |-> IF tagMode = "remove" THEN tags ELSE {}]

GoConfirm ==
    /\ Follows
    /\ bulkEditOpen /\ dialogStep = "edit" /\ CanApply
    /\ dialogStep' = "confirm"
    /\ UNCHANGED <<rows, masters, tasksList, hidden, selectedTaskIds, bulkEditOpen, enabled,
                   picked, tagMode, request, promised>>

BackToEdit ==
    /\ Follows
    /\ bulkEditOpen /\ dialogStep = "confirm" /\ request = Undefined
    /\ dialogStep' = "edit"
    /\ UNCHANGED <<rows, masters, tasksList, hidden, selectedTaskIds, bulkEditOpen, enabled,
                   picked, tagMode, request, promised>>

Touched(patch) == patch.addTagCodes \cup patch.removeTagCodes # {}

(* The loop, about to take the first of ids. *)
Turned(ids, patch) ==
    [ids |-> ids, patch |-> patch, at |-> IF Touched(patch) THEN "tags" ELSE "read",
     tags |-> {}, ent |-> Undefined, old |-> Undefined, raced |-> FALSE, state |-> "serving"]

(* applyBulkEdit; with nothing left to edit it does nothing.  The button *)
(* waits for the answer, also in a dialog that was closed and opened.    *)
ApplyBulkEdit ==
    /\ Follows
    /\ bulkEditOpen /\ dialogStep = "confirm" /\ request = Undefined
    /\ TargetTaskIds # {}
    /\ request' = Turned(SetToSeq(TargetTaskIds), BuildPatch)
    /\ promised' = [tasks |-> Selectable \cap selectedTaskIds, says |-> Summary]
    /\ UNCHANGED <<rows, masters, tasksList, hidden, selectedTaskIds, bulkEditOpen,
                   dialogVars>>

---------------------------------------------------------------------------
(* TasksService.bulkUpdate *)

Serving ==
    /\ request # Undefined /\ request.state = "serving"
    /\ Follows
    /\ UNCHANGED <<masters, tasksList, hidden, selectedTaskIds, bulkEditOpen, dialogVars,
                   promised>>

Serves(at) == Serving /\ request.ids # <<>> /\ request.at = at

Current == Head(request.ids)
Goes(next) == request' = [request EXCEPT !.at = next] /\ UNCHANGED rows

(* Passed over, or done with. *)
NextTask == request' = Turned(Tail(request.ids), request.patch)

Touches == Touched(request.patch)
Renewed(tags) == (tags \cup request.patch.addTagCodes) \ request.patch.removeTagCodes

(* getTagCodes, for each task. *)
ReadTags ==
    /\ Serves("tags")
    /\ request' = [request EXCEPT !.at = "read", !.tags = rows[Current].tags]
    /\ UNCHANGED rows

FindEntity ==
    /\ Serves("read")
    /\ IF rows[Current].here
       THEN request' = [request EXCEPT !.at = "member", !.ent = rows[Current]]
       ELSE NextTask
    /\ UNCHANGED rows

AssertAssignable ==
    /\ Serves("member")
    /\ IF request.patch.assignee \in masters.assignable \cup {Undefined} THEN Goes("subs")
       ELSE NextTask /\ UNCHANGED rows

(* A task with an open subtask is not closed. *)
CountIncomplete ==
    /\ Serves("subs")
    /\ LET closes == request.patch.status \notin {request.ent.status, Undefined}
                     /\ request.patch.status \in Terminal
       IN IF closes /\ rows[Current].openSubs THEN NextTask /\ UNCHANGED rows ELSE Goes("select")

(* save looks for the row first, in a transaction that sees the tags of then. *)
SelectForSave ==
    /\ Serves("select")
    /\ request' = [request EXCEPT !.at = "write", !.old = rows[Current],
                                  !.tags = Renewed(@) \cap masters.tags]
    /\ UNCHANGED rows

(* The entity as read, with the patch on it. *)
Wanted(f) == IF request.patch[f] = Undefined THEN request.ent[f] ELSE request.patch[f]

(* Of a row that was there the columns that differ from it are written; one *)
(* that was gone is inserted.  Tags are deleted and inserted.               *)
Saved(row) ==
    LET Column(f) == IF request.old.here /\ Wanted(f) = request.old[f] THEN row[f] ELSE Wanted(f)
    IN [row EXCEPT !.status = Column("status"), !.assignee = Column("assignee"), !.here = TRUE,
                   !.tags = IF Touches THEN request.tags ELSE @]

(* An UPDATE of a row that went since does nothing, and the task is passed  *)
(* over, not being found at the end; but tags need a task, and the tags to  *)
(* be there still.                                                          *)
WriteTask ==
    /\ Serves("write")
    /\ LET gone == request.old.here /\ ~rows[Current].here
           refused == Touches /\ ~(request.tags \subseteq IF gone THEN {} ELSE masters.tags)
       IN \/ /\ refused
             /\ request' = [request EXCEPT !.state = "failed"]
             /\ UNCHANGED rows
          \/ /\ ~refused
             /\ rows' = IF gone THEN rows ELSE [rows EXCEPT ![Current] = Saved(@)]
             /\ NextTask

(* Any other error ends it: what was written stays. *)
BulkFails ==
    /\ Serving
    /\ request' = [request EXCEPT !.state = "failed"]
    /\ UNCHANGED rows

BulkDone ==
    /\ Serving
    /\ request.ids = <<>>
    /\ request' = [request EXCEPT !.state = "done"]
    /\ UNCHANGED rows

---------------------------------------------------------------------------
(* The answer *)

(* A success closes the dialog that is open now and unticks all, then the list *)
(* is fetched; a failure leaves them, and the list.                            *)
BulkAnswered ==
    /\ request # Undefined
    /\ \/ /\ request.state = "done"
          /\ bulkEditOpen' = FALSE /\ selectedTaskIds' = {}
          /\ request' = [request EXCEPT !.state = "refreshing"]
          /\ UNCHANGED promised
       \/ /\ request.state = "failed"
          /\ request' = Undefined /\ promised' = Undefined
          /\ UNCHANGED <<bulkEditOpen, selectedTaskIds>>
    /\ Follows
    /\ UNCHANGED <<rows, masters, tasksList, hidden, dialogVars>>

RefreshedAfter ==
    /\ request # Undefined /\ request.state = "refreshing"
    /\ tasksList' = NotClosed
    /\ request' = Undefined /\ promised' = Undefined
    /\ Follows
    /\ UNCHANGED <<rows, masters, hidden, selectedTaskIds, bulkEditOpen, dialogVars>>

---------------------------------------------------------------------------
(* Others *)

HeardOfOthers ==
    /\ Intrusion
    /\ tasksList' = NotClosed
    /\ UNCHANGED <<rows, masters, hidden, selectedTaskIds, bulkEditOpen, dialogVars, request,
                   promised>>

Intruded ==
    /\ Intrusion
    /\ UNCHANGED <<tasksList, hidden, selectedTaskIds, bulkEditOpen, dialogVars,
                   promised>>

Meanwhile(t) ==
    /\ request.ids # <<>> /\ t = Current
    /\ request.at # Turned(request.ids, request.patch).at

(* Whoever changes a task between the first reading of it and its writing. *)
RowChanged(t, row) ==
    /\ Intruded
    /\ rows[t].here /\ row # rows[t]
    /\ rows' = [rows EXCEPT ![t] = row]
    /\ request' = IF request = Undefined THEN request
                  ELSE [request EXCEPT !.raced = @ \/ Meanwhile(t)]
    /\ UNCHANGED masters

OtherEdit(t) ==
    \/ \E l \in masters.tags :
          RowChanged(t, [rows[t] EXCEPT !.tags = IF l \in @ THEN @ \ {l} ELSE @ \cup {l}])
    \/ \E s \in Stages : ~(s \in Terminal /\ rows[t].openSubs)
                         /\ RowChanged(t, [rows[t] EXCEPT !.status = s])
    \/ rows[t].status \notin Terminal
       /\ RowChanged(t, [rows[t] EXCEPT !.openSubs = ~@])
    \/ RowChanged(t, [rows[t] EXCEPT !.here = FALSE, !.openSubs = FALSE, !.tags = {}])

(* A tag is removed, with its links to tasks; a member's account may only read *)
(* from now on.                                                                *)
MasterChanged ==
    /\ Intruded
    /\ \/ \E l \in masters.tags :
             /\ masters' = [masters EXCEPT !.tags = @ \ {l}]
             /\ rows' = [t \in Batch |-> [rows[t] EXCEPT !.tags = @ \ {l}]]
       \/ \E a \in masters.assignable \ {NoAssignee} :
             masters' = [masters EXCEPT !.assignable = @ \ {a}] /\ UNCHANGED rows
    /\ UNCHANGED request

---------------------------------------------------------------------------

BulkFrom(first) ==
    /\ rows = first
    /\ masters = [tags |-> LabelCodes, assignable |-> Assignees]
    /\ tasksList = NotClosed /\ hidden = {} /\ selectedTaskIds = {}
    /\ bulkEditOpen = FALSE /\ dialogStep = "edit" /\ enabled = {} /\ picked = Picked0
    /\ tagMode = "add" /\ request = Undefined /\ promised = Undefined
    /\ presses = 0 /\ intrusions = 0

Fresh == [status |-> CHOOSE s \in Stages \ Terminal : TRUE, assignee |-> NoAssignee,
          tags |-> {}, openSubs |-> FALSE, here |-> TRUE]

BulkInit == \E one \in Batch :
    BulkFrom([t \in Batch |-> [Fresh EXCEPT !.tags = IF t = one THEN LabelCodes ELSE {},
                                            !.openSubs = t # one]])

BulkNext ==
    \/ \E t \in Batch : ToggleTaskSelected(t) \/ OtherEdit(t)
    \/ ToggleSelectAll \/ \E out \in SUBSET Batch : Refilter(out)
    \/ OpenBulkEdit \/ CloseBulkEdit \/ SwitchMode
    \/ \E f \in Fields : ToggleField(f)
    \/ \E s \in Stages : PickValue("status", s)
    \/ \E a \in Assignees : PickValue("assignee", a)
    \/ \E l \in LabelCodes : ToggleTag(l)
    \/ GoConfirm \/ BackToEdit \/ ApplyBulkEdit
    \/ ReadTags \/ FindEntity \/ AssertAssignable \/ CountIncomplete \/ SelectForSave \/ WriteTask
    \/ BulkFails \/ BulkDone \/ BulkAnswered \/ RefreshedAfter
    \/ HeardOfOthers \/ MasterChanged

BulkSpec == BulkInit /\ [][BulkNext]_bulkVars

---------------------------------------------------------------------------
(* Properties *)

(* What the server writes is what was confirmed: of a task that was ticked and *)
(* on the screen, every field of the summary and no other; of the tags only    *)
(* those it names.  Where somebody changed the task between the first reading  *)
(* of it and its writing, update may besides take a field back to what it had  *)
(* read, leave a field of the summary to the other, drop the other's tags, and *)
(* bring a removed task back; it writes nothing else even then.                *)
AsSaid(before, after, says) ==
    /\ \A f \in {"status", "assignee"} :
         \/ after[f] = IF f \in DOMAIN says THEN says[f] ELSE before[f]
         \/ request.raced /\ after[f] = IF f \in DOMAIN says THEN before[f] ELSE request.ent[f]
    /\ IF "tags" \notin DOMAIN says THEN after.tags = before.tags
       ELSE LET named == says["tags"].codes \cap masters.tags IN
            /\ IF says["tags"].mode = "add" THEN named \subseteq after.tags
               ELSE named \cap after.tags = {}
            /\ ~request.raced => after.tags \ named = before.tags \ named
    /\ after.here # before.here => request.raced

BulkAsConfirmed ==
    [][\A t \in Batch :
         request # Undefined /\ request' # request /\ rows'[t] # rows[t]
            /\ intrusions' = intrusions
         => t \in promised.tasks /\ AsSaid(rows[t], rows'[t], promised.says)]_bulkVars
=============================================================================
