----------------------------- MODULE TaskRelations -----------------------------
(***************************************************************************)
(* The relations between the tasks of one project: TaskRelationsService,   *)
(* the rows of task_relations, and TaskRelationsSection.vue in the detail  *)
(* panel of a task.                                                        *)
(*                                                                         *)
(* A row has a direction; the API and the page speak of a kind as seen     *)
(* from one of the two tasks.  A creation is two steps: the checks, and    *)
(* the insert, which the unique index refuses for a row already there.     *)
(***************************************************************************)
EXTENDS Naturals, FiniteSets

CONSTANTS
    Ends,           \* the tasks of the project
    Typists,        \* creations the server works on at a time
    MaxRelCalls,    \* bound: requests served
    NoEnd

ASSUME TaskRelationsAssumption == NoEnd \notin Ends /\ MaxRelCalls \in Nat

VARIABLES
    ends,       \* the tasks there are
    edges,      \* table task_relations
    typing,     \* the creation each worker is between its two steps of
    panel,      \* the section of the page: its task and the relations loaded
    relCalls

taskRelationsVars == <<ends, edges, typing, panel, relCalls>>

Kinds == {"related", "successor", "predecessor", "blocks", "blocked_by"}
Edge == [source : Ends, target : Ends, type : {"related", "precedes", "blocks"}]
KindOf == [kind : Kinds, other : Ends]

TaskRelationsTypeOK ==
    /\ ends \in SUBSET Ends
    /\ edges \in SUBSET Edge
    /\ typing \in [Typists -> [from : Ends, row : Edge, kind : Kinds] \cup {NoEnd}]
    /\ panel = NoEnd \/ panel \in [task : Ends, shown : SUBSET KindOf]
    /\ relCalls \in 0..MaxRelCalls

---------------------------------------------------------------------------
(* normalize: the row for what is said of task and other. *)
Normalize(task, other, kind) ==
    LET swapped == kind \in {"predecessor", "blocked_by"}
    IN [source |-> IF swapped THEN other ELSE task,
        target |-> IF swapped THEN task ELSE other,
        type |-> CASE kind = "related" -> "related"
                   [] kind \in {"successor", "predecessor"} -> "precedes"
                   [] kind \in {"blocks", "blocked_by"} -> "blocks"]

(* viewFor: what a row is, seen from one of its tasks. *)
ViewFor(task, e) ==
    [kind |-> CASE e.type = "related" -> "related"
                [] e.type = "precedes" -> IF e.source = task THEN "successor" ELSE "predecessor"
                [] e.type = "blocks" -> IF e.source = task THEN "blocks" ELSE "blocked_by",
     other |-> IF e.source = task THEN e.target ELSE e.source]

Mirror(e) == [source |-> e.target, target |-> e.source, type |-> e.type]

Duplicate(e) == e \in edges \/ (e.type = "related" /\ Mirror(e) \in edges)

Party(task) == {e \in edges : task \in {e.source, e.target}}

(* listForTask; a task that is gone has taken its rows along. *)
ListForTask(task) == {ViewFor(task, e) : e \in Party(task)}

ServeRelation ==
    /\ relCalls < MaxRelCalls
    /\ relCalls' = relCalls + 1

CreateCheck(w, task, other, kind) ==
    /\ typing[w] = NoEnd
    /\ ServeRelation
    /\ {task, other} \subseteq ends
    /\ task # other
    /\ ~Duplicate(Normalize(task, other, kind))
    /\ typing' = [typing EXCEPT ![w] =
                    [from |-> task, row |-> Normalize(task, other, kind), kind |-> kind]]
    /\ UNCHANGED <<ends, edges, panel>>

(* The unique index and the foreign keys refuse the row, or it is inserted. *)
CreateInsert(w) ==
    /\ typing[w] # NoEnd
    /\ edges' = IF {typing[w].row.source, typing[w].row.target} \subseteq ends
                THEN edges \cup {typing[w].row} ELSE edges
    /\ typing' = [typing EXCEPT ![w] = NoEnd]
    /\ UNCHANGED <<ends, panel, relCalls>>

(* remove: only by a task that is one of the two. *)
RemoveRelation(task, e) ==
    /\ ServeRelation
    /\ task \in ends
    /\ e \in Party(task)
    /\ edges' = edges \ {e}
    /\ UNCHANGED <<ends, typing, panel>>

(* A task is deleted (ON DELETE CASCADE), or moved to another project:       *)
(* TaskMoveService deletes its rows by source and by target.                 *)
TaskLeaves(task) ==
    /\ ServeRelation
    /\ task \in ends
    /\ ends' = ends \ {task}
    /\ edges' = edges \ Party(task)
    /\ UNCHANGED <<typing, panel>>

---------------------------------------------------------------------------
(* TaskRelationsSection.vue *)

OpenPanel(task) ==
    /\ task \in ends
    /\ panel # NoEnd => panel.task # task
    /\ panel' = [task |-> task, shown |-> ListForTask(task)]
    /\ UNCHANGED <<ends, edges, typing, relCalls>>

(* addRelation and removeRelation load the relations again. *)
RefreshPanel ==
    /\ panel # NoEnd
    /\ panel.shown # ListForTask(panel.task)
    /\ panel' = [panel EXCEPT !.shown = ListForTask(panel.task)]
    /\ UNCHANGED <<ends, edges, typing, relCalls>>

(* The row behind an entry shown; 404 if it is no longer there. *)
RemoveShown(v) ==
    /\ panel # NoEnd
    /\ v \in panel.shown
    /\ \E e \in Party(panel.task) :
          /\ ViewFor(panel.task, e) = v
          /\ RemoveRelation(panel.task, e)

---------------------------------------------------------------------------

TaskRelationsInit ==
    /\ ends = Ends
    /\ edges = {}
    /\ typing = [w \in Typists |-> NoEnd]
    /\ panel = NoEnd
    /\ relCalls = 0

TaskRelationsNext ==
    \/ \E w \in Typists, task, other \in Ends, kind \in Kinds : CreateCheck(w, task, other, kind)
    \/ \E w \in Typists : CreateInsert(w)
    \/ \E task \in Ends, e \in Edge : RemoveRelation(task, e)
    \/ \E task \in Ends : TaskLeaves(task) \/ OpenPanel(task)
    \/ RefreshPanel
    \/ \E v \in KindOf : RemoveShown(v)

TaskRelationsSpec == TaskRelationsInit /\ [][TaskRelationsNext]_taskRelationsVars
=============================================================================
