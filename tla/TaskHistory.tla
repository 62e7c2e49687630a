------------------------------ MODULE TaskHistory ------------------------------
(***************************************************************************)
(* The tasks a user looked at last: TaskViewsService, its controllers and  *)
(* TaskViewHistoryMenu.vue.                                                *)
(*                                                                         *)
(* A record is three steps: the upsert, the query for the rows beyond the  *)
(* limit, and the deletion of those rows by id.  A task stands for a row   *)
(* of task_views; the time of a row is the step of the clock it was        *)
(* written at.                                                             *)
(***************************************************************************)
EXTENDS Naturals, FiniteSets

CONSTANTS
    Seen,           \* tasks, of projects the user may view or not
    Tabs,           \* windows of the user, each recording one view at a time
    Limit,          \* TASK_VIEW_HISTORY_LIMIT
    MaxSights       \* bound: views recorded

ASSUME TaskHistoryAssumption ==
    /\ IsFiniteSet(Seen)
    /\ Limit \in Nat \ {0}
    /\ MaxSights \in Nat

VARIABLES
    viewedAt,   \* table task_views: [Seen -> Nat], 0 if there is no row
    sights,     \* the clock: views recorded
    stage,      \* what each window's request does next
    readable,   \* tasks there are, in projects the user may view, not archived
    menu,       \* the list the menu shows, as a set
    mixed       \* history: two records overlapped

taskHistoryVars == <<viewedAt, sights, stage, readable, menu, mixed>>

TaskHistoryTypeOK ==
    /\ viewedAt \in [Seen -> 0..MaxSights]
    /\ sights \in 0..MaxSights
    /\ stage \in [Tabs -> [next : {"idle", "find"}] \cup [next : {"delete"}, stale : SUBSET Seen]]
    /\ readable \in SUBSET Seen
    /\ menu \in SUBSET Seen
    /\ mixed \in BOOLEAN

Sighted == {t \in Seen : viewedAt[t] > 0}
Newer(t) == {u \in Sighted : viewedAt[u] > viewedAt[t]}

(* The rows that skip: TASK_VIEW_HISTORY_LIMIT leaves. *)
Beyond_Ascending ==
    {t \in Sighted : Cardinality({u \in Sighted : viewedAt[u] < viewedAt[t]}) >= Limit}
Beyond == {t \in Sighted : Cardinality(Newer(t)) >= Limit}

Upsert(b, t) ==
    /\ stage[b].next = "idle"
    /\ t \in readable
    /\ sights < MaxSights
    /\ sights' = sights + 1
    /\ viewedAt' = [viewedAt EXCEPT ![t] = sights + 1]
    /\ stage' = [stage EXCEPT ![b] = [next |-> "find"]]
    /\ mixed' = (mixed \/ \E c \in Tabs \ {b} : stage[c].next # "idle")
    /\ UNCHANGED <<readable, menu>>

FindStale(b) ==
    /\ stage[b].next = "find"
    /\ stage' = [stage EXCEPT ![b] = IF Beyond = {} THEN [next |-> "idle"]
                                     ELSE [next |-> "delete", stale |-> Beyond]]
    /\ UNCHANGED <<viewedAt, sights, readable, menu, mixed>>

DeleteStale(b) ==
    /\ stage[b].next = "delete"
    /\ viewedAt' = [t \in Seen |-> IF t \in stage[b].stale THEN 0 ELSE viewedAt[t]]
    /\ stage' = [stage EXCEPT ![b] = [next |-> "idle"]]
    /\ UNCHANGED <<sights, readable, menu, mixed>>

(* The process ends, or the query fails: the page ignores the error. *)
RecordFails(b) ==
    /\ stage[b].next # "idle"
    /\ stage' = [stage EXCEPT ![b] = [next |-> "idle"]]
    /\ UNCHANGED <<viewedAt, sights, readable, menu, mixed>>

(* A project is archived or the access to it taken, or given back.           *)
ToggleReadable(t) ==
    /\ readable' = IF t \in readable THEN readable \ {t} ELSE readable \cup {t}
    /\ UNCHANGED <<viewedAt, sights, stage, menu, mixed>>

(* listMine, at each opening of the menu: the LIMIT applies after the rows   *)
(* that may not be shown are left out.                                       *)
ListMine ==
    LET open == Sighted \cap readable
    IN {t \in open : Cardinality(Newer(t) \cap open) < Limit}

OpenMenu ==
    /\ menu' = ListMine
    /\ menu' # menu
    /\ UNCHANGED <<viewedAt, sights, stage, readable, mixed>>

TaskHistoryInit ==
    /\ viewedAt = [t \in Seen |-> 0]
    /\ sights = 0
    /\ stage = [b \in Tabs |-> [next |-> "idle"]]
    /\ readable = Seen
    /\ menu = {}
    /\ mixed = FALSE

TaskHistoryNext ==
    \/ \E b \in Tabs, t \in Seen : Upsert(b, t)
    \/ \E b \in Tabs : FindStale(b) \/ DeleteStale(b) \/ RecordFails(b)
    \/ \E t \in Seen : ToggleReadable(t)
    \/ OpenMenu

TaskHistorySpec == TaskHistoryInit /\ [][TaskHistoryNext]_taskHistoryVars

---------------------------------------------------------------------------
(* Properties *)

(* task-views.service.ts, lines 28 to 30 and 41 to 58: the task just opened  *)
(* is never the one trimmed, and what stays is newer than what goes, unless  *)
(* two records of the user overlap.  An earlier record that failed half-way  *)
(* is made up for.                                                           *)
TrimsTheOldest ==
    [][\A b \in Tabs : DeleteStale(b) /\ ~mixed =>
          /\ Cardinality(Sighted') = Limit
          /\ \A t \in Sighted', u \in Sighted \ Sighted' : viewedAt[t] > viewedAt[u]]_taskHistoryVars

=============================================================================
