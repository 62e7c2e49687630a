------------------------------ MODULE TaskBoard ------------------------------
(***************************************************************************)
(* What the store of tasks promises to its readers, whatever requests run  *)
(* at the same time: a task is at one place of the board, a number of a    *)
(* project, which is nobody else's; it goes to free places only, one task  *)
(* at a time; a subtask hangs on one task of the board and never changes   *)
(* it; a task that leaves takes its subtasks along.  TaskStore implements  *)
(* it with a unique index, a foreign key with ON DELETE CASCADE and saves  *)
(* of entities read long before.                                           *)
(***************************************************************************)
CONSTANTS Tasks, Subtasks, Places, None

VARIABLES
    place,    \* [Tasks -> Places or None]
    parent    \* [Subtasks -> Tasks or None]

board == <<place, parent>>

OnBoard(t) == place[t] # None

(* No two tasks at one place, no subtask without its task. *)
Orderly ==
    /\ place \in [Tasks -> Places \cup {None}]
    /\ parent \in [Subtasks -> Tasks \cup {None}]
    /\ \A t, u \in Tasks : OnBoard(t) /\ place[t] = place[u] => t = u
    /\ \A s \in Subtasks : parent[s] # None => OnBoard(parent[s])

(* A new task takes a place, or one on the board changes to another. *)
Take(t, p) ==
    /\ \A u \in Tasks : place[u] # p
    /\ place' = [place EXCEPT ![t] = p]
    /\ UNCHANGED parent

Leave(t) ==
    /\ OnBoard(t)
    /\ place' = [place EXCEPT ![t] = None]
    /\ parent' = [s \in Subtasks |-> IF parent[s] = t THEN None ELSE parent[s]]

Attach(s, t) ==
    /\ parent[s] = None
    /\ OnBoard(t)
    /\ parent' = [parent EXCEPT ![s] = t]
    /\ UNCHANGED place

Detach(s) ==
    /\ parent[s] # None
    /\ parent' = [parent EXCEPT ![s] = None]
    /\ UNCHANGED place

BoardInit == Orderly

BoardNext ==
    \/ \E t \in Tasks, p \in Places : Take(t, p)
    \/ \E t \in Tasks : Leave(t)
    \/ \E s \in Subtasks, t \in Tasks : Attach(s, t)
    \/ \E s \in Subtasks : Detach(s)

BoardSpec == BoardInit /\ [][BoardNext]_board

=============================================================================
