------------------------------- MODULE Masters -------------------------------
(***************************************************************************)
(* The masters of one project and the tasks that carry their codes:        *)
(* ordered-master.helpers.ts with TaskStatusesService and                  *)
(* TaskPrioritiesService (one table stands for either), FlagsService and   *)
(* TagsService (marks: a tag is a flag without the bulk operations),       *)
(* DepartmentsService, and the settings pages that drive them.             *)
(*                                                                         *)
(* Names and colours are left out.  A task keeps the code of its status    *)
(* and of its department without a foreign key; marks are link rows that   *)
(* the database removes with the mark.  A creation asks for the largest    *)
(* order and saves in two calls, a swap and a drag read the rows and write *)
(* them back in a transaction that sees the rows as they were (InnoDB's    *)
(* repeatable read): others are served in between.  The removal of a       *)
(* department is two writes with no transaction.  Other requests are one   *)
(* step each.                                                              *)
(***************************************************************************)
EXTENDS Naturals, Sequences, FiniteSets, SequencesExt

CONSTANTS
    Codes,        \* codes of statuses (or priorities)
    Marks,        \* codes of flags (or tags)
    Depts,        \* codes of departments
    Items,        \* tasks; each stands for its subtasks too
    Hands,        \* requests on the orders served at the same time
    MaxRequests,  \* bound: requests served
    MaxPlacings,  \* bound: requests served, those on the orders included
    None

ASSUME MastersAssumption ==
    /\ None \notin Codes \cup Depts \cup Marks
    /\ IsFiniteSet(Codes) /\ IsFiniteSet(Items)
    /\ MaxRequests \in Nat /\ MaxPlacings \in Nat /\ MaxRequests <= MaxPlacings

VARIABLES
    order,      \* display_order: [Codes -> Nat], 0 if there is no such row
    marks,      \* table flags
    depts,      \* table departments
    items,      \* tasks
    trail,      \* [Items -> SUBSET Marks]: the flags of the last audit entry
    removal,    \* a department whose removal is between its two writes
    pending,    \* [Hands -> None or what is about to be written of the orders]
    tangled,    \* orders were written by a request that another had overtaken
    board,      \* the page statuses.vue or priorities.vue
    dialog,     \* the delete dialog of a settings page
    spent,      \* codes given out: generateMasterCode makes each one anew
    requests

orderVars == <<order, pending, tangled>>
mastersVars == <<orderVars, marks, depts, items, trail, removal, board, dialog, spent, requests>>

Item == [status : Codes, dept : Depts \cup {None},
         marks : SUBSET Marks,      \* task_flags
         submarks : SUBSET Marks]   \* subtask_flags of its subtasks

Numbers == [Codes -> Nat]

(* seen: the orders read; to: the orders wanted; crossed: others were written since. *)
Writing == [kind : {"insert", "swap", "renumber"}, seen : Numbers, to : Numbers, crossed : BOOLEAN]

MastersTypeOK ==
    /\ order \in Numbers
    /\ pending \in [Hands -> Writing \cup {None}]
    /\ tangled \in BOOLEAN
    /\ marks \in SUBSET Marks
    /\ depts \in SUBSET Depts
    /\ items \in [Items -> Item]
    /\ trail \in [Items -> SUBSET Marks]
    /\ removal \in Depts \cup {None}
    /\ board.shown \in Seq(Codes)
    /\ dialog \in {None} \cup [of : Codes \cup Marks, tasks : Nat]
    /\ spent \subseteq Codes \cup Marks
    /\ requests \in 0..MaxPlacings

PresentCodes == {c \in Codes : order[c] > 0}

(* ORDER BY display_order: rows of one number in any order. *)
Ascending(q) == \A i, j \in DOMAIN q : i < j => order[q[i]] <= order[q[j]]
ListByProject == {q \in SetToSeqs(PresentCodes) : Ascending(q)}

Serve ==
    /\ requests < MaxRequests
    /\ requests' = requests + 1

ServePlacing ==
    /\ requests < MaxPlacings
    /\ requests' = requests + 1

---------------------------------------------------------------------------
(* ordered-master.helpers.ts *)

NextOrder_Count == Cardinality(PresentCodes) + 1
NextOrder ==
    1 + (IF PresentCodes = {} THEN 0
         ELSE CHOOSE n \in {order[c] : c \in PresentCodes} : \A c \in PresentCodes : order[c] <= n)

IndexIn(codes, c) == CHOOSE i \in 1..Len(codes) : codes[i] = c

(* swapWithNeighbour: with the next row of the list read, whatever the       *)
(* distance; rows of one number change nothing.                              *)
Swapped(all, c, up) ==
    LET i == IndexIn(all, c)
        j == IF up THEN i - 1 ELSE i + 1
    IN IF j \in 1..Len(all) THEN [order EXCEPT ![c] = order[all[j]], ![all[j]] = order[c]]
       ELSE order

(* reorderByCodes: the rows whose codes are named come first, in the order   *)
(* named, the others after them in the order found.                          *)
NamedFirst(codes, all) ==
    \A i, j \in 1..Len(all) :
        i < j /\ all[j] \in Range(codes) =>
            all[i] \in Range(codes) /\ IndexIn(codes, all[i]) < IndexIn(codes, all[j])
Reordered(all) == [c \in Codes |-> IF c \in PresentCodes THEN IndexIn(all, c) ELSE 0]

(* A request on the orders has read them and is about to write. *)
Prepare(h, kind, to) ==
    /\ ServePlacing
    /\ pending[h] = None
    /\ pending' = [pending EXCEPT
                     ![h] = [kind |-> kind, seen |-> order, to |-> to, crossed |-> FALSE]]
    /\ UNCHANGED <<order, tangled>>

(* The await of nextOrder stands between this step and the INSERT. *)
CreateMaster(h, c) ==
    /\ c \notin spent
    /\ Prepare(h, "insert", [order EXCEPT ![c] = NextOrder])
    /\ spent' = spent \cup {c}
    /\ UNCHANGED <<marks, depts, items, trail, removal, board, dialog>>

MoveMaster(h, c, up) ==
    /\ c \in PresentCodes
    /\ \E all \in ListByProject : Prepare(h, "swap", Swapped(all, c, up))
    /\ UNCHANGED <<marks, depts, items, trail, removal, board, dialog, spent>>

(* The INSERT, or the UPDATEs of the rows whose number is not the one read;  *)
(* a row removed since is not updated.                                       *)
AfterSave(w) ==
    [c \in Codes |-> IF w.to[c] # w.seen[c] /\ (c \in PresentCodes \/ w.kind = "insert")
                     THEN w.to[c] ELSE order[c]]

Overtaken(h) ==
    [g \in Hands |-> IF g = h \/ pending[g] = None THEN None
                     ELSE [pending[g] EXCEPT !.crossed = TRUE]]

(* A drag that none overtook gives every row a number of its own. *)
SavePlaces(h) ==
    LET w == pending[h]
    IN  /\ w # None
        /\ order' = AfterSave(w)
        /\ tangled' = (w.crossed \/ (tangled /\ w.kind # "renumber"))
        /\ pending' = Overtaken(h)
        /\ board' = IF w.kind = "renumber" THEN [board EXCEPT !.step = "reload"] ELSE board
        /\ UNCHANGED <<marks, depts, items, trail, removal, dialog, spent, requests>>

(* A status both initial and final is refused, a transaction is rolled back, *)
(* the process ends: the request writes nothing and the page does not reload. *)
SavePlacesFails(h) ==
    /\ pending[h] # None
    /\ pending' = [pending EXCEPT ![h] = None]
    /\ board' = IF pending[h].kind = "renumber" THEN [board EXCEPT !.step = "idle"] ELSE board
    /\ UNCHANGED <<order, tangled, marks, depts, items, trail, removal, dialog, spent, requests>>

RemoveMaster(c) ==
    /\ ServePlacing
    /\ c \in PresentCodes
    /\ order' = [order EXCEPT ![c] = 0]
    /\ UNCHANGED <<pending, tangled, marks, depts, items, trail, removal, board, dialog, spent>>

---------------------------------------------------------------------------
(* Tasks, as far as they name masters *)

(* PATCH /tasks/:id; a department or status is stored unchecked by the API,  *)
(* but the pages offer those there are.  Unknown flags are dropped.          *)
SetStatus(t, c) ==
    /\ Serve
    /\ c \in PresentCodes
    /\ items' = [items EXCEPT ![t].status = c]
    /\ UNCHANGED <<orderVars, marks, depts, trail, removal, board, dialog, spent>>

SetDept(t, d) ==
    /\ Serve
    /\ d \in depts \cup {None}
    /\ items' = [items EXCEPT ![t].dept = d]
    /\ UNCHANGED <<orderVars, marks, depts, trail, removal, board, dialog, spent>>

SetMarks(t, ms) ==
    /\ Serve
    /\ items' = [items EXCEPT ![t].marks = ms \cap marks]
    /\ trail' = IF ms \cap marks = items[t].marks THEN trail
                ELSE [trail EXCEPT ![t] = ms \cap marks]
    /\ UNCHANGED <<orderVars, marks, depts, removal, board, dialog, spent>>

(* The flags of a subtask leave no trail. *)
SetSubmarks(t, ms) ==
    /\ Serve
    /\ items' = [items EXCEPT ![t].submarks = ms \cap marks]
    /\ UNCHANGED <<orderVars, marks, depts, trail, removal, board, dialog, spent>>

---------------------------------------------------------------------------
(* FlagsService *)

CreateMark(m) ==
    /\ Serve
    /\ m \notin spent
    /\ marks' = marks \cup {m}
    /\ spent' = spent \cup {m}
    /\ UNCHANGED <<orderVars, depts, items, trail, removal, board, dialog>>

(* ON DELETE CASCADE takes the links along; nothing is logged. *)
RemoveMark(m) ==
    /\ Serve
    /\ m \in marks
    /\ marks' = marks \ {m}
    /\ items' = [t \in Items |-> [items[t] EXCEPT !.marks = @ \ {m}, !.submarks = @ \ {m}]]
    /\ UNCHANGED <<orderVars, depts, trail, removal, board, dialog, spent>>

(* detachFromAllTasks, copyToFlag and moveToFlag, as SQL over the links ...  *)
Relinked(op, s, m, set) ==
    IF s \notin set THEN set
    ELSE CASE op = "detach" -> set \ {s}
           [] op = "copy"   -> set \cup {m}
           [] op = "move"   -> (set \cup {m}) \ {s}

(* ... and as computed, task by task, from the sets read before.             *)
LoggedAfter_NoFilter(op, s, m, codes) ==
    IF op = "detach" THEN codes \ {s} ELSE codes \cup {m}
LoggedAfter(op, s, m, codes) ==
    CASE op = "detach" -> codes \ {s}
      [] op = "copy"   -> codes \cup {m}
      [] op = "move"   -> (codes \ {s}) \cup {m}

FlagOp(op, s, m) ==
    /\ Serve
    /\ s \in marks
    /\ op # "detach" => m \in marks /\ m # s
    /\ items' = [t \in Items |->
                    [items[t] EXCEPT !.marks = Relinked(op, s, m, @),
                                     !.submarks = Relinked(op, s, m, @)]]
    /\ trail' = [t \in Items |->
                    LET before == items[t].marks
                        after == LoggedAfter(op, s, m, before)
                    IN IF s \in before /\ after # before THEN after ELSE trail[t]]
    /\ UNCHANGED <<orderVars, marks, depts, removal, board, dialog, spent>>

---------------------------------------------------------------------------
(* DepartmentsService *)

CreateDept(d) ==
    /\ Serve
    /\ d \notin depts
    /\ depts' = depts \cup {d}
    /\ UNCHANGED <<orderVars, marks, items, trail, removal, board, dialog, spent>>

(* remove: the tasks are cleared first, then the department goes. *)
RemoveDept(d) ==
    /\ removal = None
    /\ Serve
    /\ d \in depts
    /\ items' = [t \in Items |-> IF items[t].dept = d THEN [items[t] EXCEPT !.dept = None]
                                 ELSE items[t]]
    /\ removal' = d
    /\ UNCHANGED <<orderVars, marks, depts, trail, board, dialog, spent>>

RemoveDeptRow ==
    /\ removal # None
    /\ depts' = depts \ {removal}
    /\ removal' = None
    /\ UNCHANGED <<orderVars, marks, items, trail, board, dialog, spent, requests>>

(* The process ends, or the second write fails. *)
RemoveDeptFails ==
    /\ removal # None
    /\ removal' = None
    /\ UNCHANGED <<orderVars, marks, depts, items, trail, board, dialog, spent, requests>>

---------------------------------------------------------------------------
(* The pages *)

(* The list shown follows the list loaded; a drag changes it at once. *)
Load ==
    /\ board.step \in {"idle", "reload"}
    /\ \E q \in ListByProject : board' = [shown |-> q, step |-> "idle"]
    /\ UNCHANGED <<orderVars, marks, depts, items, trail, removal, dialog, spent, requests>>

Drag(i, j) ==
    /\ board.step = "idle"
    /\ i # j
    /\ {i, j} \subseteq 1..Len(board.shown)
    /\ board' = [board EXCEPT !.step = "dropped",
                    !.shown = InsertAt(RemoveAt(board.shown, i), j, board.shown[i])]
    /\ UNCHANGED <<orderVars, marks, depts, items, trail, removal, dialog, spent, requests>>

(* onDragEnd sends the codes shown and reloads once they are saved.  The     *)
(* rows the page did not know of come back in any order.                     *)
DragEnd(h) ==
    /\ board.step = "dropped"
    /\ \E all \in SetToSeqs(PresentCodes) :
          NamedFirst(board.shown, all) /\ Prepare(h, "renumber", Reordered(all))
    /\ board' = [board EXCEPT !.step = "sent"]
    /\ UNCHANGED <<marks, depts, items, trail, removal, dialog, spent>>

(* openDelete counts the tasks that refer; flags.vue leaves out subtasks.    *)
References(x) == {t \in Items : items[t].status = x \/ x \in items[t].marks}
SubReferences(x) == {t \in Items : x \in items[t].submarks}

AskDelete(x) ==
    /\ dialog = None
    /\ x \in Range(board.shown) \cup marks
    /\ dialog' = [of |-> x, tasks |-> Cardinality(References(x))]
    /\ UNCHANGED <<orderVars, marks, depts, items, trail, removal, board, requests, spent>>

ConfirmDelete ==
    /\ dialog # None
    /\ dialog.tasks = 0
    /\ Serve
    /\ dialog.of \in PresentCodes \cup marks
    /\ IF dialog.of \in Codes
       THEN /\ order' = [order EXCEPT ![dialog.of] = 0]
            /\ board' = [board EXCEPT !.step = IF @ = "idle" THEN "reload" ELSE @]
            /\ UNCHANGED <<marks, items>>
       ELSE /\ marks' = marks \ {dialog.of}
            /\ items' = [t \in Items |->
                            [items[t] EXCEPT !.marks = @ \ {dialog.of}, !.submarks = @ \ {dialog.of}]]
            /\ UNCHANGED <<orderVars, board>>
    /\ dialog' = None
    /\ UNCHANGED <<pending, tangled, depts, trail, removal, spent>>

CloseDialog ==
    /\ dialog # None
    /\ dialog' = None
    /\ UNCHANGED <<orderVars, marks, depts, items, trail, removal, board, requests, spent>>

---------------------------------------------------------------------------

(* A project with its masters, created one after the other, and fresh tasks. *)
(* The first n codes are there, in their order, the tasks carry c.           *)
MastersFrom(n, ms, c) ==
    /\ order = [d \in Codes |-> LET i == IndexIn(SetToSeq(Codes), d)
                               IN IF i <= n THEN i ELSE 0]
    /\ marks = ms
    /\ depts = Depts
    /\ items = [t \in Items |-> [status |-> c, dept |-> None, marks |-> {}, submarks |-> {}]]
    /\ trail = [t \in Items |-> {}]
    /\ removal = None
    /\ pending = [h \in Hands |-> None]
    /\ tangled = FALSE
    /\ board = [shown |-> <<>>, step |-> "idle"]
    /\ dialog = None
    /\ spent = PresentCodes \cup ms
    /\ requests = 0

MastersInit ==
    \E n \in 1..Cardinality(Codes), ms \in SUBSET Marks, c \in Codes :
        MastersFrom(n, ms, c) /\ c \in PresentCodes

(* What the settings pages send: add and the arrows of statuses.vue and      *)
(* priorities.vue, add and delete of tags.vue and flags.vue, the dialog of   *)
(* the bulk operations, departments.vue.                                     *)
MasterRequest ==
    \/ \E c \in Codes : RemoveMaster(c)
    \/ \E h \in Hands :
          \/ \E c \in Codes : CreateMaster(h, c) \/ \E up \in BOOLEAN : MoveMaster(h, c, up)
          \/ SavePlaces(h) \/ SavePlacesFails(h)

MarkRequest == \E m \in Marks : CreateMark(m) \/ RemoveMark(m)

FlagRequest == \E op \in {"detach", "copy", "move"}, s, m \in Marks : FlagOp(op, s, m)

DeptRequest == \E d \in Depts : CreateDept(d) \/ RemoveDept(d)

ItemRequest ==
    \E t \in Items :
        \/ \E c \in Codes : SetStatus(t, c)
        \/ \E d \in Depts \cup {None} : SetDept(t, d)
        \/ \E ms \in SUBSET Marks : SetMarks(t, ms) \/ SetSubmarks(t, ms)

OrderPage ==
    \/ Load
    \/ \E i, j \in 1..Cardinality(Codes) : Drag(i, j)
    \/ \E h \in Hands : DragEnd(h)

DeletePage ==
    \/ \E x \in Codes \cup Marks : AskDelete(x)
    \/ ConfirmDelete \/ CloseDialog

OrderNext == MasterRequest \/ OrderPage

MastersNext ==
    \/ OrderNext
    \/ MarkRequest \/ FlagRequest \/ DeptRequest \/ ItemRequest
    \/ RemoveDeptRow \/ RemoveDeptFails
    \/ DeletePage

MastersSpec == MastersInit /\ [][MastersNext]_mastersVars

---------------------------------------------------------------------------
(* Properties *)

(* ordered-master.helpers.ts: removals leave gaps, a page drags rows it does *)
(* not know of, creations and moves read and write in two steps.  Two        *)
(* masters of a project stand in one place only where the write of one       *)
(* request was overtaken by the write of another, and no longer than until   *)
(* a drag that none overtakes.                                               *)
OrdersDistinct ==
    ~tangled => \A c, d \in PresentCodes : c # d => order[c] # order[d]

(* flags.service.ts, lines 75 to 78: the last change of flags in a task's    *)
(* history gives the flags it has, but for those deleted since: what the     *)
(* bulk operations write and what they log are computed apart.               *)
FlagTrail == \A t \in Items : trail[t] \cap marks = items[t].marks

=============================================================================
