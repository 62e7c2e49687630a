----------------------------- MODULE TaskStore -----------------------------
(***************************************************************************)
(* The tables tasks, subtasks, task_statuses and notifications of the      *)
(* backend, and the request handlers of TasksService, SubtasksService,     *)
(* TaskMoveService and TaskStatusesService that write them.                *)
(*                                                                         *)
(* A handler is an async function.  It runs alone between two awaits, so a *)
(* step is one database call (or one transaction phase) and the code up to *)
(* the next one.  Handlers of different requests interleave at the awaits. *)
(* No handler takes a row lock before its own UPDATE.                      *)
(*                                                                         *)
(* Repository.save(entity) of the ORM is two database calls: it reads the  *)
(* row again, then writes the columns in which the entity in memory        *)
(* differs from that row, or inserts the entity when there is no row.      *)
(* Saved and the *.save / *.write steps are that behaviour.                *)
(***************************************************************************)
EXTENDS Naturals, FiniteSets, FiniteSetsExt

CONSTANTS
    Projects, Tasks, Subtasks, Statuses,
    Handlers,     \* request handlers that may be in flight at the same time
    Ops,          \* the endpoints the clients call
    Seeds,        \* the databases a behaviour may start from
    Seqs,         \* bound: the sequence numbers a task may be given
    MaxRequests,  \* bound: the requests of a behaviour
    Null          \* SQL NULL, a missing row, an absent field of a DTO

VARIABLES
    task,     \* table tasks: [Tasks -> TaskRow or Null]
    sub,      \* table subtasks: [Subtasks -> SubRow or Null]
    kind,     \* table task_statuses: is a code of a project absent, open or terminal
    notes,    \* table notifications: where each one links to
    trail,    \* what the audit entries of a task, replayed, say of its row
    removed,  \* tasks with a 'delete' audit entry
    loc,      \* the local variables of each handler
    served    \* requests accepted so far

tables == <<task, sub, kind, notes, trail, removed>>
vars == <<tables, loc, served>>

---------------------------------------------------------------------------
(* Rows and locals *)

Kinds == {"absent", "open", "terminal"}
TaskRow == [project : Projects, seq : Seqs, status : Statuses, completed : BOOLEAN]
SubRow == [task : Tasks, project : Projects, done : BOOLEAN]
Note == [task : Tasks, project : Projects, seq : Seqs]
Logged == [project : Projects, seq : Seqs, status : Statuses]
Place == [project : Projects, seq : Seqs]

Orm(Row) == Row \cup {Null}

Endpoints == {"create", "update", "remove", "move",
              "subCreate", "subUpdate", "subRemove", "statusMaster"}

Pcs == {"idle", "create.resolve", "create.insert",
        "update.check", "update.count", "update.resolve", "task.save", "task.write",
        "remove.write", "move.write", "subCreate.check", "subCreate.insert",
        "subUpdate.find", "subUpdate.check", "sub.save", "sub.write",
        "subRemove.find", "subRemove.write", "notify"}

(* project, task, sub: the ids of the URL; to, done: the fields of the DTO;  *)
(* ent, kid: entities read from the tables and edited in memory; old: the    *)
(* row the transaction of a save read; kids: the subtasks a move has loaded; *)
(* stamped: completedAt of ent is the current time, a value no row has yet.  *)
Local == [pc : Pcs, project : Orm(Projects), task : Orm(Tasks), sub : Orm(Subtasks),
          to : Orm(Statuses), done : Orm(BOOLEAN),
          ent : Orm(TaskRow), kid : Orm(SubRow), old : Orm(TaskRow \cup SubRow),
          kids : SUBSET Subtasks, stamped : BOOLEAN]

Idle == [pc |-> "idle", project |-> Null, task |-> Null, sub |-> Null,
         to |-> Null, done |-> Null, ent |-> Null, kid |-> Null, old |-> Null,
         kids |-> {}, stamped |-> FALSE]

Database == [task : [Tasks -> Orm(TaskRow)], sub : [Subtasks -> Orm(SubRow)],
             kind : [Projects -> [Statuses -> Kinds]]]

(* A database the schema admits: no number twice in a project, no subtask    *)
(* without its task.                                                         *)
Consistent(d) ==
    /\ \A t, u \in Tasks :
          t # u /\ d.task[t] # Null /\ d.task[u] # Null /\ d.task[t].project = d.task[u].project
          => d.task[t].seq # d.task[u].seq
    /\ \A s \in Subtasks : d.sub[s] # Null => d.task[d.sub[s].task] # Null

ASSUME StoreAssumption ==
    /\ Seqs \subseteq Nat \ {0}
    /\ MaxRequests \in Nat
    /\ Ops \subseteq Endpoints
    /\ Null \notin Projects \cup Tasks \cup Subtasks \cup Statuses \cup BOOLEAN
    /\ Null \notin TaskRow \cup SubRow \cup Place
    /\ Null \notin Logged
    /\ Seeds \subseteq Database
    /\ \A d \in Seeds : Consistent(d)

TypeOK ==
    /\ task \in [Tasks -> Orm(TaskRow)]
    /\ sub \in [Subtasks -> Orm(SubRow)]
    /\ kind \in [Projects -> [Statuses -> Kinds]]
    /\ notes \subseteq Note
    /\ trail \in [Tasks -> Orm(Logged)]
    /\ removed \subseteq Tasks
    /\ loc \in [Handlers -> Local]
    /\ served \in 0..MaxRequests

---------------------------------------------------------------------------
(* Reads of the tables *)

Terminal(p, st) == kind[p][st] = "terminal"

Children(t) == {s \in Subtasks : sub[s] # Null /\ sub[s].task = t}

Incomplete(t) == \E s \in Children(t) : ~sub[s].done

TasksOf(p) == {t \in Tasks : task[t] # Null /\ task[t].project = p}

NextSeq(p) == Max({0} \cup {task[t].seq : t \in TasksOf(p)}) + 1

(* The unique index uq_tasks_project_seq. *)
SeqFree_NoIndex(p, n, t) == TRUE
SeqFree(p, n, t) == \A u \in TasksOf(p) \ {t} : task[u].seq # n

(* completed_at after a change of status: set on entering a terminal status, *)
(* cleared on leaving one, else kept.                                        *)
ResolveCompletedAt_NeverCleared(p, from, to, current) ==
    \/ Terminal(p, to)
    \/ current
ResolveCompletedAt(p, from, to, current) ==
    \/ Terminal(p, to)
    \/ /\ ~Terminal(p, from)
       /\ current

(* The same in the body of TaskMoveService.move: the two statuses belong to  *)
(* two projects.                                                             *)
MovedCompletedAt(p, from, q, to, current) ==
    \/ Terminal(q, to)
    \/ /\ ~Terminal(p, from)
       /\ current

---------------------------------------------------------------------------
(* Writes of the tables *)

Changed(column, mine, read) == IF mine # read THEN mine ELSE column

(* UPDATE of the columns in which the entity differs from the row read back; *)
(* a fresh timestamp always differs.                                         *)
SavedTask(row, ent, read, stamped) ==
    [project   |-> Changed(row.project, ent.project, read.project),
     seq       |-> Changed(row.seq, ent.seq, read.seq),
     status    |-> Changed(row.status, ent.status, read.status),
     completed |-> stamped \/ Changed(row.completed, ent.completed, read.completed)]

SavedSub(row, kid, read) ==
    [task    |-> Changed(row.task, kid.task, read.task),
     project |-> Changed(row.project, kid.project, read.project),
     done    |-> Changed(row.done, kid.done, read.done)]

(* ON DELETE CASCADE of subtasks.task_id. *)
WithoutChildren_NoCascade(t) == sub
WithoutChildren(t) == [s \in Subtasks |-> IF s \in Children(t) THEN Null ELSE sub[s]]

(* The subtasks a move has loaded follow their task. *)
Carried_LeftBehind(kids, q) == sub
Carried(kids, q) ==
    [s \in Subtasks |->
        IF s \in kids /\ sub[s] # Null THEN [sub[s] EXCEPT !.project = q] ELSE sub[s]]

(* The notifications of a moved task link to its new place. *)
Relinked_Forgotten(t, q, n) == notes
Relinked(t, q, n) ==
    {IF m.task = t THEN [task |-> t, project |-> q, seq |-> n] ELSE m : m \in notes}

LoggedRow(row) == [project |-> row.project, seq |-> row.seq, status |-> row.status]

(* The audit trail after an 'update' entry with a change of status. *)
StatusLogged_Dropped(t, st) == trail
StatusLogged(t, st) ==
    [trail EXCEPT ![t] = IF st = Null \/ @ = Null THEN @ ELSE [@ EXCEPT !.status = st]]

---------------------------------------------------------------------------
(* Start and end of a request *)

Begin(h, op, l) ==
    /\ op \in Ops
    /\ loc[h].pc = "idle"
    /\ served < MaxRequests
    /\ served' = served + 1
    /\ loc' = [loc EXCEPT ![h] = l]
    /\ UNCHANGED tables

At(h, pc) == loc[h].pc = pc

Goto(h, l) ==
    /\ loc' = [loc EXCEPT ![h] = l]
    /\ UNCHANGED served

Finish(h) == Goto(h, Idle)

(* An await rejects: the transaction rolls back and the request ends in 500. *)
Fail(h) ==
    /\ ~At(h, "idle")
    /\ Finish(h)
    /\ UNCHANGED tables

(* The notifications of a request are written after its transaction, from    *)
(* the task entity in memory; who receives one, if anyone does, is open.     *)
Notify(h) ==
    LET l == loc[h]
        note == [task |-> l.task, project |-> l.ent.project, seq |-> l.ent.seq]
    IN  /\ At(h, "notify")
        /\ notes' \in {notes, notes \cup {note}}
        /\ Finish(h)
        /\ UNCHANGED <<task, sub, kind, trail, removed>>

---------------------------------------------------------------------------
(* TasksService.create *)

CreateRead(h, p, st) ==
    /\ NextSeq(p) \in Seqs
    /\ Begin(h, "create",
             [Idle EXCEPT !.pc = "create.resolve", !.project = p,
                          !.ent = [project |-> p, seq |-> NextSeq(p), status |-> st,
                                   completed |-> FALSE]])

CreateResolve(h) ==
    LET l == loc[h]
    IN  /\ At(h, "create.resolve")
        /\ Goto(h, [l EXCEPT !.pc = "create.insert",
                             !.ent = [l.ent EXCEPT
                                 !.completed = Terminal(l.project, l.ent.status)]])
        /\ UNCHANGED tables

(* A generated id that no row and no audit entry has had. *)
UnusedTaskId(t) == task[t] = Null /\ trail[t] = Null /\ t \notin removed

CreateInsert(h, t) ==
    LET l == loc[h]
    IN  /\ At(h, "create.insert")
        /\ UnusedTaskId(t)
        /\ \/ /\ SeqFree(l.ent.project, l.ent.seq, t)
              /\ task' = [task EXCEPT ![t] = l.ent]
              /\ trail' = [trail EXCEPT ![t] = LoggedRow(l.ent)]
              /\ Goto(h, [l EXCEPT !.pc = "notify", !.task = t])
           \/ /\ ~SeqFree(l.ent.project, l.ent.seq, t)
              /\ Finish(h)
              /\ UNCHANGED <<task, trail>>
        /\ UNCHANGED <<sub, kind, notes, removed>>

---------------------------------------------------------------------------
(* TasksService.update *)

FindEntityInProject(p, t) == task[t] # Null /\ task[t].project = p

(* st is Null when the DTO leaves the status alone or repeats it. *)
UpdateRead(h, p, t, st) ==
    LET newStatus == IF st = task[t].status THEN Null ELSE st
    IN  /\ FindEntityInProject(p, t)
        /\ Begin(h, "update",
                 [Idle EXCEPT !.pc = IF newStatus = Null THEN "task.save" ELSE "update.check",
                              !.project = p, !.task = t, !.to = newStatus,
                              !.ent = task[t]])

(* A terminal status is refused while a subtask is not done: the status is   *)
(* read first, the subtasks are counted if need be.                          *)
UpdateCheck(h) ==
    LET l == loc[h]
    IN  /\ At(h, "update.check")
        /\ Goto(h, [l EXCEPT !.pc = IF Terminal(l.project, l.to) THEN "update.count"
                                    ELSE "update.resolve"])
        /\ UNCHANGED tables

UpdateCount(h) ==
    LET l == loc[h]
    IN  /\ At(h, "update.count")
        /\ IF Incomplete(l.task) THEN Finish(h) ELSE Goto(h, [l EXCEPT !.pc = "update.resolve"])
        /\ UNCHANGED tables

UpdateResolve(h) ==
    LET l == loc[h]
    IN  /\ At(h, "update.resolve")
        /\ Goto(h, [l EXCEPT !.pc = "task.save",
                             !.stamped = Terminal(l.project, l.to),
                             !.ent = [l.ent EXCEPT
                                 !.status = l.to,
                                 !.completed = ResolveCompletedAt(
                                     l.project, l.ent.status, l.to, l.ent.completed)]])
        /\ UNCHANGED tables

SaveTaskRead(h) ==
    /\ At(h, "task.save")
    /\ Goto(h, [loc[h] EXCEPT !.pc = "task.write", !.old = task[loc[h].task]])
    /\ UNCHANGED tables

(* The row a save leaves: Null when an UPDATE finds the row gone. *)
TaskAfterSave(l) ==
    IF l.old = Null THEN l.ent
    ELSE IF task[l.task] = Null THEN Null
    ELSE SavedTask(task[l.task], l.ent, l.old, l.stamped)

SaveTaskWrite(h) ==
    LET l == loc[h]
        row == TaskAfterSave(l)
        duplicate == \/ l.old = Null /\ task[l.task] # Null
                     \/ row # Null /\ ~SeqFree(row.project, row.seq, l.task)
    IN  /\ At(h, "task.write")
        /\ \/ /\ ~duplicate
              /\ task' = [task EXCEPT ![l.task] = row]
              /\ trail' = StatusLogged(l.task, l.to)
              /\ Goto(h, [l EXCEPT !.pc = "notify"])
           \/ /\ duplicate
              /\ Finish(h)
              /\ UNCHANGED <<task, trail>>
        /\ UNCHANGED <<sub, kind, notes, removed>>

---------------------------------------------------------------------------
(* TasksService.remove *)

RemoveRead(h, p, t) ==
    /\ FindEntityInProject(p, t)
    /\ Begin(h, "remove", [Idle EXCEPT !.pc = "remove.write", !.task = t])

RemoveWrite(h) ==
    LET t == loc[h].task
    IN  /\ At(h, "remove.write")
        /\ task' = [task EXCEPT ![t] = Null]
        /\ sub' = WithoutChildren(t)
        /\ removed' = removed \cup {t}
        /\ trail' = [trail EXCEPT ![t] = Null]
        /\ Finish(h)
        /\ UNCHANGED <<kind, notes>>

---------------------------------------------------------------------------
(* TaskMoveService.move: one transaction, whose reads all come from the      *)
(* snapshot of its first one                                                 *)

MoveLoad(h, p, q, t, st) ==
    /\ p # q
    /\ FindEntityInProject(p, t)
    /\ kind[q][st] # "absent"
    /\ NextSeq(q) \in Seqs
    /\ Begin(h, "move",
             [Idle EXCEPT !.pc = "move.write", !.project = q, !.task = t, !.to = st,
                          !.old = task[t], !.kids = Children(t),
                          !.stamped = Terminal(q, st),
                          !.ent = [project |-> q, seq |-> NextSeq(q), status |-> st,
                                   completed |-> MovedCompletedAt(
                                       p, task[t].status, q, st, task[t].completed)]])

MoveWrite(h) ==
    LET l == loc[h]
        t == l.task
        row == TaskAfterSave(l)
        duplicate == row # Null /\ ~SeqFree(row.project, row.seq, t)
    IN  /\ At(h, "move.write")
        /\ \/ /\ ~duplicate
              /\ task' = [task EXCEPT ![t] = row]
              /\ sub' = Carried(l.kids, l.project)
              /\ notes' = Relinked(t, l.ent.project, l.ent.seq)
              /\ trail' = [trail EXCEPT ![t] = IF @ = Null THEN @ ELSE LoggedRow(l.ent)]
           \/ /\ duplicate
              /\ UNCHANGED <<task, sub, notes, trail>>
        /\ Finish(h)
        /\ UNCHANGED <<kind, removed>>

---------------------------------------------------------------------------
(* SubtasksService.create *)

SubCreateRead(h, p, t, done) ==
    /\ FindEntityInProject(p, t)
    /\ Begin(h, "subCreate",
             [Idle EXCEPT !.pc = "subCreate.check", !.project = p, !.task = t,
                          !.ent = task[t],
                          !.kid = [task |-> t, project |-> p, done |-> done]])

(* isTerminal is asked about the status the parent had when it was read. *)
ParentTerminal_Unchecked(l) == FALSE
ParentTerminal(l) == Terminal(l.project, l.ent.status)

SubCreateCheck(h) ==
    LET l == loc[h]
    IN  /\ At(h, "subCreate.check")
        /\ IF ParentTerminal(l) THEN Finish(h) ELSE Goto(h, [l EXCEPT !.pc = "subCreate.insert"])
        /\ UNCHANGED tables

(* A generated id that no row has and no handler in flight works on. *)
UnusedSubId(s) == sub[s] = Null /\ \A g \in Handlers : loc[g].sub # s /\ s \notin loc[g].kids

(* The foreign key subtasks.task_id. *)
ParentExists_NoForeignKey(t) == TRUE
ParentExists(t) == task[t] # Null

SubCreateInsert(h, s) ==
    LET l == loc[h]
    IN  /\ At(h, "subCreate.insert")
        /\ UnusedSubId(s)
        /\ \/ /\ ParentExists(l.task)
              /\ sub' = [sub EXCEPT ![s] = l.kid]
              /\ Goto(h, [l EXCEPT !.pc = "notify"])
           \/ /\ ~ParentExists(l.task)
              /\ Finish(h)
              /\ UNCHANGED sub
        /\ UNCHANGED <<task, kind, notes, trail, removed>>

---------------------------------------------------------------------------
(* SubtasksService.update *)

SubUpdateRead(h, p, t, s, done) ==
    /\ FindEntityInProject(p, t)
    /\ Begin(h, "subUpdate",
             [Idle EXCEPT !.pc = "subUpdate.find", !.project = p, !.task = t,
                          !.sub = s, !.done = done, !.ent = task[t]])

FindInTask(t, s) == s \in Children(t)

SubUpdateFind(h) ==
    LET l == loc[h]
        doneChanged == l.done # Null /\ l.done # sub[l.sub].done
    IN  /\ At(h, "subUpdate.find")
        /\ IF FindInTask(l.task, l.sub)
           THEN Goto(h, [l EXCEPT !.pc = IF doneChanged THEN "subUpdate.check" ELSE "sub.save",
                                  !.kid = sub[l.sub]])
           ELSE Finish(h)
        /\ UNCHANGED tables

(* Reopening is refused while the parent is terminal. *)
SubUpdateCheck(h) ==
    LET l == loc[h]
    IN  /\ At(h, "subUpdate.check")
        /\ IF ~l.done /\ ParentTerminal(l)
           THEN Finish(h)
           ELSE Goto(h, [l EXCEPT !.pc = "sub.save",
                                  !.kid = [l.kid EXCEPT !.done = l.done]])
        /\ UNCHANGED tables

SaveSubRead(h) ==
    /\ At(h, "sub.save")
    /\ Goto(h, [loc[h] EXCEPT !.pc = "sub.write", !.old = sub[loc[h].sub]])
    /\ UNCHANGED tables

SaveSubWrite(h) ==
    LET l == loc[h]
        s == l.sub
        inserted == l.old = Null
        refused == inserted /\ (sub[s] # Null \/ ~ParentExists(l.kid.task))
        row == IF inserted THEN l.kid
               ELSE IF sub[s] = Null THEN Null
               ELSE SavedSub(sub[s], l.kid, l.old)
    IN  /\ At(h, "sub.write")
        /\ \/ /\ ~refused
              /\ sub' = [sub EXCEPT ![s] = row]
              /\ Goto(h, [l EXCEPT !.pc = "notify"])
           \/ /\ refused
              /\ Finish(h)
              /\ UNCHANGED sub
        /\ UNCHANGED <<task, kind, notes, trail, removed>>

---------------------------------------------------------------------------
(* SubtasksService.remove *)

SubRemoveRead(h, p, t, s) ==
    /\ FindEntityInProject(p, t)
    /\ Begin(h, "subRemove",
             [Idle EXCEPT !.pc = "subRemove.find", !.task = t, !.sub = s])

SubRemoveFind(h) ==
    LET l == loc[h]
    IN  /\ At(h, "subRemove.find")
        /\ IF FindInTask(l.task, l.sub)
           THEN Goto(h, [l EXCEPT !.pc = "subRemove.write"])
           ELSE Finish(h)
        /\ UNCHANGED tables

SubRemoveWrite(h) ==
    /\ At(h, "subRemove.write")
    /\ sub' = [sub EXCEPT ![loc[h].sub] = Null]
    /\ Finish(h)
    /\ UNCHANGED <<task, kind, notes, trail, removed>>

---------------------------------------------------------------------------
(* TaskStatusesService.create, update of isTerminal, and remove: none of     *)
(* them looks at the tasks that carry the code                               *)

SetStatusKind(p, st, k) ==
    /\ "statusMaster" \in Ops
    /\ served < MaxRequests
    /\ kind[p][st] # k
    /\ kind' = [kind EXCEPT ![p][st] = k]
    /\ served' = served + 1
    /\ UNCHANGED <<task, sub, notes, trail, removed, loc>>

---------------------------------------------------------------------------
(* Specification *)

Init ==
    /\ \E d \in Seeds :
        /\ task = d.task
        /\ sub = d.sub
        /\ kind = d.kind
        /\ trail = [t \in Tasks |-> IF d.task[t] = Null THEN Null ELSE LoggedRow(d.task[t])]
    /\ notes = {}
    /\ removed = {}
    /\ loc = [h \in Handlers |-> Idle]
    /\ served = 0

Request(h) ==
    \/ \E p \in Projects, st \in Statuses : CreateRead(h, p, st)
    \/ \E p \in Projects, t \in Tasks, st \in Orm(Statuses) : UpdateRead(h, p, t, st)
    \/ \E p \in Projects, t \in Tasks : RemoveRead(h, p, t)
    \/ \E p, q \in Projects, t \in Tasks, st \in Statuses : MoveLoad(h, p, q, t, st)
    \/ \E p \in Projects, t \in Tasks, done \in BOOLEAN : SubCreateRead(h, p, t, done)
    \/ \E p \in Projects, t \in Tasks, s \in Subtasks, done \in Orm(BOOLEAN) :
           SubUpdateRead(h, p, t, s, done)
    \/ \E p \in Projects, t \in Tasks, s \in Subtasks : SubRemoveRead(h, p, t, s)

Continue(h) ==
    \/ CreateResolve(h)
    \/ \E t \in Tasks : CreateInsert(h, t)
    \/ UpdateCheck(h)
    \/ UpdateCount(h)
    \/ UpdateResolve(h)
    \/ SaveTaskRead(h)
    \/ SaveTaskWrite(h)
    \/ RemoveWrite(h)
    \/ MoveWrite(h)
    \/ SubCreateCheck(h)
    \/ \E s \in Subtasks : SubCreateInsert(h, s)
    \/ SubUpdateFind(h)
    \/ SubUpdateCheck(h)
    \/ SaveSubRead(h)
    \/ SaveSubWrite(h)
    \/ SubRemoveFind(h)
    \/ SubRemoveWrite(h)
    \/ Notify(h)
    \/ Fail(h)

(* The clients have sent every request of the bound and all are answered. *)
Quiescent ==
    /\ served = MaxRequests
    /\ \A h \in Handlers : At(h, "idle")
    /\ UNCHANGED vars

Next ==
    \/ \E h \in Handlers : Request(h) \/ Continue(h)
    \/ \E p \in Projects, st \in Statuses, k \in Kinds : SetStatusKind(p, st, k)
    \/ Quiescent

Spec == Init /\ [][Next]_vars

---------------------------------------------------------------------------
(* The board the tables stand for *)

PlaceOf(row) == IF row = Null THEN Null ELSE [project |-> row.project, seq |-> row.seq]
ParentOf(row) == IF row = Null THEN Null ELSE row.task

Board == INSTANCE TaskBoard WITH
    Places <- Place,
    None <- Null,
    place <- [t \in Tasks |-> PlaceOf(task[t])],
    parent <- [s \in Subtasks |-> ParentOf(sub[s])]

(* Whatever handlers interleave and however stale the entities they save,    *)
(* every step of the store is a step of the board or leaves it alone.        *)
ImplementsBoard == Board!BoardSpec

---------------------------------------------------------------------------
(* Properties *)

(* No two tasks of a project ever show the same number #N, although NextSeq  *)
(* is read long before the row is written and a stale save can write an old  *)
(* project and number back: the unique index makes the late writer fail and  *)
(* its whole transaction roll back.                                          *)
SeqUnique ==
    \A t, u \in Tasks :
        /\ t # u
        /\ task[t] # Null
        /\ task[u] # Null
        /\ task[t].project = task[u].project
        => task[t].seq # task[u].seq

(* A subtask always has its parent row: neither a create whose parent was    *)
(* removed after the check, nor a save that inserts a removed subtask again, *)
(* leaves an orphan.                                                         *)
SubtaskHasParent == \A s \in Subtasks : sub[s] # Null => task[sub[s].task] # Null

(* A task in a terminal status of its project that has an open subtask. *)
ClosedWithOpenChild(t) ==
    /\ task[t] # Null
    /\ Terminal(task[t].project, task[t].status)
    /\ Incomplete(t)

(* docs/SUBTASKS.md, line 42: a parent in a terminal status has only done    *)
(* subtasks.                                                                 *)
TerminalParentAllDone == \A t \in Tasks : ~ClosedWithOpenChild(t)

(* Whoever closes the parent or opens the child, update, create, reopen or   *)
(* a save of a stale row, is stopped; only a move, which does not look at    *)
(* the subtasks, and the status master can leave a closed parent with an     *)
(* open child.                                                               *)
OnlyMoveOrMasterBreaksCompletion ==
    [][\A t \in Tasks :
          ClosedWithOpenChild(t)' =>
              \/ ClosedWithOpenChild(t)
              \/ \E h \in Handlers : At(h, "move.write")
              \/ kind' # kind]_vars

(* tasks.completed_at (task.entity.ts, line 148; docs/PROJECT.md, line 250): *)
(* it has a value exactly while the status is terminal.                      *)
CompletedAtTracksStatus ==
    \A t \in Tasks :
        task[t] # Null => (task[t].completed <=> Terminal(task[t].project, task[t].status))

(* docs/SUBTASKS.md, line 37: a subtask is in the project of its parent. *)
ChildInParentProject ==
    \A s \in Subtasks :
        sub[s] # Null /\ task[sub[s].task] # Null => sub[s].project = task[sub[s].task].project

(* docs/TASK_MOVE.md, line 43: a notification links by project and number,   *)
(* so it always carries those of its task.                                   *)
NotificationResolves ==
    \A n \in notes :
        task[n.task] # Null => n.project = task[n.task].project /\ n.seq = task[n.task].seq

(* The history shown beside a task explains its row: replaying the audit     *)
(* entries gives the project, the number and the status it has.              *)
TrailExplainsRow ==
    \A t \in Tasks : task[t] # Null => trail[t] = LoggedRow(task[t])

=============================================================================
