-------------------------- MODULE TaskStoreProofs --------------------------
(***************************************************************************)
(* The schema of TaskStore holds for every number of projects, tasks,      *)
(* subtasks, statuses, handlers and requests.                              *)
(*                                                                         *)
(* TypeOK alone is not inductive: an INSERT writes the entity a handler    *)
(* keeps in memory, which TypeOK allows to be Null.  LocalInv says what    *)
(* each handler holds at each await.  For the foreign key one more fact is *)
(* needed, KidInv: two saves of the same subtask agree on its parent, so   *)
(* the UPDATE of a stale entity never rewrites task_id.                    *)
(***************************************************************************)
EXTENDS TaskStore, TLAPS

CreatePcs == {"create.resolve", "create.insert"}
UpdatePcs == {"update.check", "update.count", "update.resolve"}
SavePcs == {"task.save", "task.write"}
SubCreatePcs == {"subCreate.check", "subCreate.insert"}
HoldingPcs == {"subUpdate.check", "sub.save", "sub.write"}
SubUpdatePcs == {"subUpdate.find"} \cup HoldingPcs
SubRemovePcs == {"subRemove.find", "subRemove.write"}

NeedsEnt ==
    CreatePcs \cup UpdatePcs \cup SavePcs \cup SubCreatePcs \cup SubUpdatePcs
        \cup {"move.write", "notify"}
NeedsProject ==
    CreatePcs \cup UpdatePcs \cup SubCreatePcs \cup SubUpdatePcs \cup {"move.write"}
NeedsTask == Pcs \ (CreatePcs \cup {"idle"})
NeedsSub == SubUpdatePcs \cup SubRemovePcs
NeedsKid == SubCreatePcs \cup HoldingPcs

(* What a handler holds at an await. *)
WellFormed(l) ==
    /\ l.pc \in NeedsEnt => l.ent \in TaskRow
    /\ l.pc \in NeedsProject => l.project \in Projects
    /\ l.pc \in NeedsTask => l.task \in Tasks
    /\ l.pc \in NeedsSub => l.sub \in Subtasks
    /\ l.pc \in NeedsKid => l.kid \in SubRow
    /\ l.pc \in UpdatePcs => l.to \in Statuses
    /\ l.pc = "subUpdate.check" => l.done \in BOOLEAN
    /\ l.pc = "task.write" => l.old \in Orm(TaskRow)
    /\ l.pc = "move.write" => l.old \in TaskRow
    /\ l.pc = "sub.write" => l.old \in Orm(SubRow)

LocalInv == \A h \in Handlers : WellFormed(loc[h])

TInv == TypeOK /\ LocalInv

---------------------------------------------------------------------------

LEMMA IdleOK == Idle \in Local /\ WellFormed(Idle)
BY DEF Idle, Local, WellFormed, Orm, Pcs, NeedsEnt, NeedsProject, NeedsTask, NeedsSub,
       NeedsKid, CreatePcs, UpdatePcs, SavePcs, SubCreatePcs, HoldingPcs, SubUpdatePcs,
       SubRemovePcs

LEMMA InitTInv == ASSUME Init PROVE TInv
<1>1. PICK d \in Seeds : /\ task = d.task
                         /\ sub = d.sub
                         /\ kind = d.kind
                         /\ trail = [t \in Tasks |-> IF d.task[t] = Null THEN Null
                                                     ELSE LoggedRow(d.task[t])]
  BY DEF Init
<1>2. d \in Database
  BY StoreAssumption
<1>3. /\ task \in [Tasks -> Orm(TaskRow)]
      /\ sub \in [Subtasks -> Orm(SubRow)]
      /\ kind \in [Projects -> [Statuses -> Kinds]]
  BY <1>1, <1>2 DEF Database
<1>4. trail \in [Tasks -> Orm(Logged)]
  <2>1. ASSUME NEW t \in Tasks, task[t] # Null PROVE LoggedRow(task[t]) \in Logged
    BY <1>3, <2>1 DEF Orm, TaskRow, LoggedRow, Logged
  <2>2. QED
    BY <1>1, <2>1 DEF Orm
<1>5. loc \in [Handlers -> Local] /\ LocalInv
  BY IdleOK DEF Init, LocalInv
<1>6. /\ notes \subseteq Note
      /\ removed \subseteq Tasks
      /\ served \in 0..MaxRequests
  BY StoreAssumption DEF Init
<1>7. QED
  BY <1>3, <1>4, <1>5, <1>6 DEF TInv, TypeOK

(* A step that moves one handler to a well formed record keeps LocalInv. *)
LEMMA LocStep ==
  ASSUME TInv, NEW h \in Handlers, NEW l \in Local, WellFormed(l),
         loc' = [loc EXCEPT ![h] = l]
  PROVE  loc' \in [Handlers -> Local] /\ LocalInv'
BY DEF TInv, TypeOK, LocalInv

LEMMA BeginOK ==
  ASSUME TInv, NEW h \in Handlers, NEW op, NEW l \in Local, WellFormed(l),
         Begin(h, op, l)
  PROVE  TInv'
<1>1. loc' \in [Handlers -> Local] /\ LocalInv'
  BY LocStep DEF Begin
<1>2. served' \in 0..MaxRequests
  BY StoreAssumption DEF Begin, TInv, TypeOK
<1>3. QED
  BY <1>1, <1>2 DEF Begin, TInv, TypeOK, tables

LEMMA FoundKid ==
  ASSUME NEW l \in Local, WellFormed(l), l.pc \in {"subUpdate.find", "subUpdate.check"}, NEW k \in SubRow,
         NEW pc \in {"subUpdate.check", "sub.save"}, pc = "subUpdate.check" => l.done \in BOOLEAN
  PROVE  [l EXCEPT !.pc = pc, !.kid = k] \in Local /\ WellFormed([l EXCEPT !.pc = pc, !.kid = k])
<1> DEFINE n == [l EXCEPT !.pc = pc, !.kid = k]
<1>1. n \in Local
  BY ZenonT(60) DEF Local, Pcs, Orm
<1>2. /\ n.pc = pc
      /\ n.kid = k
      /\ n.ent = l.ent
      /\ n.project = l.project
      /\ n.task = l.task
      /\ n.sub = l.sub
      /\ n.done = l.done
  BY DEF Local
<1>3. l.ent \in TaskRow /\ l.project \in Projects /\ l.task \in Tasks /\ l.sub \in Subtasks
  <2>1. l.pc \in NeedsEnt /\ l.pc \in NeedsProject /\ l.pc \in NeedsTask /\ l.pc \in NeedsSub
    BY DEF NeedsEnt, NeedsProject, NeedsTask, NeedsSub, SubUpdatePcs, Pcs, CreatePcs, HoldingPcs
  <2>2. QED
    BY <2>1 DEF WellFormed
<1>4. WellFormed(n)
  <2> HIDE DEF n
  <2>1. QED
    BY <1>2, <1>3 DEF WellFormed, UpdatePcs
<1>5. QED
  BY <1>1, <1>4

(* The facts of a handler h at an await, from TInv. *)
LEMMA AtAwait ==
  ASSUME TInv, NEW h \in Handlers
  PROVE  loc[h] \in Local /\ WellFormed(loc[h])
BY DEF TInv, TypeOK, LocalInv

LEMMA GotoOK ==
  ASSUME TInv, NEW h \in Handlers, NEW l \in Local, WellFormed(l), Goto(h, l)
  PROVE  loc' \in [Handlers -> Local] /\ LocalInv' /\ served' \in 0..MaxRequests
<1>1. loc' \in [Handlers -> Local] /\ LocalInv'
  BY LocStep DEF Goto
<1>2. QED
  BY <1>1 DEF Goto, TInv, TypeOK

LEMMA FinishOK ==
  ASSUME TInv, NEW h \in Handlers, Finish(h)
  PROVE  loc' \in [Handlers -> Local] /\ LocalInv' /\ served' \in 0..MaxRequests
BY IdleOK, GotoOK DEF Finish

LEMMA TablesKept ==
  ASSUME TInv, UNCHANGED tables, loc' \in [Handlers -> Local], LocalInv',
         served' \in 0..MaxRequests
  PROVE  TInv'
BY DEF TInv, TypeOK, tables

LEMMA LoggedOK == ASSUME NEW row \in TaskRow PROVE LoggedRow(row) \in Logged
BY DEF TaskRow, LoggedRow, Logged

LEMMA SavedTaskOK ==
  ASSUME NEW row \in TaskRow, NEW ent \in TaskRow, NEW old \in TaskRow,
         NEW stamped \in BOOLEAN
  PROVE  SavedTask(row, ent, old, stamped) \in TaskRow
BY DEF SavedTask, TaskRow, Changed

LEMMA SavedSubOK ==
  ASSUME NEW row \in SubRow, NEW kid \in SubRow, NEW old \in SubRow
  PROVE  SavedSub(row, kid, old) \in SubRow
BY DEF SavedSub, SubRow, Changed

LEMMA StatusLoggedOK ==
  ASSUME TInv, NEW t \in Tasks, NEW st \in Orm(Statuses)
  PROVE  StatusLogged(t, st) \in [Tasks -> Orm(Logged)]
<1>1. ASSUME trail[t] # Null, st # Null
      PROVE  [trail[t] EXCEPT !.status = st] \in Logged
  BY <1>1 DEF TInv, TypeOK, Orm, Logged
<1>2. QED
  BY <1>1 DEF StatusLogged, TInv, TypeOK, Orm

---------------------------------------------------------------------------
(* Type correctness: one step per handler. *)

LEMMA RequestTInv == ASSUME TInv, NEW h \in Handlers, Request(h) PROVE TInv'
<1> USE DEF Local, WellFormed, Orm, Pcs, NeedsEnt, NeedsProject, NeedsTask, NeedsSub,
         NeedsKid, CreatePcs, UpdatePcs, SavePcs, SubCreatePcs, HoldingPcs, SubUpdatePcs,
         SubRemovePcs
<1>1. ASSUME NEW p \in Projects, NEW st \in Statuses, CreateRead(h, p, st) PROVE TInv'
  <2> DEFINE l == [Idle EXCEPT !.pc = "create.resolve", !.project = p,
                               !.ent = [project |-> p, seq |-> NextSeq(p), status |-> st,
                                        completed |-> FALSE]]
  <2>1. l \in Local /\ WellFormed(l)
    BY <1>1 DEF CreateRead, Idle, TaskRow
  <2>2. QED
    BY <1>1, <2>1, BeginOK DEF CreateRead
<1>2. ASSUME NEW p \in Projects, NEW t \in Tasks, NEW st \in Orm(Statuses),
             UpdateRead(h, p, t, st)
      PROVE  TInv'
  <2> DEFINE to == IF st = task[t].status THEN Null ELSE st
             l == [Idle EXCEPT !.pc = IF to = Null THEN "task.save" ELSE "update.check",
                               !.project = p, !.task = t, !.to = to, !.ent = task[t]]
  <2>1. task[t] \in TaskRow /\ to \in Orm(Statuses)
    BY <1>2 DEF UpdateRead, FindEntityInProject, TInv, TypeOK
  <2>2. l \in Local /\ WellFormed(l)
    BY <2>1 DEF Idle
  <2>3. QED
    <3> HIDE DEF Local, WellFormed
    <3>1. QED
      BY <1>2, <2>2, BeginOK DEF UpdateRead
<1>3. ASSUME NEW p \in Projects, NEW t \in Tasks, RemoveRead(h, p, t) PROVE TInv'
  <2> DEFINE l == [Idle EXCEPT !.pc = "remove.write", !.task = t]
  <2>1. l \in Local /\ WellFormed(l)
    BY DEF Idle
  <2>2. QED
    BY <1>3, <2>1, BeginOK DEF RemoveRead
<1>4. ASSUME NEW p \in Projects, NEW q \in Projects, NEW t \in Tasks, NEW st \in Statuses,
             MoveLoad(h, p, q, t, st)
      PROVE  TInv'
  <2> DEFINE done == MovedCompletedAt(p, task[t].status, q, st, task[t].completed)
             l == [Idle EXCEPT !.pc = "move.write", !.project = q, !.task = t, !.to = st,
                               !.old = task[t], !.kids = Children(t),
                               !.stamped = Terminal(q, st),
                               !.ent = [project |-> q, seq |-> NextSeq(q), status |-> st,
                                        completed |-> done]]
  <2>1. task[t] \in TaskRow /\ NextSeq(q) \in Seqs /\ Children(t) \subseteq Subtasks
    BY <1>4 DEF MoveLoad, FindEntityInProject, TInv, TypeOK, Children
  <2>2. done \in BOOLEAN
    BY DEF MovedCompletedAt
  <2>3. [project |-> q, seq |-> NextSeq(q), status |-> st, completed |-> done] \in TaskRow
    BY <2>1, <2>2 DEF TaskRow
  <2>4. l \in Local /\ WellFormed(l)
    BY <2>1, <2>3 DEF Idle, Terminal
  <2>5. QED
    BY <1>4, <2>4, BeginOK DEF MoveLoad
<1>5. ASSUME NEW p \in Projects, NEW t \in Tasks, NEW done \in BOOLEAN,
             SubCreateRead(h, p, t, done)
      PROVE  TInv'
  <2> DEFINE l == [Idle EXCEPT !.pc = "subCreate.check", !.project = p, !.task = t,
                               !.ent = task[t],
                               !.kid = [task |-> t, project |-> p, done |-> done]]
  <2>1. task[t] \in TaskRow
    BY <1>5 DEF SubCreateRead, FindEntityInProject, TInv, TypeOK
  <2>2. l \in Local /\ WellFormed(l)
    BY <2>1 DEF Idle, SubRow
  <2>3. QED
    BY <1>5, <2>2, BeginOK DEF SubCreateRead
<1>6. ASSUME NEW p \in Projects, NEW t \in Tasks, NEW s \in Subtasks, NEW done \in Orm(BOOLEAN),
             SubUpdateRead(h, p, t, s, done)
      PROVE  TInv'
  <2> DEFINE l == [Idle EXCEPT !.pc = "subUpdate.find", !.project = p, !.task = t,
                               !.sub = s, !.done = done, !.ent = task[t]]
  <2>1. task[t] \in TaskRow
    BY <1>6 DEF SubUpdateRead, FindEntityInProject, TInv, TypeOK
  <2>2. l \in Local /\ WellFormed(l)
    BY <2>1 DEF Idle
  <2>3. QED
    BY <1>6, <2>2, BeginOK DEF SubUpdateRead
<1>7. ASSUME NEW p \in Projects, NEW t \in Tasks, NEW s \in Subtasks, SubRemoveRead(h, p, t, s)
      PROVE  TInv'
  <2> DEFINE l == [Idle EXCEPT !.pc = "subRemove.find", !.task = t, !.sub = s]
  <2>1. l \in Local /\ WellFormed(l)
    BY DEF Idle
  <2>2. QED
    BY <1>7, <2>1, BeginOK DEF SubRemoveRead
<1>8. QED
  BY <1>1, <1>2, <1>3, <1>4, <1>5, <1>6, <1>7 DEF Request

LEMMA TaskAfterSaveOK ==
  ASSUME TInv, NEW l \in Local, l.task \in Tasks, l.ent \in TaskRow, l.old \in Orm(TaskRow)
  PROVE  TaskAfterSave(l) \in Orm(TaskRow)
<1>1. CASE l.old = Null
  BY <1>1 DEF TaskAfterSave, Orm
<1>2. CASE l.old # Null /\ task[l.task] = Null
  BY <1>2 DEF TaskAfterSave, Orm
<1>3. CASE l.old # Null /\ task[l.task] # Null
  <2>1. task[l.task] \in TaskRow /\ l.old \in TaskRow /\ l.stamped \in BOOLEAN
    BY <1>3 DEF TInv, TypeOK, Orm, Local
  <2>2. QED
    BY <1>3, <2>1, SavedTaskOK DEF TaskAfterSave, Orm
<1>4. QED
  BY <1>1, <1>2, <1>3

(* The steps of a handler in the table tasks. *)
LEMMA TaskStepsTInv ==
  ASSUME TInv, NEW h \in Handlers,
         \/ CreateResolve(h)
         \/ \E t \in Tasks : CreateInsert(h, t)
         \/ UpdateCheck(h)
         \/ UpdateCount(h)
         \/ UpdateResolve(h)
         \/ SaveTaskRead(h)
         \/ SaveTaskWrite(h)
         \/ RemoveWrite(h)
         \/ MoveWrite(h)
  PROVE  TInv'
<1> DEFINE l == loc[h]
<1>l. l \in Local /\ WellFormed(l)
  BY AtAwait
<1> USE DEF Local, WellFormed, Orm, Pcs, NeedsEnt, NeedsProject, NeedsTask, NeedsSub,
         NeedsKid, CreatePcs, UpdatePcs, SavePcs, SubCreatePcs, HoldingPcs, SubUpdatePcs,
         SubRemovePcs
<1>1. CASE CreateResolve(h)
  <2> DEFINE e == [l.ent EXCEPT !.completed = Terminal(l.project, l.ent.status)]
             n == [l EXCEPT !.pc = "create.insert", !.ent = e]
  <2>1. l.ent \in TaskRow /\ l.project \in Projects
    BY <1>1, <1>l DEF CreateResolve, At
  <2>2. e \in TaskRow
    BY <2>1 DEF TaskRow, Terminal
  <2>3. n \in Local /\ WellFormed(n)
    <3> HIDE DEF e
    <3>1. n \in Local
      BY ZenonT(60), <1>l, <2>2
    <3>2. WellFormed(n)
      BY <1>l, <2>1, <2>2
    <3>3. QED
      BY <3>1, <3>2
  <2>4. QED
    BY <1>1, <2>3, GotoOK, TablesKept DEF CreateResolve
<1>2. CASE \E t \in Tasks : CreateInsert(h, t)
  <2> PICK t \in Tasks : CreateInsert(h, t)
    BY <1>2
  <2> DEFINE n == [l EXCEPT !.pc = "notify", !.task = t]
  <2>1. l.ent \in TaskRow
    BY <1>l DEF CreateInsert, At
  <2>2. n \in Local /\ WellFormed(n)
    <3> HIDE DEF Local, WellFormed
    <3>1. n \in Local
      BY <1>l DEF Local
    <3>2. WellFormed(n)
      BY <1>l, <2>1 DEF WellFormed, Local
    <3>3. QED
      BY <3>1, <3>2
  <2>3. loc' \in [Handlers -> Local] /\ LocalInv' /\ served' \in 0..MaxRequests
    BY <2>2, GotoOK, FinishOK DEF CreateInsert
  <2>4. task' \in [Tasks -> Orm(TaskRow)] /\ trail' \in [Tasks -> Orm(Logged)]
    <3> HIDE DEF Local, WellFormed
    <3>1. QED
      BY <2>1, LoggedOK DEF CreateInsert, TInv, TypeOK
  <2>5. QED
    BY <2>3, <2>4 DEF CreateInsert, TInv, TypeOK
<1>3. CASE UpdateCheck(h)
  <2> DEFINE next == IF Terminal(l.project, l.to) THEN "update.count" ELSE "update.resolve"
             n == [l EXCEPT !.pc = next]
  <2>1. next \in {"update.count", "update.resolve"}
    OBVIOUS
  <2>2. n \in Local /\ WellFormed(n)
    <3> HIDE DEF next
    <3>1. QED
      BY <1>3, <1>l, <2>1 DEF UpdateCheck, At
  <2>3. QED
    BY <1>3, <2>2, GotoOK, TablesKept DEF UpdateCheck
<1>9. CASE UpdateCount(h)
  <2> DEFINE n == [l EXCEPT !.pc = "update.resolve"]
  <2>1. n \in Local /\ WellFormed(n)
    BY <1>9, <1>l DEF UpdateCount, At
  <2>2. QED
    BY <1>9, <2>1, GotoOK, FinishOK, TablesKept DEF UpdateCount
<1>4. CASE UpdateResolve(h)
  <2> DEFINE c == ResolveCompletedAt(l.project, l.ent.status, l.to, l.ent.completed)
             e == [l.ent EXCEPT !.status = l.to, !.completed = c]
             stamped == Terminal(l.project, l.to)
             n == [l EXCEPT !.pc = "task.save", !.stamped = stamped, !.ent = e]
  <2>1. l.ent \in TaskRow /\ l.to \in Statuses
    BY <1>4, <1>l DEF UpdateResolve, At
  <2>2. e \in TaskRow
    BY <2>1 DEF TaskRow, ResolveCompletedAt
  <2>3. stamped \in BOOLEAN /\ l.pc = "update.resolve"
    BY <1>4 DEF UpdateResolve, At, Terminal
  <2>4. n \in Local /\ WellFormed(n)
    <3> HIDE DEF e, stamped
    <3>1. n \in Local
      BY ZenonT(60), <1>l, <2>2, <2>3
    <3>2. WellFormed(n)
      BY <1>l, <2>2, <2>3
    <3>3. QED
      BY <3>1, <3>2
  <2>5. QED
    BY <1>4, <2>4, GotoOK, TablesKept DEF UpdateResolve
<1>5. CASE SaveTaskRead(h)
  <2> DEFINE n == [l EXCEPT !.pc = "task.write", !.old = task[l.task]]
  <2>1. l.task \in Tasks
    BY <1>5, <1>l DEF SaveTaskRead, At
  <2>2. task[l.task] \in Orm(TaskRow)
    BY <2>1 DEF TInv, TypeOK
  <2>3. n \in Local /\ WellFormed(n)
    BY ZenonT(60), <1>5, <1>l, <2>1, <2>2 DEF SaveTaskRead, At
  <2>4. QED
    BY <1>5, <2>3, GotoOK, TablesKept DEF SaveTaskRead
<1>6. CASE SaveTaskWrite(h)
  <2> DEFINE n == [l EXCEPT !.pc = "notify"]
  <2>1. l.task \in Tasks /\ l.ent \in TaskRow /\ l.old \in Orm(TaskRow) /\ l.to \in Orm(Statuses)
    BY <1>6, <1>l DEF SaveTaskWrite, At
  <2>2. n \in Local /\ WellFormed(n)
    BY <1>l, <2>1
  <2>3. loc' \in [Handlers -> Local] /\ LocalInv' /\ served' \in 0..MaxRequests
    BY <1>6, <2>2, GotoOK, FinishOK DEF SaveTaskWrite
  <2>4. task' \in [Tasks -> Orm(TaskRow)] /\ trail' \in [Tasks -> Orm(Logged)]
    <3>1. TaskAfterSave(l) \in Orm(TaskRow)
      BY <1>l, <2>1, TaskAfterSaveOK
    <3>2. StatusLogged(l.task, l.to) \in [Tasks -> Orm(Logged)]
      BY <2>1, StatusLoggedOK
    <3>3. QED
      BY <1>6, <3>1, <3>2 DEF SaveTaskWrite, TInv, TypeOK
  <2>5. QED
    BY <1>6, <2>3, <2>4 DEF SaveTaskWrite, TInv, TypeOK
<1>7. CASE RemoveWrite(h)
  <2>1. l.task \in Tasks
    BY <1>7, <1>l DEF RemoveWrite, At
  <2>2. WithoutChildren(l.task) \in [Subtasks -> Orm(SubRow)]
    BY DEF WithoutChildren, TInv, TypeOK
  <2>3. loc' \in [Handlers -> Local] /\ LocalInv' /\ served' \in 0..MaxRequests
    BY <1>7, FinishOK DEF RemoveWrite
  <2>4. QED
    BY <1>7, <2>1, <2>2, <2>3 DEF RemoveWrite, TInv, TypeOK
<1>8. CASE MoveWrite(h)
  <2>1. /\ l.task \in Tasks
        /\ l.project \in Projects
        /\ l.ent \in TaskRow
        /\ l.old \in Orm(TaskRow)
    BY <1>8, <1>l DEF MoveWrite, At
  <2>2. TaskAfterSave(l) \in Orm(TaskRow)
    BY <1>l, <2>1, TaskAfterSaveOK
  <2>3. Carried(l.kids, l.project) \in [Subtasks -> Orm(SubRow)]
    <3>1. ASSUME NEW s \in Subtasks, sub[s] # Null
          PROVE  [sub[s] EXCEPT !.project = l.project] \in SubRow
      BY <2>1, <3>1 DEF TInv, TypeOK, SubRow
    <3>2. QED
      BY <3>1 DEF Carried, TInv, TypeOK
  <2>4. Relinked(l.task, l.ent.project, l.ent.seq) \subseteq Note
    BY <2>1 DEF Relinked, Note, TaskRow, TInv, TypeOK
  <2>5. LoggedRow(l.ent) \in Logged
    BY <2>1, LoggedOK
  <2>6. loc' \in [Handlers -> Local] /\ LocalInv' /\ served' \in 0..MaxRequests
    BY <1>8, FinishOK DEF MoveWrite
  <2>7. task' \in [Tasks -> Orm(TaskRow)]
    BY <1>8, <2>2 DEF MoveWrite, TInv, TypeOK
  <2>8. trail' \in [Tasks -> Orm(Logged)]
    BY <1>8, <2>5 DEF MoveWrite, TInv, TypeOK
  <2>9. QED
    BY <1>8, <2>3, <2>4, <2>6, <2>7, <2>8 DEF MoveWrite, TInv, TypeOK
<1>10. QED
  BY <1>1, <1>2, <1>3, <1>4, <1>5, <1>6, <1>7, <1>8, <1>9

(* The steps of a handler in the table subtasks. *)
LEMMA SubStepsTInv ==
  ASSUME TInv, NEW h \in Handlers,
         \/ SubCreateCheck(h)
         \/ \E s \in Subtasks : SubCreateInsert(h, s)
         \/ SubUpdateFind(h)
         \/ SubUpdateCheck(h)
         \/ SaveSubRead(h)
         \/ SaveSubWrite(h)
         \/ SubRemoveFind(h)
         \/ SubRemoveWrite(h)
  PROVE  TInv'
<1> DEFINE l == loc[h]
<1>l. l \in Local /\ WellFormed(l)
  BY AtAwait
<1> USE DEF Local, WellFormed, Orm, Pcs, NeedsEnt, NeedsProject, NeedsTask, NeedsSub,
         NeedsKid, CreatePcs, UpdatePcs, SavePcs, SubCreatePcs, HoldingPcs, SubUpdatePcs,
         SubRemovePcs
<1>1. CASE SubCreateCheck(h)
  <2> DEFINE n == [l EXCEPT !.pc = "subCreate.insert"]
  <2>1. n \in Local /\ WellFormed(n)
    BY <1>1, <1>l DEF SubCreateCheck, At
  <2>2. QED
    BY <1>1, <2>1, GotoOK, FinishOK, TablesKept DEF SubCreateCheck
<1>2. CASE \E s \in Subtasks : SubCreateInsert(h, s)
  <2> PICK s \in Subtasks : SubCreateInsert(h, s)
    BY <1>2
  <2> DEFINE n == [l EXCEPT !.pc = "notify"]
  <2>1. l.task \in Tasks /\ l.ent \in TaskRow /\ l.kid \in SubRow
    BY <1>l DEF SubCreateInsert, At
  <2>2. n \in Local /\ WellFormed(n)
    BY <1>l, <2>1
  <2>3. loc' \in [Handlers -> Local] /\ LocalInv' /\ served' \in 0..MaxRequests
    BY <2>2, GotoOK, FinishOK DEF SubCreateInsert
  <2>4. sub' \in [Subtasks -> Orm(SubRow)]
    BY <2>1 DEF SubCreateInsert, TInv, TypeOK
  <2>5. QED
    BY <2>3, <2>4 DEF SubCreateInsert, TInv, TypeOK
<1>3. CASE SubUpdateFind(h)
  <2> DEFINE doneChanged == l.done # Null /\ l.done # sub[l.sub].done
             pc == IF doneChanged THEN "subUpdate.check" ELSE "sub.save"
             n == [l EXCEPT !.pc = pc, !.kid = sub[l.sub]]
  <2>1. l.pc = "subUpdate.find" /\ l.sub \in Subtasks
    BY <1>3, <1>l DEF SubUpdateFind, At
  <2>2. CASE FindInTask(l.task, l.sub)
    <3>1. sub[l.sub] \in SubRow
      BY <2>1, <2>2 DEF FindInTask, Children, TInv, TypeOK
    <3>2. pc \in {"subUpdate.check", "sub.save"} /\ (pc = "subUpdate.check" => l.done \in BOOLEAN)
      BY <1>l
    <3>3. n \in Local /\ WellFormed(n)
      <4> HIDE DEF pc, Local, WellFormed
      <4>1. QED
        BY <1>l, <2>1, <3>1, <3>2, FoundKid
    <3>4. QED
      BY ZenonT(60), <1>3, <2>2, <3>3, GotoOK, TablesKept DEF SubUpdateFind
  <2>3. CASE ~FindInTask(l.task, l.sub)
    BY <1>3, <2>3, FinishOK, TablesKept DEF SubUpdateFind
  <2>4. QED
    BY <2>2, <2>3
<1>4. CASE SubUpdateCheck(h)
  <2> DEFINE k == [l.kid EXCEPT !.done = l.done]
             n == [l EXCEPT !.pc = "sub.save", !.kid = k]
  <2>1. l.pc = "subUpdate.check" /\ l.kid \in SubRow /\ l.done \in BOOLEAN
    BY <1>4, <1>l DEF SubUpdateCheck, At
  <2>2. k \in SubRow
    BY <2>1 DEF SubRow
  <2>3. n \in Local /\ WellFormed(n)
    <3> HIDE DEF k, Local, WellFormed
    <3>1. QED
      BY <1>l, <2>1, <2>2, FoundKid
  <2>4. QED
    BY <1>4, <2>3, GotoOK, FinishOK, TablesKept DEF SubUpdateCheck
<1>5. CASE SaveSubRead(h)
  <2> DEFINE n == [l EXCEPT !.pc = "sub.write", !.old = sub[l.sub]]
  <2>1. l.pc = "sub.save" /\ l.sub \in Subtasks
    BY <1>5, <1>l DEF SaveSubRead, At
  <2>2. sub[l.sub] \in Orm(SubRow)
    BY <2>1 DEF TInv, TypeOK
  <2>3. n \in Local
    BY ZenonT(60), <1>l, <2>2
  <2>4. WellFormed(n)
    BY <1>l, <2>1, <2>2
  <2>5. QED
    BY <1>5, <2>3, <2>4, GotoOK, TablesKept DEF SaveSubRead
<1>6. CASE SaveSubWrite(h)
  <2> DEFINE n == [l EXCEPT !.pc = "notify"]
             row == IF l.old = Null THEN l.kid
                    ELSE IF sub[l.sub] = Null THEN Null
                    ELSE SavedSub(sub[l.sub], l.kid, l.old)
  <2>1. /\ l.pc = "sub.write"
        /\ l.task \in Tasks
        /\ l.sub \in Subtasks
        /\ l.ent \in TaskRow
        /\ l.kid \in SubRow
        /\ l.old \in Orm(SubRow)
    BY <1>6, <1>l DEF SaveSubWrite, At
  <2>2. n \in Local /\ WellFormed(n)
    BY <1>l, <2>1
  <2>3. loc' \in [Handlers -> Local] /\ LocalInv' /\ served' \in 0..MaxRequests
    BY <1>6, <2>2, GotoOK, FinishOK DEF SaveSubWrite
  <2>4. row \in Orm(SubRow)
    <3>1. CASE l.old # Null /\ sub[l.sub] # Null
      <4>1. sub[l.sub] \in SubRow /\ l.old \in SubRow
        BY <2>1, <3>1 DEF TInv, TypeOK
      <4>2. QED
        BY <2>1, <3>1, <4>1, SavedSubOK
    <3>2. CASE l.old = Null \/ sub[l.sub] = Null
      BY <2>1, <3>2
    <3>3. QED
      BY <3>1, <3>2
  <2>5. sub' \in [Subtasks -> Orm(SubRow)]
    BY <1>6, <2>4 DEF SaveSubWrite, TInv, TypeOK
  <2>6. QED
    BY <1>6, <2>3, <2>5 DEF SaveSubWrite, TInv, TypeOK
<1>7. CASE SubRemoveFind(h)
  <2> DEFINE n == [l EXCEPT !.pc = "subRemove.write"]
  <2>1. n \in Local /\ WellFormed(n)
    BY <1>7, <1>l DEF SubRemoveFind, At
  <2>2. QED
    BY <1>7, <2>1, GotoOK, FinishOK, TablesKept DEF SubRemoveFind
<1>8. CASE SubRemoveWrite(h)
  <2>1. sub' \in [Subtasks -> Orm(SubRow)]
    BY <1>8 DEF SubRemoveWrite, TInv, TypeOK
  <2>2. loc' \in [Handlers -> Local] /\ LocalInv' /\ served' \in 0..MaxRequests
    BY <1>8, FinishOK DEF SubRemoveWrite
  <2>3. QED
    BY <1>8, <2>1, <2>2 DEF SubRemoveWrite, TInv, TypeOK
<1>9. QED
  BY <1>1, <1>2, <1>3, <1>4, <1>5, <1>6, <1>7, <1>8

LEMMA EndStepsTInv ==
  ASSUME TInv, NEW h \in Handlers, Notify(h) \/ Fail(h)
  PROVE  TInv'
<1>1. CASE Notify(h)
  <2>1. loc[h].task \in Tasks /\ loc[h].ent \in TaskRow
    BY <1>1, AtAwait DEF Notify, At, WellFormed, NeedsTask, NeedsEnt, Pcs, CreatePcs
  <2>2. notes' \subseteq Note
    BY <1>1, <2>1 DEF Notify, Note, TaskRow, TInv, TypeOK
  <2>3. loc' \in [Handlers -> Local] /\ LocalInv' /\ served' \in 0..MaxRequests
    BY <1>1, FinishOK DEF Notify
  <2>4. QED
    BY <1>1, <2>2, <2>3 DEF Notify, TInv, TypeOK
<1>2. CASE Fail(h)
  BY <1>2, FinishOK, TablesKept DEF Fail
<1>3. QED
  BY <1>1, <1>2

LEMMA SetStatusKindTInv ==
  ASSUME TInv, NEW p \in Projects, NEW st \in Statuses, NEW k \in Kinds, SetStatusKind(p, st, k)
  PROVE  TInv'
<1>1. kind' \in [Projects -> [Statuses -> Kinds]]
  BY DEF SetStatusKind, TInv, TypeOK
<1>2. served' \in 0..MaxRequests
  BY StoreAssumption DEF SetStatusKind, TInv, TypeOK
<1>3. QED
  BY <1>1, <1>2 DEF SetStatusKind, TInv, TypeOK, LocalInv

LEMMA NextTInv == ASSUME TInv, [Next]_vars PROVE TInv'
<1>1. ASSUME NEW h \in Handlers, Request(h) \/ Continue(h) PROVE TInv'
  BY <1>1, RequestTInv, TaskStepsTInv, SubStepsTInv, EndStepsTInv DEF Continue
<1>2. ASSUME NEW p \in Projects, NEW st \in Statuses, NEW k \in Kinds, SetStatusKind(p, st, k)
      PROVE  TInv'
  BY <1>2, SetStatusKindTInv
<1>3. CASE UNCHANGED vars
  BY <1>3 DEF vars, tables, TInv, TypeOK, LocalInv
<1>4. QED
  BY <1>1, <1>2, <1>3 DEF Next, Quiescent

(* Every table and every handler keeps its type, whatever the interleaving. *)
THEOREM TypeCorrect == Spec => []TypeOK
<1>1. Init => TInv
  BY InitTInv
<1>2. TInv /\ [Next]_vars => TInv'
  BY NextTInv
<1>3. TInv => TypeOK
  BY DEF TInv
<1>4. QED
  BY <1>1, <1>2, <1>3, PTL DEF Spec

---------------------------------------------------------------------------
(* The unique index: whatever a step does to tasks, it writes one row at a   *)
(* place no other row holds, or only deletes.                                *)

LEMMA TaskWrites ==
  ASSUME TInv, [Next]_vars
  PROVE  \/ task' = task
         \/ \E t \in Tasks, row \in Orm(TaskRow) :
              /\ task' = [task EXCEPT ![t] = row]
              /\ row # Null => SeqFree(row.project, row.seq, t)
<1> DEFINE Written ==
             \/ task' = task
             \/ \E t \in Tasks, row \in Orm(TaskRow) :
                  /\ task' = [task EXCEPT ![t] = row]
                  /\ row # Null => SeqFree(row.project, row.seq, t)
<1>1. ASSUME NEW h \in Handlers, Request(h) PROVE task' = task
  BY ZenonT(60), <1>1 DEF Request, CreateRead, UpdateRead, RemoveRead, MoveLoad, SubCreateRead,
              SubUpdateRead, SubRemoveRead, Begin, tables
<1>2. ASSUME NEW h \in Handlers, NEW t \in Tasks, CreateInsert(h, t) PROVE Written
  <2>1. loc[h].ent \in TaskRow
    BY <1>2, AtAwait DEF CreateInsert, At, WellFormed, NeedsEnt, CreatePcs
  <2>2. QED
    BY <1>2, <2>1 DEF CreateInsert, Orm
<1>3. ASSUME NEW h \in Handlers, SaveTaskWrite(h) \/ MoveWrite(h) PROVE Written
  <2> DEFINE row == TaskAfterSave(loc[h])
  <2>1. /\ loc[h] \in Local
        /\ loc[h].task \in Tasks
        /\ loc[h].ent \in TaskRow
        /\ loc[h].old \in Orm(TaskRow)
    BY <1>3, AtAwait DEF SaveTaskWrite, MoveWrite, At, WellFormed, NeedsEnt, NeedsTask, Pcs,
                         SavePcs, CreatePcs, Orm
  <2>2. row \in Orm(TaskRow)
    BY <2>1, TaskAfterSaveOK
  <2>3. \/ task' = task
        \/ /\ task' = [task EXCEPT ![loc[h].task] = row]
           /\ row # Null => SeqFree(row.project, row.seq, loc[h].task)
    BY <1>3 DEF SaveTaskWrite, MoveWrite
  <2>4. QED
    BY <2>1, <2>2, <2>3
<1>4. ASSUME NEW h \in Handlers, RemoveWrite(h) PROVE Written
  <2>1. loc[h].task \in Tasks
    BY <1>4, AtAwait DEF RemoveWrite, At, WellFormed, NeedsTask, Pcs, CreatePcs
  <2>2. QED
    BY <1>4, <2>1 DEF RemoveWrite, Orm
<1>5. ASSUME NEW h \in Handlers, Continue(h) PROVE Written
  BY <1>2, <1>3, <1>4, <1>5
     DEF Continue, CreateResolve, UpdateCheck, UpdateCount, UpdateResolve, SaveTaskRead,
         SubCreateCheck, SubCreateInsert, SubUpdateFind, SubUpdateCheck, SaveSubRead, SaveSubWrite,
         SubRemoveFind, SubRemoveWrite, Notify, Fail, tables
<1>6. QED
  BY <1>1, <1>5 DEF Next, Quiescent, SetStatusKind, vars, tables

(* No two tasks of a project ever have the same number. *)
THEOREM SeqUniqueAlways == Spec => []SeqUnique
<1>1. ASSUME Init PROVE SeqUnique
  <2>1. PICK d \in Seeds : task = d.task
    BY <1>1 DEF Init
  <2>2. Consistent(d)
    BY StoreAssumption
  <2>3. QED
    BY <2>1, <2>2 DEF SeqUnique, Consistent
<1>2. ASSUME TInv, SeqUnique, [Next]_vars PROVE SeqUnique'
  <2>1. CASE task' = task
    BY <1>2, <2>1 DEF SeqUnique
  <2>2. ASSUME NEW t \in Tasks, NEW row \in Orm(TaskRow),
               task' = [task EXCEPT ![t] = row],
               row # Null => SeqFree(row.project, row.seq, t)
        PROVE  SeqUnique'
    <3> SUFFICES ASSUME NEW a \in Tasks, NEW b \in Tasks, a # b,
                        task'[a] # Null, task'[b] # Null,
                        task'[a].project = task'[b].project
                 PROVE  task'[a].seq # task'[b].seq
      BY DEF SeqUnique
    <3>1. \A u \in Tasks : task'[u] = IF u = t THEN row ELSE task[u]
      BY <1>2, <2>2 DEF TInv, TypeOK
    <3>2. CASE a # t /\ b # t
      BY <1>2, <3>1, <3>2 DEF SeqUnique
    <3>3. CASE a = t
      BY <2>2, <3>1, <3>3 DEF SeqFree, TasksOf
    <3>4. CASE b = t
      BY <2>2, <3>1, <3>4 DEF SeqFree, TasksOf
    <3>5. QED
      BY <3>2, <3>3, <3>4
  <2>3. QED
    BY <1>2, <2>1, <2>2, TaskWrites
<1>3. Init => TInv /\ SeqUnique
  BY <1>1, InitTInv
<1>4. TInv /\ SeqUnique /\ [Next]_vars => (TInv /\ SeqUnique)'
  BY <1>2, NextTInv
<1>5. QED
  BY <1>3, <1>4, PTL DEF Spec

---------------------------------------------------------------------------
(* The foreign key: no orphan subtask, although a save inserts a removed     *)
(* subtask again and an UPDATE writes the columns of a stale entity.         *)

CreatesOwn(l) == l.pc \in SubCreatePcs => l.kid.task = l.task

ReadOwn(l) == l.pc = "sub.write" /\ l.old # Null => l.old.task = l.kid.task

(* The entity a handler holds names the parent of the row, if there is one. *)
Knows(l, table) ==
    l.pc \in HoldingPcs /\ table[l.sub] # Null => table[l.sub].task = l.kid.task

Agree(l, m) ==
    l.pc \in HoldingPcs /\ m.pc \in HoldingPcs /\ l.sub = m.sub => l.kid.task = m.kid.task

KidInv ==
    \A g \in Handlers :
        /\ CreatesOwn(loc[g])
        /\ ReadOwn(loc[g])
        /\ Knows(loc[g], sub)
        /\ \A h \in Handlers : Agree(loc[g], loc[h])

(* No subtask appears and none changes its parent. *)
Narrowed == \A s \in Subtasks : sub'[s] # Null => sub[s] # Null /\ sub'[s].task = sub[s].task

(* No task row goes away. *)
ParentsKept == \A t \in Tasks : task[t] # Null => task'[t] # Null

KidStates == SubCreatePcs \cup HoldingPcs

LEMMA KidStep ==
  ASSUME TInv, KidInv, NEW h \in Handlers, NEW n, loc' = [loc EXCEPT ![h] = n],
         CreatesOwn(n), ReadOwn(n), Knows(n, sub'),
         \A g \in Handlers \ {h} : Knows(loc[g], sub') /\ Agree(n, loc[g])
  PROVE  KidInv'
<1>1. \A g \in Handlers : loc'[g] = IF g = h THEN n ELSE loc[g]
  BY DEF TInv, TypeOK
<1>2. \A g \in Handlers : CreatesOwn(loc'[g]) /\ ReadOwn(loc'[g]) /\ Knows(loc'[g], sub')
  BY <1>1 DEF KidInv
<1>3. ASSUME NEW f \in Handlers, NEW g \in Handlers PROVE Agree(loc'[f], loc'[g])
  <2>1. CASE f = h \/ g = h
    BY <1>1, <2>1 DEF Agree
  <2>2. CASE f # h /\ g # h
    BY <1>1, <2>2 DEF KidInv
  <2>3. QED
    BY <2>1, <2>2
<1>4. QED
  BY <1>2, <1>3 DEF KidInv, CreatesOwn, ReadOwn, Knows, Agree

LEMMA KnowsNarrowed ==
  ASSUME TInv, KidInv, Narrowed, NEW g \in Handlers
  PROVE  Knows(loc[g], sub')
<1>1. loc[g].pc \in HoldingPcs => loc[g].sub \in Subtasks
  BY AtAwait DEF WellFormed, NeedsSub, SubUpdatePcs
<1>2. Knows(loc[g], sub)
  BY DEF KidInv
<1>3. QED
  BY <1>1, <1>2 DEF Narrowed, Knows

(* A handler that holds no subtask after its step. *)
LEMMA KidFree ==
  ASSUME TInv, KidInv, Narrowed, NEW h \in Handlers, NEW n, n.pc \notin KidStates,
         loc' = [loc EXCEPT ![h] = n]
  PROVE  KidInv'
<1>1. CreatesOwn(n) /\ ReadOwn(n) /\ Knows(n, sub') /\ \A g \in Handlers : Agree(n, loc[g])
  BY DEF KidStates, CreatesOwn, ReadOwn, Knows, Agree, HoldingPcs
<1>2. QED
  BY <1>1, KnowsNarrowed, KidStep

(* A handler that keeps the subtask it holds. *)
LEMMA KidHeld ==
  ASSUME TInv, KidInv, Narrowed, NEW h \in Handlers, NEW n,
         loc[h].pc \in HoldingPcs, n.pc \in HoldingPcs, n.sub = loc[h].sub,
         n.kid.task = loc[h].kid.task, ReadOwn(n),
         loc' = [loc EXCEPT ![h] = n]
  PROVE  KidInv'
<1>1. CreatesOwn(n)
  BY DEF CreatesOwn, HoldingPcs, SubCreatePcs
<1>2. Knows(n, sub')
  BY KnowsNarrowed DEF Knows
<1>3. \A g \in Handlers : Agree(n, loc[g])
  BY DEF KidInv, Agree
<1>4. QED
  BY <1>1, <1>2, <1>3, KnowsNarrowed, KidStep

LEMMA FinishKid ==
  ASSUME TInv, KidInv, Narrowed, NEW h \in Handlers, Finish(h)
  PROVE  KidInv'
<1>1. Idle.pc \notin KidStates
  BY DEF Idle, KidStates, SubCreatePcs, HoldingPcs
<1>2. QED
  BY <1>1, KidFree DEF Finish, Goto

LEMMA SameSubs == ASSUME sub' = sub PROVE Narrowed
BY DEF Narrowed

(* A save never writes a missing row over one that is there. *)
LEMMA RowKept ==
  ASSUME TInv, NEW l \in Local, WellFormed(l), l.pc \in {"task.write", "move.write"},
         task[l.task] # Null
  PROVE  TaskAfterSave(l) # Null
<1>1. l.ent \in TaskRow
  BY DEF WellFormed, NeedsEnt, SavePcs
<1>2. CASE l.old = Null
  BY <1>1, <1>2, StoreAssumption DEF TaskAfterSave
<1>3. CASE l.old # Null
  <2>1. task[l.task] \in TaskRow /\ l.old \in TaskRow /\ l.stamped \in BOOLEAN
    BY <1>3 DEF Local, WellFormed, NeedsTask, Pcs, CreatePcs, Orm, TInv, TypeOK
  <2>2. TaskAfterSave(l) \in TaskRow
    BY <1>1, <1>3, <2>1, SavedTaskOK DEF TaskAfterSave
  <2>3. QED
    BY <2>2, StoreAssumption
<1>4. QED
  BY <1>2, <1>3

LEMMA BeginKid ==
  ASSUME TInv, KidInv, NEW h \in Handlers, NEW op, NEW l, Begin(h, op, l),
         l.pc \notin KidStates
  PROVE  KidInv' /\ task' = task /\ sub' = sub
<1>1. task' = task /\ sub' = sub /\ loc' = [loc EXCEPT ![h] = l]
  BY DEF Begin, tables
<1>2. QED
  BY <1>1, SameSubs, KidFree

LEMMA RequestKid ==
  ASSUME TInv, KidInv, NEW h \in Handlers, Request(h)
  PROVE  KidInv' /\ task' = task /\ sub' = sub
<1> USE DEF Idle, KidStates, SubCreatePcs, HoldingPcs
<1>1. ASSUME NEW p \in Projects, NEW t \in Tasks, NEW done \in BOOLEAN,
             SubCreateRead(h, p, t, done)
      PROVE  KidInv' /\ task' = task /\ sub' = sub
  <2> DEFINE n == [Idle EXCEPT !.pc = "subCreate.check", !.project = p, !.task = t,
                               !.ent = task[t],
                               !.kid = [task |-> t, project |-> p, done |-> done]]
  <2>1. loc' = [loc EXCEPT ![h] = n] /\ task' = task /\ sub' = sub
    BY <1>1 DEF SubCreateRead, Begin, tables
  <2>2. n.pc = "subCreate.check" /\ n.kid.task = n.task
    OBVIOUS
  <2> HIDE DEF n
  <2>3. /\ CreatesOwn(n)
        /\ ReadOwn(n)
        /\ Knows(n, sub')
        /\ \A g \in Handlers : Agree(n, loc[g])
    BY <2>2 DEF CreatesOwn, ReadOwn, Knows, Agree
  <2>4. QED
    BY <2>1, <2>3, SameSubs, KnowsNarrowed, KidStep
<1>2. ASSUME NEW p \in Projects, NEW st \in Statuses, CreateRead(h, p, st)
      PROVE  KidInv' /\ task' = task /\ sub' = sub
  BY <1>2, BeginKid DEF CreateRead
<1>3. ASSUME NEW p \in Projects, NEW t \in Tasks, NEW st \in Orm(Statuses),
             UpdateRead(h, p, t, st)
      PROVE  KidInv' /\ task' = task /\ sub' = sub
  BY <1>3, BeginKid DEF UpdateRead
<1>4. ASSUME NEW p \in Projects, NEW t \in Tasks, RemoveRead(h, p, t)
      PROVE  KidInv' /\ task' = task /\ sub' = sub
  BY <1>4, BeginKid DEF RemoveRead
<1>5. ASSUME NEW p \in Projects, NEW q \in Projects, NEW t \in Tasks, NEW st \in Statuses,
             MoveLoad(h, p, q, t, st)
      PROVE  KidInv' /\ task' = task /\ sub' = sub
  BY <1>5, BeginKid DEF MoveLoad
<1>6. ASSUME NEW p \in Projects, NEW t \in Tasks, NEW s \in Subtasks,
             NEW done \in Orm(BOOLEAN), SubUpdateRead(h, p, t, s, done)
      PROVE  KidInv' /\ task' = task /\ sub' = sub
  BY <1>6, BeginKid DEF SubUpdateRead
<1>7. ASSUME NEW p \in Projects, NEW t \in Tasks, NEW s \in Subtasks,
             SubRemoveRead(h, p, t, s)
      PROVE  KidInv' /\ task' = task /\ sub' = sub
  BY <1>7, BeginKid DEF SubRemoveRead
<1>8. QED
  BY <1>1, <1>2, <1>3, <1>4, <1>5, <1>6, <1>7 DEF Request

LEMMA CreateInsertKid ==
  ASSUME TInv, KidInv, NEW h \in Handlers, NEW t \in Tasks, CreateInsert(h, t)
  PROVE  KidInv' /\ sub' = sub /\ ParentsKept
<1> DEFINE n == [loc[h] EXCEPT !.pc = "notify", !.task = t]
<1>1. n.pc \notin KidStates
  BY AtAwait DEF Local, KidStates, SubCreatePcs, HoldingPcs
<1>2. Goto(h, n) \/ Finish(h)
  BY DEF CreateInsert
<1>3. ParentsKept
  BY DEF CreateInsert, UnusedTaskId, ParentsKept, TInv, TypeOK
<1>4. sub' = sub
  BY DEF CreateInsert
<1>5. Narrowed
  BY <1>4, SameSubs
<1>6. CASE Goto(h, n)
  BY <1>1, <1>3, <1>4, <1>5, <1>6, KidFree DEF Goto
<1>7. QED
  BY <1>2, <1>3, <1>4, <1>5, <1>6, FinishKid

(* The steps that write neither subtasks nor an entity of a subtask. *)
LEMMA TaskStepsKid ==
  ASSUME TInv, KidInv, NEW h \in Handlers,
         \/ CreateResolve(h)
         \/ \E t \in Tasks : CreateInsert(h, t)
         \/ UpdateCheck(h)
         \/ UpdateCount(h)
         \/ UpdateResolve(h)
         \/ SaveTaskRead(h)
         \/ SaveTaskWrite(h)
         \/ Notify(h)
         \/ Fail(h)
  PROVE  KidInv' /\ sub' = sub /\ ParentsKept
<1> DEFINE l == loc[h]
<1>1. sub' = sub
  <2>1. CASE \E t \in Tasks : CreateInsert(h, t)
    BY <2>1, CreateInsertKid
  <2>2. CASE ~\E t \in Tasks : CreateInsert(h, t)
    BY <2>2 DEF CreateResolve, UpdateCheck, UpdateCount, UpdateResolve, SaveTaskRead,
                SaveTaskWrite, Notify, Fail, tables
  <2>3. QED
    BY <2>1, <2>2
<1>2. Narrowed
  BY <1>1, SameSubs
<1>3. l \in Local /\ WellFormed(l)
  BY AtAwait
<1>4. ASSUME NEW n, n.pc \notin KidStates, Goto(h, n) PROVE KidInv'
  BY <1>2, <1>4, KidFree DEF Goto
<1>5. CASE CreateResolve(h)
  <2> DEFINE n == [l EXCEPT !.pc = "create.insert",
                            !.ent = [l.ent EXCEPT
                                !.completed = Terminal(l.project, l.ent.status)]]
  <2>1. n.pc \notin KidStates
    BY <1>3 DEF Local, KidStates, SubCreatePcs, HoldingPcs
  <2>2. Goto(h, n) /\ task' = task
    BY <1>5 DEF CreateResolve, tables
  <2>3. QED
    BY <1>1, <1>4, <2>1, <2>2 DEF ParentsKept
<1>6. CASE \E t \in Tasks : CreateInsert(h, t)
  BY <1>6, CreateInsertKid
<1>7. CASE UpdateCheck(h)
  <2> DEFINE next == IF Terminal(l.project, l.to) THEN "update.count" ELSE "update.resolve"
             n == [l EXCEPT !.pc = next]
  <2>1. next \in {"update.count", "update.resolve"}
    OBVIOUS
  <2>2. n.pc \notin KidStates
    <3> HIDE DEF next
    <3>1. QED
      BY <1>3, <2>1 DEF Local, KidStates, SubCreatePcs, HoldingPcs
  <2>3. Goto(h, n) /\ task' = task
    BY <1>7 DEF UpdateCheck, tables
  <2>4. QED
    BY <1>1, <1>4, <2>2, <2>3 DEF ParentsKept
<1>13. CASE UpdateCount(h)
  <2> DEFINE n == [l EXCEPT !.pc = "update.resolve"]
  <2>1. n.pc \notin KidStates
    BY <1>3 DEF Local, KidStates, SubCreatePcs, HoldingPcs
  <2>2. (Goto(h, n) \/ Finish(h)) /\ task' = task
    BY <1>13 DEF UpdateCount, tables
  <2>3. QED
    BY <1>1, <1>2, <1>4, <2>1, <2>2, FinishKid DEF ParentsKept
<1>8. CASE UpdateResolve(h)
  <2> DEFINE n == [l EXCEPT !.pc = "task.save",
                            !.stamped = Terminal(l.project, l.to),
                            !.ent = [l.ent EXCEPT
                                !.status = l.to,
                                !.completed = ResolveCompletedAt(
                                    l.project, l.ent.status, l.to, l.ent.completed)]]
  <2>1. n.pc \notin KidStates
    BY <1>3 DEF Local, KidStates, SubCreatePcs, HoldingPcs
  <2>2. Goto(h, n) /\ task' = task
    BY <1>8 DEF UpdateResolve, tables
  <2>3. QED
    BY <1>1, <1>4, <2>1, <2>2 DEF ParentsKept
<1>9. CASE SaveTaskRead(h)
  <2> DEFINE n == [l EXCEPT !.pc = "task.write", !.old = task[l.task]]
  <2>1. n.pc \notin KidStates
    BY <1>3 DEF Local, KidStates, SubCreatePcs, HoldingPcs
  <2>2. Goto(h, n) /\ task' = task
    BY <1>9 DEF SaveTaskRead, tables
  <2>3. QED
    BY <1>1, <1>4, <2>1, <2>2 DEF ParentsKept
<1>10. CASE SaveTaskWrite(h)
  <2> DEFINE n == [l EXCEPT !.pc = "notify"]
             row == TaskAfterSave(l)
  <2>1. n.pc \notin KidStates
    BY <1>3 DEF Local, KidStates, SubCreatePcs, HoldingPcs
  <2>2. Goto(h, n) \/ Finish(h)
    BY <1>10 DEF SaveTaskWrite
  <2>3. task' = task \/ task' = [task EXCEPT ![l.task] = row]
    BY <1>10 DEF SaveTaskWrite
  <2>4. l.pc = "task.write"
    BY <1>10 DEF SaveTaskWrite, At
  <2>5. task[l.task] # Null => row # Null
    BY <1>3, <2>4, RowKept
  <2>6. ParentsKept
    BY <2>3, <2>5 DEF ParentsKept, TInv, TypeOK
  <2>7. QED
    BY <1>1, <1>2, <1>4, <2>1, <2>2, <2>6, FinishKid
<1>11. CASE Notify(h)
  BY <1>2, <1>11, FinishKid DEF Notify, ParentsKept
<1>12. CASE Fail(h)
  BY <1>2, <1>12, FinishKid DEF Fail, ParentsKept, tables
<1>14. QED
  BY <1>5, <1>6, <1>7, <1>8, <1>9, <1>10, <1>11, <1>12, <1>13

(* The steps of TasksService and TaskMoveService that write subtasks. *)
LEMMA RemoveWriteKid ==
  ASSUME TInv, KidInv, SubtaskHasParent, NEW h \in Handlers, RemoveWrite(h)
  PROVE  KidInv' /\ SubtaskHasParent'
<1> DEFINE t == loc[h].task
<1>1. t \in Tasks
  BY AtAwait DEF RemoveWrite, At, WellFormed, NeedsTask, Pcs, CreatePcs
<1>2. \A s \in Subtasks : sub'[s] = IF s \in Children(t) THEN Null ELSE sub[s]
  BY DEF RemoveWrite, WithoutChildren
<1>3. Narrowed
  BY <1>2 DEF Narrowed
<1>4. KidInv'
  BY <1>3, FinishKid DEF RemoveWrite
<1>5. \A u \in Tasks : u # t => task'[u] = task[u]
  BY DEF RemoveWrite, TInv, TypeOK
<1>6. ASSUME NEW s \in Subtasks, sub'[s] # Null PROVE task'[sub'[s].task] # Null
  <2>1. sub[s] \in SubRow /\ sub[s].task \in Tasks /\ sub[s].task # t /\ sub'[s] = sub[s]
    BY <1>2, <1>6 DEF Children, TInv, TypeOK, Orm, SubRow
  <2>2. QED
    BY <1>5, <2>1, StoreAssumption DEF SubtaskHasParent
<1>7. QED
  BY <1>4, <1>6 DEF SubtaskHasParent

LEMMA MoveWriteKid ==
  ASSUME TInv, KidInv, NEW h \in Handlers, MoveWrite(h)
  PROVE  KidInv' /\ Narrowed /\ ParentsKept
<1> DEFINE l == loc[h]
<1>1. l \in Local /\ WellFormed(l) /\ l.pc = "move.write"
  BY AtAwait DEF MoveWrite, At
<1>2. sub' = sub \/ sub' = Carried(l.kids, l.project)
  BY DEF MoveWrite
<1>3. Narrowed
  <2>1. ASSUME NEW s \in Subtasks, sub[s] # Null
        PROVE  [sub[s] EXCEPT !.project = l.project].task = sub[s].task
    BY <2>1 DEF TInv, TypeOK, Orm, SubRow
  <2>2. QED
    BY <1>2, <2>1 DEF Narrowed, Carried
<1>4. KidInv'
  BY <1>3, FinishKid DEF MoveWrite
<1>5. task' = task \/ task' = [task EXCEPT ![l.task] = TaskAfterSave(l)]
  BY DEF MoveWrite
<1>6. task[l.task] # Null => TaskAfterSave(l) # Null
  BY <1>1, RowKept
<1>7. ParentsKept
  BY <1>5, <1>6 DEF ParentsKept, TInv, TypeOK
<1>8. QED
  BY <1>3, <1>4, <1>7

(* No subtask appears and no parent goes away: no orphan. *)
LEMMA NarrowedParent ==
  ASSUME TInv, SubtaskHasParent, Narrowed, ParentsKept
  PROVE  SubtaskHasParent'
<1>1. ASSUME NEW s \in Subtasks, sub'[s] # Null PROVE task'[sub'[s].task] # Null
  <2>1. sub[s] # Null /\ sub'[s].task = sub[s].task
    BY <1>1 DEF Narrowed
  <2>2. sub[s].task \in Tasks
    BY <2>1 DEF TInv, TypeOK, Orm, SubRow
  <2>3. QED
    BY <2>1, <2>2 DEF SubtaskHasParent, ParentsKept
<1>2. QED
  BY <1>1 DEF SubtaskHasParent

(* The steps of SubtasksService that do not write. *)
LEMMA SubReadsKid ==
  ASSUME TInv, KidInv, NEW h \in Handlers,
         \/ SubCreateCheck(h)
         \/ SubUpdateFind(h)
         \/ SubUpdateCheck(h)
         \/ SaveSubRead(h)
         \/ SubRemoveFind(h)
  PROVE  KidInv' /\ task' = task /\ sub' = sub
<1> DEFINE l == loc[h]
<1>l. l \in Local /\ WellFormed(l)
  BY AtAwait
<1>1. task' = task /\ sub' = sub
  BY DEF SubCreateCheck, SubUpdateFind, SubUpdateCheck, SaveSubRead, SubRemoveFind, tables
<1>2. Narrowed
  BY <1>1, SameSubs
<1>3. CASE SubCreateCheck(h)
  <2> DEFINE n == [l EXCEPT !.pc = "subCreate.insert"]
  <2>1. l.pc = "subCreate.check" /\ (Goto(h, n) \/ Finish(h))
    BY <1>3 DEF SubCreateCheck, At
  <2>2. CreatesOwn(l)
    BY DEF KidInv
  <2>3. n.pc = "subCreate.insert" /\ n.kid.task = n.task
    BY <1>l, <2>1, <2>2 DEF Local, CreatesOwn, SubCreatePcs
  <2> HIDE DEF n
  <2>4. CreatesOwn(n) /\ ReadOwn(n) /\ Knows(n, sub') /\ \A g \in Handlers : Agree(n, loc[g])
    BY <2>3 DEF CreatesOwn, ReadOwn, Knows, Agree, HoldingPcs
  <2>5. CASE Goto(h, n)
    BY <1>1, <1>2, <2>4, <2>5, KnowsNarrowed, KidStep DEF Goto
  <2>6. QED
    BY <1>1, <1>2, <2>1, <2>5, FinishKid
<1>4. CASE SubUpdateFind(h)
  <2> DEFINE doneChanged == l.done # Null /\ l.done # sub[l.sub].done
             pc == IF doneChanged THEN "subUpdate.check" ELSE "sub.save"
             n == [l EXCEPT !.pc = pc, !.kid = sub[l.sub]]
  <2>1. CASE FindInTask(l.task, l.sub)
    <3>1. Goto(h, n)
      BY <1>4, <2>1 DEF SubUpdateFind
    <3>2. n.pc \in {"subUpdate.check", "sub.save"} /\ n.sub = l.sub /\ n.kid = sub[l.sub]
      BY <1>l DEF Local
    <3>3. sub[l.sub] # Null
      BY <2>1 DEF FindInTask, Children
    <3> HIDE DEF n
    <3>4. CreatesOwn(n) /\ ReadOwn(n) /\ Knows(n, sub')
      BY <1>1, <3>2 DEF CreatesOwn, ReadOwn, Knows, SubCreatePcs
    <3>5. ASSUME NEW g \in Handlers PROVE Agree(n, loc[g])
      <4>1. Knows(loc[g], sub)
        BY DEF KidInv
      <4>2. QED
        BY <3>2, <3>3, <4>1 DEF Agree, Knows
    <3>6. QED
      BY <1>1, <1>2, <3>1, <3>4, <3>5, KnowsNarrowed, KidStep DEF Goto
  <2>2. CASE ~FindInTask(l.task, l.sub)
    BY <1>1, <1>2, <1>4, <2>2, FinishKid DEF SubUpdateFind
  <2>3. QED
    BY <2>1, <2>2
<1>5. CASE SubUpdateCheck(h)
  <2> DEFINE k == [l.kid EXCEPT !.done = l.done]
             n == [l EXCEPT !.pc = "sub.save", !.kid = k]
  <2>1. l.pc = "subUpdate.check" /\ (Goto(h, n) \/ Finish(h))
    BY <1>5 DEF SubUpdateCheck, At
  <2>2. l.kid \in SubRow
    BY <1>l, <2>1 DEF WellFormed, NeedsKid, HoldingPcs
  <2>3. k.task = l.kid.task
    BY <2>2 DEF SubRow
  <2> HIDE DEF k
  <2>4. n.pc = "sub.save" /\ n.sub = l.sub /\ n.kid = k
    BY <1>l DEF Local
  <2> HIDE DEF n
  <2>5. CASE Goto(h, n)
    <3>1. l.pc \in HoldingPcs /\ n.pc \in HoldingPcs /\ ReadOwn(n)
      BY <2>1, <2>4 DEF HoldingPcs, ReadOwn
    <3>2. loc' = [loc EXCEPT ![h] = n] /\ n.kid.task = l.kid.task
      BY <2>3, <2>4, <2>5 DEF Goto
    <3>3. KidInv'
      BY <1>2, <2>4, <3>1, <3>2, KidHeld
    <3>4. QED
      BY <1>1, <3>3
  <2>6. QED
    BY <1>1, <1>2, <2>1, <2>5, FinishKid
<1>6. CASE SaveSubRead(h)
  <2> DEFINE old == sub[l.sub]
             n == [l EXCEPT !.pc = "sub.write", !.old = old]
  <2>1. l.pc = "sub.save" /\ Goto(h, n)
    BY <1>6 DEF SaveSubRead, At
  <2> HIDE DEF old
  <2>2. n.pc = "sub.write" /\ n.sub = l.sub /\ n.kid = l.kid /\ n.old = old
    BY <1>l DEF Local
  <2>3. Knows(l, sub)
    BY DEF KidInv
  <2> HIDE DEF n
  <2>4. ReadOwn(n)
    BY <2>1, <2>2, <2>3 DEF ReadOwn, Knows, HoldingPcs, old
  <2>5. QED
    <3>1. l.pc \in HoldingPcs /\ n.pc \in HoldingPcs
      BY <2>1, <2>2 DEF HoldingPcs
    <3>2. loc' = [loc EXCEPT ![h] = n]
      BY <2>1 DEF Goto
    <3>3. KidInv'
      BY <1>2, <2>2, <2>4, <3>1, <3>2, KidHeld
    <3>4. QED
      BY <1>1, <3>3
<1>7. CASE SubRemoveFind(h)
  <2> DEFINE n == [l EXCEPT !.pc = "subRemove.write"]
  <2>1. n.pc \notin KidStates
    BY <1>l DEF Local, KidStates, SubCreatePcs, HoldingPcs
  <2>2. Goto(h, n) \/ Finish(h)
    BY <1>7 DEF SubRemoveFind
  <2>3. CASE Goto(h, n)
    BY <1>1, <1>2, <2>1, <2>3, KidFree DEF Goto
  <2>4. QED
    BY <1>1, <1>2, <2>2, <2>3, FinishKid
<1>8. QED
  BY <1>3, <1>4, <1>5, <1>6, <1>7

LEMMA SubCreateInsertKid ==
  ASSUME TInv, KidInv, SubtaskHasParent, NEW h \in Handlers, NEW s \in Subtasks,
         SubCreateInsert(h, s)
  PROVE  KidInv' /\ SubtaskHasParent'
<1> DEFINE l == loc[h]
           n == [l EXCEPT !.pc = "notify"]
<1>1. l \in Local /\ WellFormed(l) /\ l.pc = "subCreate.insert"
  BY AtAwait DEF SubCreateInsert, At
<1>2. n.pc \notin KidStates
  BY <1>1 DEF Local, KidStates, SubCreatePcs, HoldingPcs
<1>3. task' = task
  BY DEF SubCreateInsert
<1>4. CASE ParentExists(l.task)
  <2>1. sub' = [sub EXCEPT ![s] = l.kid] /\ loc' = [loc EXCEPT ![h] = n]
    BY <1>4 DEF SubCreateInsert, Goto
  <2>2. \A u \in Subtasks : sub'[u] = IF u = s THEN l.kid ELSE sub[u]
    BY <2>1 DEF TInv, TypeOK
  <2>3. l.kid.task = l.task
    BY <1>1 DEF KidInv, CreatesOwn, SubCreatePcs
  <2>4. SubtaskHasParent'
    BY <1>3, <1>4, <2>2, <2>3 DEF SubtaskHasParent, ParentExists
  <2>5. \A g \in Handlers : Knows(loc[g], sub')
    <3>1. \A g \in Handlers : loc[g].sub # s
      BY DEF SubCreateInsert, UnusedSubId
    <3>2. \A g \in Handlers : loc[g].pc \in HoldingPcs => loc[g].sub \in Subtasks
      BY AtAwait DEF WellFormed, NeedsSub, SubUpdatePcs
    <3>3. QED
      BY <2>2, <3>1, <3>2 DEF KidInv, Knows
  <2>6. CreatesOwn(n) /\ ReadOwn(n) /\ Knows(n, sub') /\ \A g \in Handlers : Agree(n, loc[g])
    <3> HIDE DEF n
    <3>1. QED
      BY <1>2 DEF KidStates, CreatesOwn, ReadOwn, Knows, Agree, HoldingPcs
  <2>7. KidInv'
    <3> HIDE DEF n
    <3>1. QED
      BY <2>1, <2>5, <2>6, KidStep
  <2>8. QED
    BY <2>4, <2>7
<1>5. CASE ~ParentExists(l.task)
  <2>1. sub' = sub /\ Finish(h)
    BY <1>5 DEF SubCreateInsert
  <2>2. QED
    BY <1>3, <2>1, SameSubs, FinishKid, NarrowedParent DEF ParentsKept
<1>6. QED
  BY <1>4, <1>5

LEMMA SubRemoveWriteKid ==
  ASSUME TInv, KidInv, SubtaskHasParent, NEW h \in Handlers, SubRemoveWrite(h)
  PROVE  KidInv' /\ SubtaskHasParent'
<1>1. Narrowed
  BY DEF SubRemoveWrite, Narrowed, TInv, TypeOK
<1>2. task' = task /\ Finish(h)
  BY DEF SubRemoveWrite
<1>3. QED
  BY <1>1, <1>2, FinishKid, NarrowedParent DEF ParentsKept

(* The row a save of a subtask leaves names the parent the entity names:     *)
(* the INSERT because the foreign key has just been checked for it, the      *)
(* UPDATE because the row already named it.                                  *)
LEMMA SaveSubWriteKid ==
  ASSUME TInv, KidInv, SubtaskHasParent, NEW h \in Handlers, SaveSubWrite(h)
  PROVE  KidInv' /\ SubtaskHasParent'
<1> DEFINE l == loc[h]
           s == l.sub
           n == [l EXCEPT !.pc = "notify"]
           row == IF l.old = Null THEN l.kid
                  ELSE IF sub[s] = Null THEN Null
                  ELSE SavedSub(sub[s], l.kid, l.old)
           refused == l.old = Null /\ (sub[s] # Null \/ ~ParentExists(l.kid.task))
<1>1. l \in Local /\ WellFormed(l) /\ l.pc = "sub.write"
  BY AtAwait DEF SaveSubWrite, At
<1>2. l.kid \in SubRow /\ s \in Subtasks /\ l.old \in Orm(SubRow)
  BY <1>1 DEF WellFormed, NeedsKid, NeedsSub, SubUpdatePcs, HoldingPcs
<1>3. n.pc \notin KidStates
  BY <1>1 DEF Local, KidStates, SubCreatePcs, HoldingPcs
<1>4. task' = task
  BY DEF SaveSubWrite
<1>5. Knows(l, sub) /\ ReadOwn(l)
  BY DEF KidInv
<1>6. CASE refused
  <2>1. sub' = sub /\ Finish(h)
    BY <1>6 DEF SaveSubWrite
  <2>2. QED
    BY <1>4, <2>1, SameSubs, FinishKid, NarrowedParent DEF ParentsKept
<1>7. CASE ~refused
  <2>1. sub' = [sub EXCEPT ![s] = row] /\ loc' = [loc EXCEPT ![h] = n]
    BY <1>7 DEF SaveSubWrite, Goto
  <2>2. row # Null => row.task = l.kid.task
    <3>1. CASE l.old = Null
      BY <3>1
    <3>2. CASE l.old # Null /\ sub[s] # Null
      <4>1. sub[s].task = l.kid.task /\ l.old.task = l.kid.task
        BY <1>1, <1>5, <3>2 DEF Knows, ReadOwn, HoldingPcs
      <4>2. SavedSub(sub[s], l.kid, l.old).task = l.kid.task
        BY <4>1 DEF SavedSub, Changed
      <4>3. QED
        BY <3>2, <4>2
    <3>3. QED
      BY <3>1, <3>2
  <2>3. row # Null => task[l.kid.task] # Null
    <3>1. CASE l.old = Null
      BY <1>7, <3>1 DEF ParentExists
    <3>2. CASE l.old # Null /\ sub[s] # Null
      BY <1>1, <1>2, <1>5, <3>2 DEF Knows, HoldingPcs, SubtaskHasParent
    <3>3. QED
      BY <3>1, <3>2
  <2> HIDE DEF row, n
  <2>4. \A u \in Subtasks : sub'[u] = IF u = s THEN row ELSE sub[u]
    BY <2>1 DEF TInv, TypeOK
  <2>5. SubtaskHasParent'
    BY <1>4, <2>2, <2>3, <2>4 DEF SubtaskHasParent
  <2>6. ASSUME NEW g \in Handlers PROVE Knows(loc[g], sub')
    <3>1. loc[g].pc \in HoldingPcs => loc[g].sub \in Subtasks
      BY AtAwait DEF WellFormed, NeedsSub, SubUpdatePcs
    <3>2. Knows(loc[g], sub) /\ Agree(l, loc[g])
      BY DEF KidInv
    <3>3. CASE loc[g].sub = s
      BY <1>1, <1>2, <2>2, <2>4, <3>2, <3>3 DEF Knows, Agree, HoldingPcs
    <3>4. CASE loc[g].sub # s
      BY <2>4, <3>1, <3>2, <3>4 DEF Knows
    <3>5. QED
      BY <3>3, <3>4
  <2>7. CreatesOwn(n) /\ ReadOwn(n) /\ Knows(n, sub') /\ \A g \in Handlers : Agree(n, loc[g])
    BY <1>3 DEF KidStates, CreatesOwn, ReadOwn, Knows, Agree, HoldingPcs
  <2>8. KidInv'
    BY <2>1, <2>6, <2>7, KidStep
  <2>9. QED
    BY <2>5, <2>8
<1>8. QED
  BY <1>6, <1>7

KInv == TInv /\ KidInv /\ SubtaskHasParent

LEMMA InitKInv == ASSUME Init PROVE KInv
<1>1. PICK d \in Seeds : task = d.task /\ sub = d.sub
  BY DEF Init
<1>2. Consistent(d)
  BY StoreAssumption
<1>3. SubtaskHasParent
  BY <1>1, <1>2 DEF SubtaskHasParent, Consistent
<1>4. \A h \in Handlers : loc[h].pc = "idle"
  BY DEF Init, Idle
<1>5. KidInv
  BY <1>4 DEF KidInv, CreatesOwn, ReadOwn, Knows, Agree, SubCreatePcs, HoldingPcs
<1>6. QED
  BY <1>3, <1>5, InitTInv DEF KInv

LEMMA NextKInv == ASSUME KInv, [Next]_vars PROVE KInv'
<1> USE DEF KInv
<1>1. ASSUME NEW h \in Handlers, Request(h) PROVE KidInv' /\ SubtaskHasParent'
  BY <1>1, RequestKid, SameSubs, NarrowedParent DEF ParentsKept
<1>2. ASSUME NEW h \in Handlers, Continue(h) PROVE KidInv' /\ SubtaskHasParent'
  <2>1. CASE RemoveWrite(h) \/ SubRemoveWrite(h) \/ SaveSubWrite(h)
             \/ \E s \in Subtasks : SubCreateInsert(h, s)
    BY <2>1, RemoveWriteKid, SubRemoveWriteKid, SaveSubWriteKid, SubCreateInsertKid
  <2>2. CASE MoveWrite(h)
    BY <2>2, MoveWriteKid, NarrowedParent
  <2>3. CASE \/ SubCreateCheck(h)
             \/ SubUpdateFind(h)
             \/ SubUpdateCheck(h)
             \/ SaveSubRead(h)
             \/ SubRemoveFind(h)
    BY <2>3, SubReadsKid, SameSubs, NarrowedParent DEF ParentsKept
  <2>4. CASE \/ CreateResolve(h)
             \/ \E t \in Tasks : CreateInsert(h, t)
             \/ UpdateCheck(h)
             \/ UpdateCount(h)
         \/ UpdateCount(h)
             \/ UpdateResolve(h)
             \/ SaveTaskRead(h)
             \/ SaveTaskWrite(h)
             \/ Notify(h)
             \/ Fail(h)
    BY <2>4, TaskStepsKid, SameSubs, NarrowedParent
  <2>5. QED
    BY <1>2, <2>1, <2>2, <2>3, <2>4 DEF Continue
<1>3. ASSUME UNCHANGED <<task, sub, loc>> PROVE KidInv' /\ SubtaskHasParent'
  BY <1>3 DEF KidInv, CreatesOwn, ReadOwn, Knows, Agree, SubtaskHasParent
<1>4. KidInv' /\ SubtaskHasParent'
  BY <1>1, <1>2, <1>3 DEF Next, Quiescent, SetStatusKind, vars, tables
<1>5. QED
  BY <1>4, NextTInv

(* No interleaving of creates, saves, moves and removals leaves a subtask    *)
(* without its parent row.                                                   *)
THEOREM SubtaskHasParentAlways == Spec => []SubtaskHasParent
<1>1. Init => KInv
  BY InitKInv
<1>2. KInv /\ [Next]_vars => KInv'
  BY NextKInv
<1>3. KInv => SubtaskHasParent
  BY DEF KInv
<1>4. QED
  BY <1>1, <1>2, <1>3, PTL DEF Spec

---------------------------------------------------------------------------
(* TaskStore implements TaskBoard: a step that writes a task is Take or    *)
(* Leave, one that writes a subtask is Attach or Detach, and every other   *)
(* step, a refused write among them, leaves the board as it is.  The       *)
(* invariants above say that a save never empties a place and never hangs  *)
(* a subtask elsewhere.                                                    *)

BoardStep == [Board!BoardNext]_(Board!board)

LEMMA PlaceOK ==
  ASSUME NEW row \in TaskRow
  PROVE  /\ PlaceOf(row) \in Place
         /\ PlaceOf(row) # Null
         /\ PlaceOf(row).project = row.project
         /\ PlaceOf(row).seq = row.seq
<1>1. row # Null
  BY StoreAssumption
<1>2. PlaceOf(row) = [project |-> row.project, seq |-> row.seq]
  BY <1>1 DEF PlaceOf
<1>3. PlaceOf(row) \in Place
  BY <1>2 DEF Place, TaskRow
<1>4. QED
  BY <1>2, <1>3, StoreAssumption

LEMMA ParentOK ==
  ASSUME NEW row \in SubRow
  PROVE  ParentOf(row) = row.task /\ row.task \in Tasks /\ row.task # Null
BY StoreAssumption DEF ParentOf, SubRow

(* The board is where it was. *)
LEMMA StutterStep ==
  ASSUME TInv,
         \A t \in Tasks : PlaceOf(task'[t]) = PlaceOf(task[t]),
         \A s \in Subtasks : ParentOf(sub'[s]) = ParentOf(sub[s])
  PROVE  BoardStep
BY DEF BoardStep, Board!board

(* The row of one task is written at a place no other holds. *)
LEMMA TakeStep ==
  ASSUME TInv, NEW t \in Tasks, NEW row \in TaskRow,
         task' = [task EXCEPT ![t] = row],
         SeqFree(row.project, row.seq, t),
         \A s \in Subtasks : ParentOf(sub'[s]) = ParentOf(sub[s])
  PROVE  BoardStep
<1> DEFINE p == PlaceOf(row)
<1>1. \A u \in Tasks : task'[u] = IF u = t THEN row ELSE task[u]
  BY DEF TInv, TypeOK
<1>2. p \in Place /\ p # Null /\ p.project = row.project /\ p.seq = row.seq
  BY PlaceOK
<1>3. ASSUME NEW u \in Tasks, u # t PROVE PlaceOf(task[u]) # p
  <2>1. CASE task[u] = Null
    BY <1>2, <2>1 DEF PlaceOf
  <2>2. CASE task[u] # Null
    <3>1. task[u] \in TaskRow
      BY <2>2 DEF TInv, TypeOK, Orm
    <3>2. /\ PlaceOf(task[u]).project = task[u].project
          /\ PlaceOf(task[u]).seq = task[u].seq
      BY <3>1, PlaceOK
    <3>3. task[u].project = row.project => task[u].seq # row.seq
      BY <1>3, <2>2 DEF SeqFree, TasksOf
    <3>4. QED
      BY <1>2, <3>2, <3>3
  <2>3. QED
    BY <2>1, <2>2
<1>4. CASE PlaceOf(task[t]) = p
  BY <1>1, <1>4, StutterStep
<1>5. CASE PlaceOf(task[t]) # p
  <2>1. \A u \in Tasks : PlaceOf(task[u]) # p
    BY <1>3, <1>5
  <2>2. [u \in Tasks |-> PlaceOf(task'[u])]
           = [[u \in Tasks |-> PlaceOf(task[u])] EXCEPT ![t] = p]
    <3>1. \A u \in Tasks : PlaceOf(task'[u]) = IF u = t THEN p ELSE PlaceOf(task[u])
      BY <1>1
    <3> HIDE DEF p
    <3>2. QED
      BY <3>1
  <2>3. [s \in Subtasks |-> ParentOf(sub'[s])] = [s \in Subtasks |-> ParentOf(sub[s])]
    OBVIOUS
  <2> HIDE DEF p
  <2>4. Board!Take(t, p)
    BY <2>1, <2>2, <2>3 DEF Board!Take
  <2>5. QED
    BY <1>2, <2>4 DEF BoardStep, Board!BoardNext
<1>6. QED
  BY <1>4, <1>5

(* A task goes and ON DELETE CASCADE takes its subtasks. *)
LEMMA LeaveStep ==
  ASSUME TInv, SubtaskHasParent, NEW h \in Handlers, RemoveWrite(h)
  PROVE  BoardStep
<1> DEFINE t == loc[h].task
<1>1. t \in Tasks
  BY AtAwait DEF RemoveWrite, At, WellFormed, NeedsTask, Pcs, CreatePcs
<1>2. \A u \in Tasks : task'[u] = IF u = t THEN Null ELSE task[u]
  BY <1>1 DEF RemoveWrite, TInv, TypeOK
<1>3. \A s \in Subtasks : sub'[s] = IF sub[s] # Null /\ sub[s].task = t THEN Null ELSE sub[s]
  BY DEF RemoveWrite, WithoutChildren, Children
<1>4. \A s \in Subtasks : ParentOf(sub'[s]) = IF ParentOf(sub[s]) = t THEN Null
                                              ELSE ParentOf(sub[s])
  BY <1>1, <1>3, StoreAssumption DEF ParentOf
<1> HIDE DEF t
<1>5. CASE task[t] = Null
  <2>1. \A s \in Subtasks : ParentOf(sub[s]) # t
    BY <1>1, <1>5, StoreAssumption DEF SubtaskHasParent, ParentOf
  <2>2. QED
    BY <1>2, <1>4, <1>5, <2>1, StutterStep
<1>6. CASE task[t] # Null
  <2>1. PlaceOf(task[t]) # Null
    BY <1>1, <1>6, PlaceOK DEF TInv, TypeOK, Orm
  <2>2. [u \in Tasks |-> PlaceOf(task'[u])]
           = [[u \in Tasks |-> PlaceOf(task[u])] EXCEPT ![t] = Null]
    BY <1>2 DEF PlaceOf
  <2>3. [s \in Subtasks |-> ParentOf(sub'[s])]
           = [s \in Subtasks |-> IF [r \in Subtasks |-> ParentOf(sub[r])][s] = t THEN Null
                                 ELSE [r \in Subtasks |-> ParentOf(sub[r])][s]]
    BY <1>4
  <2>4. Board!Leave(t)
    BY <1>1, <2>1, <2>2, <2>3 DEF Board!Leave, Board!OnBoard
  <2>5. QED
    BY <1>1, <2>4 DEF BoardStep, Board!BoardNext
<1>7. QED
  BY <1>5, <1>6

(* One subtask appears on a task of the board, goes, or stays where it was. *)
LEMMA SubStep ==
  ASSUME TInv, NEW s \in Subtasks, NEW row \in Orm(SubRow),
         task' = task,
         sub' = [sub EXCEPT ![s] = row],
         row # Null => task[row.task] # Null,
         row # Null /\ sub[s] # Null => row.task = sub[s].task
  PROVE  BoardStep
<1>1. \A r \in Subtasks : sub'[r] = IF r = s THEN row ELSE sub[r]
  BY DEF TInv, TypeOK
<1>2. sub[s] \in Orm(SubRow)
  BY DEF TInv, TypeOK
<1>3. [t \in Tasks |-> PlaceOf(task'[t])] = [t \in Tasks |-> PlaceOf(task[t])]
  OBVIOUS
<1>4. [r \in Subtasks |-> ParentOf(sub'[r])]
         = [[r \in Subtasks |-> ParentOf(sub[r])] EXCEPT ![s] = ParentOf(row)]
  <2>1. \A r \in Subtasks : ParentOf(sub'[r]) = IF r = s THEN ParentOf(row)
                                                 ELSE ParentOf(sub[r])
    BY <1>1
  <2> DEFINE new == ParentOf(row)
  <2> HIDE DEF new
  <2>2. [r \in Subtasks |-> ParentOf(sub'[r])]
           = [[r \in Subtasks |-> ParentOf(sub[r])] EXCEPT ![s] = new]
    BY <2>1 DEF new
  <2>3. QED
    BY <2>2 DEF new
<1>5. CASE row = Null /\ sub[s] = Null
  BY <1>1, <1>5, StutterStep
<1>6. CASE row # Null /\ sub[s] # Null
  <2>1. ParentOf(row) = ParentOf(sub[s])
    BY <1>6 DEF ParentOf
  <2>2. QED
    BY <1>1, <2>1, StutterStep
<1>7. CASE row = Null /\ sub[s] # Null
  <2>1. ParentOf(sub[s]) # Null
    BY <1>2, <1>7, ParentOK DEF Orm
  <2>2. ParentOf(row) = Null
    BY <1>7 DEF ParentOf
  <2>3. Board!Detach(s)
    BY <1>3, <1>4, <2>1, <2>2 DEF Board!Detach
  <2>4. QED
    BY <2>3 DEF BoardStep, Board!BoardNext
<1>8. CASE row # Null /\ sub[s] = Null
  <2>1. ParentOf(row) \in Tasks /\ ParentOf(row) = row.task
    BY <1>8, ParentOK DEF Orm
  <2>2. task[ParentOf(row)] # Null /\ task[ParentOf(row)] \in Orm(TaskRow)
    BY <1>8, <2>1 DEF TInv, TypeOK
  <2>3. PlaceOf(task[ParentOf(row)]) # Null
    BY <2>2, PlaceOK DEF Orm
  <2>4. ParentOf(sub[s]) = Null
    BY <1>8 DEF ParentOf
  <2>5. Board!Attach(s, ParentOf(row))
    BY <1>3, <1>4, <2>1, <2>3, <2>4 DEF Board!Attach, Board!OnBoard
  <2>6. QED
    BY <2>1, <2>5 DEF BoardStep, Board!BoardNext
<1>9. QED
  BY <1>5, <1>6, <1>7, <1>8

---------------------------------------------------------------------------
(* The steps of the store *)

LEMMA CreateStep ==
  ASSUME KInv, NEW h \in Handlers, NEW t \in Tasks, CreateInsert(h, t)
  PROVE  BoardStep
<1>1. TInv /\ sub' = sub
  BY DEF KInv, CreateInsert
<1>2. loc[h].ent \in TaskRow
  BY <1>1, AtAwait DEF CreateInsert, At, WellFormed, NeedsEnt, CreatePcs
<1>3. \/ task' = task
      \/ /\ task' = [task EXCEPT ![t] = loc[h].ent]
         /\ SeqFree(loc[h].ent.project, loc[h].ent.seq, t)
  BY DEF CreateInsert
<1>4. CASE task' = task
  BY <1>1, <1>4, StutterStep
<1>5. CASE /\ task' = [task EXCEPT ![t] = loc[h].ent]
           /\ SeqFree(loc[h].ent.project, loc[h].ent.seq, t)
  BY <1>1, <1>2, <1>5, TakeStep
<1>6. QED
  BY <1>3, <1>4, <1>5

(* A save or a move: a row that is there keeps being there; when an UPDATE   *)
(* finds none, none is there afterwards either.                              *)
LEMMA SaveStep ==
  ASSUME KInv, NEW h \in Handlers, SaveTaskWrite(h) \/ MoveWrite(h)
  PROVE  BoardStep
<1> DEFINE l == loc[h]
           row == TaskAfterSave(l)
<1>1. TInv
  BY DEF KInv
<1>2. l \in Local /\ WellFormed(l) /\ l.pc \in {"task.write", "move.write"}
  BY <1>1, AtAwait DEF SaveTaskWrite, MoveWrite, At
<1>3. l.task \in Tasks /\ l.ent \in TaskRow /\ l.old \in Orm(TaskRow)
  BY <1>2 DEF WellFormed, NeedsEnt, NeedsTask, Pcs, SavePcs, CreatePcs, Orm
<1>4. row \in Orm(TaskRow)
  BY <1>1, <1>2, <1>3, TaskAfterSaveOK
<1>5. task[l.task] # Null => row # Null
  BY <1>1, <1>2, RowKept
<1>6. \A s \in Subtasks : ParentOf(sub'[s]) = ParentOf(sub[s])
  <2>1. sub' = sub \/ (l.pc = "move.write" /\ sub' = Carried(l.kids, l.project))
    BY DEF SaveTaskWrite, MoveWrite, At
  <2>2. ASSUME NEW s \in Subtasks, l.pc = "move.write", sub' = Carried(l.kids, l.project)
        PROVE  ParentOf(sub'[s]) = ParentOf(sub[s])
    <3>1. CASE sub[s] = Null
      BY <2>2, <3>1 DEF Carried
    <3>2. CASE sub[s] # Null
      <4>1. sub[s] \in SubRow
        BY <1>1, <3>2 DEF TInv, TypeOK, Orm
      <4>2. [sub[s] EXCEPT !.project = l.project].task = sub[s].task
        BY <4>1 DEF SubRow
      <4>3. [sub[s] EXCEPT !.project = l.project] \in SubRow
        BY <1>2, <4>1, <2>2 DEF SubRow, WellFormed, NeedsProject
      <4>4. sub'[s] \in SubRow /\ sub'[s].task = sub[s].task
        BY <2>2, <4>1, <4>2, <4>3 DEF Carried
      <4>5. QED
        BY <4>1, <4>4, ParentOK
    <3>3. QED
      BY <3>1, <3>2
  <2>3. QED
    BY <2>1, <2>2
<1>7. \/ task' = task
      \/ /\ task' = [task EXCEPT ![l.task] = row]
         /\ row # Null => SeqFree(row.project, row.seq, l.task)
  BY DEF SaveTaskWrite, MoveWrite
<1> HIDE DEF row
<1>8. CASE task' = task
  BY <1>1, <1>6, <1>8, StutterStep
<1>9. CASE /\ task' = [task EXCEPT ![l.task] = row]
           /\ row # Null => SeqFree(row.project, row.seq, l.task)
  <2>1. CASE row = Null
    <3>1. task' = task
      BY <1>1, <1>5, <1>9, <2>1 DEF TInv, TypeOK
    <3>2. QED
      BY <1>1, <1>6, <3>1, StutterStep
  <2>2. CASE row # Null
    <3>1. row \in TaskRow
      BY <1>4, <2>2 DEF Orm
    <3>2. QED
      BY <1>1, <1>3, <1>6, <1>9, <2>2, <3>1, TakeStep
  <2>3. QED
    BY <2>1, <2>2
<1>10. QED
  BY <1>7, <1>8, <1>9

LEMMA SubtaskSteps ==
  ASSUME KInv, NEW h \in Handlers,
         SaveSubWrite(h) \/ SubRemoveWrite(h) \/ \E s \in Subtasks : SubCreateInsert(h, s)
  PROVE  BoardStep
<1> DEFINE l == loc[h]
<1>1. TInv /\ KidInv /\ SubtaskHasParent /\ task' = task
  BY DEF KInv, SaveSubWrite, SubRemoveWrite, SubCreateInsert
<1>2. l \in Local /\ WellFormed(l)
  BY <1>1, AtAwait
<1>3. CASE sub' = sub
  BY <1>1, <1>3, StutterStep
<1>4. ASSUME NEW s \in Subtasks, SubCreateInsert(h, s), sub' # sub PROVE BoardStep
  <2>1. l.pc = "subCreate.insert"
    BY <1>4 DEF SubCreateInsert, At
  <2>2. l.kid \in SubRow /\ l.kid.task = l.task
    BY <1>1, <1>2, <2>1 DEF KidInv, CreatesOwn, SubCreatePcs, WellFormed, NeedsKid
  <2>3. sub' = [sub EXCEPT ![s] = l.kid] /\ sub[s] = Null /\ task[l.task] # Null
    BY <1>4 DEF SubCreateInsert, UnusedSubId, ParentExists
  <2>4. QED
    BY <1>1, <2>2, <2>3, SubStep DEF Orm
<1>5. ASSUME SubRemoveWrite(h) PROVE BoardStep
  <2>1. l.sub \in Subtasks
    BY <1>2, <1>5 DEF SubRemoveWrite, At, WellFormed, NeedsSub, SubRemovePcs
  <2>2. sub' = [sub EXCEPT ![l.sub] = Null]
    BY <1>5 DEF SubRemoveWrite
  <2>3. QED
    BY <1>1, <2>1, <2>2, SubStep DEF Orm
<1>6. ASSUME SaveSubWrite(h), sub' # sub PROVE BoardStep
  <2> DEFINE s == l.sub
             row == IF l.old = Null THEN l.kid
                    ELSE IF sub[s] = Null THEN Null
                    ELSE SavedSub(sub[s], l.kid, l.old)
  <2>1. l.pc = "sub.write"
    BY <1>6 DEF SaveSubWrite, At
  <2>2. l.kid \in SubRow /\ s \in Subtasks /\ l.old \in Orm(SubRow)
    BY <1>2, <2>1 DEF WellFormed, NeedsKid, NeedsSub, SubUpdatePcs, HoldingPcs
  <2>3. /\ sub' = [sub EXCEPT ![s] = row]
        /\ l.old = Null => sub[s] = Null /\ task[l.kid.task] # Null
    BY <1>6 DEF SaveSubWrite, ParentExists
  <2>4. sub[s] # Null => sub[s] \in SubRow
    BY <1>1, <2>2 DEF TInv, TypeOK, Orm
  <2>5. CASE l.old = Null
    BY <1>1, <2>2, <2>3, <2>5, SubStep DEF Orm
  <2>6. CASE l.old # Null /\ sub[s] = Null
    BY <1>1, <2>2, <2>3, <2>6, SubStep DEF Orm
  <2>7. CASE l.old # Null /\ sub[s] # Null
    <3>1. sub[s].task = l.kid.task /\ l.old.task = l.kid.task
      BY <1>1, <2>1, <2>7 DEF KidInv, Knows, ReadOwn, HoldingPcs
    <3>2. l.old \in SubRow
      BY <2>2, <2>7 DEF Orm
    <3>3. SavedSub(sub[s], l.kid, l.old) \in SubRow
      BY <2>2, <2>4, <2>7, <3>2, SavedSubOK
    <3>4. SavedSub(sub[s], l.kid, l.old).task = sub[s].task
      BY <3>1 DEF SavedSub, Changed
    <3>5. task[sub[s].task] # Null
      BY <1>1, <2>2, <2>7 DEF SubtaskHasParent
    <3> DEFINE saved == SavedSub(sub[s], l.kid, l.old)
    <3>6. sub' = [sub EXCEPT ![s] = saved]
      BY <2>3, <2>7
    <3> HIDE DEF saved
    <3>7. saved \in Orm(SubRow) /\ saved.task = sub[s].task
      BY <3>3, <3>4 DEF saved, Orm
    <3>8. QED
      BY <1>1, <2>2, <3>5, <3>6, <3>7, SubStep
  <2>8. QED
    BY <2>5, <2>6, <2>7
<1>7. QED
  BY <1>3, <1>4, <1>5, <1>6

LEMMA StoreStep == ASSUME KInv, [Next]_vars PROVE BoardStep
<1>1. TInv /\ KidInv /\ SubtaskHasParent
  BY DEF KInv
<1>2. ASSUME task' = task, sub' = sub PROVE BoardStep
  BY <1>1, <1>2, StutterStep
<1>3. ASSUME NEW h \in Handlers, Request(h) PROVE BoardStep
  BY <1>1, <1>2, <1>3, RequestKid
<1>4. ASSUME NEW h \in Handlers, Continue(h) PROVE BoardStep
  <2>1. CASE \E t \in Tasks : CreateInsert(h, t)
    BY <2>1, CreateStep
  <2>2. CASE SaveTaskWrite(h) \/ MoveWrite(h)
    BY <2>2, SaveStep
  <2>3. CASE RemoveWrite(h)
    BY <1>1, <2>3, LeaveStep
  <2>4. CASE SaveSubWrite(h) \/ SubRemoveWrite(h) \/ \E s \in Subtasks : SubCreateInsert(h, s)
    BY <2>4, SubtaskSteps
  <2>5. CASE \/ CreateResolve(h) \/ UpdateCheck(h) \/ UpdateCount(h)
             \/ UpdateResolve(h) \/ SaveTaskRead(h) \/ SubCreateCheck(h) \/ SubUpdateFind(h)
             \/ SubUpdateCheck(h) \/ SaveSubRead(h) \/ SubRemoveFind(h)
             \/ Notify(h) \/ Fail(h)
    <3>1. task' = task /\ sub' = sub
      BY <2>5 DEF CreateResolve, UpdateCheck, UpdateCount, UpdateResolve, SaveTaskRead,
                  SubCreateCheck, SubUpdateFind, SubUpdateCheck, SaveSubRead, SubRemoveFind, Notify, Fail,
                  tables
    <3>2. QED
      BY <1>2, <3>1
  <2>6. QED
    BY <1>4, <2>1, <2>2, <2>3, <2>4, <2>5 DEF Continue
<1>5. QED
  BY <1>2, <1>3, <1>4 DEF Next, Quiescent, SetStatusKind, vars, tables

LEMMA StoreInit == ASSUME Init PROVE Board!BoardInit
<1>1. KInv /\ TInv
  BY InitKInv DEF KInv
<1>2. PICK d \in Seeds : task = d.task
  BY DEF Init
<1>3. Consistent(d)
  BY StoreAssumption
<1>4. \A t \in Tasks : /\ PlaceOf(task[t]) \in Place \cup {Null}
                       /\ PlaceOf(task[t]) # Null => task[t] # Null /\ task[t] \in TaskRow
  <2>1. ASSUME NEW t \in Tasks, task[t] = Null PROVE PlaceOf(task[t]) = Null
    BY <2>1 DEF PlaceOf
  <2>2. \A t \in Tasks : task[t] # Null => task[t] \in TaskRow
    BY <1>1 DEF TInv, TypeOK, Orm
  <2>3. QED
    BY <2>1, <2>2, PlaceOK
<1>5. \A s \in Subtasks : /\ ParentOf(sub[s]) \in Tasks \cup {Null}
                          /\ ParentOf(sub[s]) # Null => PlaceOf(task[ParentOf(sub[s])]) # Null
  <2> SUFFICES ASSUME NEW s \in Subtasks
               PROVE  /\ ParentOf(sub[s]) \in Tasks \cup {Null}
                      /\ ParentOf(sub[s]) # Null => PlaceOf(task[ParentOf(sub[s])]) # Null
    OBVIOUS
  <2>1. CASE sub[s] = Null
    BY <2>1 DEF ParentOf
  <2>2. CASE sub[s] # Null
    <3>1. sub[s] \in SubRow
      BY <1>1, <2>2 DEF TInv, TypeOK, Orm
    <3>2. ParentOf(sub[s]) = sub[s].task /\ sub[s].task \in Tasks
      BY <3>1, ParentOK
    <3>3. task[sub[s].task] \in TaskRow
      BY <1>1, <2>2, <3>2 DEF KInv, SubtaskHasParent, TInv, TypeOK, Orm
    <3>4. QED
      BY <3>2, <3>3, PlaceOK
  <2>3. QED
    BY <2>1, <2>2
<1>6. ASSUME NEW t \in Tasks, NEW u \in Tasks,
             PlaceOf(task[t]) # Null, PlaceOf(task[t]) = PlaceOf(task[u])
      PROVE  t = u
  <2>1. task[t] # Null /\ task[u] # Null /\ task[t] \in TaskRow /\ task[u] \in TaskRow
    <3>1. PlaceOf(task[u]) # Null
      BY <1>6
    <3>2. QED
      BY <1>4, <1>6, <3>1, Zenon
  <2>2. task[t].project = task[u].project /\ task[t].seq = task[u].seq
    BY <1>6, <2>1, PlaceOK
  <2>3. QED
    BY <1>2, <1>3, <2>1, <2>2 DEF Consistent
<1> DEFINE pl == [t \in Tasks |-> PlaceOf(task[t])]
           pa == [s \in Subtasks |-> ParentOf(sub[s])]
<1>7. pl \in [Tasks -> Place \cup {Null}] /\ pa \in [Subtasks -> Tasks \cup {Null}]
  BY <1>4, <1>5
<1>8. \A t \in Tasks, u \in Tasks : pl[t] # Null /\ pl[t] = pl[u] => t = u
  BY <1>6
<1>9. \A s \in Subtasks : pa[s] # Null => pl[pa[s]] # Null
  BY <1>5
<1>10. QED
  BY <1>7, <1>8, <1>9 DEF Board!BoardInit, Board!Orderly, Board!OnBoard

(* For any number of requests in flight, of tasks and of projects: whatever  *)
(* the handlers of tasks.service.ts, subtasks.service.ts and                 *)
(* task-move.service.ts interleave, the readers of the tables see the board. *)
THEOREM StoreImplementsBoard == Spec => ImplementsBoard
<1>1. Init => Board!BoardInit
  BY StoreInit
<1>2. KInv /\ [Next]_vars => [Board!BoardNext]_(Board!board)
  BY StoreStep DEF BoardStep
<1>3. Init => KInv
  BY InitKInv
<1>4. KInv /\ [Next]_vars => KInv'
  BY NextKInv
<1>5. QED
  BY <1>1, <1>2, <1>3, <1>4, PTL DEF Spec, ImplementsBoard, Board!BoardSpec

=============================================================================
