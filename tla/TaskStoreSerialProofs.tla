----------------------- MODULE TaskStoreSerialProofs -----------------------
(***************************************************************************)
(* What TaskStore promises beyond its schema while the server serves one   *)
(* request at a time, for every number of projects, tasks, subtasks,       *)
(* statuses and requests.                                                  *)
(*                                                                         *)
(* Between two awaits of its handler nobody else writes then, so what the  *)
(* handler has read is still in the tables: that is the invariant          *)
(* HoldsCurrent, and with it a save writes exactly the entity in memory.   *)
(* With two handlers none of it holds (run store_completion_race).         *)
(***************************************************************************)
EXTENDS TaskStoreProofs

OneAtATime == \E h : Handlers = {h}

(* Databases the program itself leaves: a subtask in the project of its      *)
(* task, completed_at set exactly with a terminal status.                    *)
SeedsPlaced ==
    \A d \in Seeds, s \in Subtasks :
        d.sub[s] # Null => d.sub[s].project = d.task[d.sub[s].task].project

SeedsCompleted ==
    \A d \in Seeds, t \in Tasks :
        d.task[t] # Null =>
            (d.task[t].completed <=> d.kind[d.task[t].project][d.task[t].status] = "terminal")

NoStatusMaster == "statusMaster" \notin Ops

---------------------------------------------------------------------------
(* The inductive invariants *)

(* The entity in memory is the row, or the row with the new status.          *)
SavesOwnRow(l) ==
    /\ task[l.task] # Null
    /\ l.ent.project = task[l.task].project
    /\ l.ent.seq = task[l.task].seq
    /\ l.to = Null => l.ent = task[l.task]
    /\ l.to # Null => l.ent.status = l.to
    /\ l.stamped => l.ent.completed

(* The entity in memory is the row with the new place and status.            *)
MovesOwnRow(l) ==
    /\ task[l.task] # Null
    /\ l.old = task[l.task]
    /\ l.kids = Children(l.task)
    /\ l.ent.project = l.project
    /\ l.stamped => l.ent.completed

HoldsCurrentTask(l) ==
    /\ l.pc \in CreatePcs => l.ent.project = l.project
    /\ l.pc \in UpdatePcs \cup SubCreatePcs \cup SubUpdatePcs =>
          task[l.task] = l.ent /\ l.ent.project = l.project
    /\ l.pc \in SavePcs => SavesOwnRow(l)
    /\ l.pc = "task.write" => l.old = task[l.task]
    /\ l.pc = "move.write" => MovesOwnRow(l)
    /\ l.pc = "notify" => /\ task[l.task] # Null
                          /\ task[l.task].project = l.ent.project
                          /\ task[l.task].seq = l.ent.seq

HoldsCurrentSub(l) ==
    /\ l.pc \in SubCreatePcs => l.kid.task = l.task /\ l.kid.project = l.project
    /\ l.pc \in HoldingPcs => /\ sub[l.sub] # Null
                              /\ sub[l.sub].task = l.task
                              /\ l.kid.task = l.task
                              /\ l.kid.project = sub[l.sub].project
    /\ l.pc = "sub.write" => l.old = sub[l.sub]

HoldsCurrent(l) == HoldsCurrentTask(l) /\ HoldsCurrentSub(l)

(* A note is about a task that is there or has been removed, so no task made *)
(* later takes its notes over.                                               *)
NotesHaveTasks == \A n \in notes : task[n.task] # Null \/ n.task \in removed

TablesAgree ==
    ChildInParentProject /\ NotificationResolves /\ NotesHaveTasks /\ TrailExplainsRow

SerialInv == TablesAgree /\ \A h \in Handlers : HoldsCurrent(loc[h])

(* completed_at of the entity a handler is about to write. *)
WritesCompletedAt(l) ==
    l.pc \in {"create.insert", "move.write"} \cup SavePcs =>
        (l.ent.completed <=> Terminal(l.ent.project, l.ent.status))

CompletedInv == CompletedAtTracksStatus /\ \A h \in Handlers : WritesCompletedAt(loc[h])

(* What the checks of a handler have found out is still so when it writes.   *)
ChecksHold(l) ==
    /\ l.pc \in {"update.resolve"} \cup SavePcs =>
          (l.to # Null /\ Terminal(l.ent.project, l.to) => ~Incomplete(l.task))
    /\ l.pc = "subCreate.insert" => ~ParentTerminal(l)
    /\ l.pc = "subUpdate.check" => l.kid = sub[l.sub]
    /\ l.pc \in {"sub.save", "sub.write"} =>
          l.kid.done \/ ~sub[l.sub].done \/ ~ParentTerminal(l)

ClosingInv == \A h \in Handlers : ChecksHold(loc[h])

---------------------------------------------------------------------------
(* How the invariants carry over a step *)

LEMMA SameTables ==
    ASSUME TablesAgree, UNCHANGED tables
    PROVE  TablesAgree'
BY DEF TablesAgree, ChildInParentProject, NotificationResolves, NotesHaveTasks,
       TrailExplainsRow, tables, LoggedRow

LEMMA BeginLeaves ==
    ASSUME TInv, NEW h \in Handlers, NEW op, NEW l, Begin(h, op, l)
    PROVE  loc'[h] = l /\ UNCHANGED tables /\ op \in Ops
BY DEF Begin, TInv, TypeOK

LEMMA GotoLeaves ==
    ASSUME TInv, NEW h \in Handlers, NEW l, Goto(h, l)
    PROVE  loc'[h] = l
BY DEF Goto, TInv, TypeOK

LEMMA IdleHolds ==
    /\ HoldsCurrent(Idle) /\ HoldsCurrent(Idle)'
    /\ WritesCompletedAt(Idle) /\ WritesCompletedAt(Idle)'
    /\ ChecksHold(Idle) /\ ChecksHold(Idle)'
BY DEF Idle, HoldsCurrent, HoldsCurrentTask, HoldsCurrentSub, CreatePcs, UpdatePcs, SavePcs,
       SubCreatePcs, SubUpdatePcs, HoldingPcs, WritesCompletedAt, ChecksHold

(* What a handler has just read is in the tables. *)
LEMMA RequestHolds ==
    ASSUME TInv, TablesAgree, NEW h \in Handlers, Request(h)
    PROVE  TablesAgree' /\ HoldsCurrent(loc[h])'
<1>. USE DEF HoldsCurrent, HoldsCurrentTask, HoldsCurrentSub, CreatePcs, UpdatePcs, SavePcs,
             SubCreatePcs, SubUpdatePcs, HoldingPcs
<1>1. TablesAgree' /\ UNCHANGED <<task, sub>>
  BY SameTables, ZenonT(60) DEF Request, CreateRead, UpdateRead, RemoveRead, MoveLoad, SubCreateRead,
                    SubUpdateRead, SubRemoveRead, Begin, tables
<1>2. ASSUME NEW p \in Projects, NEW st \in Statuses, CreateRead(h, p, st)
      PROVE  HoldsCurrent(loc[h])'
  <2>0. loc'[h] = [Idle EXCEPT !.pc = "create.resolve", !.project = p,
                               !.ent = [project |-> p, seq |-> NextSeq(p), status |-> st,
                                        completed |-> FALSE]]
    BY <1>2, BeginLeaves DEF CreateRead
  <2>1. loc'[h].pc = "create.resolve" /\ loc'[h].project = p /\ loc'[h].ent.project = p
    BY <1>2, <2>0 DEF CreateRead, Idle
  <2>. QED BY <2>1
<1>3. ASSUME NEW p \in Projects, NEW t \in Tasks, NEW st \in Orm(Statuses), UpdateRead(h, p, t, st)
      PROVE  HoldsCurrent(loc[h])'
  <2>. DEFINE to == IF st = task[t].status THEN Null ELSE st
  <2>0. loc'[h] = [Idle EXCEPT !.pc = IF to = Null THEN "task.save" ELSE "update.check",
                               !.project = p, !.task = t, !.to = to, !.ent = task[t]]
    BY <1>3, BeginLeaves DEF UpdateRead
  <2>1. /\ loc'[h].pc = IF to = Null THEN "task.save" ELSE "update.check"
        /\ loc'[h].project = p /\ loc'[h].task = t /\ loc'[h].to = to
        /\ loc'[h].ent = task[t] /\ loc'[h].stamped = FALSE
        /\ task[t] # Null /\ task[t].project = p
    BY <1>3, <2>0 DEF UpdateRead, FindEntityInProject, Idle
  <2>. HIDE DEF to
  <2>2. CASE to = Null
    BY <1>1, <2>1, <2>2 DEF SavesOwnRow
  <2>3. CASE to # Null
    BY <1>1, <2>1, <2>3
  <2>. QED BY <2>2, <2>3
<1>4. ASSUME NEW p \in Projects, NEW t \in Tasks, RemoveRead(h, p, t)
      PROVE  HoldsCurrent(loc[h])'
  <2>0. loc'[h] = [Idle EXCEPT !.pc = "remove.write", !.task = t]
    BY <1>4, BeginLeaves DEF RemoveRead
  <2>1. loc'[h].pc = "remove.write"
    BY <1>4, <2>0 DEF RemoveRead, Idle
  <2>. QED BY <2>1
<1>5. ASSUME NEW p \in Projects, NEW q \in Projects, NEW t \in Tasks, NEW st \in Statuses,
             MoveLoad(h, p, q, t, st)
      PROVE  HoldsCurrent(loc[h])'
  <2>0. loc'[h] = [Idle EXCEPT !.pc = "move.write", !.project = q, !.task = t, !.to = st,
                               !.old = task[t], !.kids = Children(t),
                               !.stamped = Terminal(q, st),
                               !.ent = [project |-> q, seq |-> NextSeq(q), status |-> st,
                                        completed |-> MovedCompletedAt(
                                            p, task[t].status, q, st, task[t].completed)]]
    BY <1>5, BeginLeaves DEF MoveLoad
  <2>1. /\ loc'[h].pc = "move.write" /\ loc'[h].task = t
        /\ loc'[h].old = task[t] /\ loc'[h].kids = Children(t) /\ task[t] # Null
        /\ loc'[h].ent.project = q /\ loc'[h].project = q
        /\ loc'[h].stamped = Terminal(q, st)
        /\ loc'[h].ent.completed = MovedCompletedAt(p, task[t].status, q, st, task[t].completed)
    BY <1>5, <2>0 DEF MoveLoad, FindEntityInProject, Idle
  <2>2. Children(t)' = Children(t)
    BY <1>1 DEF Children
  <2>3. loc'[h].stamped => loc'[h].ent.completed
    BY <2>1 DEF MovedCompletedAt
  <2>4. MovesOwnRow(loc[h])'
    BY <1>1, <2>1, <2>2, <2>3 DEF MovesOwnRow, Children
  <2>. QED BY <2>1, <2>4
<1>6. ASSUME NEW p \in Projects, NEW t \in Tasks, NEW done \in BOOLEAN, SubCreateRead(h, p, t, done)
      PROVE  HoldsCurrent(loc[h])'
  <2>0. loc'[h] = [Idle EXCEPT !.pc = "subCreate.check", !.project = p, !.task = t,
                               !.ent = task[t],
                               !.kid = [task |-> t, project |-> p, done |-> done]]
    BY <1>6, BeginLeaves DEF SubCreateRead
  <2>1. /\ loc'[h].pc = "subCreate.check" /\ loc'[h].project = p /\ loc'[h].task = t
        /\ loc'[h].ent = task[t] /\ task[t].project = p
        /\ loc'[h].kid.task = t /\ loc'[h].kid.project = p
    BY <1>6, <2>0 DEF SubCreateRead, FindEntityInProject, Idle
  <2>. QED BY <1>1, <2>1
<1>7. ASSUME NEW p \in Projects, NEW t \in Tasks, NEW s \in Subtasks, NEW done \in Orm(BOOLEAN),
             SubUpdateRead(h, p, t, s, done)
      PROVE  HoldsCurrent(loc[h])'
  <2>0. loc'[h] = [Idle EXCEPT !.pc = "subUpdate.find", !.project = p, !.task = t,
                               !.sub = s, !.done = done, !.ent = task[t]]
    BY <1>7, BeginLeaves DEF SubUpdateRead
  <2>1. /\ loc'[h].pc = "subUpdate.find" /\ loc'[h].project = p /\ loc'[h].task = t
        /\ loc'[h].ent = task[t] /\ task[t].project = p
    BY <1>7, <2>0 DEF SubUpdateRead, FindEntityInProject, Idle
  <2>. QED BY <1>1, <2>1
<1>8. ASSUME NEW p \in Projects, NEW t \in Tasks, NEW s \in Subtasks, SubRemoveRead(h, p, t, s)
      PROVE  HoldsCurrent(loc[h])'
  <2>0. loc'[h] = [Idle EXCEPT !.pc = "subRemove.find", !.task = t, !.sub = s]
    BY <1>8, BeginLeaves DEF SubRemoveRead
  <2>1. loc'[h].pc = "subRemove.find"
    BY <1>8, <2>0 DEF SubRemoveRead, Idle
  <2>. QED BY <2>1
<1>. QED BY <1>1, <1>2, <1>3, <1>4, <1>5, <1>6, <1>7, <1>8 DEF Request

(* A handler that goes on without having written still holds what it held.   *)
LEMMA TaskReadsHold ==
    ASSUME TInv, TablesAgree, NEW h \in Handlers, HoldsCurrent(loc[h]),
           \/ CreateResolve(h) \/ UpdateCheck(h) \/ UpdateCount(h)
           \/ UpdateResolve(h) \/ SaveTaskRead(h)
    PROVE  TablesAgree' /\ HoldsCurrent(loc[h])'
<1>. DEFINE l == loc[h]
<1>. l \in Local /\ WellFormed(l)
  BY AtAwait
<1>. USE DEF HoldsCurrent, HoldsCurrentTask, HoldsCurrentSub, CreatePcs, UpdatePcs, SavePcs,
             SubCreatePcs, SubUpdatePcs, HoldingPcs
<1>1. TablesAgree' /\ UNCHANGED <<task, sub>>
  BY SameTables DEF CreateResolve, UpdateCheck, UpdateCount, UpdateResolve, SaveTaskRead,
                    tables
<1>2. ASSUME CreateResolve(h) PROVE HoldsCurrent(loc[h])'
  <2>0. loc'[h] = [l EXCEPT !.pc = "create.insert",
                            !.ent = [l.ent EXCEPT !.completed = Terminal(l.project, l.ent.status)]]
    BY <1>2, GotoLeaves DEF CreateResolve
  <2>1. l.ent \in TaskRow /\ l.pc = "create.resolve"
    BY <1>2 DEF CreateResolve, At, WellFormed, NeedsEnt
  <2>2. loc'[h].pc = "create.insert" /\ loc'[h].project = l.project
        /\ loc'[h].ent.project = l.ent.project
    BY <2>0, <2>1 DEF Local, TaskRow
  <2>. QED BY <2>1, <2>2
<1>3. ASSUME UpdateCheck(h) \/ UpdateCount(h) PROVE HoldsCurrent(loc[h])'
  <2>1. CASE Finish(h)
    BY <2>1, GotoLeaves, IdleHolds DEF Finish
  <2>2. ASSUME NEW pc \in {"update.count", "update.resolve"}, Goto(h, [l EXCEPT !.pc = pc])
        PROVE  HoldsCurrent(loc[h])'
    <3>0. loc'[h] = [l EXCEPT !.pc = pc]
      BY <2>2, GotoLeaves
    <3>1. l.pc \in {"update.check", "update.count"}
      BY <1>3 DEF UpdateCheck, UpdateCount, At
    <3>2. loc'[h].pc = pc /\ loc'[h].project = l.project
          /\ loc'[h].ent = l.ent /\ loc'[h].task = l.task
      BY <3>0 DEF Local
    <3>. QED BY <1>1, <3>1, <3>2
  <2>. QED
    <3>. HIDE DEF HoldsCurrent
    <3>. QED BY <1>3, <2>1, <2>2 DEF UpdateCheck, UpdateCount
<1>4. ASSUME UpdateResolve(h) PROVE HoldsCurrent(loc[h])'
  <2>. DEFINE done == ResolveCompletedAt(l.project, l.ent.status, l.to, l.ent.completed)
  <2>0. loc'[h] = [l EXCEPT !.pc = "task.save", !.stamped = Terminal(l.project, l.to),
                            !.ent = [l.ent EXCEPT !.status = l.to, !.completed = done]]
    BY <1>4, GotoLeaves DEF UpdateResolve
  <2>1. l.ent \in TaskRow /\ l.pc = "update.resolve" /\ l.to \in Statuses
    BY <1>4 DEF UpdateResolve, At, WellFormed, NeedsEnt
  <2>2. Terminal(l.project, l.to) => done
    BY DEF ResolveCompletedAt
  <2>3. /\ loc'[h].pc = "task.save" /\ loc'[h].task = l.task /\ loc'[h].to = l.to
        /\ loc'[h].stamped = Terminal(l.project, l.to)
        /\ loc'[h].ent.project = l.ent.project /\ loc'[h].ent.seq = l.ent.seq
        /\ loc'[h].ent.status = l.to /\ loc'[h].ent.completed = done
    <3>. DEFINE e == [l.ent EXCEPT !.status = l.to, !.completed = done]
                closed == Terminal(l.project, l.to)
    <3>1. loc'[h] = [l EXCEPT !.pc = "task.save", !.stamped = closed, !.ent = e]
      BY <2>0
    <3>. HIDE DEF done
    <3>2. /\ e.project = l.ent.project /\ e.seq = l.ent.seq
          /\ e.status = l.to /\ e.completed = done
      BY <2>1 DEF TaskRow
    <3>. HIDE DEF e, closed
    <3>3. /\ loc'[h].pc = "task.save" /\ loc'[h].task = l.task /\ loc'[h].to = l.to
          /\ loc'[h].stamped = closed /\ loc'[h].ent = e
      BY <3>1 DEF Local
    <3>. QED BY <3>2, <3>3 DEF closed
  <2>4. task[l.task] = l.ent /\ l.ent # Null
    BY <2>1, StoreAssumption
  <2>5. SavesOwnRow(loc[h])'
    <3>. HIDE DEF done
    <3>. QED BY <1>1, <2>1, <2>2, <2>3, <2>4, StoreAssumption DEF SavesOwnRow
  <2>. QED BY <2>3, <2>5
<1>5. ASSUME SaveTaskRead(h) PROVE HoldsCurrent(loc[h])'
  <2>0. loc'[h] = [l EXCEPT !.pc = "task.write", !.old = task[l.task]]
    BY <1>5, GotoLeaves DEF SaveTaskRead
  <2>1. l.pc = "task.save"
    BY <1>5 DEF SaveTaskRead, At
  <2>2. /\ loc'[h].pc = "task.write" /\ loc'[h].task = l.task /\ loc'[h].to = l.to
        /\ loc'[h].stamped = l.stamped /\ loc'[h].ent = l.ent /\ loc'[h].old = task[l.task]
    BY <2>0 DEF Local
  <2>3. SavesOwnRow(loc[h])'
    BY <1>1, <2>1, <2>2 DEF SavesOwnRow
  <2>. QED BY <1>1, <2>2, <2>3
<1>. QED BY <1>1, <1>2, <1>3, <1>4, <1>5

LEMMA SubReadsHold ==
    ASSUME TInv, TablesAgree, NEW h \in Handlers, HoldsCurrent(loc[h]),
           \/ SubCreateCheck(h) \/ SubUpdateFind(h) \/ SubUpdateCheck(h) \/ SaveSubRead(h)
           \/ SubRemoveFind(h) \/ Fail(h)
    PROVE  TablesAgree' /\ HoldsCurrent(loc[h])'
<1>. DEFINE l == loc[h]
<1>. l \in Local /\ WellFormed(l)
  BY AtAwait
<1>. USE DEF HoldsCurrent, HoldsCurrentTask, HoldsCurrentSub, CreatePcs, UpdatePcs, SavePcs,
             SubCreatePcs, SubUpdatePcs, HoldingPcs
<1>1. TablesAgree' /\ UNCHANGED <<task, sub>>
  BY SameTables DEF SubCreateCheck, SubUpdateFind, SubUpdateCheck, SaveSubRead, SubRemoveFind,
                    Fail, tables
<1>2. ASSUME Finish(h) PROVE HoldsCurrent(loc[h])'
  BY <1>2, GotoLeaves, IdleHolds DEF Finish
<1>3. ASSUME SubCreateCheck(h), ~Finish(h) PROVE HoldsCurrent(loc[h])'
  <2>0. loc'[h] = [l EXCEPT !.pc = "subCreate.insert"]
    BY <1>3, GotoLeaves DEF SubCreateCheck
  <2>1. l.pc = "subCreate.check"
    BY <1>3 DEF SubCreateCheck, At
  <2>2. /\ loc'[h].pc = "subCreate.insert" /\ loc'[h].project = l.project
        /\ loc'[h].task = l.task /\ loc'[h].ent = l.ent /\ loc'[h].kid = l.kid
    BY <2>0 DEF Local
  <2>. QED BY <1>1, <2>1, <2>2
<1>4. ASSUME SubUpdateFind(h), ~Finish(h) PROVE HoldsCurrent(loc[h])'
  <2>. DEFINE pc == IF l.done # Null /\ l.done # sub[l.sub].done THEN "subUpdate.check" ELSE "sub.save"
  <2>0. loc'[h] = [l EXCEPT !.pc = pc, !.kid = sub[l.sub]]
    BY <1>4, GotoLeaves DEF SubUpdateFind
  <2>1. l.pc = "subUpdate.find" /\ l.sub \in Children(l.task)
    BY <1>4 DEF SubUpdateFind, At, FindInTask
  <2>2. /\ loc'[h].pc \in {"subUpdate.check", "sub.save"} /\ loc'[h].project = l.project
        /\ loc'[h].task = l.task /\ loc'[h].ent = l.ent /\ loc'[h].sub = l.sub
        /\ loc'[h].kid = sub[l.sub]
    BY <2>0 DEF Local
  <2>3. sub[l.sub] # Null /\ sub[l.sub].task = l.task
    BY <2>1 DEF Children
  <2>. QED BY <1>1, <2>1, <2>2, <2>3
<1>5. ASSUME SubUpdateCheck(h), ~Finish(h) PROVE HoldsCurrent(loc[h])'
  <2>0. loc'[h] = [l EXCEPT !.pc = "sub.save", !.kid = [l.kid EXCEPT !.done = l.done]]
    BY <1>5, GotoLeaves DEF SubUpdateCheck
  <2>1. l.pc = "subUpdate.check" /\ l.kid \in SubRow
    BY <1>5 DEF SubUpdateCheck, At, WellFormed, NeedsKid
  <2>2. /\ loc'[h].pc = "sub.save" /\ loc'[h].project = l.project
        /\ loc'[h].task = l.task /\ loc'[h].ent = l.ent /\ loc'[h].sub = l.sub
        /\ loc'[h].kid.task = l.kid.task /\ loc'[h].kid.project = l.kid.project
    BY <2>0, <2>1 DEF Local, SubRow
  <2>. QED BY <1>1, <2>1, <2>2
<1>6. ASSUME SaveSubRead(h) PROVE HoldsCurrent(loc[h])'
  <2>0. loc'[h] = [l EXCEPT !.pc = "sub.write", !.old = sub[l.sub]]
    BY <1>6, GotoLeaves DEF SaveSubRead
  <2>1. l.pc = "sub.save"
    BY <1>6 DEF SaveSubRead, At
  <2>2. /\ loc'[h].pc = "sub.write" /\ loc'[h].project = l.project
        /\ loc'[h].task = l.task /\ loc'[h].ent = l.ent /\ loc'[h].sub = l.sub
        /\ loc'[h].kid = l.kid /\ loc'[h].old = sub[l.sub]
    BY <2>0 DEF Local
  <2>. QED BY <1>1, <2>1, <2>2
<1>7. ASSUME SubRemoveFind(h), ~Finish(h) PROVE HoldsCurrent(loc[h])'
  <2>0. loc'[h] = [l EXCEPT !.pc = "subRemove.write"]
    BY <1>7, GotoLeaves DEF SubRemoveFind
  <2>1. loc'[h].pc = "subRemove.write"
    BY <2>0 DEF Local
  <2>. QED BY <2>1
<1>. QED BY <1>1, <1>2, <1>3, <1>4, <1>5, <1>6, <1>7
     DEF Fail, SubCreateCheck, SubUpdateFind, SubUpdateCheck, SubRemoveFind

---------------------------------------------------------------------------
(* Writes *)

(* Read back unchanged, the row a save leaves is the entity in memory.       *)
LEMMA SavedIsEntity ==
    ASSUME NEW row \in TaskRow, NEW ent \in TaskRow, NEW stamped \in BOOLEAN,
           stamped => ent.completed
    PROVE  SavedTask(row, ent, row, stamped) = ent
<1>1. \A mine, read : Changed(read, mine, read) = mine
  BY DEF Changed
<1>2. SavedTask(row, ent, row, stamped) =
          [project |-> ent.project, seq |-> ent.seq, status |-> ent.status,
           completed |-> stamped \/ ent.completed]
  BY <1>1 DEF SavedTask
<1>3. (stamped \/ ent.completed) = ent.completed
  BY DEF TaskRow
<1>. QED BY <1>2, <1>3 DEF TaskRow

LEMMA SavesEntity ==
    ASSUME TInv, NEW l \in Local, WellFormed(l),
           \/ l.pc = "task.write" /\ SavesOwnRow(l) /\ l.old = task[l.task]
           \/ l.pc = "move.write" /\ MovesOwnRow(l)
    PROVE  /\ l.task \in Tasks /\ l.ent \in TaskRow
           /\ task[l.task] \in TaskRow
           /\ TaskAfterSave(l) = l.ent
           /\ l.ent # Null
<1>1. l.task \in Tasks /\ l.ent \in TaskRow
  BY DEF WellFormed, NeedsTask, NeedsEnt, Pcs, CreatePcs, SavePcs
<1>2. task[l.task] # Null /\ l.old = task[l.task] /\ (l.stamped => l.ent.completed)
  BY DEF SavesOwnRow, MovesOwnRow
<1>3. task[l.task] \in TaskRow
  BY <1>1, <1>2 DEF TInv, TypeOK, Orm
<1>4. l.stamped \in BOOLEAN
  BY DEF Local
<1>5. TaskAfterSave(l) = l.ent
  BY <1>1, <1>2, <1>3, <1>4, SavedIsEntity DEF TaskAfterSave
<1>. QED BY <1>1, <1>3, <1>5, StoreAssumption

LEMMA CreateInsertHolds ==
    ASSUME TInv, SubtaskHasParent, TablesAgree, NEW h \in Handlers, HoldsCurrent(loc[h]),
           NEW t \in Tasks, CreateInsert(h, t)
    PROVE  TablesAgree' /\ HoldsCurrent(loc[h])'
<1>. DEFINE l == loc[h]
<1>. l \in Local /\ WellFormed(l)
  BY AtAwait
<1>1. CASE Finish(h)
  <2>1. CASE UNCHANGED <<task, trail>>
    BY <1>1, <2>1, SameTables, GotoLeaves, IdleHolds DEF Finish, CreateInsert, tables
  <2>2. CASE Goto(h, [l EXCEPT !.pc = "notify", !.task = t])
    <3>1. loc'[h] = Idle /\ loc'[h] = [l EXCEPT !.pc = "notify", !.task = t]
      BY <1>1, <2>2, GotoLeaves DEF Finish
    <3>2. Idle.pc = "idle"
      BY DEF Idle
    <3>3. [l EXCEPT !.pc = "notify", !.task = t].pc = "notify"
      BY DEF Local
    <3>. QED BY <3>1, <3>2, <3>3
  <2>. QED BY <2>1, <2>2 DEF CreateInsert
<1>2. CASE ~Finish(h)
  <2>1. /\ task' = [task EXCEPT ![t] = l.ent]
        /\ trail' = [trail EXCEPT ![t] = LoggedRow(l.ent)]
        /\ loc'[h] = [l EXCEPT !.pc = "notify", !.task = t]
        /\ UNCHANGED <<sub, notes, removed>>
        /\ task[t] = Null /\ t \notin removed
    BY <1>2, GotoLeaves DEF CreateInsert, UnusedTaskId
  <2>2. \A u \in Tasks : /\ task'[u] = IF u = t THEN l.ent ELSE task[u]
                         /\ trail'[u] = IF u = t THEN LoggedRow(l.ent) ELSE trail[u]
    BY <2>1 DEF TInv, TypeOK
  <2>3. loc'[h].pc = "notify" /\ loc'[h].task = t /\ loc'[h].ent = l.ent
    BY <2>1 DEF Local
  <2>4. ChildInParentProject'
    <3>1. \A s \in Subtasks : sub[s] # Null => sub[s].task \in Tasks /\ sub[s].task # t
      BY <2>1 DEF SubtaskHasParent, TInv, TypeOK, Orm, SubRow
    <3>. QED BY <2>1, <2>2, <3>1 DEF TablesAgree, ChildInParentProject
  <2>5. \A n \in notes : n.task \in Tasks /\ n.task # t
    BY <2>1 DEF TablesAgree, NotesHaveTasks, TInv, TypeOK, Note
  <2>6. NotificationResolves' /\ NotesHaveTasks'
    BY <2>1, <2>2, <2>5 DEF TablesAgree, NotificationResolves, NotesHaveTasks
  <2>7. TrailExplainsRow'
    BY <2>2 DEF TablesAgree, TrailExplainsRow
  <2>8. l.ent # Null
    BY StoreAssumption DEF CreateInsert, At, WellFormed, NeedsEnt, CreatePcs
  <2>9. HoldsCurrent(loc[h])'
    BY <2>2, <2>3, <2>8 DEF HoldsCurrent, HoldsCurrentTask, HoldsCurrentSub, CreatePcs,
       UpdatePcs, SavePcs, SubCreatePcs, SubUpdatePcs, HoldingPcs
  <2>. QED BY <2>4, <2>6, <2>7, <2>9 DEF TablesAgree
<1>. QED BY <1>1, <1>2

LEMMA SaveTaskWriteHolds ==
    ASSUME TInv, TablesAgree, NEW h \in Handlers, HoldsCurrent(loc[h]), SaveTaskWrite(h)
    PROVE  TablesAgree' /\ HoldsCurrent(loc[h])'
<1>. DEFINE l == loc[h]
            t == l.task
<1>. l \in Local /\ WellFormed(l)
  BY AtAwait
<1>1. l.pc = "task.write" /\ SavesOwnRow(l) /\ l.old = task[t]
  BY DEF SaveTaskWrite, At, HoldsCurrent, HoldsCurrentTask, SavePcs
<1>2. /\ t \in Tasks /\ l.ent \in TaskRow /\ task[t] \in TaskRow
      /\ TaskAfterSave(l) = l.ent /\ l.ent # Null
  BY <1>1, SavesEntity
<1>3. CASE UNCHANGED tables /\ Finish(h)
  BY <1>3, SameTables, GotoLeaves, IdleHolds DEF Finish
<1>4. CASE ~(UNCHANGED tables /\ Finish(h))
  <2>1. /\ task' = [task EXCEPT ![t] = l.ent]
        /\ trail' = StatusLogged(t, l.to)
        /\ loc'[h] = [l EXCEPT !.pc = "notify"]
        /\ UNCHANGED <<sub, notes, removed>>
    BY <1>2, <1>4, GotoLeaves DEF SaveTaskWrite, tables
  <2>2. \A u \in Tasks : task'[u] = IF u = t THEN l.ent ELSE task[u]
    BY <2>1 DEF TInv, TypeOK
  <2>3. loc'[h].pc = "notify" /\ loc'[h].task = t /\ loc'[h].ent = l.ent
    BY <2>1 DEF Local
  <2>4. \A u \in Tasks : /\ (task'[u] = Null) = (task[u] = Null)
                         /\ task[u] # Null => task'[u].project = task[u].project
                                              /\ task'[u].seq = task[u].seq
    BY <1>1, <1>2, <2>2 DEF SavesOwnRow
  <2>5. ChildInParentProject'
    <3>1. \A s \in Subtasks : sub[s] # Null => sub[s].task \in Tasks
      BY DEF TInv, TypeOK, Orm, SubRow
    <3>. QED BY <2>1, <2>4, <3>1 DEF TablesAgree, ChildInParentProject
  <2>6. NotificationResolves' /\ NotesHaveTasks'
    <3>1. \A n \in notes : n.task \in Tasks
      BY DEF TInv, TypeOK, Note
    <3>. QED BY <2>1, <2>4, <3>1 DEF TablesAgree, NotificationResolves, NotesHaveTasks
  <2>7. TrailExplainsRow'
    <3>1. ASSUME NEW u \in Tasks, u # t, task'[u] # Null PROVE trail'[u] = LoggedRow(task'[u])
      BY <2>1, <2>2, <3>1 DEF StatusLogged, TInv, TypeOK, TablesAgree, TrailExplainsRow
    <3>2. trail'[t] = LoggedRow(task'[t])
      <4>1. trail[t] = LoggedRow(task[t]) /\ trail[t] # Null
        BY <1>2, LoggedOK, StoreAssumption DEF TablesAgree, TrailExplainsRow
      <4>2. CASE l.to = Null
        BY <1>1, <1>2, <2>1, <2>2, <4>1, <4>2 DEF StatusLogged, SavesOwnRow, TInv, TypeOK
      <4>3. CASE l.to # Null
        <5>1. trail'[t] = [LoggedRow(task[t]) EXCEPT !.status = l.to]
          BY <1>2, <2>1, <4>1, <4>3 DEF StatusLogged, TInv, TypeOK
        <5>2. LoggedRow(l.ent) = [LoggedRow(task[t]) EXCEPT !.status = l.to]
          BY <1>1, <4>3 DEF LoggedRow, SavesOwnRow
        <5>. QED BY <1>2, <2>2, <5>1, <5>2
      <4>. QED BY <4>2, <4>3
    <3>. QED BY <3>1, <3>2 DEF TrailExplainsRow
  <2>8. HoldsCurrent(loc[h])'
    BY <1>2, <2>2, <2>3 DEF HoldsCurrent, HoldsCurrentTask, HoldsCurrentSub, CreatePcs,
       UpdatePcs, SavePcs, SubCreatePcs, SubUpdatePcs, HoldingPcs
  <2>. QED BY <2>5, <2>6, <2>7, <2>8 DEF TablesAgree
<1>. QED BY <1>3, <1>4

LEMMA RemoveWriteHolds ==
    ASSUME TInv, TablesAgree, NEW h \in Handlers, RemoveWrite(h)
    PROVE  TablesAgree' /\ HoldsCurrent(loc[h])'
<1>. DEFINE t == loc[h].task
<1>1. t \in Tasks
  BY AtAwait DEF RemoveWrite, At, WellFormed, NeedsTask, Pcs, CreatePcs
<1>2. /\ \A u \in Tasks : /\ task'[u] = IF u = t THEN Null ELSE task[u]
                          /\ trail'[u] = IF u = t THEN Null ELSE trail[u]
      /\ notes' = notes /\ removed' = removed \cup {t}
  BY <1>1 DEF RemoveWrite, TInv, TypeOK
<1>3. \A s \in Subtasks : sub'[s] # Null => /\ sub[s] # Null /\ sub'[s] = sub[s]
                                           /\ sub[s].task \in Tasks /\ sub[s].task # t
  BY DEF RemoveWrite, WithoutChildren, Children, TInv, TypeOK, Orm, SubRow
<1>4. \A n \in notes : n.task \in Tasks
  BY DEF TInv, TypeOK, Note
<1>5. TablesAgree'
  BY <1>2, <1>3, <1>4 DEF TablesAgree, ChildInParentProject, NotificationResolves, NotesHaveTasks,
                         TrailExplainsRow, LoggedRow
<1>. QED BY <1>5, GotoLeaves, IdleHolds DEF RemoveWrite, Finish

LEMMA MoveWriteHolds ==
    ASSUME TInv, TablesAgree, NEW h \in Handlers, HoldsCurrent(loc[h]), MoveWrite(h)
    PROVE  TablesAgree' /\ HoldsCurrent(loc[h])'
<1>. DEFINE l == loc[h]
            t == l.task
<1>. l \in Local /\ WellFormed(l)
  BY AtAwait
<1>1. l.pc = "move.write" /\ MovesOwnRow(l)
  BY DEF MoveWrite, At, HoldsCurrent, HoldsCurrentTask
<1>2. /\ t \in Tasks /\ l.ent \in TaskRow /\ task[t] \in TaskRow
      /\ TaskAfterSave(l) = l.ent /\ l.ent # Null
  BY <1>1, SavesEntity
<1>3. HoldsCurrent(loc[h])'
  BY GotoLeaves, IdleHolds DEF MoveWrite, Finish
<1>4. CASE UNCHANGED tables
  BY <1>3, <1>4, SameTables
<1>5. CASE ~UNCHANGED tables
  <2>1. /\ task' = [task EXCEPT ![t] = l.ent]
        /\ sub' = Carried(l.kids, l.project)
        /\ notes' = Relinked(t, l.ent.project, l.ent.seq)
        /\ trail' = [trail EXCEPT ![t] = IF @ = Null THEN @ ELSE LoggedRow(l.ent)]
        /\ removed' = removed
    BY <1>2, <1>5 DEF MoveWrite, tables
  <2>2. \A u \in Tasks : task'[u] = IF u = t THEN l.ent ELSE task[u]
    BY <2>1 DEF TInv, TypeOK
  <2>3. l.kids = Children(t) /\ l.project = l.ent.project /\ task[t] # Null
    BY <1>1 DEF MovesOwnRow
  <2>4. ASSUME NEW s \in Subtasks, sub'[s] # Null, task'[sub'[s].task] # Null
        PROVE  sub'[s].project = task'[sub'[s].task].project
    <3>1. sub[s] \in SubRow
      BY <2>1, <2>4 DEF Carried, TInv, TypeOK, Orm
    <3>2. CASE s \in Children(t)
      <4>1. sub'[s] = [sub[s] EXCEPT !.project = l.project] /\ sub[s].task = t
        BY <2>1, <2>3, <3>2 DEF Carried, Children
      <4>2. sub'[s].project = l.project /\ sub'[s].task = t
        BY <3>1, <4>1 DEF SubRow
      <4>. QED BY <1>2, <2>2, <2>3, <4>2
    <3>3. CASE s \notin Children(t)
      <4>1. sub'[s] = sub[s]
        BY <2>1, <2>3, <3>3 DEF Carried
      <4>2. sub[s].task \in Tasks /\ sub[s].task # t /\ sub[s] # Null
        BY <2>4, <3>1, <3>3, <4>1 DEF Children, SubRow
      <4>. QED BY <2>2, <2>4, <4>1, <4>2 DEF TablesAgree, ChildInParentProject
    <3>. QED BY <3>2, <3>3
  <2>5. ASSUME NEW n \in notes'
        PROVE  /\ task'[n.task] # Null \/ n.task \in removed'
               /\ task'[n.task] # Null =>
                     n.project = task'[n.task].project /\ n.seq = task'[n.task].seq
    <3>1. PICK m \in notes :
              n = IF m.task = t THEN [task |-> t, project |-> l.ent.project, seq |-> l.ent.seq]
                  ELSE m
      BY <2>1 DEF Relinked
    <3>2. CASE m.task = t
      BY <1>2, <2>2, <3>1, <3>2
    <3>3. CASE m.task # t
      <4>1. n = m /\ m.task \in Tasks
        BY <3>1, <3>3 DEF TInv, TypeOK, Note
      <4>. QED BY <2>1, <2>2, <3>3, <4>1 DEF TablesAgree, NotificationResolves, NotesHaveTasks
    <3>. QED BY <3>2, <3>3
  <2>6. TrailExplainsRow'
    <3>1. trail[t] # Null
      BY <1>2, LoggedOK, StoreAssumption DEF TablesAgree, TrailExplainsRow
    <3>2. \A u \in Tasks : trail'[u] = IF u = t THEN LoggedRow(l.ent) ELSE trail[u]
      BY <2>1, <3>1 DEF TInv, TypeOK
    <3>. QED BY <2>2, <3>2 DEF TablesAgree, TrailExplainsRow, LoggedRow
  <2>. QED BY <1>3, <2>4, <2>5, <2>6
           DEF TablesAgree, ChildInParentProject, NotificationResolves, NotesHaveTasks
<1>. QED BY <1>4, <1>5

(* A step that writes only the table of subtasks. *)
LEMMA SubWriteAgrees ==
    ASSUME TInv, TablesAgree, UNCHANGED <<task, notes, trail, removed>>,
           NEW s \in Subtasks, NEW row, sub' = [sub EXCEPT ![s] = row],
           row # Null => row.task \in Tasks
                         /\ (task[row.task] # Null => row.project = task[row.task].project)
    PROVE  TablesAgree'
<1>1. \A r \in Subtasks : sub'[r] = IF r = s THEN row ELSE sub[r]
  BY DEF TInv, TypeOK
<1>2. ChildInParentProject'
  BY <1>1 DEF TablesAgree, ChildInParentProject
<1>. QED BY <1>2 DEF TablesAgree, NotificationResolves, NotesHaveTasks, TrailExplainsRow, LoggedRow

LEMMA SubCreateInsertHolds ==
    ASSUME TInv, TablesAgree, NEW h \in Handlers, HoldsCurrent(loc[h]),
           NEW s \in Subtasks, SubCreateInsert(h, s)
    PROVE  TablesAgree' /\ HoldsCurrent(loc[h])'
<1>. DEFINE l == loc[h]
<1>. l \in Local /\ WellFormed(l)
  BY AtAwait
<1>1. CASE UNCHANGED sub /\ Finish(h)
  BY <1>1, SameTables, GotoLeaves, IdleHolds DEF Finish, SubCreateInsert, tables
<1>2. CASE ~(UNCHANGED sub /\ Finish(h))
  <2>1. /\ sub' = [sub EXCEPT ![s] = l.kid]
        /\ loc'[h] = [l EXCEPT !.pc = "notify"]
        /\ UNCHANGED <<task, notes, trail, removed>>
    BY <1>2, GotoLeaves DEF SubCreateInsert
  <2>2. /\ l.pc = "subCreate.insert" /\ l.kid \in SubRow /\ l.ent # Null
        /\ l.kid.task = l.task /\ l.kid.project = l.project
        /\ task[l.task] = l.ent /\ l.ent.project = l.project /\ l.task \in Tasks
    BY StoreAssumption DEF SubCreateInsert, At, HoldsCurrent, HoldsCurrentTask, HoldsCurrentSub,
       SubCreatePcs, WellFormed, NeedsKid, NeedsEnt, NeedsTask, Pcs, CreatePcs
  <2>3. loc'[h].pc = "notify" /\ loc'[h].task = l.task /\ loc'[h].ent = l.ent
    BY <2>1 DEF Local
  <2>4. TablesAgree'
    BY <2>1, <2>2, SubWriteAgrees
  <2>5. HoldsCurrent(loc[h])'
    BY <2>1, <2>2, <2>3 DEF HoldsCurrent, HoldsCurrentTask, HoldsCurrentSub, CreatePcs,
       UpdatePcs, SavePcs, SubCreatePcs, SubUpdatePcs, HoldingPcs
  <2>. QED BY <2>4, <2>5
<1>. QED BY <1>1, <1>2

LEMMA SaveSubWriteHolds ==
    ASSUME TInv, TablesAgree, NEW h \in Handlers, HoldsCurrent(loc[h]), SaveSubWrite(h)
    PROVE  TablesAgree' /\ HoldsCurrent(loc[h])'
<1>. DEFINE l == loc[h]
            s == l.sub
<1>. l \in Local /\ WellFormed(l)
  BY AtAwait
<1>1. /\ l.pc = "sub.write" /\ l.kid \in SubRow /\ l.ent # Null /\ s \in Subtasks
      /\ sub[s] # Null /\ sub[s].task = l.task /\ l.kid.task = l.task
      /\ l.kid.project = sub[s].project /\ l.old = sub[s]
      /\ task[l.task] = l.ent /\ l.task \in Tasks
  BY StoreAssumption DEF SaveSubWrite, At, HoldsCurrent, HoldsCurrentTask, HoldsCurrentSub,
     HoldingPcs, SubUpdatePcs, WellFormed, NeedsKid, NeedsEnt, NeedsSub, NeedsTask, Pcs, CreatePcs
<1>2. /\ sub' = [sub EXCEPT ![s] = SavedSub(sub[s], l.kid, sub[s])]
      /\ loc'[h] = [l EXCEPT !.pc = "notify"]
      /\ UNCHANGED <<task, notes, trail, removed>>
  BY <1>1, GotoLeaves DEF SaveSubWrite
<1>3. /\ SavedSub(sub[s], l.kid, sub[s]).task = l.task
      /\ SavedSub(sub[s], l.kid, sub[s]).project = sub[s].project
  BY <1>1 DEF SavedSub, Changed
<1>4. TablesAgree'
  <2>1. task[l.task] # Null => sub[s].project = task[l.task].project
    BY <1>1 DEF TablesAgree, ChildInParentProject
  <2>. QED BY <1>1, <1>2, <1>3, <2>1, SubWriteAgrees
<1>5. loc'[h].pc = "notify" /\ loc'[h].task = l.task /\ loc'[h].ent = l.ent
  BY <1>2 DEF Local
<1>6. HoldsCurrent(loc[h])'
  BY <1>1, <1>2, <1>5 DEF HoldsCurrent, HoldsCurrentTask, HoldsCurrentSub, CreatePcs,
     UpdatePcs, SavePcs, SubCreatePcs, SubUpdatePcs, HoldingPcs
<1>. QED BY <1>4, <1>6

LEMMA SubRemoveWriteHolds ==
    ASSUME TInv, TablesAgree, NEW h \in Handlers, SubRemoveWrite(h)
    PROVE  TablesAgree' /\ HoldsCurrent(loc[h])'
<1>1. loc[h].sub \in Subtasks
  BY AtAwait DEF SubRemoveWrite, At, WellFormed, NeedsSub, SubRemovePcs
<1>2. TablesAgree'
  BY <1>1, SubWriteAgrees DEF SubRemoveWrite
<1>. QED BY <1>2, GotoLeaves, IdleHolds DEF SubRemoveWrite, Finish

LEMMA NotifyHolds ==
    ASSUME TInv, TablesAgree, NEW h \in Handlers, HoldsCurrent(loc[h]), Notify(h)
    PROVE  TablesAgree' /\ HoldsCurrent(loc[h])'
<1>. DEFINE l == loc[h]
            note == [task |-> l.task, project |-> l.ent.project, seq |-> l.ent.seq]
<1>1. /\ task[l.task] # Null
      /\ task[l.task].project = l.ent.project
      /\ task[l.task].seq = l.ent.seq
  BY DEF Notify, At, HoldsCurrent, HoldsCurrentTask
<1>2. UNCHANGED <<task, sub, trail, removed>> /\ \A n \in notes' : n \in notes \/ n = note
  BY DEF Notify
<1>3. NotificationResolves' /\ NotesHaveTasks'
  BY <1>1, <1>2 DEF TablesAgree, NotificationResolves, NotesHaveTasks
<1>4. ChildInParentProject' /\ TrailExplainsRow'
  BY <1>2 DEF TablesAgree, ChildInParentProject, TrailExplainsRow, LoggedRow
<1>. QED BY <1>3, <1>4, GotoLeaves, IdleHolds DEF Notify, Finish, TablesAgree

---------------------------------------------------------------------------
(* The tables agree *)

LEMMA SerialInit == ASSUME SeedsPlaced, Init PROVE SerialInv
<1>1. PICK d \in Seeds : /\ task = d.task
                         /\ sub = d.sub
                         /\ trail = [t \in Tasks |-> IF d.task[t] = Null THEN Null
                                                     ELSE LoggedRow(d.task[t])]
  BY DEF Init
<1>2. ChildInParentProject /\ TrailExplainsRow
  BY <1>1 DEF SeedsPlaced, ChildInParentProject, TrailExplainsRow
<1>3. NotificationResolves /\ NotesHaveTasks
  BY DEF Init, NotificationResolves, NotesHaveTasks
<1>. QED BY <1>2, <1>3, IdleHolds DEF Init, SerialInv, TablesAgree

LEMMA SerialStep ==
    ASSUME OneAtATime, KInv, SerialInv, [Next]_vars
    PROVE  SerialInv'
<1>. USE DEF SerialInv
<1>0. TInv /\ SubtaskHasParent
  BY DEF KInv
<1>1. PICK h : Handlers = {h}
  BY DEF OneAtATime
<1>2. h \in Handlers /\ HoldsCurrent(loc[h])
  BY <1>1
<1>3. CASE Request(h)
  BY <1>0, <1>1, <1>2, <1>3, RequestHolds
<1>4. CASE Continue(h)
  <2>1. CASE \/ CreateResolve(h) \/ UpdateCheck(h) \/ UpdateCount(h)
             \/ UpdateResolve(h) \/ SaveTaskRead(h)
    BY <1>0, <1>1, <1>2, <2>1, TaskReadsHold
  <2>2. CASE \/ SubCreateCheck(h) \/ SubUpdateFind(h) \/ SubUpdateCheck(h) \/ SaveSubRead(h)
             \/ SubRemoveFind(h) \/ Fail(h)
    BY <1>0, <1>1, <1>2, <2>2, SubReadsHold
  <2>3. CASE \E t \in Tasks : CreateInsert(h, t)
    BY <1>0, <1>1, <1>2, <2>3, CreateInsertHolds
  <2>4. CASE SaveTaskWrite(h)
    BY <1>0, <1>1, <1>2, <2>4, SaveTaskWriteHolds
  <2>5. CASE RemoveWrite(h)
    BY <1>0, <1>1, <1>2, <2>5, RemoveWriteHolds
  <2>6. CASE MoveWrite(h)
    BY <1>0, <1>1, <1>2, <2>6, MoveWriteHolds
  <2>7. CASE \E s \in Subtasks : SubCreateInsert(h, s)
    BY <1>0, <1>1, <1>2, <2>7, SubCreateInsertHolds
  <2>8. CASE SaveSubWrite(h)
    BY <1>0, <1>1, <1>2, <2>8, SaveSubWriteHolds
  <2>9. CASE SubRemoveWrite(h)
    BY <1>0, <1>1, <1>2, <2>9, SubRemoveWriteHolds
  <2>10. CASE Notify(h)
    BY <1>0, <1>1, <1>2, <2>10, NotifyHolds
  <2>. QED BY <1>4, <2>1, <2>2, <2>3, <2>4, <2>5, <2>6, <2>7, <2>8, <2>9, <2>10 DEF Continue
<1>5. CASE UNCHANGED <<task, sub, notes, trail, removed, loc>>
  <2>1. TablesAgree'
    BY <1>5 DEF TablesAgree, ChildInParentProject, NotificationResolves, NotesHaveTasks,
                TrailExplainsRow, LoggedRow
  <2>2. HoldsCurrent(loc[h])'
    BY <1>2, <1>5 DEF HoldsCurrent, HoldsCurrentTask, HoldsCurrentSub, SavesOwnRow,
                      MovesOwnRow, Children
  <2>. QED BY <1>1, <2>1, <2>2
<1>. QED BY <1>1, <1>3, <1>4, <1>5 DEF Next, Quiescent, SetStatusKind, vars, tables

LEMMA SerialInvAlways ==
    ASSUME OneAtATime, SeedsPlaced
    PROVE  Spec => [](KInv /\ SerialInv)
<1>1. Init => KInv /\ SerialInv
  BY InitKInv, SerialInit
<1>2. KInv /\ SerialInv /\ [Next]_vars => KInv' /\ SerialInv'
  BY NextKInv, SerialStep
<1>. QED BY <1>1, <1>2, PTL DEF Spec

(* While requests come one at a time no create, update, reopening or move    *)
(* leaves a subtask in another project than its task.                        *)
THEOREM ChildInParentProjectOneAtATime ==
    ASSUME OneAtATime, SeedsPlaced
    PROVE  Spec => []ChildInParentProject
<1>1. SerialInv => ChildInParentProject
  BY DEF SerialInv, TablesAgree
<1>. QED BY <1>1, SerialInvAlways, PTL

(* Then a notification links to the project and number its task has now: a   *)
(* move rewrites those written before it and none is written after it from   *)
(* an entity read before it.                                                 *)
THEOREM NotificationResolvesOneAtATime ==
    ASSUME OneAtATime, SeedsPlaced
    PROVE  Spec => []NotificationResolves
<1>1. SerialInv => NotificationResolves
  BY DEF SerialInv, TablesAgree
<1>. QED BY <1>1, SerialInvAlways, PTL

(* Then the audit entries of a task, replayed, give the project, the number  *)
(* and the status of its row.                                                *)
THEOREM TrailExplainsRowOneAtATime ==
    ASSUME OneAtATime, SeedsPlaced
    PROVE  Spec => []TrailExplainsRow
<1>1. SerialInv => TrailExplainsRow
  BY DEF SerialInv, TablesAgree
<1>. QED BY <1>1, SerialInvAlways, PTL

---------------------------------------------------------------------------
(* completed_at *)

(* A row a step changes is the entity the handler had in memory.             *)
LEMMA RowsWritten ==
    ASSUME KInv, SerialInv, NEW h \in Handlers, Request(h) \/ Continue(h)
    PROVE  \A t \in Tasks :
              \/ task'[t] = task[t]
              \/ task'[t] = Null
              \/ /\ task'[t] = loc[h].ent
                 /\ loc[h].pc = "create.insert" /\ task[t] = Null
              \/ /\ task'[t] = loc[h].ent /\ task[t] # Null /\ t = loc[h].task
                 /\ \/ loc[h].pc = "task.write" /\ SaveTaskWrite(h)
                    \/ loc[h].pc = "move.write"
<1>. DEFINE l == loc[h]
<1>. TInv /\ l \in Local /\ WellFormed(l) /\ HoldsCurrent(l)
  BY AtAwait DEF KInv, SerialInv
<1>1. CASE task' = task
  BY <1>1
<1>2. ASSUME NEW t \in Tasks, CreateInsert(h, t), task' # task
      PROVE  /\ l.pc = "create.insert" /\ task[t] = Null
             /\ \A u \in Tasks : task'[u] = IF u = t THEN l.ent ELSE task[u]
  BY <1>2 DEF CreateInsert, UnusedTaskId, At, TInv, TypeOK
<1>3. CASE SaveTaskWrite(h) /\ task' # task
  <2>1. l.pc = "task.write" /\ SavesOwnRow(l) /\ l.old = task[l.task]
    BY <1>3 DEF SaveTaskWrite, At, HoldsCurrent, HoldsCurrentTask, SavePcs
  <2>2. /\ l.task \in Tasks /\ TaskAfterSave(l) = l.ent /\ task[l.task] # Null
    BY <2>1, SavesEntity DEF SavesOwnRow
  <2>3. task' = [task EXCEPT ![l.task] = l.ent]
    BY <1>3, <2>2 DEF SaveTaskWrite
  <2>. QED BY <1>3, <2>1, <2>2, <2>3 DEF TInv, TypeOK
<1>4. CASE MoveWrite(h) /\ task' # task
  <2>1. l.pc = "move.write" /\ MovesOwnRow(l)
    BY <1>4 DEF MoveWrite, At, HoldsCurrent, HoldsCurrentTask
  <2>2. /\ l.task \in Tasks /\ TaskAfterSave(l) = l.ent /\ task[l.task] # Null
    BY <2>1, SavesEntity DEF MovesOwnRow
  <2>3. task' = [task EXCEPT ![l.task] = l.ent]
    BY <1>4, <2>2 DEF MoveWrite
  <2>. QED BY <2>1, <2>2, <2>3 DEF TInv, TypeOK
<1>5. CASE RemoveWrite(h)
  BY <1>5 DEF RemoveWrite, TInv, TypeOK
<1>6. \/ task' = task
      \/ \E t \in Tasks : CreateInsert(h, t) /\ task' # task
      \/ SaveTaskWrite(h) /\ task' # task
      \/ MoveWrite(h) /\ task' # task
      \/ RemoveWrite(h)
  <2>1. CASE Request(h)
    BY <2>1, ZenonT(60) DEF Request, CreateRead, UpdateRead, RemoveRead, MoveLoad, SubCreateRead,
                SubUpdateRead, SubRemoveRead, Begin, tables
  <2>2. CASE Continue(h)
    BY <2>2 DEF Continue, CreateResolve, UpdateCheck, UpdateCount, UpdateResolve, SaveTaskRead,
                SubCreateCheck, SubCreateInsert, SubUpdateFind, SubUpdateCheck, SaveSubRead, SaveSubWrite,
                SubRemoveFind, SubRemoveWrite, Notify, Fail, tables
  <2>. QED BY <2>1, <2>2
<1>. QED BY <1>1, <1>2, <1>3, <1>4, <1>5, <1>6

(* Where a request waits after its first read; an update that changes the    *)
(* status waits for the check, another one goes straight to the save.        *)
Waiting == {"create.resolve", "remove.write", "subCreate.check", "subUpdate.find",
            "subRemove.find"}

LEMMA RequestWaits ==
    ASSUME TInv, NEW h \in Handlers, Request(h)
    PROVE  \/ loc'[h].pc \in Waiting
           \/ \E p \in Projects, t \in Tasks, st \in Orm(Statuses) : UpdateRead(h, p, t, st)
           \/ \E p, q \in Projects, t \in Tasks, st \in Statuses :
                  MoveLoad(h, p, q, t, st) /\ loc'[h].pc = "move.write"
<1>1. ASSUME NEW p \in Projects, NEW st \in Statuses, CreateRead(h, p, st)
      PROVE  loc'[h].pc = "create.resolve"
  <2>. DEFINE ent == [project |-> p, seq |-> NextSeq(p), status |-> st, completed |-> FALSE]
  <2>1. loc'[h] = [Idle EXCEPT !.pc = "create.resolve", !.project = p, !.ent = ent]
    BY <1>1, BeginLeaves DEF CreateRead
  <2>. HIDE DEF ent
  <2>. QED BY <2>1 DEF Idle
<1>2. ASSUME NEW p \in Projects, NEW t \in Tasks, RemoveRead(h, p, t)
      PROVE  loc'[h].pc = "remove.write"
  <2>1. loc'[h] = [Idle EXCEPT !.pc = "remove.write", !.task = t]
    BY <1>2, BeginLeaves DEF RemoveRead
  <2>. QED BY <2>1 DEF Idle
<1>3. ASSUME NEW p \in Projects, NEW q \in Projects, NEW t \in Tasks, NEW st \in Statuses,
             MoveLoad(h, p, q, t, st)
      PROVE  loc'[h].pc = "move.write"
  <2>. DEFINE ent == [project |-> q, seq |-> NextSeq(q), status |-> st,
                      completed |-> MovedCompletedAt(p, task[t].status, q, st, task[t].completed)]
              kids == Children(t)
              stamped == Terminal(q, st)
  <2>1. loc'[h] = [Idle EXCEPT !.pc = "move.write", !.project = q, !.task = t, !.to = st,
                               !.old = task[t], !.kids = kids, !.stamped = stamped, !.ent = ent]
    BY <1>3, BeginLeaves DEF MoveLoad
  <2>. HIDE DEF ent, kids, stamped
  <2>. QED BY <2>1 DEF Idle
<1>4. ASSUME NEW p \in Projects, NEW t \in Tasks, NEW done \in BOOLEAN, SubCreateRead(h, p, t, done)
      PROVE  loc'[h].pc = "subCreate.check"
  <2>. DEFINE kid == [task |-> t, project |-> p, done |-> done]
  <2>1. loc'[h] = [Idle EXCEPT !.pc = "subCreate.check", !.project = p, !.task = t,
                               !.ent = task[t], !.kid = kid]
    BY <1>4, BeginLeaves DEF SubCreateRead
  <2>. HIDE DEF kid
  <2>. QED BY <2>1 DEF Idle
<1>5. ASSUME NEW p \in Projects, NEW t \in Tasks, NEW s \in Subtasks, NEW done \in Orm(BOOLEAN),
             SubUpdateRead(h, p, t, s, done)
      PROVE  loc'[h].pc = "subUpdate.find"
  <2>1. loc'[h] = [Idle EXCEPT !.pc = "subUpdate.find", !.project = p, !.task = t,
                               !.sub = s, !.done = done, !.ent = task[t]]
    BY <1>5, BeginLeaves DEF SubUpdateRead
  <2>. QED BY <2>1 DEF Idle
<1>6. ASSUME NEW p \in Projects, NEW t \in Tasks, NEW s \in Subtasks, SubRemoveRead(h, p, t, s)
      PROVE  loc'[h].pc = "subRemove.find"
  <2>1. loc'[h] = [Idle EXCEPT !.pc = "subRemove.find", !.task = t, !.sub = s]
    BY <1>6, BeginLeaves DEF SubRemoveRead
  <2>. QED BY <2>1 DEF Idle
<1>. QED BY <1>1, <1>2, <1>3, <1>4, <1>5, <1>6 DEF Request, Waiting

(* A handler that has written, or has been turned down, is done but for its  *)
(* notifications.                                                            *)
LEMMA WriteEnds ==
    ASSUME TInv, NEW h \in Handlers,
           \/ SaveTaskWrite(h) \/ SaveSubWrite(h) \/ RemoveWrite(h) \/ MoveWrite(h)
           \/ SubRemoveWrite(h) \/ Notify(h) \/ Fail(h) \/ Finish(h)
           \/ \E t \in Tasks : CreateInsert(h, t)
           \/ \E s \in Subtasks : SubCreateInsert(h, s)
    PROVE  loc'[h].pc \in {"idle", "notify"}
<1>. DEFINE l == loc[h]
<1>. l \in Local
  BY AtAwait
<1>1. ASSUME Finish(h) PROVE loc'[h].pc = "idle"
  BY <1>1, GotoLeaves DEF Finish, Idle
<1>2. ASSUME Goto(h, [l EXCEPT !.pc = "notify"]) PROVE loc'[h].pc = "notify"
  <2>1. loc'[h] = [l EXCEPT !.pc = "notify"]
    BY <1>2, GotoLeaves
  <2>. QED BY <2>1 DEF Local
<1>3. ASSUME NEW t \in Tasks, Goto(h, [l EXCEPT !.pc = "notify", !.task = t])
      PROVE  loc'[h].pc = "notify"
  <2>1. loc'[h] = [l EXCEPT !.pc = "notify", !.task = t]
    BY <1>3, GotoLeaves
  <2>. QED BY <2>1 DEF Local
<1>. QED BY <1>1, <1>2, <1>3 DEF SaveTaskWrite, SaveSubWrite, RemoveWrite, MoveWrite,
       SubRemoveWrite, Notify, Fail, CreateInsert, SubCreateInsert

(* A step other than these leaves its handler without a row to write.        *)
LEMMA WritesNext ==
    ASSUME KInv, SerialInv, CompletedInv, NoStatusMaster,
           NEW h \in Handlers, Request(h) \/ Continue(h)
    PROVE  WritesCompletedAt(loc[h])' /\ kind' = kind
<1>. DEFINE l == loc[h]
<1>. TInv /\ l \in Local /\ WellFormed(l) /\ HoldsCurrent(l) /\ WritesCompletedAt(l)
  BY AtAwait DEF KInv, SerialInv, CompletedInv
<1>. USE DEF WritesCompletedAt, SavePcs
<1>1. kind' = kind
  BY ZenonT(60) DEF Request, CreateRead, UpdateRead, RemoveRead, MoveLoad, SubCreateRead,
         SubUpdateRead, SubRemoveRead, Begin, tables, Continue, CreateResolve, CreateInsert,
         UpdateCheck, UpdateCount, UpdateResolve, SaveTaskRead, SaveTaskWrite, RemoveWrite,
         MoveWrite,
         SubCreateCheck, SubCreateInsert, SubUpdateFind, SubUpdateCheck, SaveSubRead,
         SaveSubWrite, SubRemoveFind, SubRemoveWrite, Notify, Fail
<1>. SUFFICES WritesCompletedAt(loc[h])'
  BY <1>1
<1>2. ASSUME NEW p \in Projects, NEW t \in Tasks, NEW st \in Orm(Statuses), UpdateRead(h, p, t, st)
      PROVE  WritesCompletedAt(loc[h])'
  <2>. DEFINE to == IF st = task[t].status THEN Null ELSE st
  <2>0. loc'[h] = [Idle EXCEPT !.pc = IF to = Null THEN "task.save" ELSE "update.check",
                               !.project = p, !.task = t, !.to = to, !.ent = task[t]]
    BY <1>2, BeginLeaves DEF UpdateRead
  <2>. HIDE DEF to
  <2>1. loc'[h].ent = task[t] /\ task[t] # Null
    BY <1>2, <2>0 DEF UpdateRead, FindEntityInProject, Idle
  <2>. QED BY <1>1, <2>1 DEF CompletedInv, CompletedAtTracksStatus, Terminal
<1>3. ASSUME NEW p \in Projects, NEW q \in Projects, NEW t \in Tasks, NEW st \in Statuses,
             MoveLoad(h, p, q, t, st)
      PROVE  WritesCompletedAt(loc[h])'
  <2>. DEFINE completed == MovedCompletedAt(p, task[t].status, q, st, task[t].completed)
              ent == [project |-> q, seq |-> NextSeq(q), status |-> st, completed |-> completed]
              stamped == Terminal(q, st)
              old == task[t]
              kids == Children(t)
  <2>0. loc'[h] = [Idle EXCEPT !.pc = "move.write", !.project = q, !.task = t, !.to = st,
                               !.old = old, !.kids = kids, !.stamped = stamped, !.ent = ent]
    BY <1>3, BeginLeaves DEF MoveLoad
  <2>1. ent.project = q /\ ent.status = st /\ ent.completed = completed
    OBVIOUS
  <2>2. completed <=> Terminal(q, st)
    BY <1>3 DEF MoveLoad, FindEntityInProject, MovedCompletedAt, CompletedInv,
                CompletedAtTracksStatus
  <2>. HIDE DEF ent, completed, stamped, old, kids
  <2>3. loc'[h].ent = ent
    BY <2>0 DEF Idle
  <2>. QED BY <1>1, <2>1, <2>2, <2>3 DEF Terminal
<1>4. CASE CreateResolve(h)
  <2>. DEFINE completed == Terminal(l.project, l.ent.status)
              ent == [l.ent EXCEPT !.completed = completed]
  <2>0. loc'[h] = [l EXCEPT !.pc = "create.insert", !.ent = ent]
    BY <1>4, GotoLeaves DEF CreateResolve
  <2>1. l.ent \in TaskRow /\ l.ent.project = l.project
    BY <1>4 DEF CreateResolve, At, WellFormed, NeedsEnt, HoldsCurrent, HoldsCurrentTask, CreatePcs
  <2>2. ent.project = l.project /\ ent.status = l.ent.status /\ ent.completed = completed
    BY <2>1 DEF TaskRow
  <2>. HIDE DEF ent
  <2>3. loc'[h].ent = ent
    BY <2>0 DEF Local
  <2>. QED BY <1>1, <2>2, <2>3 DEF Terminal
<1>5. CASE UpdateResolve(h)
  <2>. DEFINE completed == ResolveCompletedAt(l.project, l.ent.status, l.to, l.ent.completed)
              ent == [l.ent EXCEPT !.status = l.to, !.completed = completed]
              stamped == Terminal(l.project, l.to)
  <2>0. loc'[h] = [l EXCEPT !.pc = "task.save", !.stamped = stamped, !.ent = ent]
    BY <1>5, GotoLeaves DEF UpdateResolve
  <2>1. /\ l.ent \in TaskRow /\ l.ent.project = l.project /\ task[l.task] = l.ent
        /\ l.task \in Tasks /\ l.ent # Null
    BY <1>5, StoreAssumption DEF UpdateResolve, At, WellFormed, NeedsEnt, NeedsTask, Pcs, CreatePcs, UpdatePcs,
       HoldsCurrent, HoldsCurrentTask
  <2>2. completed <=> Terminal(l.project, l.to)
    BY <2>1 DEF ResolveCompletedAt, CompletedInv, CompletedAtTracksStatus
  <2>. HIDE DEF completed
  <2>3. ent.project = l.project /\ ent.status = l.to /\ ent.completed = completed
    BY <2>1 DEF TaskRow
  <2>. HIDE DEF ent, stamped
  <2>4. loc'[h].ent = ent
    BY <2>0 DEF Local
  <2>. QED BY <1>1, <2>2, <2>3, <2>4 DEF Terminal
<1>6. CASE SaveTaskRead(h)
  <2>1. /\ loc'[h] = [l EXCEPT !.pc = "task.write", !.old = task[l.task]] /\ l.pc = "task.save"
    BY <1>6, GotoLeaves DEF SaveTaskRead, At
  <2>2. loc'[h].ent = l.ent
    BY <2>1 DEF Local
  <2>. QED BY <1>1, <2>1, <2>2 DEF Terminal
<1>7. CASE Finish(h)
  BY <1>7, GotoLeaves, IdleHolds DEF Finish
<1>8. ASSUME loc'[h].pc \notin {"create.insert", "move.write", "task.save", "task.write"}
      PROVE  WritesCompletedAt(loc[h])'
  BY <1>8
<1>9. CASE Request(h)
  <2>1. CASE loc'[h].pc \in Waiting
    BY <1>8, <2>1 DEF Waiting
  <2>. HIDE DEF WritesCompletedAt
  <2>. QED BY <1>2, <1>3, <1>9, <2>1, RequestWaits
<1>10. CASE Continue(h)
  <2>1. ASSUME NEW pc \in {"update.count", "update.resolve", "subCreate.insert",
                           "subRemove.write"},
               Goto(h, [l EXCEPT !.pc = pc])
        PROVE  WritesCompletedAt(loc[h])'
    <3>1. loc'[h] = [l EXCEPT !.pc = pc]
      BY <2>1, GotoLeaves
    <3>2. loc'[h].pc = pc
      BY <3>1 DEF Local
    <3>. QED BY <1>8, <3>2
  <2>2. CASE loc'[h].pc \in {"idle", "notify"}
    BY <1>8, <2>2
  <2>3. CASE SubUpdateFind(h)
    <3>. DEFINE pc == IF l.done # Null /\ l.done # sub[l.sub].done THEN "subUpdate.check" ELSE "sub.save"
    <3>1. CASE Goto(h, [l EXCEPT !.pc = pc, !.kid = sub[l.sub]])
      <4>1. loc'[h] = [l EXCEPT !.pc = pc, !.kid = sub[l.sub]]
        BY <3>1, GotoLeaves
      <4>2. loc'[h].pc \in {"subUpdate.check", "sub.save"}
        BY <4>1 DEF Local
      <4>. QED BY <1>8, <4>2
    <3>. HIDE DEF WritesCompletedAt
    <3>. QED BY <1>7, <2>3, <3>1 DEF SubUpdateFind
  <2>4. CASE SubUpdateCheck(h)
    <3>. DEFINE kid == [l.kid EXCEPT !.done = l.done]
    <3>1. CASE Goto(h, [l EXCEPT !.pc = "sub.save", !.kid = kid])
      <4>1. loc'[h] = [l EXCEPT !.pc = "sub.save", !.kid = kid]
        BY <3>1, GotoLeaves
      <4>. HIDE DEF kid
      <4>2. loc'[h].pc = "sub.save"
        BY <4>1 DEF Local
      <4>. QED BY <1>8, <4>2
    <3>. HIDE DEF WritesCompletedAt
    <3>. QED BY <1>7, <2>4, <3>1 DEF SubUpdateCheck
  <2>5. CASE SaveSubRead(h)
    <3>1. loc'[h] = [l EXCEPT !.pc = "sub.write", !.old = sub[l.sub]]
      BY <2>5, GotoLeaves DEF SaveSubRead
    <3>2. loc'[h].pc = "sub.write"
      BY <3>1 DEF Local
    <3>. QED BY <1>8, <3>2
  <2>. HIDE DEF WritesCompletedAt
  <2>6. CASE UpdateCheck(h) \/ UpdateCount(h) \/ SubCreateCheck(h) \/ SubRemoveFind(h)
    BY <1>7, <2>1, <2>6 DEF UpdateCheck, UpdateCount, SubCreateCheck, SubRemoveFind
  <2>. QED BY <1>4, <1>5, <1>6, <1>10, <2>2, <2>3, <2>4, <2>5, <2>6, WriteEnds DEF Continue
<1>. QED BY <1>1, <1>9, <1>10

LEMMA CompletedStep ==
    ASSUME OneAtATime, NoStatusMaster, KInv, SerialInv, CompletedInv, [Next]_vars
    PROVE  CompletedInv'
<1>1. PICK h : Handlers = {h}
  BY DEF OneAtATime
<1>2. CASE Request(h) \/ Continue(h)
  <2>1. WritesCompletedAt(loc[h])' /\ kind' = kind /\ h \in Handlers
    BY <1>1, <1>2, WritesNext
  <2>2. ASSUME NEW t \in Tasks, task'[t] # Null
        PROVE  task'[t].completed <=> Terminal(task'[t].project, task'[t].status)
    BY <1>2, <2>1, <2>2, RowsWritten
       DEF CompletedInv, CompletedAtTracksStatus, WritesCompletedAt, SavePcs
  <2>. QED BY <1>1, <2>1, <2>2 DEF CompletedInv, CompletedAtTracksStatus, Terminal
<1>3. CASE UNCHANGED <<task, kind, loc>>
  BY <1>3 DEF CompletedInv, CompletedAtTracksStatus, WritesCompletedAt, Terminal
<1>. QED BY <1>1, <1>2, <1>3 DEF Next, Quiescent, SetStatusKind, NoStatusMaster, vars, tables

(* While requests come one at a time and nobody edits the status master,     *)
(* completed_at has a value exactly while the status is terminal, through    *)
(* every create, change of status and move to a project whose statuses mean  *)
(* something else.                                                           *)
THEOREM CompletedAtTracksStatusOneAtATime ==
    ASSUME OneAtATime, NoStatusMaster, SeedsPlaced, SeedsCompleted
    PROVE  Spec => []CompletedAtTracksStatus
<1>1. Init => CompletedInv
  <2>. SUFFICES ASSUME Init PROVE CompletedInv
    OBVIOUS
  <2>1. PICK d \in Seeds : task = d.task /\ kind = d.kind
    BY DEF Init
  <2>2. CompletedAtTracksStatus
    BY <2>1 DEF SeedsCompleted, CompletedAtTracksStatus, Terminal
  <2>. QED BY <2>2, IdleHolds DEF Init, CompletedInv
<1>2. KInv /\ SerialInv /\ CompletedInv /\ [Next]_vars => CompletedInv'
  BY CompletedStep
<1>3. CompletedInv => CompletedAtTracksStatus
  BY DEF CompletedInv
<1>. QED BY <1>1, <1>2, <1>3, SerialInvAlways, PTL DEF Spec

---------------------------------------------------------------------------
(* Who can leave a closed parent with an open child *)

(* A subtask after a step is the one before it, maybe in another project, or *)
(* the one the handler creates or saves under the task it has read.          *)
LEMMA SubsWritten ==
    ASSUME KInv, SerialInv, NEW h \in Handlers, Request(h) \/ Continue(h),
           NEW s \in Subtasks, sub'[s] # Null
    PROVE  \/ /\ sub[s] # Null /\ sub'[s].task = sub[s].task /\ sub'[s].done = sub[s].done
           \/ /\ task' = task
              /\ sub'[s].task = loc[h].task /\ sub'[s].done = loc[h].kid.done
              /\ task[loc[h].task] = loc[h].ent /\ loc[h].ent.project = loc[h].project
              /\ \/ loc[h].pc = "subCreate.insert"
                 \/ /\ loc[h].pc = "sub.write" /\ s = loc[h].sub
                    /\ sub[s] # Null /\ sub[s].task = loc[h].task
<1>. DEFINE l == loc[h]
<1>. TInv /\ l \in Local /\ WellFormed(l) /\ HoldsCurrent(l)
  BY AtAwait DEF KInv, SerialInv
<1>1. CASE sub' = sub
  BY <1>1
<1>2. ASSUME NEW r \in Subtasks, SubCreateInsert(h, r), r # s \/ sub' = sub
      PROVE  sub'[s] = sub[s]
  BY <1>2 DEF SubCreateInsert, TInv, TypeOK
<1>3. CASE SubCreateInsert(h, s) /\ sub' # sub
  <2>1. /\ l.pc = "subCreate.insert" /\ l.kid.task = l.task
        /\ task[l.task] = l.ent /\ l.ent.project = l.project
    BY <1>3 DEF SubCreateInsert, At, HoldsCurrent, HoldsCurrentTask, HoldsCurrentSub, SubCreatePcs
  <2>2. sub'[s] = l.kid /\ task' = task
    BY <1>3 DEF SubCreateInsert, TInv, TypeOK
  <2>. QED BY <2>1, <2>2
<1>4. CASE SaveSubWrite(h) /\ s = l.sub
  <2>1. /\ l.pc = "sub.write" /\ l.kid \in SubRow
        /\ sub[s] # Null /\ sub[s].task = l.task /\ l.kid.task = l.task
        /\ l.old = sub[s] /\ task[l.task] = l.ent /\ l.ent.project = l.project
    BY <1>4 DEF SaveSubWrite, At, HoldsCurrent, HoldsCurrentTask, HoldsCurrentSub,
       HoldingPcs, SubUpdatePcs, WellFormed, NeedsKid
  <2>2. sub' = [sub EXCEPT ![s] = SavedSub(sub[s], l.kid, sub[s])] /\ task' = task
    BY <1>4, <2>1 DEF SaveSubWrite
  <2>3. sub'[s] = SavedSub(sub[s], l.kid, sub[s])
    BY <2>2 DEF TInv, TypeOK
  <2>4. sub'[s].task = l.task /\ sub'[s].done = l.kid.done
    BY <2>1, <2>3 DEF SavedSub, Changed
  <2>. QED BY <1>4, <2>1, <2>2, <2>4
<1>5. CASE SaveSubWrite(h) /\ s # l.sub
  <2>1. sub'[s] = sub[s]
    BY <1>5 DEF SaveSubWrite, TInv, TypeOK
  <2>. QED BY <2>1
<1>6. CASE MoveWrite(h) /\ sub' # sub
  <2>1. sub'[s] \in {sub[s], [sub[s] EXCEPT !.project = l.project]} /\ sub[s] # Null
    BY <1>6 DEF MoveWrite, Carried
  <2>2. sub[s] \in SubRow
    BY <2>1 DEF TInv, TypeOK, Orm
  <2>. QED BY <2>1, <2>2 DEF SubRow
<1>7. CASE RemoveWrite(h)
  BY <1>7 DEF RemoveWrite, WithoutChildren
<1>8. CASE SubRemoveWrite(h)
  BY <1>8 DEF SubRemoveWrite, TInv, TypeOK
<1>9. \/ sub' = sub
      \/ \E r \in Subtasks : SubCreateInsert(h, r)
      \/ SaveSubWrite(h)
      \/ MoveWrite(h) /\ sub' # sub
      \/ RemoveWrite(h)
      \/ SubRemoveWrite(h)
  <2>1. CASE Request(h)
    BY <2>1, ZenonT(60) DEF Request, CreateRead, UpdateRead, RemoveRead, MoveLoad, SubCreateRead,
                SubUpdateRead, SubRemoveRead, Begin, tables
  <2>2. CASE Continue(h)
    BY <2>2 DEF Continue, CreateResolve, CreateInsert, UpdateCheck, UpdateCount, UpdateResolve,
                SaveTaskRead, SaveTaskWrite, SubCreateCheck, SubUpdateFind, SubUpdateCheck, SaveSubRead,
                SubRemoveFind, Notify, Fail, tables
  <2>. QED BY <2>1, <2>2
<1>. QED BY <1>1, <1>2, <1>3, <1>4, <1>5, <1>6, <1>7, <1>8, <1>9

(* No handler finishes a check that what it then writes contradicts.         *)
LEMMA ClosingNext ==
    ASSUME KInv, SerialInv, ClosingInv, NEW h \in Handlers, Request(h) \/ Continue(h),
           kind' = kind
    PROVE  ChecksHold(loc[h])'
<1>. DEFINE l == loc[h]
<1>. TInv /\ l \in Local /\ WellFormed(l) /\ HoldsCurrent(l) /\ ChecksHold(l)
  BY AtAwait DEF KInv, SerialInv, ClosingInv
<1>. DEFINE Checking == {"update.resolve", "task.save", "task.write", "subCreate.insert",
                         "subUpdate.check", "sub.save", "sub.write"}
<1>1. ASSUME loc'[h].pc \notin Checking PROVE ChecksHold(loc[h])'
  BY <1>1 DEF ChecksHold, SavePcs
<1>2. CASE Finish(h)
  BY <1>2, GotoLeaves, IdleHolds DEF Finish
<1>3. ASSUME NEW p \in Projects, NEW t \in Tasks, NEW st \in Orm(Statuses), UpdateRead(h, p, t, st)
      PROVE  ChecksHold(loc[h])'
  <2>. DEFINE to == IF st = task[t].status THEN Null ELSE st
              pc == IF to = Null THEN "task.save" ELSE "update.check"
  <2>0. loc'[h] = [Idle EXCEPT !.pc = pc, !.project = p, !.task = t, !.to = to, !.ent = task[t]]
    BY <1>3, BeginLeaves DEF UpdateRead
  <2>1. (pc = "task.save" /\ to = Null) \/ pc = "update.check"
    OBVIOUS
  <2>. HIDE DEF to, pc
  <2>2. loc'[h].pc = pc /\ loc'[h].to = to
    BY <2>0 DEF Idle
  <2>. QED BY <2>1, <2>2 DEF ChecksHold, SavePcs
<1>4. CASE UpdateCheck(h) \/ (UpdateCount(h) /\ ~Finish(h))
  <2>1. CASE Goto(h, [l EXCEPT !.pc = "update.count"])
    <3>1. loc'[h] = [l EXCEPT !.pc = "update.count"]
      BY <2>1, GotoLeaves
    <3>2. loc'[h].pc = "update.count"
      BY <3>1 DEF Local
    <3>. QED BY <1>1, <3>2
  <2>2. CASE /\ Goto(h, [l EXCEPT !.pc = "update.resolve"])
             /\ Terminal(l.project, l.to) => ~Incomplete(l.task)
    <3>0. loc'[h] = [l EXCEPT !.pc = "update.resolve"]
      BY <2>2, GotoLeaves
    <3>1. loc'[h].pc = "update.resolve" /\ loc'[h].task = l.task /\ loc'[h].to = l.to
          /\ loc'[h].ent = l.ent
      BY <3>0 DEF Local
    <3>2. l.ent.project = l.project /\ sub' = sub
      BY <1>4 DEF UpdateCheck, UpdateCount, At, HoldsCurrent, HoldsCurrentTask, UpdatePcs, tables
    <3>. QED BY <2>2, <3>1, <3>2 DEF ChecksHold, SavePcs, Terminal, Incomplete, Children
  <2>3. CASE UpdateCheck(h)
    <3>1. CASE Terminal(l.project, l.to)
      BY <2>1, <2>3, <3>1 DEF UpdateCheck
    <3>2. CASE ~Terminal(l.project, l.to)
      BY <2>2, <2>3, <3>2 DEF UpdateCheck
    <3>. QED BY <3>1, <3>2
  <2>4. CASE UpdateCount(h) /\ ~Finish(h)
    BY <2>2, <2>4 DEF UpdateCount
  <2>. QED BY <1>4, <2>3, <2>4
<1>5. CASE UpdateResolve(h)
  <2>. DEFINE completed == ResolveCompletedAt(l.project, l.ent.status, l.to, l.ent.completed)
              ent == [l.ent EXCEPT !.status = l.to, !.completed = completed]
              stamped == Terminal(l.project, l.to)
  <2>0. loc'[h] = [l EXCEPT !.pc = "task.save", !.stamped = stamped, !.ent = ent]
    BY <1>5, GotoLeaves DEF UpdateResolve
  <2>1. l.ent \in TaskRow /\ l.pc = "update.resolve" /\ sub' = sub
    BY <1>5 DEF UpdateResolve, At, WellFormed, NeedsEnt, UpdatePcs, tables
  <2>2. ent.project = l.ent.project
    BY <2>1 DEF TaskRow
  <2>. HIDE DEF ent, stamped
  <2>3. loc'[h].pc = "task.save" /\ loc'[h].task = l.task /\ loc'[h].to = l.to
        /\ loc'[h].ent = ent
    BY <2>0 DEF Local
  <2>. QED BY <2>1, <2>2, <2>3 DEF ChecksHold, SavePcs, Terminal, Incomplete, Children
<1>6. CASE SaveTaskRead(h)
  <2>0. /\ loc'[h] = [l EXCEPT !.pc = "task.write", !.old = task[l.task]]
        /\ l.pc = "task.save" /\ sub' = sub
    BY <1>6, GotoLeaves DEF SaveTaskRead, At, tables
  <2>1. loc'[h].pc = "task.write" /\ loc'[h].task = l.task /\ loc'[h].to = l.to
        /\ loc'[h].ent = l.ent
    BY <2>0 DEF Local
  <2>. QED BY <2>0, <2>1 DEF ChecksHold, SavePcs, Terminal, Incomplete, Children
<1>7. CASE SubCreateCheck(h) /\ ~Finish(h)
  <2>0. loc'[h] = [l EXCEPT !.pc = "subCreate.insert"] /\ ~ParentTerminal(l)
    BY <1>7, GotoLeaves DEF SubCreateCheck
  <2>1. loc'[h].pc = "subCreate.insert" /\ loc'[h].project = l.project /\ loc'[h].ent = l.ent
    BY <2>0 DEF Local
  <2>. QED BY <2>0, <2>1 DEF ChecksHold, SavePcs, Terminal, ParentTerminal
<1>8. CASE SubUpdateFind(h) /\ ~Finish(h)
  <2>. DEFINE same == ~(l.done # Null /\ l.done # sub[l.sub].done)
              pc == IF same THEN "sub.save" ELSE "subUpdate.check"
  <2>0. loc'[h] = [l EXCEPT !.pc = pc, !.kid = sub[l.sub]] /\ sub' = sub
    BY <1>8, GotoLeaves DEF SubUpdateFind, tables
  <2>1. pc \in {"sub.save", "subUpdate.check"}
    OBVIOUS
  <2>. HIDE DEF pc
  <2>2. loc'[h].pc = pc /\ loc'[h].kid = sub[l.sub] /\ loc'[h].sub = l.sub
    BY <2>0 DEF Local
  <2>. QED BY <2>0, <2>1, <2>2 DEF ChecksHold, SavePcs
<1>9. CASE SubUpdateCheck(h) /\ ~Finish(h)
  <2>. DEFINE kid == [l.kid EXCEPT !.done = l.done]
  <2>0. loc'[h] = [l EXCEPT !.pc = "sub.save", !.kid = kid] /\ (l.done \/ ~ParentTerminal(l))
    BY <1>9, GotoLeaves DEF SubUpdateCheck
  <2>1. kid.done = l.done
    BY <1>9 DEF SubUpdateCheck, At, WellFormed, NeedsKid, HoldingPcs, SubRow
  <2>. HIDE DEF kid
  <2>2. loc'[h].pc = "sub.save" /\ loc'[h].kid = kid /\ loc'[h].sub = l.sub
        /\ loc'[h].project = l.project /\ loc'[h].ent = l.ent
    BY <2>0 DEF Local
  <2>. QED BY <2>0, <2>1, <2>2 DEF ChecksHold, SavePcs, ParentTerminal, Terminal
<1>10. CASE SaveSubRead(h)
  <2>0. /\ loc'[h] = [l EXCEPT !.pc = "sub.write", !.old = sub[l.sub]]
        /\ l.pc = "sub.save" /\ sub' = sub
    BY <1>10, GotoLeaves DEF SaveSubRead, At, tables
  <2>1. loc'[h].pc = "sub.write" /\ loc'[h].kid = l.kid /\ loc'[h].sub = l.sub
        /\ loc'[h].project = l.project /\ loc'[h].ent = l.ent
    BY <2>0 DEF Local
  <2>. QED BY <2>0, <2>1 DEF ChecksHold, SavePcs, ParentTerminal, Terminal
<1>11. CASE Request(h)
  BY <1>1, <1>3, <1>11, RequestWaits DEF Waiting
<1>12. CASE Continue(h)
  <2>1. CASE CreateResolve(h)
    <3>. DEFINE ent == [l.ent EXCEPT !.completed = Terminal(l.project, l.ent.status)]
    <3>1. loc'[h] = [l EXCEPT !.pc = "create.insert", !.ent = ent]
      BY <2>1, GotoLeaves DEF CreateResolve
    <3>. HIDE DEF ent
    <3>2. loc'[h].pc = "create.insert"
      BY <3>1 DEF Local
    <3>. QED BY <1>1, <3>2
  <2>2. CASE SubRemoveFind(h) /\ ~Finish(h)
    <3>1. loc'[h] = [l EXCEPT !.pc = "subRemove.write"]
      BY <2>2, GotoLeaves DEF SubRemoveFind
    <3>2. loc'[h].pc = "subRemove.write"
      BY <3>1 DEF Local
    <3>. QED BY <1>1, <3>2
  <2>3. CASE loc'[h].pc \in {"idle", "notify"}
    BY <1>1, <2>3
  <2>. QED BY <1>2, <1>4, <1>5, <1>6, <1>7, <1>8, <1>9, <1>10, <1>12, <2>1, <2>2, <2>3, WriteEnds
           DEF Continue
<1>. QED BY <1>11, <1>12

LEMMA ClosingStep ==
    ASSUME OneAtATime, NoStatusMaster, KInv, SerialInv, ClosingInv, [Next]_vars
    PROVE  ClosingInv'
<1>1. PICK h : Handlers = {h}
  BY DEF OneAtATime
<1>2. CASE (Request(h) \/ Continue(h)) /\ kind' = kind
  BY <1>1, <1>2, ClosingNext DEF ClosingInv
<1>3. CASE UNCHANGED <<sub, kind, loc>>
  BY <1>3 DEF ClosingInv, ChecksHold, SavePcs, Terminal, ParentTerminal, Incomplete, Children
<1>4. ASSUME Request(h) \/ Continue(h) PROVE kind' = kind
  BY <1>4, ZenonT(60) DEF Request, CreateRead, UpdateRead, RemoveRead, MoveLoad, SubCreateRead,
         SubUpdateRead, SubRemoveRead, Begin, tables, Continue, CreateResolve, CreateInsert,
         UpdateCheck, UpdateCount, UpdateResolve, SaveTaskRead, SaveTaskWrite, RemoveWrite,
         MoveWrite,
         SubCreateCheck, SubCreateInsert, SubUpdateFind, SubUpdateCheck, SaveSubRead,
         SaveSubWrite, SubRemoveFind, SubRemoveWrite, Notify, Fail
<1>. QED BY <1>1, <1>2, <1>3, <1>4 DEF Next, Quiescent, SetStatusKind, NoStatusMaster, vars, tables

(* With requests one at a time and the status master left alone, only a move *)
(* can leave a closed task with an open subtask: what an update, a create or *)
(* a reopening has checked before its awaits still holds when it writes.     *)
THEOREM OnlyMoveOrMasterOneAtATime ==
    ASSUME OneAtATime, NoStatusMaster, SeedsPlaced
    PROVE  Spec => OnlyMoveOrMasterBreaksCompletion
<1>. DEFINE Blamed == \A t \in Tasks :
                ClosedWithOpenChild(t)' =>
                    \/ ClosedWithOpenChild(t)
                    \/ \E h \in Handlers : At(h, "move.write")
                    \/ kind' # kind
<1>1. Init => ClosingInv
  BY IdleHolds DEF Init, ClosingInv
<1>2. KInv /\ SerialInv /\ ClosingInv /\ [Next]_vars => ClosingInv'
  BY ClosingStep
<1>3. KInv /\ SerialInv /\ ClosingInv /\ [Next]_vars => [Blamed]_vars
  <2>. SUFFICES ASSUME KInv, SerialInv, ClosingInv, Next,
                       NEW t \in Tasks, ClosedWithOpenChild(t)', kind' = kind,
                       \A h \in Handlers : ~At(h, "move.write")
                PROVE  ClosedWithOpenChild(t)
    OBVIOUS
  <2>1. PICK h : Handlers = {h}
    BY DEF OneAtATime
  <2>2. CASE UNCHANGED <<task, sub>>
    BY <2>2 DEF ClosedWithOpenChild, Incomplete, Children, Terminal
  <2>3. CASE Request(h) \/ Continue(h)
    <3>. DEFINE l == loc[h]
    <3>1. /\ h \in Handlers /\ ChecksHold(l) /\ l.pc # "move.write"
          /\ SubtaskHasParent /\ HoldsCurrent(l)
      BY <2>1 DEF ClosingInv, At, KInv, SerialInv
    <3>2. PICK s \in Subtasks : sub'[s] # Null /\ sub'[s].task = t /\ ~sub'[s].done
      BY DEF ClosedWithOpenChild, Incomplete, Children
    <3>3. task'[t] # Null /\ Terminal(task'[t].project, task'[t].status)
      BY DEF ClosedWithOpenChild, Terminal
    <3>4. CASE sub[s] # Null /\ sub'[s].task = sub[s].task /\ sub'[s].done = sub[s].done
      <4>1. task[t] # Null /\ Incomplete(t)
        BY <3>1, <3>2, <3>4 DEF SubtaskHasParent, Incomplete, Children
      <4>2. CASE task'[t] = task[t]
        BY <3>3, <4>1, <4>2 DEF ClosedWithOpenChild
      <4>3. CASE task'[t] = l.ent /\ t = l.task /\ l.pc = "task.write" /\ SavesOwnRow(l)
        BY <3>1, <3>3, <4>1, <4>3 DEF ChecksHold, SavePcs, SavesOwnRow, ClosedWithOpenChild
      <4>. QED BY <2>3, <3>1, <3>3, <4>1, <4>2, <4>3, RowsWritten
               DEF HoldsCurrent, HoldsCurrentTask, SavePcs
    <3>5. CASE /\ task' = task
               /\ sub'[s].task = l.task /\ sub'[s].done = l.kid.done
               /\ task[l.task] = l.ent /\ l.ent.project = l.project
               /\ \/ l.pc = "subCreate.insert"
                  \/ /\ l.pc = "sub.write" /\ s = l.sub
                     /\ sub[s] # Null /\ sub[s].task = l.task
      <4>1. t = l.task /\ task[t] = l.ent /\ ParentTerminal(l) /\ ~l.kid.done
        BY <3>2, <3>3, <3>5 DEF ParentTerminal
      <4>2. l.pc = "sub.write" /\ ~sub[s].done
        BY <3>1, <3>5, <4>1 DEF ChecksHold
      <4>. QED BY <3>3, <3>5, <4>1, <4>2 DEF ClosedWithOpenChild, Incomplete, Children
    <3>. QED BY <2>3, <3>1, <3>2, <3>4, <3>5, SubsWritten
  <2>. QED BY <2>1, <2>2, <2>3 DEF Next, Quiescent, SetStatusKind, vars, tables
<1>4. Spec => [][Blamed]_vars
  BY <1>1, <1>2, <1>3, SerialInvAlways, PTL DEF Spec
<1>. QED BY <1>4 DEF OnlyMoveOrMasterBreaksCompletion

=============================================================================
