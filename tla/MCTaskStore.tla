---------------------------- MODULE MCTaskStore ----------------------------
(* Small databases for TaskStore: two projects with an open and a terminal   *)
(* status each, two task ids, two subtask ids.                               *)
EXTENDS TaskStore, TLC

CONSTANTS p1, p2, t1, t2, s1, s2, open, doing, closed

Masters ==
    [p \in {p1, p2} |-> [st \in Statuses |-> IF st = closed THEN "terminal" ELSE "open"]]

Row(p, n, st) == [project |-> p, seq |-> n, status |-> st, completed |-> st = closed]
Child(t, p, d) == [task |-> t, project |-> p, done |-> d]

Db(a, b, c, d) == [task |-> t1 :> a @@ t2 :> b, sub |-> s1 :> c @@ s2 :> d, kind |-> Masters]

(* t1 is in p1 with one open subtask. *)
OneParent == Db(Row(p1, 1, open), Null, Child(t1, p1, FALSE), Null)

(* t1 is closed in p1 with one done subtask. *)
ClosedParent == Db(Row(p1, 1, closed), Null, Child(t1, p1, TRUE), Null)

(* t1 is open in p1 and its subtask is done. *)
ReadyParent == Db(Row(p1, 1, open), Null, Child(t1, p1, TRUE), Null)

(* t1 is in p1 and t2 in p2: the numbers of the two projects meet.           *)
TwoProjects == Db(Row(p1, 1, open), Row(p2, 1, open), Child(t1, p1, TRUE), Null)

SeedsParent == {OneParent, ClosedParent, ReadyParent}
SeedsAll == {OneParent, TwoProjects}

Numbers == 1..4
HandlerSymmetry == Permutations(Handlers)

AllOps == Endpoints
NoMaster == Endpoints \ {"statusMaster"}
UpdateAndSubCreate == {"update", "subCreate"}
=============================================================================
