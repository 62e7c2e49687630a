----------------------------- MODULE TaskMovePlan -----------------------------
(***************************************************************************)
(* What becomes of the references of a task that moves to another project: *)
(* TaskMoveService (preview, move, load, plan) and the dialog that shows   *)
(* the losses and asks for a confirmation (TaskMoveModal.vue).             *)
(*                                                                         *)
(* Number, completion time, notifications and the interleaving of a move   *)
(* with other writes are in TaskStore; here a handler is one step, and     *)
(* between the preview and the move anything may change.  Tags follow the  *)
(* rule of flags and priorities the rule of statuses, but may be empty;    *)
(* both are left out.  Names are trimmed names; one of nothing but spaces  *)
(* passes as a name and is Nameless.                                       *)
(***************************************************************************)
EXTENDS Naturals, FiniteSets, Sequences, SequencesExt

CONSTANTS
    Sites,         \* projects
    Jobs,          \* tasks
    Pieces,        \* subtasks, all of the first task
    Remarks,       \* comments
    Staff,         \* ids of project_members
    Badges,        \* ids of flags
    Titles,        \* names of members and flags
    Nameless,      \* the empty one
    Patrons,       \* users
    Actor,         \* the user at the dialog
    StageLabel,    \* task_statuses.label: [Sites -> [codes -> labels]]
    InitialStage,  \* the status with is_initial: [Sites -> codes]
    MoveSeeds,     \* databases to begin with
    MaxTouches,    \* bound: changes by others
    MaxAsks,       \* bound: previews asked for
    Blank,
    Refused

VARIABLES
    db,        \* the tables a move reads and writes
    edition,   \* number of changes so far
    asks,      \* requests for a preview in flight, oldest first
    orders,    \* moves in flight
    dialog,    \* TaskMoveModal
    asked

movePlanVars == <<db, edition, asks, orders, dialog, asked>>

StageCodes == UNION {DOMAIN StageLabel[s] : s \in Sites}

Badge == [site : Sites, name : Titles]
Person == [site : Sites, user : Patrons \cup {Blank}, name : Titles]
Job == [site : Sites, stage : StageCodes, assignee : Staff \cup {Blank},
        requester : Staff \cup {Blank}, badges : SUBSET Badges]
Piece == [job : Jobs, site : Sites, assignee : Staff \cup {Blank}, badges : SUBSET Badges]
Remark == [job : Jobs, site : Sites, author : Staff \cup {Blank}]

Db == [job : [Jobs -> Job], piece : [Pieces -> Piece],
       remark : [Remarks -> Remark \cup {Blank}], bonds : SUBSET SUBSET Jobs,
       staff : [Staff -> Person \cup {Blank}], badge : [Badges -> Badge \cup {Blank}],
       readonly : SUBSET Patrons, stages : [Sites -> SUBSET StageCodes],
       archived : SUBSET Sites]

(* Blank stands for what the tables keep as NULL, or no longer have. *)
ASSUME MovePlanAssumption ==
    /\ Blank \notin Badge \cup Person \cup Remark \cup Staff \cup Titles
    /\ MaxTouches \in Nat /\ MaxAsks \in Nat

Loss ==
    [what : {"badge", "pieceBadge", "pieceAssignee", "author", "assignee", "requester"},
     name : Titles] \cup [what : {"bonds"}]
Form == [stage : StageCodes \cup {Blank}, assignee : Staff \cup {Blank},
         requester : Staff \cup {Blank}]
Preview == [job : Jobs, to : Sites, form : Form, lost : SUBSET Loss,
            assignee : Titles \cup {Blank}, requester : Titles \cup {Blank},
            assignees : SUBSET Staff, edition : 0..MaxTouches + MaxAsks]
Ask == [job : Jobs, from : Sites, to : Sites, answer : Preview \cup {Blank, Refused}]
MoveOrder == [job : Jobs, from : Sites, to : Sites, form : Form, shown : SUBSET Loss,
          preview : Preview]
Dialog == [open : BOOLEAN, job : Jobs, target : Sites \cup {Blank},
           preview : Preview \cup {Blank}, form : Form, confirmed : BOOLEAN,
           moving : BOOLEAN]

MovePlanTypeOK ==
    /\ db \in Db
    /\ edition \in 0..MaxTouches + MaxAsks
    /\ \A i \in DOMAIN asks : asks[i] \in Ask
    /\ orders \subseteq MoveOrder
    /\ dialog \in Dialog
    /\ asked \in 0..MaxAsks

---------------------------------------------------------------------------
(* The rule of substitution, common to preview and move *)

StaffOf(s) == {m \in Staff : db.staff[m] # Blank /\ db.staff[m].site = s}
BadgesOf(s) == {b \in Badges : db.badge[b] # Blank /\ db.badge[b].site = s}
PiecesOf(j) == {p \in Pieces : db.piece[p].job = j}
RemarksOf(j) == {r \in Remarks : db.remark[r] # Blank /\ db.remark[r].job = j}
BondsOf(j) == {e \in db.bonds : j \in e}

(* Nothing is of the same name as what has none. *)
SameName(a, b) == a # Nameless /\ a = b

Assignable(m) == db.staff[m].user \notin db.readonly

(* The member of the target that stands for m: of the same user, or, without *)
(* a user, of the same name.                                                 *)
Stands(m, t) ==
    IF db.staff[m].user # Blank THEN db.staff[t].user = db.staff[m].user
    ELSE db.staff[t].user = Blank /\ SameName(db.staff[t].name, db.staff[m].name)
MapMember(m, to, asAssignee) ==
    LET hits == {t \in StaffOf(to) : Stands(m, t)}
        hit == CHOOSE t \in hits : TRUE
    IN IF m = Blank \/ hits = {} THEN Blank
       ELSE IF asAssignee /\ ~Assignable(hit) THEN Blank ELSE hit

Twins(b, to) == {t \in BadgesOf(to) : SameName(db.badge[t].name, db.badge[b].name)}
Mapped(b, to) == CHOOSE t \in Twins(b, to) : TRUE
Kept(bs, to) == {b \in bs : Twins(b, to) # {}}
Substituted(bs, to) == {Mapped(b, to) : b \in Kept(bs, to)}

DefaultStage(j, to) ==
    LET label == StageLabel[db.job[j].site][db.job[j].stage]
        same == {c \in db.stages[to] : SameName(StageLabel[to][c], label)}
    IN CASE same # {} -> CHOOSE c \in same : TRUE
         [] same = {} /\ InitialStage[to] \in db.stages[to] -> InitialStage[to]
         [] OTHER -> CHOOSE c \in db.stages[to] : TRUE

NameOf(m) == IF m = Blank THEN Blank ELSE db.staff[m].name
Losses(what, names) == {[what |-> what, name |-> n] : n \in names}

LostPieceAssignees_AnyRole(j, to) ==
    {NameOf(db.piece[p].assignee) : p \in {q \in PiecesOf(j) :
        db.piece[q].assignee # Blank /\ MapMember(db.piece[q].assignee, to, FALSE) = Blank}}
LostPieceAssignees(j, to) ==
    {NameOf(db.piece[p].assignee) : p \in {q \in PiecesOf(j) :
        db.piece[q].assignee # Blank /\ MapMember(db.piece[q].assignee, to, TRUE) = Blank}}

(* Of the flags of the subtasks the nameless ones are left out. *)
Unmapped(j, to) ==
    Losses("badge", {db.badge[b].name : b \in db.job[j].badges \ Kept(db.job[j].badges, to)})
    \cup Losses("pieceBadge", {db.badge[b].name : b \in UNION
            {db.piece[p].badges \ Kept(db.piece[p].badges, to) : p \in PiecesOf(j)}} \ {Nameless})
    \cup Losses("pieceAssignee", LostPieceAssignees(j, to))
    \cup Losses("author", {NameOf(db.remark[r].author) : r \in {q \in RemarksOf(j) :
            db.remark[q].author # Blank /\ MapMember(db.remark[q].author, to, FALSE) = Blank}})
    \cup (IF BondsOf(j) = {} THEN {} ELSE {[what |-> "bonds"]})

(* load: who may, and what must be there. *)
Editor(s) == \E m \in StaffOf(s) : db.staff[m].user = Actor
Loads(j, from, to) ==
    /\ from # to
    /\ Editor(from) /\ Editor(to)
    /\ to \notin db.archived
    /\ db.job[j].site = from

PreviewOf(j, from, to) ==
    [job |-> j, to |-> to, edition |-> edition, lost |-> Unmapped(j, to),
     form |-> [stage |-> DefaultStage(j, to),
               assignee |-> MapMember(db.job[j].assignee, to, TRUE),
               requester |-> MapMember(db.job[j].requester, to, FALSE)],
     assignees |-> {m \in StaffOf(to) : Assignable(m)},
     assignee |-> NameOf(db.job[j].assignee), requester |-> NameOf(db.job[j].requester)]

(* The choices of the dialog are checked again; a write of a readonly user is *)
(* refused before the handler.                                                *)
Accepted(o) ==
    /\ Actor \notin db.readonly
    /\ Loads(o.job, o.from, o.to)
    /\ o.form.stage \in db.stages[o.to]
    /\ o.form.assignee # Blank => o.form.assignee \in StaffOf(o.to) /\ Assignable(o.form.assignee)
    /\ o.form.requester # Blank => o.form.requester \in StaffOf(o.to)

(* subtask_flags has (subtask, flag) as its key, and what is inserted is not *)
(* made unique: two flags of one name on a subtask are one row twice.        *)
NoTwinRows(o) ==
    \A p \in PiecesOf(o.job) : \A b, c \in Kept(db.piece[p].badges, o.to) :
        b # c => Mapped(b, o.to) # Mapped(c, o.to)

MovedJob(o) ==
    [db.job[o.job] EXCEPT !.site = o.to, !.stage = o.form.stage, !.assignee = o.form.assignee,
                          !.requester = o.form.requester, !.badges = Substituted(@, o.to)]
MovedPiece(p, o) ==
    [db.piece[p] EXCEPT !.site = o.to, !.assignee = MapMember(@, o.to, TRUE),
                        !.badges = Substituted(@, o.to)]
MovedRemark_AuthorKept(r, o) == [db.remark[r] EXCEPT !.site = o.to]
MovedRemark(r, o) ==
    [db.remark[r] EXCEPT !.site = o.to, !.author = MapMember(@, o.to, FALSE)]

AfterMove(o) ==
    [db EXCEPT !.job[o.job] = MovedJob(o),
               !.piece = [p \in Pieces |->
                   IF p \in PiecesOf(o.job) THEN MovedPiece(p, o) ELSE db.piece[p]],
               !.remark = [r \in Remarks |->
                   IF r \in RemarksOf(o.job) THEN MovedRemark(r, o) ELSE db.remark[r]],
               !.bonds = @ \ BondsOf(o.job)]

---------------------------------------------------------------------------
(* The dialog *)

Unfilled == [stage |-> Blank, assignee |-> Blank, requester |-> Blank]

(* The panel goes on to another task while the dialog is closed. *)
TurnTo(j) ==
    /\ ~dialog.open
    /\ j # dialog.job
    /\ dialog' = [dialog EXCEPT !.job = j]
    /\ UNCHANGED <<db, edition, asks, orders, asked>>

Open ==
    /\ ~dialog.open
    /\ dialog' = [dialog EXCEPT !.open = TRUE, !.target = Blank, !.preview = Blank,
                                !.confirmed = FALSE]
    /\ UNCHANGED <<db, edition, asks, orders, asked>>

Close ==
    /\ dialog.open
    /\ dialog' = [dialog EXCEPT !.open = FALSE]
    /\ UNCHANGED <<db, edition, asks, orders, asked>>

ChooseTarget(to) ==
    /\ dialog.open /\ asked < MaxAsks
    /\ to \notin {dialog.target, db.job[dialog.job].site}
    /\ dialog' = [dialog EXCEPT !.target = to, !.preview = Blank, !.confirmed = FALSE]
    /\ asks' = Append(asks, [job |-> dialog.job, from |-> db.job[dialog.job].site, to |-> to,
                             answer |-> Blank])
    /\ asked' = asked + 1
    /\ UNCHANGED <<db, edition, orders>>

(* An answer is taken when its target is still the chosen one. *)
Answer(i) ==
    LET a == asks[i] IN
    /\ a.answer # Blank
    /\ asks' = RemoveAt(asks, i)
    /\ dialog' =
         IF a.answer = Refused
         THEN [dialog EXCEPT !.target = Blank, !.preview = Blank, !.confirmed = FALSE]
         ELSE IF dialog.target # a.to THEN dialog
         ELSE [dialog EXCEPT !.preview = a.answer, !.form = a.answer.form]
    /\ UNCHANGED <<db, edition, orders, asked>>

(* The people offered are those of the preview, Blank is "none"; the same *)
(* select exists for the status, the requester and the priority.          *)
Choose(m) ==
    /\ dialog.open /\ dialog.preview # Blank
    /\ m \in dialog.preview.assignees \cup {Blank}
    /\ dialog' = [dialog EXCEPT !.form.assignee = m]
    /\ UNCHANGED <<db, edition, asks, orders, asked>>

Confirm ==
    /\ dialog.open /\ dialog.preview # Blank
    /\ dialog' = [dialog EXCEPT !.confirmed = ~@]
    /\ UNCHANGED <<db, edition, asks, orders, asked>>

(* losses: the preview's, and what was chosen to be none; who has no name is *)
(* taken for nobody.                                                         *)
LostPerson(what, name, chosen) ==
    IF name \notin {Blank, Nameless} /\ chosen = Blank THEN Losses(what, {name}) ELSE {}
ShownLosses ==
    dialog.preview.lost
    \cup LostPerson("assignee", dialog.preview.assignee, dialog.form.assignee)
    \cup LostPerson("requester", dialog.preview.requester, dialog.form.requester)

Move ==
    /\ dialog.open /\ dialog.preview # Blank /\ dialog.confirmed /\ ~dialog.moving
    /\ orders' = orders \cup
         {[job |-> dialog.job, from |-> db.job[dialog.job].site, to |-> dialog.preview.to,
           form |-> dialog.form, shown |-> ShownLosses, preview |-> dialog.preview]}
    /\ dialog' = [dialog EXCEPT !.moving = TRUE]
    /\ UNCHANGED <<db, edition, asks, asked>>

---------------------------------------------------------------------------
(* The service *)

ServePreview(i) ==
    LET a == asks[i] IN
    /\ a.answer = Blank
    /\ asks' = [asks EXCEPT ![i].answer =
                  IF Loads(a.job, a.from, a.to) /\ db.stages[a.to] # {}
                  THEN PreviewOf(a.job, a.from, a.to) ELSE Refused]
    /\ UNCHANGED <<db, edition, orders, dialog, asked>>

ServeMove(o) ==
    LET done == Accepted(o) /\ NoTwinRows(o) IN
    /\ orders' = orders \ {o}
    /\ db' = IF done THEN AfterMove(o) ELSE db
    /\ edition' = IF done THEN edition + 1 ELSE edition
    /\ dialog' = [dialog EXCEPT !.moving = FALSE, !.open = @ /\ ~done]
    /\ UNCHANGED <<asks, asked>>

---------------------------------------------------------------------------
(* Others, and other pages *)

Touched(next) ==
    /\ db' = next /\ db' # db
    /\ edition' = edition + 1
    /\ UNCHANGED <<asks, orders, dialog, asked>>

RemoveBadge(b) ==
    Touched([db EXCEPT !.badge[b] = Blank,
                       !.job = [j \in Jobs |-> [db.job[j] EXCEPT !.badges = @ \ {b}]],
                       !.piece = [p \in Pieces |-> [db.piece[p] EXCEPT !.badges = @ \ {b}]]])

RenameBadge(b, name) == db.badge[b] # Blank /\ Touched([db EXCEPT !.badge[b].name = name])

RemoveMember(m) ==
    LET without(x) == IF x = m THEN Blank ELSE x IN
    Touched([db EXCEPT
        !.staff[m] = Blank,
        !.job = [j \in Jobs |-> [db.job[j] EXCEPT !.assignee = without(@), !.requester = without(@)]],
        !.piece = [p \in Pieces |-> [db.piece[p] EXCEPT !.assignee = without(@)]],
        !.remark = [r \in Remarks |-> IF db.remark[r] = Blank THEN Blank
                                      ELSE [db.remark[r] EXCEPT !.author = without(@)]]])

ToggleReadonly(u) ==
    Touched([db EXCEPT !.readonly = (@ \ {u}) \cup ({u} \ @)])

RemoveStage(s, c) ==
    /\ \A j \in Jobs : db.job[j].site = s => db.job[j].stage # c
    /\ Touched([db EXCEPT !.stages[s] = @ \ {c}])

Archive(s) == Touched([db EXCEPT !.archived = @ \cup {s}])

(* TasksService.update and SubtasksService.update with what the pages offer. *)
Assign(j, m) ==
    /\ m # Blank => m \in StaffOf(db.job[j].site) /\ Assignable(m)
    /\ Touched([db EXCEPT !.job[j].assignee = m])
BadgePiece(p, b) ==
    /\ b \in BadgesOf(db.piece[p].site)
    /\ Touched([db EXCEPT !.piece[p].badges = @ \cup {b}])
Relate(j, k) ==
    /\ j # k /\ db.job[j].site = db.job[k].site
    /\ Touched([db EXCEPT !.bonds = @ \cup {{j, k}}])
Say(r, j, m) ==
    /\ db.remark[r] = Blank /\ m \in StaffOf(db.job[j].site)
    /\ Touched([db EXCEPT !.remark[r] = [job |-> j, site |-> db.job[j].site, author |-> m]])

MovePlanFrom(seed, j) ==
    /\ db = seed
    /\ edition = 0 /\ asks = <<>> /\ orders = {} /\ asked = 0
    /\ dialog = [open |-> FALSE, job |-> j, target |-> Blank, preview |-> Blank,
                 form |-> Unfilled, confirmed |-> FALSE, moving |-> FALSE]

MovePlanInit == \E seed \in MoveSeeds, j \in Jobs : MovePlanFrom(seed, j)

Elsewhere ==
    \/ \E b \in Badges : RemoveBadge(b) \/ \E n \in Titles : RenameBadge(b, n)
    \/ \E m \in Staff : RemoveMember(m)
    \/ \E u \in Patrons : ToggleReadonly(u)
    \/ \E s \in Sites : Archive(s) \/ \E c \in StageCodes : RemoveStage(s, c)
    \/ \E j \in Jobs, m \in Staff \cup {Blank} : Assign(j, m)
    \/ \E p \in Pieces, b \in Badges : BadgePiece(p, b)
    \/ \E j, k \in Jobs : Relate(j, k)
    \/ \E r \in Remarks, j \in Jobs, m \in Staff : Say(r, j, m)

MovePlanNext ==
    \/ Open \/ Close \/ Confirm \/ Move
    \/ \E j \in Jobs : TurnTo(j)
    \/ \E to \in Sites : ChooseTarget(to)
    \/ \E m \in Staff \cup {Blank} : Choose(m)
    \/ \E i \in DOMAIN asks : ServePreview(i) \/ Answer(i)
    \/ \E o \in orders : ServeMove(o)
    \/ edition < MaxTouches /\ Elsewhere

MovePlanSpec == MovePlanInit /\ [][MovePlanNext]_movePlanVars

---------------------------------------------------------------------------
(* Properties *)

JobIsHome(j) ==
    LET t == db.job[j] IN
    /\ t.stage \in db.stages[t.site]
    /\ {t.assignee, t.requester} \ {Blank} \subseteq StaffOf(t.site)
    /\ t.badges \subseteq BadgesOf(t.site)
PieceIsHome(p) ==
    LET t == db.piece[p] IN
    /\ t.site = db.job[t.job].site
    /\ {t.assignee} \ {Blank} \subseteq StaffOf(t.site)
    /\ t.badges \subseteq BadgesOf(t.site)
RemarkIsHome(r) ==
    LET t == db.remark[r] IN
    /\ t.site = db.job[t.job].site
    /\ {t.author} \ {Blank} \subseteq StaffOf(t.site)
BondIsHome(e) == \A j, k \in e : db.job[j].site = db.job[k].site

(* Everything a task refers to is of the project the task is in, and still   *)
(* there, whatever has been moved, removed or renamed in whatever order: its *)
(* status, its people, its flags, its subtasks with theirs, its comments and *)
(* their authors, and the tasks it is related to.                            *)
RefersHome ==
    /\ \A j \in Jobs : JobIsHome(j)
    /\ \A p \in Pieces : PieceIsHome(p)
    /\ \A r \in Remarks : db.remark[r] # Blank => RemarkIsHome(r)
    /\ \A e \in db.bonds : BondIsHome(e)

(* What a move of j takes away, told from the tables before and after it. *)
BadgeNames(table, bs) == {table[b].name : b \in bs}
Gone(what, m, n, table) ==
    IF m # Blank /\ n = Blank THEN Losses(what, {table[m].name}) ELSE {}
Taken(j, old, new) ==
    Losses("badge", BadgeNames(old.badge, old.job[j].badges)
                    \ BadgeNames(new.badge, new.job[j].badges))
    \cup Gone("assignee", old.job[j].assignee, new.job[j].assignee, old.staff)
    \cup Gone("requester", old.job[j].requester, new.job[j].requester, old.staff)
    \cup (UNION {Losses("pieceBadge", BadgeNames(old.badge, old.piece[p].badges)
                                      \ BadgeNames(new.badge, new.piece[p].badges))
                 \cup Gone("pieceAssignee", old.piece[p].assignee, new.piece[p].assignee, old.staff)
                 : p \in {q \in Pieces : old.piece[q].job = j}})
    \cup (UNION {Gone("author", old.remark[r].author, new.remark[r].author, old.staff)
                 : r \in {q \in Remarks : old.remark[q] # Blank /\ old.remark[q].job = j}})
    \cup (IF old.bonds = new.bonds THEN {} ELSE {[what |-> "bonds"]})

(* What the dialog cannot tell: that a nameless assignee or requester is let *)
(* go, or a nameless flag of a subtask.                                      *)
Untold == {[what |-> w, name |-> Nameless] : w \in {"assignee", "requester", "pieceBadge"}}

(* The dialog listed exactly what the move then takes away, but for what has *)
(* no name, unless somebody changed something between the preview and the    *)
(* move, or the preview was of another task: the server's two readings of    *)
(* the rule and the part the dialog adds agree.                              *)
LossesWereShown ==
    [][\A o \in orders : \A j \in Jobs :
         (/\ o \notin orders' /\ db'.job[j].site # db.job[j].site
          /\ o.preview.job = o.job /\ o.preview.edition = edition)
         => o.shown = Taken(j, db, db') \ Untold]_movePlanVars

=============================================================================
