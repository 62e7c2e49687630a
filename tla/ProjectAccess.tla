---------------------------- MODULE ProjectAccess ----------------------------
(***************************************************************************)
(* Who may see and change a project: ProjectAccessService and its guard,   *)
(* ReadonlyWriteBlockInterceptor, ProjectsService, MembersService, their   *)
(* controllers (internal and public), and what the browser of one person   *)
(* shows of it: the cached GET /projects (useProjectReadonly), and the     *)
(* pages settings/index.vue and settings/members.vue.                      *)
(*                                                                         *)
(* A project's fields are reduced to its archived state, a name and its    *)
(* Slack webhook; of the tasks of a project only their number and the      *)
(* references they make to members are kept.  A handler that awaits        *)
(* between two of its writes, or between reading a row and saving it, is   *)
(* a record in work; the others are one step.                              *)
(***************************************************************************)
EXTENDS Naturals, FiniteSets

CONSTANTS
    People,       \* the users of the tenant
    Me,           \* the one whose browser is modelled
    Areas,        \* projects
    Names,        \* project names
    Rows,         \* ids of project_members
    Referrers,    \* kinds of rows that name a member
    Workers,      \* requests in flight
    MaxAsked,     \* bound: requests served
    MaxTasks,     \* bound: tasks made in a project
    Nobody

ASSUME AccessAssumption ==
    /\ Me \in People
    /\ Nobody \notin People \cup Areas \cup Rows
    /\ Names # {}
    /\ {MaxAsked, MaxTasks} \subseteq Nat

VARIABLES
    rank,      \* users.role: [People -> Ranks]
    areas,     \* table projects
    viewers,   \* table user_project_access: [Areas -> SUBSET People]
    rows,      \* table project_members
    refs,      \* [Rows -> SUBSET Referrers]: what refers to a member
    tasks,     \* [Areas -> number of tasks made]
    work,      \* handlers between two of their steps
    screen,    \* the browser of Me
    asked

accessVars == <<rank, areas, viewers, rows, refs, tasks, work, screen, asked>>

Ranks == {"admin", "member", "readonly"}

Area == [state : {"none", "open", "archived"}, name : Names, slack : BOOLEAN]
Row == [area : Areas, user : People \cup {Nobody}, role : {"admin", "member"}]

Work ==
    [pc : {"idle"}]
    \cup [pc : {"view", "join"}, by : People, area : Areas]
    \cup [pc : {"area"}, area : Areas, entity : Area, by : People]
    \cup [pc : {"row"}, row : Rows, entity : Row]

(* What members.vue keeps of a member: the row, and canViewProject. *)
Listed == Row \cup {Nobody}
Counts == {Nobody} \cup [of : Rows, found : SUBSET Referrers]

Screen ==
    [at : Areas \cup {Nobody},              \* the project of the route
     canEdit : [Areas -> {"absent", "archived", "edit", "view"}],
     list : [Rows -> Listed],
     todo : SUBSET {"projects", "members"}, \* refreshes under way
     foreign : BOOLEAN,       \* history: someone else acted since the visit
     target : Rows \cup {Nobody},           \* the delete dialog
     counts : Counts,
     counting : SUBSET [of : Rows, found : SUBSET Referrers]]

AccessTypeOK ==
    /\ rank \in [People -> Ranks]
    /\ areas \in [Areas -> Area]
    /\ viewers \in [Areas -> SUBSET People]
    /\ rows \in [Rows -> Row \cup {Nobody}]
    /\ refs \in [Rows -> SUBSET Referrers]
    /\ tasks \in [Areas -> 0..MaxTasks]
    /\ work \in [Workers -> Work]
    /\ screen \in Screen
    /\ asked \in 0..MaxAsked

---------------------------------------------------------------------------
(* ProjectAccessService and the guards that use it *)

Made(p) == areas[p].state # "none"
MembersOf(p) == {r \in Rows : rows[r] # Nobody /\ rows[r].area = p}
RowsOf(u, p) == {r \in MembersOf(p) : rows[r].user = u}

CanAccess(u, p) == Made(p) /\ (rank[u] = "admin" \/ u \in viewers[p])
IsEditor(u, p) == RowsOf(u, p) # {}
IsManager(u, p) == rank[u] = "admin" \/ IsEditor(u, p)

(* ProjectAccessGuard on a request that writes, then the interceptor that    *)
(* stops the read-only role.                                                 *)
MayEdit(u, p) == CanAccess(u, p) /\ IsEditor(u, p) /\ rank[u] # "readonly"
MayManage(u, p) == CanAccess(u, p) /\ IsManager(u, p) /\ rank[u] # "readonly"

(* MembersService.assertProjectAdmin; assertSlackAdmin asks the same. *)
ProjectAdmin(u, p) ==
    rank[u] = "admin" \/ \E r \in RowsOf(u, p) : rows[r].role = "admin"

(* GET /projects: what the list holds, and canEdit in it. *)
AccessibleProjectIds(u) ==
    {p \in Areas : Made(p) /\ (rank[u] = "admin" \/ u \in viewers[p])}
EditableProjectIds(u, ps) ==
    IF rank[u] = "readonly" THEN {} ELSE {p \in ps : RowsOf(u, p) # {}}

ProjectList(u) ==
    LET shown == AccessibleProjectIds(u)
        editable == EditableProjectIds(u, shown)
        archived == {p \in shown : areas[p].state = "archived"}
    IN [p \in Areas |-> CASE p \notin shown             -> "absent"
                          [] p \in archived            -> "archived"
                          [] p \in editable \ archived -> "edit"
                          [] OTHER                      -> "view"]

---------------------------------------------------------------------------
(* Handlers *)

Free(w) == work[w].pc = "idle"
Rest(w) == work' = [work EXCEPT ![w] = [pc |-> "idle"]]
Ask == asked < MaxAsked /\ asked' = asked + 1

(* A request of the browser starts the refreshes that follow its answer; any *)
(* other request leaves the browser with what it had.                        *)
Foreign == screen' = [screen EXCEPT !.foreign = TRUE]
Refetch_MembersOnly(what) == screen' = [screen EXCEPT !.todo = @ \cup {"members"}]
Refetch(what) == screen' = [screen EXCEPT !.todo = @ \cup what]

NewRow == CHOOSE r \in Rows : rows[r] = Nobody
Room == \E r \in Rows : rows[r] = Nobody
NoTwin(row, r) == row.user = Nobody \/ RowsOf(row.user, row.area) \subseteq {r}

(* POST /projects and POST /v1/projects: three writes, one after the other. *)
CreateProject(w, u, p, n) ==
    /\ Free(w) /\ Ask
    /\ ~Made(p)
    /\ rank[u] # "readonly"
    /\ areas' = [areas EXCEPT ![p] = [state |-> "open", name |-> n, slack |-> FALSE]]
    /\ work' = [work EXCEPT ![w] = [pc |-> "view", by |-> u, area |-> p]]
    /\ Foreign
    /\ UNCHANGED <<rank, viewers, rows, refs, tasks>>

GrantView(w) ==
    LET j == work[w] IN
    /\ j.pc = "view"
    /\ viewers' = [viewers EXCEPT ![j.area] = @ \cup {j.by}]
    /\ work' = [work EXCEPT ![w].pc = "join"]
    /\ Foreign
    /\ UNCHANGED <<rank, areas, rows, refs, tasks, asked>>

GrantMember(w) ==
    LET j == work[w] IN
    /\ j.pc = "join"
    /\ IF RowsOf(j.by, j.area) # {}
       THEN UNCHANGED rows
       ELSE /\ Room
            /\ rows' = [rows EXCEPT ![NewRow] =
                           [area |-> j.area, user |-> j.by, role |-> "admin"]]
    /\ Foreign
    /\ Rest(w)
    /\ UNCHANGED <<rank, areas, viewers, refs, tasks, asked>>

(* A write after the first fails, or the process ends: no transaction. *)
CreationFails(w) ==
    /\ work[w].pc \in {"view", "join"}
    /\ Rest(w)
    /\ UNCHANGED <<rank, areas, viewers, rows, refs, tasks, screen, asked>>

(* PATCH /projects/:id and the public routes: the row is read, checked and   *)
(* changed in memory; save() then writes every column that differs.          *)
Changes == [field : {"name"}, value : Names]
           \cup [field : {"slack"}, value : BOOLEAN]
           \cup [field : {"state"}, value : {"open", "archived"}]

PatchAllowed(u, p, c) ==
    /\ MayManage(u, p)
    /\ c.field = "state" => rank[u] = "admin"
    /\ c.field = "slack" => ProjectAdmin(u, p)

UpdateProjectRead(w, u, p, c) ==
    /\ Free(w) /\ Ask
    /\ PatchAllowed(u, p, c)
    /\ work' = [work EXCEPT ![w] = [pc |-> "area", area |-> p, by |-> u,
                                    entity |-> [areas[p] EXCEPT ![c.field] = c.value]]]
    /\ UNCHANGED <<rank, areas, viewers, rows, refs, tasks, screen>>

UpdateProjectWrite(w) ==
    /\ work[w].pc = "area"
    /\ areas' = [areas EXCEPT ![work[w].area] = work[w].entity]
    /\ IF work[w].by = Me THEN Refetch({"projects"}) ELSE Foreign
    /\ Rest(w)
    /\ UNCHANGED <<rank, viewers, rows, refs, tasks, asked>>

(* The view rights of one user, from the users page of an administrator. *)
ReplaceForUser(a, u, ps) ==
    /\ Ask
    /\ rank[a] = "admin"
    /\ \A p \in ps : Made(p)
    /\ viewers' = [p \in Areas |-> IF p \in ps THEN viewers[p] \cup {u} ELSE viewers[p] \ {u}]
    /\ Foreign
    /\ UNCHANGED <<rank, areas, rows, refs, tasks, work>>

(* POST /projects/:id/members; the bulk route adds rows without a user. *)
AddMember(u, row) ==
    /\ Ask
    /\ MayManage(u, row.area) /\ ProjectAdmin(u, row.area)
    /\ Room
    /\ NoTwin(row, Nobody)
    /\ rows' = [rows EXCEPT ![NewRow] = row]
    /\ IF u = Me THEN Refetch({"members", "projects"}) ELSE Foreign
    /\ UNCHANGED <<rank, areas, viewers, refs, tasks, work>>

(* PATCH /projects/:id/members/:member: read and saved as a whole. *)
UpdateMemberRead(w, u, r, user, role) ==
    /\ Free(w) /\ Ask
    /\ rows[r] # Nobody
    /\ MayManage(u, rows[r].area) /\ ProjectAdmin(u, rows[r].area)
    /\ u # Me
    /\ work' = [work EXCEPT ![w] = [pc |-> "row", row |-> r,
                   entity |-> [rows[r] EXCEPT !.user = user, !.role = role]]]
    /\ UNCHANGED <<rank, areas, viewers, rows, refs, tasks, screen>>

(* Removed meanwhile, save() inserts the row again under its id. *)
UpdateMemberWrite(w) ==
    LET j == work[w] IN
    /\ j.pc = "row"
    /\ rows' = IF NoTwin(j.entity, j.row) THEN [rows EXCEPT ![j.row] = j.entity] ELSE rows
    /\ Foreign
    /\ Rest(w)
    /\ UNCHANGED <<rank, areas, viewers, refs, tasks, asked>>

(* The references of a removed member are set to NULL. *)
Dropped(r) ==
    /\ rows' = [rows EXCEPT ![r] = Nobody]
    /\ refs' = [refs EXCEPT ![r] = {}]

RemoveMember(u, r) ==
    /\ Ask
    /\ u # Me
    /\ rows[r] # Nobody
    /\ MayManage(u, rows[r].area) /\ ProjectAdmin(u, rows[r].area)
    /\ Dropped(r)
    /\ Foreign
    /\ UNCHANGED <<rank, areas, viewers, tasks, work>>

(* Assigning a task or subtask, or writing a comment. *)
Refer(u, r, kind) ==
    /\ Ask
    /\ rows[r] # Nobody
    /\ MayEdit(u, rows[r].area)
    /\ refs' = [refs EXCEPT ![r] = @ \cup {kind}]
    /\ UNCHANGED <<rank, areas, viewers, rows, tasks, work, screen>>

(* POST /projects/:id/tasks, and its public twin which looks at the archive. *)
AddTask(u, p) ==
    /\ Ask
    /\ MayEdit(u, p)
    /\ tasks[p] < MaxTasks
    /\ tasks' = [tasks EXCEPT ![p] = @ + 1]
    /\ UNCHANGED <<rank, areas, viewers, rows, refs, work, screen>>

AddTaskByKey(u, p) == areas[p].state = "open" /\ AddTask(u, p)

---------------------------------------------------------------------------
(* The browser of Me *)

(* useProjectReadonly *)
Readonly(p) == rank[Me] = "readonly" \/ screen.canEdit[p] # "edit"

(* isProjectAdmin of members.vue, canEditSlack of settings/index.vue. *)
ManagerShown(p) ==
    \/ rank[Me] = "admin"
    \/ \E r \in Rows : /\ screen.list[r] # Nobody
                       /\ screen.list[r].user = Me
                       /\ screen.list[r].role = "admin"

MemberList(p) == [r \in Rows |-> IF r \in MembersOf(p) THEN rows[r] ELSE Nobody]

(* A visit loads the lists; settings.vue sends those who may not edit back,  *)
(* and the layout leaves a project that is archived or not in the list.      *)
Visit(p) ==
    /\ screen.at # p \/ screen.foreign
    /\ LET list == ProjectList(Me) IN
       /\ list[p] \in {"edit", "view"}
       /\ list[p] = "edit" \/ rank[Me] = "admin"
       /\ screen' = [at |-> p, canEdit |-> list, list |-> MemberList(p), todo |-> {},
                     foreign |-> FALSE, target |-> Nobody, counts |-> Nobody,
                     counting |-> {}]
    /\ UNCHANGED <<rank, areas, viewers, rows, refs, tasks, work, asked>>

ProjectsLoaded ==
    /\ "projects" \in screen.todo
    /\ LET list == ProjectList(Me)
           stays == screen.at # Nobody /\ list[screen.at] \in {"edit", "view"}
       IN screen' = [screen EXCEPT !.canEdit = list, !.todo = @ \ {"projects"},
                                   !.at = IF stays THEN @ ELSE Nobody]
    /\ UNCHANGED <<rank, areas, viewers, rows, refs, tasks, work, asked>>

MembersLoaded ==
    /\ "members" \in screen.todo
    /\ screen' = [screen EXCEPT !.list = IF screen.at = Nobody THEN @ ELSE MemberList(screen.at),
                                !.todo = @ \ {"members"}]
    /\ UNCHANGED <<rank, areas, viewers, rows, refs, tasks, work, asked>>

(* The form of members.vue saves a member: the row is replaced by the draft. *)
SaveMember(r, user, role) ==
    /\ screen.at # Nobody
    /\ Ask
    /\ ManagerShown(screen.at)
    /\ screen.list[r] # Nobody
    /\ rows[r] # Nobody
    /\ MayManage(Me, screen.at) /\ ProjectAdmin(Me, screen.at)
    /\ NoTwin([rows[r] EXCEPT !.user = user], r)
    /\ rows' = [rows EXCEPT ![r] = [@ EXCEPT !.user = user, !.role = role]]
    /\ Refetch({"members", "projects"})
    /\ UNCHANGED <<rank, areas, viewers, refs, tasks, work>>

(* openDelete asks for the number of tasks and comments that name a member;  *)
(* subtasks are not counted.                                                 *)
Counted(r) == [of |-> r, found |-> refs[r] \ {"subtask"}]

OpenDelete(r) ==
    /\ Ask
    /\ screen.at # Nobody
    /\ screen.list[r] # Nobody /\ ManagerShown(screen.at)
    /\ screen.target # r
    /\ screen' = [screen EXCEPT !.target = r, !.counts = Nobody,
                                !.counting = @ \cup {Counted(r)}]
    /\ UNCHANGED <<rank, areas, viewers, rows, refs, tasks, work>>

CountsArrive(c) ==
    /\ c \in screen.counting
    /\ screen' = [screen EXCEPT !.counts = c, !.counting = @ \ {c}]
    /\ UNCHANGED <<rank, areas, viewers, rows, refs, tasks, work, asked>>

CanDelete == screen.counts # Nobody /\ screen.counts.found = {}

PerformDelete ==
    /\ Ask
    /\ screen.target # Nobody
    /\ CanDelete
    /\ rows[screen.target] # Nobody
    /\ MayManage(Me, rows[screen.target].area) /\ ProjectAdmin(Me, rows[screen.target].area)
    /\ Dropped(screen.target)
    /\ screen' = [screen EXCEPT !.todo = {"members", "projects"}, !.target = Nobody]
    /\ UNCHANGED <<rank, areas, viewers, tasks, work>>

---------------------------------------------------------------------------

Blank == [state |-> "none", name |-> CHOOSE n \in Names : TRUE, slack |-> FALSE]

(* No project yet, or one as its creation leaves it. *)
(* A project there is has been made by u, who r lists as its administrator.   *)
AccessFrom(ranks, made, u, r) ==
    /\ rank = ranks
    /\ areas = [p \in Areas |-> IF p \in made THEN [Blank EXCEPT !.state = "open"] ELSE Blank]
    /\ viewers = [p \in Areas |-> IF p \in made THEN {u} ELSE {}]
    /\ rows = [q \in Rows |-> IF made # {} /\ q = r
                 THEN [area |-> CHOOSE p \in made : TRUE, user |-> u, role |-> "admin"]
                 ELSE Nobody]
    /\ refs = [q \in Rows |-> {}]
    /\ tasks = [p \in Areas |-> 0]
    /\ work = [w \in Workers |-> [pc |-> "idle"]]
    /\ screen = [at |-> Nobody, canEdit |-> [p \in Areas |-> "absent"],
                 list |-> [q \in Rows |-> Nobody], todo |-> {}, foreign |-> TRUE,
                 target |-> Nobody, counts |-> Nobody, counting |-> {}]
    /\ asked = 0

AccessInit ==
    \E ranks \in [People -> Ranks], made \in SUBSET Areas, u \in People, r \in Rows :
        /\ Cardinality(made) <= 1
        /\ made # {} => ranks[u] # "readonly"
        /\ AccessFrom(ranks, made, u, r)

ProjectRequest(w, u, p) ==
    \/ \E n \in Names : CreateProject(w, u, p, n)
    \/ \E c \in Changes : UpdateProjectRead(w, u, p, c)

MemberRequest(u) ==
    \/ \E row \in Row : AddMember(u, row)
    \/ \E r \in Rows : RemoveMember(u, r) \/ \E k \in Referrers : Refer(u, r, k)
    \/ \E w \in Workers, r \in Rows, v \in People \cup {Nobody}, role \in {"admin", "member"} :
          UpdateMemberRead(w, u, r, v, role)

AccessWrite(w) ==
    \/ GrantView(w) \/ GrantMember(w) \/ CreationFails(w)
    \/ UpdateProjectWrite(w) \/ UpdateMemberWrite(w)

Browse ==
    \/ \E p \in Areas : Visit(p)
    \/ ProjectsLoaded \/ MembersLoaded
    \/ \E r \in Rows, v \in People \cup {Nobody}, role \in {"admin", "member"} :
          SaveMember(r, v, role)
    \/ \E r \in Rows : OpenDelete(r)
    \/ \E c \in screen.counting : CountsArrive(c)
    \/ PerformDelete

AccessNext ==
    \/ \E u \in People : MemberRequest(u)
    \/ \E w \in Workers : AccessWrite(w) \/ \E u \in People, p \in Areas : ProjectRequest(w, u, p)
    \/ \E a, u \in People, ps \in SUBSET Areas : ReplaceForUser(a, u, ps)
    \/ \E u \in People, p \in Areas : AddTask(u, p) \/ AddTaskByKey(u, p)
    \/ Browse

AccessSpec == AccessInit /\ [][AccessNext]_accessVars

---------------------------------------------------------------------------
(* Properties *)

(* members.vue, lines 11 to 13: one's own changes to the members show in     *)
(* what one may do, without a reload.  Once the refreshes have arrived, and  *)
(* if nobody else has acted, the page allows what the server allows.         *)
OwnChangesShow ==
    screen.at # Nobody /\ screen.todo = {} /\ ~screen.foreign =>
        /\ Readonly(screen.at) <=> ~MayEdit(Me, screen.at)
        /\ ManagerShown(screen.at) <=> ProjectAdmin(Me, screen.at)

=============================================================================
