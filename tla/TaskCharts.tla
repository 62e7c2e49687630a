------------------------------ MODULE TaskCharts ------------------------------
(***************************************************************************)
(* The board and the gantt of a project (board.vue, gantt.vue), over what  *)
(* they load one by one: tasks, statuses, members, relations.  A card is   *)
(* drawn in its new column before the server is asked, by the library that *)
(* drags it; whatever comes in meanwhile draws the columns afresh.         *)
(*                                                                         *)
(* A task is its number, a date a number of days.  Each event is delivered *)
(* alone (the stream and its debounce are in LiveView).  The filters, the  *)
(* axes of the gantt other than status and assignee, and what it keeps in  *)
(* the URL are left out.                                                   *)
(***************************************************************************)
EXTENDS Integers, Sequences, FiniteSets, FiniteSetsExt, SequencesExt, Functions

CONSTANTS
    Tickets,     \* numbers of tasks
    Lanes,       \* statuses
    ClosedLanes, \* those of tasks the pages do not load
    Persons,     \* members
    Plans,       \* planned start, planned end and deadline of a task
    Dependencies,       \* relations with a direction: source, target
    FirstRows,   \* bound: what the tasks may be at first
    Today,
    MaxGestures, \* bound: what the user and others do
    MaxOutside,  \* bound: what others do of it
    Nobody

VARIABLES
    server,     \* the tables
    front,      \* what the pages loaded of them
    loading, got, \* the last request for each, and what it read
    events,     \* sent, not delivered
    cols,       \* the cards drawn in each column
    dragging,
    torn,       \* a card was dropped after its columns were drawn afresh
    requests,   \* updates of the user's own
    taskOpen,   \* taskParam
    taskCache,  \* openTaskCache
    behind,     \* history: tasks of which the panel may keep a row that is not the last
    gestures, outside

chartVars == <<server, front, loading, got, events, cols, dragging, torn, requests,
               taskOpen, taskCache, behind, gestures, outside>>
boardVars == <<cols, dragging, torn>>
drawerVars == <<taskOpen, taskCache>>
loadVars == <<front, loading, got>>

Ticket == [status : Lanes, person : Persons \cup {Nobody}, plan : Plans]
Tables == [rows : UNION {[ts -> Ticket] : ts \in SUBSET Tickets}, lanes : SUBSET Lanes,
           people : SUBSET Persons, edges : SUBSET Dependencies]
Resource == {"rows", "lanes", "people", "edges"}
Topic == {"tasks", "masters", "members"}
NoTables == [rows |-> <<>>, lanes |-> {}, people |-> {}, edges |-> {}]
Column == Lanes \cup {Nobody}
Drag == [card : Tickets, from : Column, status : Lanes, redrawn : BOOLEAN]
Request == [card : Tickets, field : {"status", "plan"}, value : Lanes \cup Plans,
            panel : BOOLEAN, reply : Ticket \cup {Nobody}, state : {"sent", "done", "failed"}]

ASSUME ChartsAssumption ==
    /\ Tickets \subseteq Nat /\ IsFiniteSet(Tickets)
    /\ ClosedLanes \subseteq Lanes /\ Nobody \notin Lanes \cup Int
    /\ Today \in Int
    /\ Plans \subseteq [from : Int \cup {Nobody}, to : Int \cup {Nobody}, due : Int \cup {Nobody}]
    /\ FirstRows \subseteq [Tickets -> Ticket]
    /\ MaxGestures \in Nat /\ MaxOutside \in Nat

ChartsTypeOK ==
    /\ server \in Tables /\ DOMAIN server.rows = Tickets
    /\ front \in Tables /\ got \in Tables
    /\ loading \in [Resource -> {"idle", "sent", "read", "failed"}]
    /\ events \subseteq Topic
    /\ cols \in [Column -> SUBSET Tickets]
    /\ dragging \in Drag \cup {Nobody} /\ torn \in BOOLEAN
    /\ requests \subseteq Request
    /\ taskOpen \in Tickets \cup {Nobody}
    /\ taskCache \in [card : Tickets, row : Ticket] \cup {Nobody}
    /\ behind \subseteq Tickets
    /\ gestures \in 0..MaxGestures /\ outside \in 0..MaxOutside

Charted == DOMAIN front.rows

---------------------------------------------------------------------------
(* KanbanBoard.vue *)

(* A column for each status, and one for tasks of a status not loaded. *)
Columns(loaded) ==
    [c \in Column |->
        {t \in DOMAIN loaded.rows :
            LET s == loaded.rows[t].status
            IN IF s \in loaded.lanes THEN c = s ELSE c = Nobody}]

(* rebuild watches the tasks and the statuses. *)
Rebuild ==
    /\ cols' = Columns(front')
    /\ torn' = FALSE
    /\ dragging' = IF dragging = Nobody THEN Nobody
                   ELSE [dragging EXCEPT !.redrawn = TRUE]

Gesture == gestures' = gestures + 1 /\ UNCHANGED outside
Outside == outside' = outside + 1 /\ UNCHANGED gestures
Own == UNCHANGED <<gestures, outside>>

(* onStart takes the task as it was loaded; not after a torn drop, the end  *)
(* of which is left to the next rebuild.                                    *)
StartDrag(t, from) ==
    /\ Gesture
    /\ dragging = Nobody /\ ~torn
    /\ taskOpen = Nobody
    /\ t \in cols[from] /\ t \in Charted
    /\ dragging' = [card |-> t, from |-> from, status |-> front.rows[t].status,
                    redrawn |-> FALSE]
    /\ UNCHANGED <<server, loadVars, events, cols, torn, requests, drawerVars, behind>>

(* onAdd, and moveTask up to its request.  The library adds the card to one  *)
(* column and takes a place out of the other: another card's, if the columns *)
(* were drawn afresh in between.                                             *)
DropCard(to) ==
    /\ Own
    /\ dragging # Nobody
    /\ to \in front.lanes \cup {dragging.from}
    /\ LET t == dragging.card IN
       IF to = dragging.from THEN UNCHANGED <<cols, torn, requests>>
       ELSE /\ \E x \in IF dragging.redrawn THEN cols[dragging.from] \cup {t} ELSE {t} :
                  cols' = [cols EXCEPT ![dragging.from] = @ \ {x}, ![to] = @ \cup {t}]
            /\ torn' = dragging.redrawn
            /\ requests' = IF dragging.status = to THEN requests
                           ELSE requests \cup
                                {[card |-> t, field |-> "status", value |-> to, panel |-> FALSE,
                                  reply |-> Nobody, state |-> "sent"]}
    /\ dragging' = Nobody
    /\ UNCHANGED <<server, loadVars, events, drawerVars, behind>>

---------------------------------------------------------------------------
(* The panel over either page *)

InDrawer ==
    IF taskOpen \in Charted THEN front.rows[taskOpen]
    ELSE IF taskCache # Nobody /\ taskCache.card = taskOpen THEN taskCache.row
    ELSE Nobody

(* The cache follows the task in the list, and goes with the parameter. *)
Follow(t, cached) ==
    /\ taskOpen' = t
    /\ taskCache' = IF t # Nobody /\ t \in DOMAIN front'.rows
                    THEN [card |-> t, row |-> front'.rows[t]]
                    ELSE IF t = Nobody THEN Nobody ELSE cached

(* But for the person, of whose leaving no task tells. *)
Alike(row, other) == [row EXCEPT !.person = Nobody] = [other EXCEPT !.person = Nobody]

(* A card, a bar, a link, back and forward; what is cached is as old as the *)
(* list is.                                                                 *)
OpenDrawer(t) ==
    /\ Gesture
    /\ dragging = Nobody /\ taskOpen # t
    /\ UNCHANGED <<server, loadVars, events, boardVars, requests>>
    /\ Follow(t, taskCache)
    /\ behind' = IF t \notin Charted \/ Alike(front.rows[t], server.rows[t]) THEN behind
                 ELSE behind \cup {t}

CloseDrawer ==
    /\ Own
    /\ taskOpen # Nobody
    /\ UNCHANGED <<server, loadVars, events, boardVars, requests, behind>>
    /\ Follow(Nobody, taskCache)

ChangeField(field, value) ==
    /\ Gesture
    /\ taskOpen # Nobody /\ InDrawer # Nobody
    /\ requests' = requests \cup
           {[card |-> taskOpen, field |-> field, value |-> value, panel |-> TRUE,
             reply |-> Nobody, state |-> "sent"]}
    /\ UNCHANGED <<server, loadVars, events, boardVars, drawerVars, behind>>

---------------------------------------------------------------------------
(* Updates *)

Edited(row, field, value) ==
    IF field = "status" THEN [row EXCEPT !.status = value] ELSE [row EXCEPT !.plan = value]

(* Of two answers on their way the earlier may come last. *)
Overtaking(r) == \E q \in requests : q.panel /\ q.card = r.card /\ q.state = "done"

(* Accepted or refused by the server; the tab does not hear of its own. *)
ServeRequest(r, ok) ==
    /\ Own
    /\ r.state = "sent"
    /\ LET row == Edited(server.rows[r.card], r.field, r.value) IN
       /\ ok => row.status \in server.lanes
       /\ server' = IF ok THEN [server EXCEPT !.rows[r.card] = row] ELSE server
       /\ requests' = (requests \ {r}) \cup
              {[r EXCEPT !.state = IF ok THEN "done" ELSE "failed",
                         !.reply = IF ok THEN row ELSE Nobody]}
       /\ behind' = IF ok /\ (~r.panel \/ Overtaking(r)) THEN behind \cup {r.card}
                    ELSE behind
    /\ UNCHANGED <<loadVars, events, boardVars, drawerVars>>

(* moveTask loads the tasks again however it ended, updateTaskField only    *)
(* after a success; that one first keeps the answer for the panel.          *)
Reloads_OnSuccess(r) == r.state = "done"
Reloads(r) == r.state = "done" \/ ~r.panel

RequestAnswered(r) ==
    /\ Own
    /\ r.state # "sent"
    /\ requests' = requests \ {r}
    /\ taskCache' = IF r.panel /\ r.state = "done" /\ taskCache # Nobody /\ taskCache.card = r.card
                    THEN [card |-> r.card, row |-> r.reply] ELSE taskCache
    /\ loading' = IF Reloads(r) THEN [loading EXCEPT !["rows"] = "sent"] ELSE loading
    /\ UNCHANGED <<server, front, got, events, boardVars, taskOpen, behind>>

---------------------------------------------------------------------------
(* Others *)

Told(topic) == events' = events \cup {topic}

OtherEdits(t, row) ==
    /\ Outside
    /\ row # server.rows[t]
    /\ row.status \in server.lanes /\ row.person \in server.people \cup {Nobody}
    /\ \E f \in DOMAIN row : row = [server.rows[t] EXCEPT ![f] = row[f]]
    /\ server' = [server EXCEPT !.rows[t] = row]
    /\ behind' = behind \cup {t}
    /\ Told("tasks")
    /\ UNCHANGED <<loadVars, boardVars, requests, drawerVars>>

OtherLinks(link) ==
    /\ Outside
    /\ server' = [server EXCEPT !.edges = SymDiff(@, {link})]
    /\ Told("tasks")
    /\ UNCHANGED <<loadVars, boardVars, requests, drawerVars, behind>>

(* A status goes only while no task has it. *)
OtherSetsLane(lane) ==
    /\ Outside
    /\ \A t \in Tickets : server.rows[t].status # lane
    /\ server' = [server EXCEPT !.lanes = SymDiff(@, {lane})]
    /\ Told("masters")
    /\ UNCHANGED <<loadVars, boardVars, requests, drawerVars, behind>>

(* The database clears his tasks, of which no event tells. *)
MemberLeaves(p) ==
    /\ Outside
    /\ p \in server.people
    /\ server' = [server EXCEPT
           !.people = @ \ {p},
           !.rows = [t \in Tickets |-> IF @[t].person = p THEN [@[t] EXCEPT !.person = Nobody]
                                       ELSE @[t]]]
    /\ behind' = behind \cup {t \in Tickets : server.rows[t].person = p}
    /\ Told("members")
    /\ UNCHANGED <<loadVars, boardVars, requests, drawerVars>>

---------------------------------------------------------------------------
(* What the pages load *)

About(topic) ==
    CASE topic = "tasks" -> {"rows", "edges"}
      [] topic = "masters" -> {"lanes"}
      [] topic = "members" -> {"people"}

(* A new request cancels the one under way. *)
EventArrives(topic) ==
    /\ Own
    /\ topic \in events
    /\ events' = events \ {topic}
    /\ loading' = [k \in Resource |-> IF k \in About(topic) THEN "sent" ELSE loading[k]]
    /\ UNCHANGED <<server, front, got, boardVars, requests, drawerVars, behind>>

(* Closed tasks are not loaded. *)
Loadable(tables) ==
    [tables EXCEPT !.rows = Restrict(@, {t \in DOMAIN @ : @[t].status \notin ClosedLanes})]

ReadTable(k) ==
    /\ Own
    /\ loading[k] = "sent"
    /\ loading' = [loading EXCEPT ![k] = "read"]
    /\ got' = [got EXCEPT ![k] = Loadable(server)[k]]
    /\ UNCHANGED <<server, front, events, boardVars, requests, drawerVars, behind>>

(* An answer, or the empty default of useAsyncData after a failure. *)
TableArrives(k, end) ==
    /\ Own
    /\ loading[k] = (IF end = "idle" THEN "read" ELSE "sent")
    /\ loading' = [loading EXCEPT ![k] = end]
    /\ front' = [front EXCEPT ![k] = IF end = "idle" THEN got[k] ELSE NoTables[k]]
    /\ got' = [got EXCEPT ![k] = NoTables[k]]
    /\ IF k \in {"rows", "lanes"} THEN Rebuild ELSE UNCHANGED boardVars
    /\ IF k = "rows" THEN Follow(taskOpen, taskCache) ELSE UNCHANGED drawerVars
    /\ UNCHANGED <<server, events, requests, behind>>

---------------------------------------------------------------------------
(* utils/gantt.ts *)

KeyOf(axis, row) == IF axis = "status" THEN row.status ELSE row.person

(* Groups in the order of their masters, those without a key at the end. *)
Groups(axis) ==
    IF axis = "none" THEN {Charted}
    ELSE {{t \in Charted : KeyOf(axis, front.rows[t]) = key} :
              key \in {Nobody} \cup IF axis = "status" THEN front.lanes ELSE front.people}

(* byNullableDate: no date comes last, the number decides between equals. *)
Before(sort, t, u) ==
    LET d(x) == IF sort = "seq" THEN Nobody
                ELSE IF sort = "deadline" THEN front.rows[x].plan.due ELSE front.rows[x].plan.from
    IN IF d(t) = d(u) THEN t < u
       ELSE d(t) # Nobody /\ (d(u) = Nobody \/ d(t) < d(u))

Sorted(group, sort) ==
    CHOOSE q \in SetToSeqs(group) :
        \A m, n \in DOMAIN q : m < n => Before(sort, q[m], q[n])

Lines(axis, sort) == {Sorted(group, sort) : group \in Groups(axis) \ {{}}}

(* violatedIds: a task is to start before one ends that it depends on. *)
Warned(rows, edges) ==
    {t \in DOMAIN rows : \E e \in edges :
        /\ e.target = t /\ e.source \in DOMAIN rows
        /\ Nobody \notin {rows[e.source].plan.to, rows[t].plan.from}
        /\ rows[e.source].plan.to > rows[t].plan.from}

---------------------------------------------------------------------------
(* useGanttScale.ts, GanttChart.vue *)

Granularity == {"day", "week", "month"}
PX_PER_DAY == [day |-> 40, week |-> 16, month |-> 5]
MIN_BAR_W == 8

Dates(t) == LET plan == front.rows[t].plan IN {plan.from, plan.to, plan.due} \ {Nobody}
AllDates == {Today} \cup UNION {Dates(t) : t \in Charted}
DomainStart == Min(AllDates) - 3
DomainEnd == Max(AllDates) + 7

XOf(unit, day) == (day - DomainStart) * PX_PER_DAY[unit]
WidthOf(unit, from, to) == Max({1, to - from + 1}) * PX_PER_DAY[unit]
TotalWidth(unit) == WidthOf(unit, DomainStart, DomainEnd)

(* A day of a bar that is missing is the other one. *)
Bar(unit, plan) ==
    LET from == IF plan.from = Nobody THEN plan.to ELSE plan.from
        to == IF plan.to = Nobody THEN plan.from ELSE plan.to
    IN [left |-> XOf(unit, from), width |-> Max({WidthOf(unit, from, to), MIN_BAR_W})]

HasPlannedBar(plan) == plan.from # Nobody \/ plan.to # Nobody

---------------------------------------------------------------------------

ChartsFrom(rows, edges) ==
    /\ server = [rows |-> rows, lanes |-> {rows[t].status : t \in DOMAIN rows} \cup ClosedLanes,
                 people |-> Persons, edges |-> edges]
    /\ front = Loadable(server)
    /\ loading = [k \in Resource |-> "idle"] /\ got = NoTables
    /\ events = {} /\ requests = {}
    /\ cols = Columns(front)
    /\ dragging = Nobody /\ torn = FALSE
    /\ taskOpen = Nobody /\ taskCache = Nobody
    /\ behind = {}
    /\ gestures = 0 /\ outside = 0

ChartsInit == \E rows \in FirstRows : ChartsFrom(rows, Dependencies)

User ==
    \/ \E t \in Tickets : OpenDrawer(t) \/ \E from \in Column : StartDrag(t, from)
    \/ \E s \in Lanes : ChangeField("status", s)
    \/ \E plan \in Plans : ChangeField("plan", plan)

Others ==
    \/ \E t \in Tickets, row \in Ticket : OtherEdits(t, row)
    \/ \E link \in Dependencies : OtherLinks(link)
    \/ \E lane \in Lanes : OtherSetsLane(lane)
    \/ \E p \in Persons : MemberLeaves(p)

ChartsNext ==
    \/ gestures + outside < MaxGestures /\ User
    \/ outside < MaxOutside /\ gestures + outside < MaxGestures /\ Others
    \/ CloseDrawer
    \/ \E to \in Column : DropCard(to)
    \/ \E r \in requests : RequestAnswered(r) \/ \E ok \in BOOLEAN : ServeRequest(r, ok)
    \/ \E topic \in Topic : EventArrives(topic)
    \/ \E k \in Resource : ReadTable(k) \/ TableArrives(k, "idle") \/ TableArrives(k, "failed")

ChartsSpec == ChartsInit /\ [][ChartsNext]_chartVars

---------------------------------------------------------------------------
(* Properties *)

ChartsAtRest ==
    /\ dragging = Nobody /\ requests = {} /\ events = {}
    /\ loading = [k \in Resource |-> "idle"]

BoardRight == \A t \in Charted : {c \in Column : t \in cols[c]} = {server.rows[t].status}

GanttRight ==
    /\ \A axis \in {"none", "status", "assignee"}, sort \in {"plannedStart", "deadline", "seq"} :
          \A t \in Charted :
             \/ axis = "assignee" /\ front.rows[t].person \notin front.people \cup {Nobody}
             \/ \E line \in Lines(axis, sort) : t \in Range(line)
    /\ Warned(front.rows, front.edges) = Warned(Loadable(server).rows, server.edges)
    /\ \A unit \in Granularity :
          /\ \A day \in AllDates : XOf(unit, day) \in 0..TotalWidth(unit)
          /\ \A t \in Charted :
                LET plan == front.rows[t].plan IN
                HasPlannedBar(plan) =>
                    Bar(unit, plan).left + Bar(unit, plan).width <= TotalWidth(unit)

PanelRight ==
    InDrawer # Nobody /\ (taskOpen \in Charted \/ taskOpen \notin behind)
        => Alike(InDrawer, server.rows[taskOpen])

(* Once every request and event and all loading has ended, none of it in a  *)
(* failure, what is drawn is what is stored: each card in the column of its  *)
(* status and in no other, whatever was dragged, refused or loaded in        *)
(* between (board.vue, line 78: the board has moved the card beforehand);    *)
(* the gantt has a line for every task, its warnings and its bars in their   *)
(* place; the panel shows the task.  Known to be off are: a card dropped,    *)
(* onto the status its task had before, after its columns were drawn afresh; *)
(* until the tasks are loaded again, the tasks of a member who has left; and *)
(* what the panel keeps of a task that is not loaded, if the task changed    *)
(* other than in the panel or twice before the panel had an answer, or was   *)
(* opened from a list that was out of date.                                  *)
ChartsShowTheStore == ChartsAtRest => (torn \/ BoardRight) /\ GanttRight /\ PanelRight
=============================================================================
