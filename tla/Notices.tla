-------------------------------- MODULE Notices --------------------------------
(***************************************************************************)
(* Who is told what (NotificationsService and its callers) and the bell    *)
(* that shows it (useNotifications.ts, NotificationBell.vue, me.vue).      *)
(*                                                                         *)
(* A change of a task, a comment or a subtask is told in a hook: for each  *)
(* kind of notification the people concerned, less those who switched the  *)
(* kind off, one row after the other; each row is pushed to the stream of  *)
(* its person.  The bell of one person (Me) reads the rows and their       *)
(* number, and then counts what comes by the stream.  Everybody here is a  *)
(* member of every project; the members without an account are told of     *)
(* nothing and left out.                                                   *)
(***************************************************************************)
EXTENDS Naturals, Sequences, FiniteSets

CONSTANTS
    Accounts, Me,
    Places,           \* projects
    Kinds,           \* NOTIFICATION_TYPES
    Alike(_),        \* whose names are part of somebody's name
    Limit,           \* rows a list holds
    MaxChanges,      \* bound: changes told of
    MaxDoings,       \* bound: those, taps on the bell, preferences and rights changed
    Nobody

ASSUME NoticesAssumption ==
    /\ IsFiniteSet(Accounts) /\ Places # {}
    /\ {"task_created", "assigned", "status_changed", "mentioned"} \subseteq Kinds
    /\ Limit \in Nat \ {0} /\ MaxChanges \in Nat /\ MaxDoings \in Nat
ASSUME MeIsOne == Me \in Accounts
ASSUME AlikeAreAccounts == \A u \in Accounts : Alike(u) \subseteq Accounts

VARIABLES
    notes,           \* table notifications
    off,             \* table notification_preferences: kinds switched off
    visible,            \* projects Me may look at
    hooks,           \* hooks under way
    stream,          \* the EventSource of the bell
    pushed,          \* rows on their way to it
    items, unread,   \* useState
    calls,           \* requests of the bell
    astray,          \* something the bell cannot know of has happened
    changes, doings

bellVars == <<stream, pushed, items, unread, calls, astray>>
noticeVars == <<notes, off, visible, hooks, bellVars, changes, doings>>

Ids == 1..(MaxChanges * Cardinality(Accounts) * 2)
Note == [id : Ids, to : Accounts, actor : Accounts, kind : Kinds, change : 1..MaxChanges, site : Places,
         read : BOOLEAN]
Emission == [to : SUBSET Accounts, kind : Kinds]
Hook == [actor : Accounts, change : 1..MaxChanges, site : Places, queue : Seq(Emission),
         filtered : BOOLEAN]

NoticesTypeOK ==
    /\ notes \subseteq Note /\ off \subseteq Accounts \X Kinds /\ visible \subseteq Places
    /\ hooks \subseteq Hook
    /\ stream.state \in {"closed", "connecting", "open"} /\ stream.sees \subseteq Places
    /\ \A i \in DOMAIN pushed : pushed[i] \in Note
    /\ DOMAIN items \subseteq Ids /\ \A i \in DOMAIN items : items[i] \in BOOLEAN
    /\ unread \in 0..Cardinality(Ids) /\ astray \in BOOLEAN
    /\ \A c \in calls : c.kind \in {"refresh", "read", "readAll"}
    /\ changes \in 0..MaxChanges /\ doings \in 0..MaxDoings

Doing == doings < MaxDoings /\ doings' = doings + 1

---------------------------------------------------------------------------
(* The hooks *)

Emit(kind, to) == [to |-> to, kind |-> kind]

(* emit returns at once when nobody is left to be told. *)
Onward(h) ==
    LET some == {i \in DOMAIN h.queue : h.queue[i].to # {}}
        first == {i \in some : \A j \in some : i <= j}
    IN {[h EXCEPT !.queue = SubSeq(@, i, Len(@)), !.filtered = @ /\ i = 1] : i \in first}

Begin(site, actor, queue) ==
    /\ Doing
    /\ changes < MaxChanges
    /\ changes' = changes + 1
    /\ hooks' = hooks \cup Onward([actor |-> actor, change |-> changes + 1, site |-> site,
                        queue |-> queue, filtered |-> FALSE])
    /\ UNCHANGED <<notes, off, visible, bellVars>>

PersonOf(p) == {p} \ {Nobody}

(* The assignee is told that the task is theirs, the others that there is one. *)
CreatedTo_Everybody(actor, assignee) == Accounts \ {actor}
CreatedTo(actor, assignee) == Accounts \ {actor, assignee}

OnTaskCreated(site, actor, assignee) ==
    Begin(site, actor, <<Emit("assigned", PersonOf(assignee) \ {actor}),
                         Emit("task_created", CreatedTo(actor, assignee))>>)

OnTaskChanged(site, actor, assignee, requester, reassigned, moved) ==
    /\ reassigned \/ moved
    /\ Begin(site, actor,
             (IF reassigned THEN <<Emit("assigned", PersonOf(assignee) \ {actor})>> ELSE <<>>)
             \o (IF moved THEN <<Emit("status_changed",
                                      (PersonOf(assignee) \cup PersonOf(requester)) \ {actor})>>
                 ELSE <<>>))

(* resolveMentionUserIds: everybody whose name is found in the text, also as *)
(* a part of the name that was meant.                                        *)
OnCommentMentioned(site, actor, meant) ==
    Begin(site, actor, <<Emit("mentioned", ({meant} \cup Alike(meant)) \ {actor})>>)

OnSubtaskAssigned(site, actor, assignee) ==
    Begin(site, actor, <<Emit("assigned", PersonOf(assignee) \ {actor})>>)

FilterByPreference(h) ==
    /\ ~h.filtered
    /\ LET e == Head(h.queue)
           left == {u \in e.to : <<u, e.kind>> \notin off}
       IN hooks' = (hooks \ {h}) \cup Onward([h EXCEPT !.queue[1].to = left, !.filtered = TRUE])
    /\ UNCHANGED <<notes, off, visible, bellVars, changes, doings>>

(* A stream passes on what belongs to a project its user could see when it was *)
(* opened.                                                                     *)
IsVisibleFor_Any(note, sees) == TRUE
IsVisibleFor(note, sees) == note.site \in sees

Busy == calls # {} \/ stream.state # "open"

SaveAndPush(h, u) ==
    /\ h.filtered /\ u \in Head(h.queue).to
    /\ LET e == Head(h.queue)
           note == [id |-> Cardinality(notes) + 1, to |-> u, actor |-> h.actor, kind |-> e.kind,
                    change |-> h.change, site |-> h.site, read |-> FALSE]
       IN /\ notes' = notes \cup {note}
          /\ hooks' = (hooks \ {h}) \cup Onward([h EXCEPT !.queue[1].to = @ \ {u}])
          /\ pushed' = IF u = Me /\ stream.state = "open" /\ IsVisibleFor(note, stream.sees)
                       THEN Append(pushed, note) ELSE pushed
          /\ astray' = (astray \/ (u = Me /\ Busy))
    /\ UNCHANGED <<off, visible, stream, items, unread, calls, changes, doings>>

(* An error is logged; the rest is not told. *)
HookFails(h) ==
    /\ hooks' = hooks \ {h}
    /\ UNCHANGED <<notes, off, visible, bellVars, changes, doings>>

SetPreference(u, kind) ==
    /\ Doing
    /\ off' = IF <<u, kind>> \in off THEN off \ {<<u, kind>>} ELSE off \cup {<<u, kind>>}
    /\ UNCHANGED <<notes, visible, hooks, bellVars, changes>>

(* The stream, and what the bell has, stay as they were. *)
SetView(site) ==
    /\ Doing
    /\ visible' = IF site \in visible THEN visible \ {site} ELSE visible \cup {site}
    /\ astray' = TRUE
    /\ UNCHANGED <<notes, off, hooks, stream, pushed, items, unread, calls, changes>>

---------------------------------------------------------------------------
(* The server's side of the bell *)

Mine == {n \in notes : n.to = Me /\ n.site \in visible}
MineIds == {n.id : n \in Mine}

(* created_at DESC, take(limit): rows are numbered as they are written. *)
Newest(n) == Cardinality({i \in MineIds : i > n.id}) < Limit

Marked(marks) == {[n EXCEPT !.read = @ \/ n \in marks] : n \in notes}

ServedWith(c, done) ==
    /\ calls' = (calls \ {c}) \cup {done}
    /\ UNCHANGED <<off, visible, hooks, stream, pushed, items, unread, astray, changes,
                   doings>>

ServeList(c) ==
    /\ c.kind = "refresh" /\ c.list = Nobody
    /\ ServedWith(c, [c EXCEPT !.list = [ids |-> {n.id : n \in {n \in Mine : Newest(n)}},
                                     read |-> {n.id : n \in {n \in Mine : n.read}}]])
    /\ UNCHANGED notes

ServeCount(c) ==
    /\ c.kind = "refresh" /\ c.count = Nobody
    /\ ServedWith(c, [c EXCEPT !.count = [n |-> Cardinality({n \in Mine : ~n.read})]])
    /\ UNCHANGED notes

ServeRead(c) ==
    /\ c.kind = "read" /\ ~c.served
    /\ notes' = Marked({n \in notes : n.to = Me /\ n.id = c.id})
    /\ ServedWith(c, [c EXCEPT !.served = TRUE])

(* All of them, also what Me may not look at. *)
ServeReadAll(c) ==
    /\ c.kind = "readAll" /\ ~c.served
    /\ notes' = Marked({n \in notes : n.to = Me})
    /\ ServedWith(c, [c EXCEPT !.served = TRUE])

---------------------------------------------------------------------------
(* useNotifications *)

Bell == UNCHANGED <<notes, off, visible, hooks, changes>>
Follow == Bell /\ UNCHANGED doings
Mixed == astray \/ calls # {}

RefreshCall == [kind |-> "refresh", n |-> doings, list |-> Nobody, count |-> Nobody]

(* connect opens one stream; both the bell and the page of Me refresh. *)
MountBell ==
    /\ Doing /\ Bell
    /\ stream' = IF stream.state = "closed" THEN [stream EXCEPT !.state = "connecting"]
                 ELSE stream
    /\ calls' = calls \cup {RefreshCall}
    /\ astray' = IF stream.state = "closed" THEN FALSE ELSE Mixed
    /\ UNCHANGED <<pushed, items, unread>>

Subscribed ==
    /\ Follow
    /\ stream.state = "connecting"
    /\ stream' = [state |-> "open", sees |-> visible]
    /\ UNCHANGED <<pushed, items, unread, calls, astray>>

(* The browser connects again of itself. *)
StreamBreaks ==
    /\ Doing /\ Bell
    /\ stream.state = "open"
    /\ stream' = [stream EXCEPT !.state = "connecting"]
    /\ pushed' = <<>> /\ astray' = (astray \/ pushed # <<>>)
    /\ UNCHANGED <<items, unread, calls>>

With(id, read) == [i \in DOMAIN items \cup {id} |-> IF i = id THEN read ELSE items[i]]

(* A row that a refresh has brought already counts no more. *)
AlreadyIn(note) == note.id \in DOMAIN items

OnMessage ==
    /\ Follow
    /\ pushed # <<>>
    /\ pushed' = Tail(pushed)
    /\ IF AlreadyIn(Head(pushed)) THEN UNCHANGED <<items, unread>>
       ELSE items' = With(Head(pushed).id, FALSE) /\ unread' = unread + 1
    /\ UNCHANGED <<stream, calls, astray>>

(* Requests that hold an item of a list that was replaced mark nothing more. *)
Replaced(cs) == {IF c.kind = "read" THEN [c EXCEPT !.held = FALSE] ELSE c : c \in cs}

(* A row on its way that was beyond the list has been counted, and counts again *)
(* when it comes.                                                               *)
Refreshed(c) ==
    /\ Follow
    /\ c.kind = "refresh" /\ c.list # Nobody /\ c.count # Nobody
    /\ items' = [i \in c.list.ids |-> i \in c.list.read]
    /\ unread' = c.count.n
    /\ calls' = Replaced(calls \ {c})
    /\ astray' = (astray \/ \E j \in DOMAIN pushed : pushed[j].id \notin c.list.ids)
    /\ UNCHANGED <<stream, pushed>>

MarkRead(id) ==
    /\ Doing /\ Bell
    /\ id \in DOMAIN items /\ ~items[id]
    /\ calls' = calls \cup {[kind |-> "read", n |-> doings, id |-> id, held |-> TRUE,
                             served |-> FALSE]}
    /\ astray' = Mixed
    /\ UNCHANGED <<stream, pushed, items, unread>>

MarkedRead(c) ==
    /\ Follow
    /\ c.kind = "read" /\ c.served
    /\ items' = IF c.held THEN With(c.id, TRUE) ELSE items
    /\ unread' = IF unread = 0 THEN 0 ELSE unread - 1
    /\ calls' = calls \ {c}
    /\ UNCHANGED <<stream, pushed, astray>>

(* What is still on its way comes as unread although it is marked. *)
MarkAllRead ==
    /\ Doing /\ Bell
    /\ unread > 0
    /\ calls' = calls \cup {[kind |-> "readAll", n |-> doings, served |-> FALSE]}
    /\ astray' = (Mixed \/ pushed # <<>>)
    /\ UNCHANGED <<stream, pushed, items, unread>>

MarkedAllRead(c) ==
    /\ Follow
    /\ c.kind = "readAll" /\ c.served
    /\ items' = [i \in DOMAIN items |-> TRUE] /\ unread' = 0
    /\ calls' = Replaced(calls \ {c})
    /\ UNCHANGED <<stream, pushed, astray>>

CallFails(c) ==
    /\ Follow
    /\ calls' = calls \ {c}
    /\ astray' = (astray \/ c.kind = "refresh" \/ c.served)
    /\ UNCHANGED <<stream, pushed, items, unread>>

---------------------------------------------------------------------------

NoticesInit ==
    /\ notes = {} /\ off = {} /\ visible = {CHOOSE s \in Places : TRUE} /\ hooks = {}
    /\ stream = [state |-> "closed", sees |-> {}] /\ pushed = <<>>
    /\ items = [i \in {} |-> TRUE] /\ unread = 0 /\ calls = {} /\ astray = TRUE
    /\ changes = 0 /\ doings = 0

NoticesNext ==
    \/ \E s \in Places, a \in Accounts, p \in Accounts \cup {Nobody} :
          \/ OnTaskCreated(s, a, p) \/ OnSubtaskAssigned(s, a, p)
          \/ p # Nobody /\ OnCommentMentioned(s, a, p)
          \/ \E q \in Accounts \cup {Nobody}, reassigned, moved \in BOOLEAN :
                OnTaskChanged(s, a, p, q, reassigned, moved)
    \/ \E h \in hooks : FilterByPreference(h) \/ HookFails(h)
                        \/ \E u \in Accounts : SaveAndPush(h, u)
    \/ \E u \in Accounts, k \in Kinds : SetPreference(u, k)
    \/ \E s \in Places : SetView(s)
    \/ \E c \in calls : \/ ServeList(c) \/ ServeCount(c) \/ ServeRead(c) \/ ServeReadAll(c)
                        \/ Refreshed(c) \/ MarkedRead(c) \/ MarkedAllRead(c) \/ CallFails(c)
    \/ MountBell \/ Subscribed \/ StreamBreaks \/ OnMessage \/ MarkAllRead
    \/ \E i \in Ids : MarkRead(i)

NoticesSpec == NoticesInit /\ [][NoticesNext]_noticeVars

---------------------------------------------------------------------------
(* Properties *)

(* One is told of a change once: of a new task as its assignee or as a member, *)
(* not as both; of an update that reassigns a task and moves it on, once of    *)
(* each; and nobody is told of a change of their own.                          *)
ToldOnce ==
    \A m, n \in notes :
        /\ m.to # m.actor
        /\ m.to = n.to /\ m.change = n.change /\ m # n
           => {m.kind, n.kind} = {"assigned", "status_changed"}

(* When nothing is under way the bell shows rows of its person only, all of   *)
(* the newest that a list holds among them, each as read as it is, and its    *)
(* number is that of all unread, listed or not: however the rows pushed and   *)
(* the rows fetched overlap.  (Not when a request of the bell passed another  *)
(* or a new row, when a row came while there was no stream, when more rows    *)
(* were on their way than a list holds, and when the rights changed.)         *)
BellIsRight ==
    calls = {} /\ pushed = <<>> /\ ~astray =>
        /\ DOMAIN items \subseteq MineIds
        /\ \A n \in Mine : IF n.id \in DOMAIN items THEN items[n.id] = n.read ELSE ~Newest(n)
        /\ unread = Cardinality({n \in Mine : ~n.read})
=============================================================================
