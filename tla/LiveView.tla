------------------------------ MODULE LiveView ------------------------------
(***************************************************************************)
(* How an open page follows the writes of a project: the interceptor that  *)
(* emits an event after each successful write request, the event stream    *)
(* (SSE) of one browser tab, useProjectEvents with its debounce timers,    *)
(* and the fetches the task list and the detail panel start.               *)
(*                                                                         *)
(* An event carries no data, it only makes the tab fetch again.  The tab   *)
(* ignores the events of its own writes and fetches again when the answer  *)
(* to the write arrives.  The model has one tab in detail; the writes of   *)
(* the other tabs and of the public API are those that are not its own.    *)
(* What a view shows is the set of the writes whose effect it shows.       *)
(***************************************************************************)
EXTENDS Integers, Sequences

CONSTANTS
    Tasks,
    MaxWrites,  \* bound: the write requests
    Null

VARIABLES
    writes,      \* the write requests that have been committed
    stream,      \* the EventSource of the tab
    wire,        \* the events on their way to the tab
    timers,      \* the timers of the page: the types of event that are pending
    panelTimer,  \* the timer of the panel: its pending event
    task,        \* the task the panel shows
    fetch,       \* the last fetch of each view
    shown,       \* the data of each view
    missed       \* the tab has not been told of something since its last fetch

vars == <<writes, stream, wire, timers, panelTimer, task, fetch, shown, missed>>

Writes == 1..MaxWrites
Types == {"tasks", "comments"}
Views == {"list", "comments"}

(* A write of type "tasks" stands for everything that sends tasks.changed;   *)
(* its task makes no difference to the two views.                            *)
Write == [type : Types, task : Tasks \cup {Null}, own : BOOLEAN,
          pc : {"committed", "answered", "done"}]
Fetch == [pc : {"idle", "asked", "read"}, got : SUBSET Writes]

ASSUME LiveAssumption ==
    /\ MaxWrites \in Nat
    /\ Null \notin Tasks
    /\ Null \notin Writes
    /\ Null \notin Write

Idle == [pc |-> "idle", got |-> {}]
Asked == [pc |-> "asked", got |-> {}]

TypeOK ==
    /\ writes \in [Writes -> Write \cup {Null}]
    /\ stream \in {"connecting", "open", "closed"}
    /\ wire \in Seq(Writes)
    /\ timers \subseteq Types
    /\ panelTimer \in Writes \cup {Null}
    /\ task \in Tasks \cup {Null}
    /\ fetch \in [Views -> Fetch]
    /\ shown \in [Views -> SUBSET Writes]
    /\ missed \in [Views -> BOOLEAN]

---------------------------------------------------------------------------
(* Helpers *)

Committed == {w \in Writes : writes[w] # Null}

(* What the server answers to a fetch of the view.  The list carries the     *)
(* number of comments and the latest one.                                    *)
Stored(v) ==
    IF v = "list" THEN Committed
    ELSE {w \in Committed : writes[w].type = "comments" /\ task # Null /\ writes[w].task = task}

(* The views a write of the type changes. *)
Concerned(type) == IF type = "comments" THEN Views ELSE {"list"}

Untold(vs) == [v \in Views |-> missed[v] \/ v \in vs]

Refetched_Deferred(vs) ==
    [v \in Views |-> IF v \in vs /\ fetch[v].pc = "idle" THEN Asked ELSE fetch[v]]

(* refresh of useAsyncData: an earlier fetch in flight is discarded. *)
Refetched(vs) == [v \in Views |-> IF v \in vs THEN Asked ELSE fetch[v]]

Answered(w) == [writes EXCEPT ![w].pc = IF writes[w].own THEN "answered" ELSE "done"]
Finished(w) == [writes EXCEPT ![w].pc = "done"]

---------------------------------------------------------------------------
(* The server *)

(* The writes of a request are committed.  The tab comments on the task its  *)
(* panel shows.                                                              *)
Commit(w) ==
    /\ writes[w] = Null
    /\ w > 1 => writes[w - 1] # Null
    /\ \E own \in BOOLEAN :
        \/ writes' = [writes EXCEPT ![w] =
                [type |-> "tasks", task |-> Null, own |-> own, pc |-> "committed"]]
        \/ \E k \in Tasks :
                /\ own => k = task
                /\ writes' = [writes EXCEPT ![w] =
                        [type |-> "comments", task |-> k, own |-> own, pc |-> "committed"]]
    /\ UNCHANGED <<stream, wire, timers, panelTimer, task, fetch, shown, missed>>

(* The handler is done: the interceptor emits, the response leaves. *)
Answer(w) ==
    /\ writes[w] # Null /\ writes[w].pc = "committed"
    /\ writes' = Answered(w)
    /\ IF stream = "open"
       THEN wire' = Append(wire, w) /\ UNCHANGED missed
       ELSE /\ missed' = IF writes[w].own THEN missed ELSE Untold(Concerned(writes[w].type))
            /\ UNCHANGED wire
    /\ UNCHANGED <<stream, timers, panelTimer, task, fetch, shown>>

(* The handler fails after a part of its writes: a bulk edit stops half-way, *)
(* a notification cannot be written.  Nothing is emitted.  The response of   *)
(* the tab's own request may also get lost after the event.                  *)
Fail(w) ==
    /\ writes[w] # Null /\ writes[w].pc \in {"committed", "answered"}
    /\ writes' = Finished(w)
    /\ missed' = Untold(Concerned(writes[w].type))
    /\ UNCHANGED <<stream, wire, timers, panelTimer, task, fetch, shown>>

---------------------------------------------------------------------------
(* The tab *)

Receive_NoRefetch(w) ==
    /\ writes[w] # Null /\ writes[w].pc = "answered"
    /\ writes' = Finished(w)
    /\ UNCHANGED <<stream, wire, timers, panelTimer, task, fetch, shown, missed>>

(* The answer to an own write: the caller refreshes what it changed. *)
Receive(w) ==
    /\ writes[w] # Null /\ writes[w].pc = "answered"
    /\ writes' = Finished(w)
    /\ fetch' = Refetched(Concerned(writes[w].type))
    /\ UNCHANGED <<stream, wire, timers, panelTimer, task, shown, missed>>

(* An event arrives: each of the two users of useProjectEvents starts its    *)
(* timer of that type anew.  The panel subscribes only while it shows a      *)
(* task; its handler of tasks.changed fetches the history, which is not one  *)
(* of the two views.                                                         *)
Deliver ==
    /\ wire # <<>>
    /\ wire' = Tail(wire)
    /\ LET e == writes[Head(wire)]
       IN  /\ timers' = IF e.own THEN timers ELSE timers \cup {e.type}
           /\ panelTimer' = IF ~e.own /\ e.type = "comments" /\ task # Null
                            THEN Head(wire) ELSE panelTimer
    /\ UNCHANGED <<writes, stream, task, fetch, shown, missed>>

(* 300 ms without another event of the type have passed. *)
Fire(type) ==
    /\ type \in timers
    /\ timers' = timers \ {type}
    /\ fetch' = Refetched({"list"})
    /\ UNCHANGED <<writes, stream, wire, panelTimer, task, shown, missed>>

OfOpenTask(w) == writes[w].task = task

FirePanel ==
    /\ panelTimer # Null
    /\ panelTimer' = Null
    /\ fetch' = IF OfOpenTask(panelTimer) THEN Refetched({"comments"}) ELSE fetch
    /\ UNCHANGED <<writes, stream, wire, timers, task, shown, missed>>

(* useAsyncData goes on showing what it had fetched until the new key is     *)
(* answered, or starts from its default: both, as it is no part of this      *)
(* code.                                                                     *)
Until(k) == IF k = Null THEN {{}} ELSE {{}, shown["comments"]}

OpenTask_KeepsFetch(k) ==
    /\ k # task
    /\ task' = k
    /\ \E kept \in Until(k) : shown' = [shown EXCEPT !["comments"] = kept]
    /\ UNCHANGED <<writes, stream, wire, timers, panelTimer, fetch, missed>>

(* The panel opens on a task, goes on to another one, or closes.  The key of *)
(* the fetch changes with the task, so that an older fetch does not show.    *)
OpenTask(k) ==
    /\ k # task
    /\ task' = k
    /\ \E kept \in Until(k) : shown' = [shown EXCEPT !["comments"] = kept]
    /\ fetch' = [fetch EXCEPT !["comments"] = IF k = Null THEN Idle ELSE Asked]
    /\ UNCHANGED <<writes, stream, wire, timers, panelTimer, missed>>

---------------------------------------------------------------------------
(* Fetches: the server reads, the answer arrives *)

Read(v) ==
    /\ fetch[v].pc = "asked"
    /\ fetch' = [fetch EXCEPT ![v] = [pc |-> "read", got |-> Stored(v)]]
    /\ missed' = [missed EXCEPT ![v] = FALSE]
    /\ UNCHANGED <<writes, stream, wire, timers, panelTimer, task, shown>>

Show(v) ==
    /\ fetch[v].pc = "read"
    /\ shown' = [shown EXCEPT ![v] = fetch[v].got]
    /\ fetch' = [fetch EXCEPT ![v] = Idle]
    /\ UNCHANGED <<writes, stream, wire, timers, panelTimer, task, missed>>

(* useAsyncData falls back to its default, an empty list. *)
FetchFails(v) ==
    /\ fetch[v].pc # "idle"
    /\ shown' = [shown EXCEPT ![v] = {}]
    /\ fetch' = [fetch EXCEPT ![v] = Idle]
    /\ missed' = [missed EXCEPT ![v] = TRUE]
    /\ UNCHANGED <<writes, stream, wire, timers, panelTimer, task>>

---------------------------------------------------------------------------
(* The connection: EventSource connects again by itself, except after an     *)
(* answer other than 200 (its token has expired, the server is starting)     *)

Break ==
    /\ stream = "open"
    /\ stream' = "connecting"
    /\ wire' = <<>>
    /\ missed' = Untold(UNION {IF writes[wire[i]].own THEN {} ELSE Concerned(writes[wire[i]].type)
                               : i \in DOMAIN wire})
    /\ UNCHANGED <<writes, timers, panelTimer, task, fetch, shown>>

Connect ==
    /\ stream = "connecting"
    /\ stream' \in {"open", "closed"}
    /\ UNCHANGED <<writes, wire, timers, panelTimer, task, fetch, shown, missed>>

---------------------------------------------------------------------------
(* Specification *)

(* The page has fetched its data and is mounted; it connects now. *)
Init ==
    /\ writes = [w \in Writes |-> Null]
    /\ stream = "connecting"
    /\ wire = <<>>
    /\ timers = {}
    /\ panelTimer = Null
    /\ task = Null
    /\ fetch = [v \in Views |-> Idle]
    /\ shown = [v \in Views |-> {}]
    /\ missed = [v \in Views |-> FALSE]

Next ==
    \/ \E w \in Writes : Commit(w) \/ Answer(w) \/ Fail(w) \/ Receive(w)
    \/ Deliver
    \/ \E type \in Types : Fire(type)
    \/ FirePanel
    \/ \E k \in Tasks \cup {Null} : OpenTask(k)
    \/ \E v \in Views : Read(v) \/ Show(v) \/ FetchFails(v)
    \/ Break
    \/ Connect

(* Handlers end, responses and events arrive, timers fire, fetches are       *)
(* answered.  Nobody has to write, open a task, or connect.                  *)
Fairness ==
    /\ \A w \in Writes : WF_vars(Answer(w) \/ Fail(w)) /\ WF_vars(Receive(w) \/ Fail(w))
    /\ WF_vars(Deliver)
    /\ \A type \in Types : WF_vars(Fire(type))
    /\ WF_vars(FirePanel)
    /\ \A v \in Views : WF_vars(Read(v) \/ FetchFails(v)) /\ WF_vars(Show(v) \/ FetchFails(v))

Spec == Init /\ [][Next]_vars
LiveSpec == Spec /\ Fairness

---------------------------------------------------------------------------
(* Properties *)

(* Nothing is under way that would make the tab fetch the view again. *)
AtRest(v) ==
    /\ \A w \in Committed : writes[w].pc = "done"
    /\ wire = <<>>
    /\ IF v = "list" THEN timers = {} ELSE panelTimer = Null
    /\ fetch[v].pc = "idle"

(* tasks/index.vue, line 103: what others and the tab itself write is shown  *)
(* without a reload.  When nothing is under way any more the list is the     *)
(* stored one, unless the tab was not told of something (a failed request or *)
(* fetch, events while the stream was down) and has not fetched since.       *)
ListCurrent == AtRest("list") /\ ~missed["list"] => shown["list"] = Stored("list")

(* The same of the comments in the panel, as TaskDetailSlideover.vue, line   *)
(* 107, says it.                                                             *)
CommentsCurrent ==
    AtRest("comments") /\ ~missed["comments"] => shown["comments"] = Stored("comments")

(* Once its fetch has ended the panel shows no comments of another task than *)
(* its own, although fetches of the previous task may be answered late.      *)
CommentsOfOpenTask ==
    fetch["comments"].pc = "idle" => shown["comments"] \subseteq Stored("comments")

(* Once the writes have ended the list shows them all and goes on showing    *)
(* them, or the tab was not told of something.                               *)
ListCatchesUp == <>[](missed["list"] \/ shown["list"] = Stored("list"))

=============================================================================
