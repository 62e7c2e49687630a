------------------------------- MODULE TaskPage -------------------------------
(***************************************************************************)
(* Which task the panel of the task list shows (tasks/index.vue): the URL  *)
(* names it, by number or, in old links, by id; the list may not hold it,  *)
(* because it is closed, new or removed, and the page then fetches the     *)
(* list again and at last the task alone.  The arrows of the panel walk    *)
(* through the order the list had when the panel was opened.               *)
(*                                                                         *)
(* A watcher (due) runs after whatever changed the parameter, the task it  *)
(* stands for or the state of the list, before the next event.  A task is  *)
(* named by its number.                                                    *)
(***************************************************************************)
EXTENDS Integers, Sequences, SequencesExt, FiniteSets

CONSTANTS
    Seqs,       \* numbers of tasks
    MaxClicks,  \* bound: what the user does
    MaxNews,    \* bound: what others do, and their refetches
    Null

VARIABLES
    stored,         \* what became of each task
    list,           \* tasks.value
    fetch,          \* the list's last request
    param,          \* taskParam
    openTaskCache,
    navSeqs, navFetched, navLoading,
    refreshedForParam, resolvingParam,
    due,            \* the watcher of normalizeTaskParam is queued
    told,           \* the task that was last said to be missing
    failing,        \* tasks a request for which failed
    visits,         \* how often the URL came to name a task: never, once, again
    clicks, news

navVars == <<navSeqs, navLoading>>
resolving == <<refreshedForParam, resolvingParam>>
panelVars == <<param, openTaskCache, navFetched>>
pageVars == <<stored, list, fetch, panelVars, navVars, resolving, due, told, failing,
              visits, clicks, news>>

Fate == {"unborn", "open", "closed", "gone"}
Param == [seq : Seqs, old : BOOLEAN]
Walk == UNION {[1..n -> Seqs] : n \in 0..Cardinality(Seqs)}
Verdict == {"found", "missing", "failed"}
Resolution == [raw : Param, step : {"list", "task"} \cup Verdict]
Idle == [state |-> "success", got |-> {}]
Refresh == [state |-> "sent", got |-> {}]

(* Null stands for what the code keeps as null. *)
ASSUME PageAssumption ==
    /\ IsFiniteSet(Seqs)
    /\ Null \notin Seqs \cup Param \cup Resolution
    /\ MaxClicks \in Nat /\ MaxNews \in Nat

PageTypeOK ==
    /\ stored \in [Seqs -> Fate] /\ list \subseteq Seqs
    /\ fetch \in [state : {"success", "sent", "read", "error"}, got : SUBSET Seqs]
    /\ param \in Param \cup {Null}
    /\ openTaskCache \in Seqs \cup {Null} /\ navFetched \in Seqs \cup {Null}
    /\ navSeqs \in Walk \cup {Null}
    /\ navLoading \in [seq : Seqs, by : {-1, 1}, walk : Walk, got : Verdict \cup {"sent"}]
                      \cup {Null}
    /\ refreshedForParam \in Param \cup {Null}
    /\ resolvingParam \in Resolution \cup {Null}
    /\ due \in BOOLEAN /\ told \in Seqs \cup {Null} /\ failing \subseteq Seqs
    /\ visits \in [Seqs -> 0..2]
    /\ clicks \in 0..MaxClicks /\ news \in 0..MaxNews

---------------------------------------------------------------------------
(* What the panel shows *)

(* The task of the list, else the one shown last, else what the arrows got. *)
Resolved(p, l, cached, fetched) ==
    IF p = Null THEN Null
    ELSE IF p.seq \in l \/ cached = p.seq \/ (fetched = p.seq /\ ~p.old) THEN p.seq
    ELSE Null

SelectedTask == Resolved(param, list, openTaskCache, navFetched)

(* The cache follows the task that is shown, from the list or not. *)
Cached_OnlyFetched(p, l, cached, fetched) == cached
Cached(p, l, cached, fetched) ==
    IF Resolved(p, l, cached, fetched) = Null THEN cached ELSE Resolved(p, l, cached, fetched)

(* The watchers of the parameter and the task: whatever the panel kept is *)
(* forgotten when the parameter goes, not before.                         *)
Shows(p, l, cached, fetched) ==
    LET leaves == p = Null /\ param # Null IN
    /\ param' = p /\ list' = l
    /\ openTaskCache' = IF leaves THEN Null ELSE Cached(p, l, cached, fetched)
    /\ navFetched' = IF leaves THEN Null ELSE fetched

Number(seq) == [seq |-> seq, old |-> FALSE]

Watched == <<param, SelectedTask, fetch.state>>

(* The list loads what is not closed. *)
Loaded == {s \in Seqs : stored[s] = "open"}

(* The order of the table, which the user sorts as they like; an empty table *)
(* leaves the walk as it was.                                                *)
Captured == IF list = {} THEN {navSeqs} ELSE SetToSeqs(list)

Click == ~due /\ clicks < MaxClicks /\ clicks' = clicks + 1 /\ UNCHANGED news
News == ~due /\ news < MaxNews /\ news' = news + 1 /\ UNCHANGED clicks
Event == ~due /\ UNCHANGED <<clicks, news>>
Quiet == UNCHANGED <<clicks, news>>

---------------------------------------------------------------------------
(* The user *)

OpenTask(s) ==
    /\ Click
    /\ s \in list
    /\ Shows(Number(s), list, openTaskCache, navFetched)
    /\ navSeqs' \in Captured
    /\ UNCHANGED <<stored, fetch, navLoading, resolving, told, failing>>

(* A link, a notification, the row of a subtask, back and forward. *)
FollowLink(p) ==
    /\ Click
    /\ stored[p.seq] # "unborn"
    /\ Shows(p, list, openTaskCache, navFetched)
    /\ UNCHANGED <<stored, fetch, navVars, resolving, told, failing>>

CloseSlideover ==
    /\ Click
    /\ param # Null
    /\ Shows(Null, list, openTaskCache, navFetched)
    /\ navSeqs' = Null
    /\ UNCHANGED <<stored, fetch, navLoading, resolving, told, failing>>

(* A panel opened by a link takes the order of the list once it is drawn. *)
CaptureNavOrder ==
    /\ Event
    /\ SelectedTask # Null /\ navSeqs = Null
    /\ navSeqs' \in Captured
    /\ UNCHANGED <<stored, list, fetch, panelVars, navLoading, resolving, told, failing>>

Neighbour(walk, by) ==
    LET at == {i \in DOMAIN walk : walk[i] = SelectedTask /\ i + by \in DOMAIN walk}
    IN IF at = {} THEN Null ELSE walk[(CHOOSE i \in at : TRUE) + by]

(* moveDetail, up to its request if it needs one. *)
Walked(walk, by) ==
    LET seq == Neighbour(walk, by) IN
    IF seq = Null THEN navLoading' = Null /\ UNCHANGED <<list, panelVars>>
    ELSE IF seq \in list
    THEN navLoading' = Null /\ Shows(Number(seq), list, openTaskCache, navFetched)
    ELSE /\ navLoading' = [seq |-> seq, by |-> by, walk |-> walk, got |-> "sent"]
         /\ UNCHANGED <<list, panelVars>>

MoveDetail(by) ==
    /\ Click
    /\ navSeqs # Null /\ navLoading = Null
    /\ Neighbour(navSeqs, by) # Null
    /\ Walked(navSeqs, by)
    /\ UNCHANGED <<stored, fetch, navSeqs, resolving, told, failing>>

(* The task alone, at the server: for the arrows or for the parameter. *)
Served(seq, answer) ==
    \/ answer = "failed" /\ failing' = failing \cup {seq}
    \/ answer = (IF stored[seq] = "gone" THEN "missing" ELSE "found") /\ UNCHANGED failing

ServeNav(answer) ==
    /\ Event
    /\ navLoading # Null /\ navLoading.got = "sent"
    /\ Served(navLoading.seq, answer)
    /\ navLoading' = [navLoading EXCEPT !.got = answer]
    /\ UNCHANGED <<stored, list, fetch, panelVars, navSeqs, resolving, told>>

Without(walk, seq) == RemoveAt(walk, CHOOSE i \in DOMAIN walk : walk[i] = seq)

(* The rest of moveDetail: a task that is gone is left out, and passed. *)
NavAnswered ==
    /\ Event
    /\ navLoading # Null /\ navLoading.got # "sent"
    /\ LET seq == navLoading.seq
           walk == Without(navLoading.walk, seq)
           fetched == IF navLoading.got = "found" THEN seq ELSE navFetched
       IN IF navLoading.got = "missing"
          THEN navSeqs' = walk /\ Walked(walk, navLoading.by)
          ELSE /\ navLoading' = Null /\ UNCHANGED navSeqs
               /\ IF fetched = seq THEN Shows(Number(seq), list, openTaskCache, fetched)
                  ELSE UNCHANGED <<list, panelVars>>
    /\ UNCHANGED <<stored, fetch, resolving, told, failing>>

---------------------------------------------------------------------------
(* Others, and the list *)

Become(s, from, to) ==
    /\ News
    /\ stored[s] = from
    /\ stored' = [stored EXCEPT ![s] = to]
    /\ UNCHANGED <<list, fetch, panelVars, navVars, resolving, told, failing>>

(* An event, an edit of the user's own; it cancels a fetch under way. *)
RefreshTasks ==
    /\ News
    /\ fetch' = Refresh
    /\ UNCHANGED <<stored, list, panelVars, navVars, resolving, told, failing>>

ReadTasks ==
    /\ Event
    /\ fetch.state = "sent"
    /\ fetch' = [state |-> "read", got |-> Loaded]
    /\ UNCHANGED <<stored, list, panelVars, navVars, resolving, told, failing>>

(* useAsyncData falls back to its default, an empty list. *)
TasksFailed ==
    /\ Event
    /\ fetch.state = "sent"
    /\ fetch' = [state |-> "error", got |-> {}]
    /\ Shows(param, {}, openTaskCache, navFetched)
    /\ UNCHANGED <<stored, navVars, resolving, told, failing>>

TasksAnswered ==
    /\ Event
    /\ fetch.state = "read"
    /\ fetch' = Idle
    /\ Shows(param, fetch.got, openTaskCache, navFetched)
    /\ UNCHANGED <<stored, navVars, resolving, told, failing>>

---------------------------------------------------------------------------
(* normalizeTaskParam *)

(* A resolution under way must not be entered again. *)
Entered_Twice == FALSE
Entered == resolvingParam # Null

(* What stands in the URL: nothing that is missing, nothing old. *)
Settle(cached) ==
    LET task == Resolved(param, list, cached, navFetched) IN
    IF task = Null
    THEN /\ told' = param.seq
         /\ Shows(Null, list, cached, navFetched)
         /\ navSeqs' = Null
    ELSE /\ Shows(Number(task), list, cached, navFetched)
         /\ UNCHANGED <<told, navSeqs>>

NormalizeTaskParam ==
    /\ Quiet
    /\ due
    /\ \/ /\ param = Null
          /\ refreshedForParam' = Null
          /\ UNCHANGED <<list, fetch, panelVars, navSeqs, resolvingParam, told>>
       \/ /\ param # Null /\ (fetch.state # "success" \/ Entered)
          /\ UNCHANGED <<list, fetch, panelVars, navSeqs, resolving, told>>
       \/ /\ param # Null /\ fetch.state = "success" /\ ~Entered
          /\ IF SelectedTask = Null /\ refreshedForParam # param
             THEN /\ refreshedForParam' = param
                  /\ resolvingParam' = [raw |-> param, step |-> "list"]
                  /\ fetch' = Refresh
                  /\ UNCHANGED <<list, panelVars, navSeqs, told>>
             ELSE Settle(openTaskCache) /\ UNCHANGED <<fetch, resolving>>
    /\ UNCHANGED <<stored, navLoading, failing>>

(* The end of a resolution: nothing, if the URL names something else now. *)
Finish(cached) ==
    /\ resolvingParam' = Null
    /\ IF param = resolvingParam.raw THEN Settle(cached)
       ELSE Shows(param, list, cached, navFetched) /\ UNCHANGED <<navSeqs, told>>

ListResolved ==
    /\ Quiet
    /\ resolvingParam # Null /\ resolvingParam.step = "list"
    /\ fetch.state \in {"success", "error"}
    /\ IF SelectedTask # Null THEN Finish(openTaskCache)
       ELSE /\ resolvingParam' = [resolvingParam EXCEPT !.step = "task"]
            /\ UNCHANGED <<list, panelVars, navSeqs, told>>
    /\ UNCHANGED <<stored, fetch, navLoading, refreshedForParam, failing>>

ServeTask(answer) ==
    /\ Event
    /\ resolvingParam # Null /\ resolvingParam.step = "task"
    /\ Served(resolvingParam.raw.seq, answer)
    /\ resolvingParam' = [resolvingParam EXCEPT !.step = answer]
    /\ UNCHANGED <<stored, list, fetch, panelVars, navVars, refreshedForParam, told>>

TaskResolved ==
    /\ Quiet
    /\ resolvingParam # Null /\ resolvingParam.step \in Verdict
    /\ Finish(IF resolvingParam.step = "found" THEN resolvingParam.raw.seq ELSE openTaskCache)
    /\ UNCHANGED <<stored, fetch, navLoading, refreshedForParam, failing>>

---------------------------------------------------------------------------

PageFrom(fates) ==
    /\ stored = fates
    /\ list = Loaded /\ fetch = Idle
    /\ param = Null /\ openTaskCache = Null
    /\ navSeqs = Null /\ navFetched = Null /\ navLoading = Null
    /\ refreshedForParam = Null /\ resolvingParam = Null
    /\ due = FALSE /\ told = Null /\ failing = {}
    /\ visits = [s \in Seqs |-> 0]
    /\ clicks = 0 /\ news = 0

PageInit == \E fates \in [Seqs -> {"unborn", "open", "closed"}] : PageFrom(fates)

PageStep ==
    \/ \E s \in Seqs : \/ OpenTask(s)
                       \/ Become(s, "unborn", "open") \/ Become(s, "open", "closed")
                       \/ Become(s, "closed", "open") \/ Become(s, "open", "gone")
    \/ \E p \in Param : FollowLink(p)
    \/ CloseSlideover \/ CaptureNavOrder
    \/ \E by \in {-1, 1} : MoveDetail(by)
    \/ RefreshTasks \/ ReadTasks \/ TasksAnswered \/ TasksFailed
    \/ NavAnswered \/ ListResolved \/ TaskResolved
    \/ \E answer \in Verdict : ServeNav(answer) \/ ServeTask(answer)

Visited ==
    IF param' \in {param, Null} \/ visits[param'.seq] = 2 THEN visits
    ELSE [visits EXCEPT ![param'.seq] = @ + 1]

PageNext ==
    \/ PageStep /\ due' = (due \/ Watched' # Watched) /\ visits' = Visited
    \/ NormalizeTaskParam /\ due' = (Watched' # Watched) /\ visits' = Visited

PageSpec == PageInit /\ [][PageNext]_pageVars

---------------------------------------------------------------------------
(* Properties *)

(* The first time the URL names a task nobody is told that it is missing      *)
(* while there is one, which the page finds out by asking the server (the    *)
(* comment on normalizeTaskParam): not while the list is fetched, nor because *)
(* the task is closed or newer than the list, and not through an answer      *)
(* about another task.  (When the URL comes back to it, it may happen.)      *)
FirstVisitOpens ==
    told # Null /\ visits[told] = 1 => stored[told] = "gone" \/ told \in failing

(* The panel stays open on its task whatever happens to the list, as long as *)
(* the URL names it and no other parameter is still being resolved.          *)
PanelStaysOpen ==
    [][SelectedTask # Null /\ param' = param /\ resolvingParam = Null
           => SelectedTask' = SelectedTask]_pageVars
=============================================================================
