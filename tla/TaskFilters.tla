------------------------------ MODULE TaskFilters ------------------------------
(***************************************************************************)
(* The filters of the task list, the board and the gantt chart             *)
(* (useTaskFilters, the chips that edit them, useTaskFilterMemory): what   *)
(* is chosen lives four times, in the query of the URL, in the refs the    *)
(* chips are bound to, in the copies the table is drawn from two frames    *)
(* later, and in localStorage for the next visit.                          *)
(*                                                                         *)
(* A navigation is asynchronous and a newer one cancels it.  As a rule it  *)
(* is over before the user acts again; it takes longer (slow) when the     *)
(* guard has to renew the access token first.  One date range stands for   *)
(* the eight; the search box works like "completed too" and is left out.   *)
(***************************************************************************)
EXTENDS Naturals, FiniteSets

CONSTANTS
    Cards,      \* tasks
    Facets,     \* VALUE_FILTER_DEFS, "status" among them
    TriState,   \* the facets with a notKey
    FromMaster, \* the facets that offer every value there is
    Options,    \* values to choose from: [Facets -> sets]
    Carries,    \* [Cards -> [Facets -> SUBSET values]]; "none" is a value too
    Finished,   \* statuses that are terminal
    DayOf,      \* [Cards -> days or Unset]
    Spans,      \* date ranges, as sets of days
    MaxPicks,   \* bound: what the user does
    Unset

VARIABLES
    url,        \* route.query
    pending,    \* the navigation under way
    ui,         \* uiFilters
    applied,
    span,       \* the ref of the date range
    frame,      \* pendingFrame # null
    memory,     \* localStorage, tasks:filters:<project>
    earlier,    \* the history entry before the last push
    onPage,
    slow,       \* the access token is gone: auth.global.ts calls the server
    picks

filterVars ==
    <<url, pending, ui, applied, span, frame, memory, earlier, onPage, slow, picks>>

(* One record stands for the keys "tag" and "tagNot" of every facet. *)
Choice == [inc : [Facets -> SUBSET UNION {Options[f] : f \in Facets}],
           exc : [Facets -> SUBSET UNION {Options[f] : f \in Facets}]]
NoChoice == [inc |-> [f \in Facets |-> {}], exc |-> [f \in Facets |-> {}]]
Span == Spans \cup {Unset}
Query == [choice : Choice, span : Span, all : BOOLEAN, card : BOOLEAN]
Bare == [choice |-> NoChoice, span |-> Unset, all |-> FALSE, card |-> FALSE]
Snapshot == [choice : Choice, span : Span, all : BOOLEAN]
Going == [to : Query, push : BOOLEAN]

ASSUME FiltersAssumption ==
    /\ Unset \notin Going
    /\ MaxPicks \in Nat

FiltersTypeOK ==
    /\ url \in Query /\ pending \in Going \cup {Unset}
    /\ ui \in Choice /\ applied \in Choice /\ span \in Span
    /\ frame \in BOOLEAN /\ onPage \in BOOLEAN /\ slow \in BOOLEAN
    /\ memory \in Snapshot \cup {Unset} /\ earlier \in Query \cup {Unset}
    /\ picks \in 0..MaxPicks

---------------------------------------------------------------------------
(* filteredTasks *)

PassesStatus(c, choice, all) ==
    LET has == Carries[c]["status"] IN
    IF choice.inc["status"] # {} THEN has \cap choice.inc["status"] # {}
    ELSE all \/ has \cap Finished = {}

PassesFacet(c, f, choice) ==
    /\ choice.inc[f] = {} \/ Carries[c][f] \cap choice.inc[f] # {}
    /\ Carries[c][f] \cap choice.exc[f] = {}

MatchesDateRange(c, s) == s = Unset \/ DayOf[c] \in s

FilteredTasks(choice, s, all) ==
    {c \in Cards : /\ PassesStatus(c, choice, all)
                   /\ \A f \in Facets : PassesFacet(c, f, choice)
                   /\ MatchesDateRange(c, s)}

---------------------------------------------------------------------------
(* Writing the URL *)

(* The last navigation counts; one to the place where we are is none. *)
Replace(q) == pending' = IF q = url THEN Unset ELSE [to |-> q, push |-> FALSE]

(* Every key whose ref differs from the URL, in one navigation. *)
Synced_KeyByKey(choice) ==
    IF \A f \in TriState : choice.exc[f] = url.choice.exc[f]
    THEN [url.choice EXCEPT !.inc = choice.inc] ELSE [url.choice EXCEPT !.exc = choice.exc]
Synced_WithoutNotKeys(choice) == [url.choice EXCEPT !.inc = choice.inc]
Synced(choice) == choice

SnapshotOf(q) == [choice |-> q.choice, span |-> q.span, all |-> q.all]

(* The guard of a navigation answers from memory while there is a token, *)
(* before anything else happens.                                         *)
GuardedAtOnce == slow \/ pending = Unset

Picked ==
    /\ onPage /\ picks < MaxPicks
    /\ GuardedAtOnce
    /\ picks' = picks + 1
    /\ slow' = slow

---------------------------------------------------------------------------
(* What the user does *)

(* FilterValueList: none, included, excluded, none; the excluded state only  *)
(* where there is a key for it.                                              *)
Cycled(f, v, c) ==
    CASE v \in c.inc[f] /\ f \in TriState ->
           [inc |-> [c.inc EXCEPT ![f] = @ \ {v}], exc |-> [c.exc EXCEPT ![f] = @ \cup {v}]]
      [] v \in c.inc[f] /\ f \notin TriState -> [c EXCEPT !.inc[f] = @ \ {v}]
      [] v \in c.exc[f] -> [c EXCEPT !.exc[f] = @ \ {v}]
      [] OTHER -> [c EXCEPT !.inc[f] = @ \cup {v}]

(* Values that some task has, and the chosen ones whatever became of them. *)
Offered(f) ==
    {v \in Options[f] : f \in FromMaster \/ \E c \in Cards : v \in Carries[c][f]}
    \cup ui.inc[f] \cup ui.exc[f]

Cycle(f, v) ==
    /\ Picked
    /\ v \in Offered(f)
    /\ ui' = Cycled(f, v, ui)
    /\ frame' = TRUE
    /\ UNCHANGED <<url, pending, applied, span, memory, earlier, onPage>>

RemoveFilter(f) ==
    /\ Picked
    /\ ui' = [inc |-> [ui.inc EXCEPT ![f] = {}], exc |-> [ui.exc EXCEPT ![f] = {}]]
    /\ ui' # ui
    /\ frame' = TRUE
    /\ UNCHANGED <<url, pending, applied, span, memory, earlier, onPage>>

PickSpan(s) ==
    /\ Picked
    /\ s # span
    /\ span' = s
    /\ IF s = url.span THEN UNCHANGED pending ELSE Replace([url EXCEPT !.span = s])
    /\ UNCHANGED <<url, ui, applied, frame, memory, earlier, onPage>>

ShowCompleted ==
    /\ Picked
    /\ ui.inc["status"] = {}
    /\ Replace([url EXCEPT !.all = ~@])
    /\ UNCHANGED <<url, ui, applied, span, frame, memory, earlier, onPage>>

HasActiveFilter == ui # NoChoice \/ url.all \/ span # Unset

ResetFilters ==
    /\ HasActiveFilter /\ Picked
    /\ Replace([Bare EXCEPT !.card = url.card])
    /\ ui' = NoChoice /\ applied' = NoChoice
    /\ frame' = TRUE
    /\ UNCHANGED <<url, span, memory, earlier, onPage>>

(* Opening and closing the panel pushes the query it finds. *)
ToggleCard ==
    /\ Picked
    /\ pending' = [to |-> [url EXCEPT !.card = ~@], push |-> TRUE]
    /\ UNCHANGED <<url, ui, applied, span, frame, memory, earlier, onPage>>

Back ==
    /\ Picked
    /\ earlier # Unset
    /\ pending' = [to |-> earlier, push |-> FALSE]
    /\ earlier' = Unset
    /\ UNCHANGED <<url, ui, applied, span, frame, memory, onPage>>

---------------------------------------------------------------------------
(* The page *)

(* The second of the two frames: draw, and write what changed to the URL. *)
Frame ==
    /\ frame
    /\ GuardedAtOnce
    /\ frame' = FALSE
    /\ applied' = ui
    /\ IF ui = url.choice THEN UNCHANGED pending
       ELSE Replace([url EXCEPT !.choice = Synced(ui)])
    /\ UNCHANGED <<url, ui, span, memory, earlier, onPage, slow, picks>>

(* The refs follow the URL key by key; a key that changes is drawn at once. *)
Followed(key, q, drawn) ==
    [f \in Facets |-> IF q[key][f] = ui[key][f] THEN drawn[key][f] ELSE q[key][f]]

Commit ==
    /\ pending # Unset
    /\ LET q == pending.to IN
       /\ url' = q
       /\ ui' = q.choice
       /\ applied' = [inc |-> Followed("inc", q.choice, applied),
                      exc |-> Followed("exc", q.choice, applied)]
       /\ frame' = (frame \/ q.choice # ui)
       /\ span' = q.span
       /\ memory' = SnapshotOf(q)
    /\ earlier' = IF pending.push THEN url ELSE earlier
    /\ pending' = Unset
    /\ UNCHANGED <<onPage, slow, picks>>

Shown == FilteredTasks(applied, span, url.all)
AtRest == onPage /\ ~frame /\ pending = Unset

(* Nobody leaves within the two frames. *)
Leave ==
    /\ onPage /\ ~frame
    /\ onPage' = FALSE
    /\ pending' = Unset /\ earlier' = Unset
    /\ UNCHANGED <<url, ui, applied, span, frame, memory, slow, picks>>

(* A page that is opened reads the URL; one without filters takes those *)
(* that were remembered.                                                *)
Visit(q) ==
    /\ ~onPage
    /\ onPage' = TRUE
    /\ url' = q
    /\ ui' = q.choice /\ applied' = q.choice /\ span' = q.span
    /\ LET saved == [choice |-> memory.choice, span |-> memory.span, all |-> memory.all,
                     card |-> q.card]
       IN pending' = IF memory = Unset \/ SnapshotOf(q) # SnapshotOf(Bare) \/ saved = q THEN Unset
                     ELSE [to |-> saved, push |-> FALSE]
    /\ UNCHANGED <<frame, memory, earlier, slow, picks>>

Link(f, v) == [Bare EXCEPT !.choice = Cycled(f, v, NoChoice)]

FiltersFrom(late) ==
    /\ url = Bare /\ pending = Unset /\ ui = NoChoice /\ applied = NoChoice
    /\ span = Unset /\ frame = FALSE /\ memory = Unset /\ earlier = Unset
    /\ onPage = FALSE /\ slow = late /\ picks = 0

FiltersInit == \E late \in BOOLEAN : FiltersFrom(late)

FiltersNext ==
    \/ \E f \in Facets : RemoveFilter(f) \/ \E v \in Options[f] : Cycle(f, v)
    \/ \E s \in Span : PickSpan(s)
    \/ ShowCompleted \/ ResetFilters \/ ToggleCard \/ Back
    \/ Frame \/ Commit \/ Leave
    \/ Visit(Bare) \/ \E f \in Facets : \E v \in Options[f] : Visit(Link(f, v))

FiltersSpec == FiltersInit /\ [][FiltersNext]_filterVars

---------------------------------------------------------------------------
(* Properties *)

(* No value is both included and excluded, neither in the chips nor in a link *)
(* nor in what is remembered: one click changes two keys, and a navigation    *)
(* that is cancelled or overtaken must not leave half of it in the URL.       *)
NeverBoth ==
    \A c \in {ui, url.choice} \cup (IF memory = Unset THEN {} ELSE {memory.choice}) :
        \A f \in Facets : c.inc[f] \cap c.exc[f] = {}

(* When nothing is under way, whoever is sent the link sees the same tasks.  *)
(* (A range picked while the guard was slow stays drawn, and out of the URL, *)
(* if everything is cleared before the guard is through.)                    *)
LinkShowsTheSame ==
    AtRest /\ ~slow => Shown = FilteredTasks(url.choice, url.span, url.all)

=============================================================================
