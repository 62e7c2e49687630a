------------------------------ MODULE TaskColumns ------------------------------
(***************************************************************************)
(* The columns of the task list and the saved views that name them         *)
(* (pages/[tenantKey]/projects/[projectId]/tasks/index.vue): which columns *)
(* are shown, in which order and how wide lives in refs, in the query      *)
(* (cols, colw), in localStorage and in the configuration of a view.       *)
(* Watchers copy what the user arranges to localStorage and to the URL; a  *)
(* flag keeps them quiet while a view or a link is applied.                *)
(*                                                                         *)
(* One value ("sift") stands for the filters and the sort of a view: the   *)
(* page treats both alike, and TaskFilters has the detail.  A navigation   *)
(* ends before the user acts again, and after the watchers of its tick.    *)
(***************************************************************************)
EXTENDS Naturals, Sequences, SequencesExt, FiniteSets

CONSTANTS
    Cols,
    DefaultColumnOrder,
    DefaultHidden,      \* SUBSET Cols
    Widths,             \* what a drag may leave
    MinWidth, MaxWidth,
    Sifts,
    Views,              \* ids of saved views
    Published,          \* views there are already, [Views -> configuration or Nil]
    MaxActs,            \* bound: what the user does
    Nil, Never

VARIABLES
    query,      \* [cols, colw, sift, view, panel] of route.query
    going,      \* the query of the navigation under way
    layout,     \* columnOrder, columnVisibility, columnSizing
    touched,    \* parts of it whose watchers are queued
    applying,   \* applyingColumnLayout
    own,        \* localStorage: the three parts, the sift, the last view
    views,      \* savedViews
    chosen,     \* selectedViewId
    before,     \* the history entry below
    mine,       \* the parts as the user last arranged them, Nil: never
    since,      \* what happened last: a view was chosen, the page reloaded
    acts

columnVars ==
    <<query, going, layout, touched, applying, own, views, chosen, before, mine, since,
      acts>>

Sizing == [Cols -> Widths \cup {MinWidth, MaxWidth, Nil}]
Order == {o \in [1..Len(DefaultColumnOrder) -> Cols] : ToSet(o) = Cols}
Layout == [order : Order, shown : SUBSET Cols, width : Sizing]
SomeSift == Sifts \cup {Nil}
Config == [order : Order, shown : SUBSET Cols, width : Sizing, sift : SomeSift]
Listing == UNION {[1..n -> Cols] : n \in 1..Cardinality(Cols)}
PageQuery == [cols : Listing \cup {Nil}, colw : Sizing \cup {Nil}, sift : SomeSift,
              view : Views \cup {Nil}, panel : BOOLEAN]
Unsized == [c \in Cols |-> Nil]
BareQuery == [cols |-> Nil, colw |-> Nil, sift |-> Nil, view |-> Nil, panel |-> FALSE]
DefaultLayout ==
    [order |-> DefaultColumnOrder, shown |-> Cols \ DefaultHidden, width |-> Unsized]
Nothing == [order |-> Nil, shown |-> Nil, width |-> Nil]
Parts == DOMAIN Nothing

ASSUME ColumnsAssumption ==
    /\ IsFiniteSet(Cols) /\ DefaultColumnOrder \in Seq(Cols) /\ DefaultHidden \subseteq Cols
    /\ ToSet(DefaultColumnOrder) = Cols /\ Len(DefaultColumnOrder) = Cardinality(Cols)
    /\ Published \in [Views -> Config \cup {Nil}]
    /\ MaxActs \in Nat

ColumnsTypeOK ==
    /\ query \in PageQuery /\ going \in PageQuery \cup {Nil}
    /\ before \in PageQuery \cup {Nil}
    /\ layout \in Layout /\ touched \in SUBSET Parts /\ applying \in BOOLEAN
    /\ own.parts.order \in Order \cup {Nil} /\ own.parts.shown \in (SUBSET Cols) \cup {Nil}
    /\ own.parts.width \in Sizing \cup {Nil}
    /\ own.sift \in SomeSift \cup {Never} /\ own.last \in Views \cup {Nil}
    /\ views \in [Views -> Config \cup {Nil}] /\ chosen \in Views \cup {Nil}
    /\ since \in {"else", "chosen", "reloaded"} /\ acts \in 0..MaxActs

---------------------------------------------------------------------------
(* Between the refs and the URL *)

(* The columns of S in the order o, in which each comes once. *)
Place(o, c) == CHOOSE i \in DOMAIN o : o[i] = c
InOrder(o, S) ==
    CHOOSE q \in SetToSeqs(S) :
        \A m, n \in DOMAIN q : m < n => Place(o, q[m]) < Place(o, q[n])

Visible(l) == InOrder(l.order, l.shown)

(* The default says nothing, and neither does a list of no column. *)
ColsQuery(l) == IF Visible(l) \in {Visible(DefaultLayout), <<>>} THEN Nil ELSE Visible(l)

Capped(w) == IF w # Nil /\ w > MaxWidth THEN MaxWidth ELSE w
ColwQuery(l) == IF l.width = Unsized THEN Nil ELSE [c \in Cols |-> Capped(l.width[c])]

ClampedWidth(w) == IF w # Nil /\ w < MinWidth THEN MinWidth ELSE Capped(w)

WithCols_Repeated(l, cols) ==
    IF cols = Nil THEN l
    ELSE [l EXCEPT !.shown = ToSet(cols), !.order = cols \o DefaultColumnOrder]
WithCols(l, cols) ==
    IF cols = Nil THEN l
    ELSE [l EXCEPT !.shown = ToSet(cols),
                   !.order = cols \o InOrder(DefaultColumnOrder, Cols \ ToSet(cols))]
WithColw(l, colw) ==
    IF colw = Nil THEN l ELSE [l EXCEPT !.width = [c \in Cols |-> ClampedWidth(colw[c])]]

FromQuery(l, q) == WithColw(WithCols(l, q.cols), q.colw)

(* syncColumnLayoutToUrl *)
SyncedQuery(l) == [query EXCEPT !.cols = ColsQuery(l), !.colw = ColwQuery(l)]

To(q) == going' = IF q = query THEN Nil ELSE q

---------------------------------------------------------------------------
(* Views *)

CaptureViewConfig ==
    [order |-> layout.order, shown |-> layout.shown, width |-> layout.width,
     sift |-> query.sift]

LayoutOf(config) == [order |-> config.order, shown |-> config.shown, width |-> config.width]

(* What the round trip through the URL keeps. *)
CanonConfig(c) == <<Visible(c), [k \in Cols |-> ClampedWidth(c.width[k])], c.sift>>

Dirty ==
    /\ chosen # Nil /\ views[chosen] # Nil
    /\ CanonConfig(views[chosen]) # CanonConfig(CaptureViewConfig)

QueryOf(config, v, q) ==
    [cols |-> ColsQuery(config), colw |-> ColwQuery(config), sift |-> config.sift,
     view |-> v, panel |-> q.panel]

(* Whether the watchers are silenced for as long as they are queued. *)
Silenced_Never(why) == FALSE
Silenced(why) == why \in {"view", "clear", "mount", "url"}

(* applyViewConfig and clearView: the refs at once, the URL as a whole. *)
ApplyViewConfig(config, v, q, why) ==
    /\ layout' = LayoutOf(config)
    /\ touched' = {p \in Parts : LayoutOf(config)[p] # layout[p]}
    /\ applying' = Silenced(why)
    /\ going' = IF QueryOf(config, v, q) = q THEN Nil ELSE QueryOf(config, v, q)

AtPeace == going = Nil /\ touched = {} /\ ~applying

Acts == AtPeace /\ acts < MaxActs /\ acts' = acts + 1

SelectView(v) ==
    /\ Acts
    /\ views[v] # Nil
    /\ chosen' = v
    /\ own' = [own EXCEPT !.last = v]
    /\ ApplyViewConfig(views[v], v, query, "view")
    /\ since' = "chosen"
    /\ UNCHANGED <<query, views, before, mine>>

ClearView ==
    /\ Acts
    /\ chosen' = Nil
    /\ own' = [own EXCEPT !.last = Nil]
    /\ ApplyViewConfig([order |-> DefaultLayout.order, shown |-> DefaultLayout.shown,
                        width |-> Unsized, sift |-> Nil], Nil, query, "clear")
    /\ since' = "else"
    /\ UNCHANGED <<query, views, before, mine>>

SaveCurrentView ==
    /\ Acts
    /\ chosen # Nil /\ views[chosen] # Nil
    /\ views' = [views EXCEPT ![chosen] = CaptureViewConfig]
    /\ since' = "else"
    /\ UNCHANGED <<query, going, layout, touched, applying, own, chosen, before, mine>>

(* A new view is selected, but the URL does not name it. *)
CreateView(v) ==
    /\ Acts
    /\ views[v] = Nil
    /\ views' = [views EXCEPT ![v] = CaptureViewConfig]
    /\ chosen' = v
    /\ own' = [own EXCEPT !.last = v]
    /\ since' = "else"
    /\ UNCHANGED <<query, going, layout, touched, applying, before, mine>>

DuplicateView(v, copy) ==
    /\ Acts
    /\ views[v] # Nil /\ views[copy] = Nil
    /\ views' = [views EXCEPT ![copy] = views[v]]
    /\ chosen' = copy
    /\ own' = [own EXCEPT !.last = copy]
    /\ ApplyViewConfig(views[v], copy, query, "view")
    /\ since' = "chosen"
    /\ UNCHANGED <<query, before, mine>>

DeleteView(v) ==
    /\ Acts
    /\ views[v] # Nil
    /\ views' = [views EXCEPT ![v] = Nil]
    /\ IF chosen = v THEN chosen' = Nil /\ own' = [own EXCEPT !.last = Nil]
       ELSE UNCHANGED <<chosen, own>>
    /\ since' = IF chosen = v THEN "else" ELSE since
    /\ UNCHANGED <<query, going, layout, touched, applying, before, mine>>

---------------------------------------------------------------------------
(* What the user arranges *)

Arrange(part, value) ==
    /\ Acts
    /\ layout' = [layout EXCEPT ![part] = value]
    /\ layout' # layout
    /\ touched' = {part}
    /\ mine' = [mine EXCEPT ![part] = value]
    /\ since' = "else"
    /\ UNCHANGED <<query, going, applying, own, views, chosen, before>>

ToggleColumn(c) ==
    Arrange("shown", IF c \in layout.shown THEN layout.shown \ {c} ELSE layout.shown \cup {c})

(* onHeaderDrop, onto the header at another place. *)
MoveColumn(i, j) == Arrange("order", InsertAt(RemoveAt(layout.order, i), j, layout.order[i]))

ResizeColumn(c, w) == Arrange("width", [layout.width EXCEPT ![c] = w])

SetSift(s) ==
    /\ Acts
    /\ s # query.sift
    /\ going' = [query EXCEPT !.sift = s]
    /\ since' = "else"
    /\ UNCHANGED <<query, layout, touched, applying, own, views, chosen, before, mine>>

(* The detail panel is opened and closed with a push. *)
TogglePanel ==
    /\ Acts
    /\ before' = query
    /\ going' = [query EXCEPT !.panel = ~@]
    /\ UNCHANGED <<query, layout, touched, applying, own, views, chosen, mine, since>>

GoBack ==
    /\ Acts
    /\ before # Nil
    /\ To(before)
    /\ before' = Nil
    /\ since' = "else"
    /\ UNCHANGED <<query, layout, touched, applying, own, views, chosen, mine>>

---------------------------------------------------------------------------
(* The watchers *)

(* The watchers of one tick, and then nextTick. *)
Flush ==
    /\ touched # {} \/ applying
    /\ IF applying THEN UNCHANGED <<own, going>>
       ELSE /\ own' = [own EXCEPT !.parts =
                          [p \in Parts |-> IF p \in touched THEN layout[p] ELSE @[p]]]
            /\ IF SyncedQuery(layout) = query THEN UNCHANGED going
               ELSE going' = SyncedQuery(layout)
    /\ touched' = {} /\ applying' = FALSE
    /\ UNCHANGED <<query, layout, views, chosen, before, mine, since, acts>>

(* The URL has changed; the columns follow it unless they agree with it. *)
Navigated ==
    /\ going # Nil /\ touched = {} /\ ~applying
    /\ query' = going /\ going' = Nil
    /\ own' = IF going.sift = query.sift THEN own ELSE [own EXCEPT !.sift = going.sift]
    /\ LET moved == <<going.cols, going.colw>> # <<query.cols, query.colw>>
           agrees == ColsQuery(layout) = going.cols /\ ColwQuery(layout) = going.colw
           next == FromQuery(layout, going)
       IN IF moved /\ ~agrees
          THEN /\ layout' = next
               /\ touched' = {p \in Parts : next[p] # layout[p]}
               /\ applying' = Silenced("url")
          ELSE UNCHANGED <<layout, touched, applying>>
    /\ UNCHANGED <<views, chosen, before, mine, since, acts>>

---------------------------------------------------------------------------
(* onMounted *)

UrlHasViewState(q) == q.cols # Nil \/ q.colw # Nil \/ q.sift # Nil

Listed(v) == v # Nil /\ views[v] # Nil

(* Width, order and visibility: the URL, else localStorage, else the default. *)
Restored(q) ==
    LET stored == [p \in Parts |-> IF own.parts[p] = Nil THEN DefaultLayout[p]
                                   ELSE own.parts[p]]
    IN WithColw(WithCols(stored, q.cols), q.colw)

RestoreLayout(q) ==
    /\ layout' = Restored(q)
    /\ touched' = {p \in Parts : Restored(q)[p] # DefaultLayout[p]}
    /\ applying' = Silenced("mount")

(* The page is opened at q: reloaded, by a link, or from the menu. *)
Mount(q) ==
    /\ Acts
    /\ query' = q
    /\ \/ /\ Listed(q.view) /\ ~UrlHasViewState(q)
          /\ chosen' = q.view
          /\ ApplyViewConfig(views[q.view], q.view, q, "view")
       \/ /\ q.view = Nil /\ ~UrlHasViewState(q) /\ Listed(own.last)
          /\ chosen' = own.last
          /\ LET saved == IF own.sift = Never THEN views[own.last].sift ELSE own.sift
             IN ApplyViewConfig([views[own.last] EXCEPT !.sift = saved], own.last, q, "view")
       \/ /\ UrlHasViewState(q) \/ IF q.view = Nil THEN ~Listed(own.last) ELSE ~Listed(q.view)
          /\ chosen' = IF Listed(q.view) THEN q.view ELSE Nil
          /\ going' = IF q.view = Nil /\ ~UrlHasViewState(q) /\ own.sift \notin {Never, Nil}
                      THEN [q EXCEPT !.sift = own.sift] ELSE Nil
          /\ RestoreLayout(q)
    /\ UNCHANGED <<own, views, mine>>

Reload ==
    /\ Mount(query)
    /\ since' = IF Listed(chosen) /\ query.view = chosen /\ ~Dirty THEN "reloaded" ELSE "else"
    /\ UNCHANGED before

OpenLink(q) ==
    /\ Mount(q)
    /\ since' = IF Listed(q.view) /\ ~UrlHasViewState(q) THEN "chosen" ELSE "else"
    /\ before' = Nil

(* Links of somebody else: to a view, and to a list as it is. *)
Links ==
    {BareQuery} \cup {[BareQuery EXCEPT !.view = v] : v \in Views}
    \cup {[BareQuery EXCEPT !.cols = <<c>>] : c \in Cols}
    \cup {[BareQuery EXCEPT !.colw = [Unsized EXCEPT ![c] = MaxWidth]] : c \in Cols}

ColumnsInit ==
    /\ query = BareQuery /\ going = Nil /\ before = Nil
    /\ layout = DefaultLayout /\ touched = {} /\ applying = FALSE
    /\ own = [parts |-> Nothing, sift |-> Never, last |-> Nil]
    /\ views = Published /\ chosen = Nil
    /\ mine = Nothing /\ since = "else" /\ acts = 0

ColumnsNext ==
    \/ \E v \in Views : \/ SelectView(v) \/ CreateView(v) \/ DeleteView(v)
                        \/ \E copy \in Views : DuplicateView(v, copy)
    \/ ClearView \/ SaveCurrentView
    \/ \E c \in Cols : ToggleColumn(c) \/ \E w \in Widths : ResizeColumn(c, w)
    \/ \E i, j \in 1..Len(DefaultColumnOrder) : MoveColumn(i, j)
    \/ \E s \in SomeSift : SetSift(s)
    \/ TogglePanel \/ GoBack
    \/ Flush \/ Navigated
    \/ Reload \/ \E q \in Links : OpenLink(q)

ColumnsSpec == ColumnsInit /\ [][ColumnsNext]_columnVars

---------------------------------------------------------------------------
(* Properties *)

(* Opening a link, choosing a view or going back never changes the layout    *)
(* the user keeps in localStorage: each part of it is as the user last       *)
(* arranged it by hand, whatever was applied since.                          *)
LinksLeaveMine == AtPeace => own.parts = mine

(* The URL names the chosen view so that a reload comes back to it (the      *)
(* comment on applyViewConfig), and it goes before what is stored: a view    *)
(* shown as saved is shown as saved after the reload.                        *)
ViewSurvivesReload == AtPeace /\ since = "reloaded" => ~Dirty
=============================================================================
