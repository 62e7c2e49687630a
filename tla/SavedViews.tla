------------------------------ MODULE SavedViews ------------------------------
(***************************************************************************)
(* The saved views of one project: SavedViewsService, the handlers of the  *)
(* task list that call it, and TaskViewSwitcher.vue, which decides what to *)
(* offer to the person at the page.                                        *)
(*                                                                         *)
(* The configuration of a view is a member of a small set, its name is     *)
(* part of it; short codes name views one to one.  An update is two steps, *)
(* findVisible with the checks and save(); the other requests are one step. *)
(* The server works on as many requests at a time as there are Desks.      *)
(***************************************************************************)
EXTENDS Naturals, FiniteSets

CONSTANTS
    Folk,           \* users of the tenant who may view the project
    TenantAdmins,   \* role admin
    ReadOnlys,      \* role readonly
    Leads,          \* members of the project with role admin, while members
    Viewer,         \* the person at the page
    ViewIds,        \* rows saved_views may hold
    Configs,        \* names and contents of views
    Desks,          \* requests the server works on at a time
    MaxViewCalls,   \* bound: requests served
    NoView

ASSUME SavedViewsAssumption ==
    /\ TenantAdmins \cup ReadOnlys \cup Leads \cup {Viewer} \subseteq Folk
    /\ TenantAdmins \cap ReadOnlys = {}
    /\ MaxViewCalls \in Nat
    /\ NoView \notin Folk \cup ViewIds \cup Configs

VARIABLES
    views,      \* table saved_views
    team,       \* the users who are members of the project
    used,       \* ids given out: each view gets one of its own
    updates,    \* at each desk, the update between its read and its save
    listed,     \* the views the page has loaded
    chosen,     \* selectedViewId of the page
    lastView,   \* tasks:last-view of the browser
    actor,      \* who made the last change
    viewCalls

savedViewsVars == <<views, used, team, updates, listed, chosen, lastView, actor, viewCalls>>

Visibilities == {"private", "shared"}
SavedView == [owner : Folk \cup {NoView}, visibility : Visibilities, config : Configs]
ViewTable == [ViewIds -> SavedView \cup {NoView}]

SavedViewsTypeOK ==
    /\ views \in ViewTable
    /\ team \in SUBSET Folk
    /\ used \in SUBSET ViewIds
    /\ updates \in [Desks -> [by : Folk, id : ViewIds, entity : SavedView] \cup {NoView}]
    /\ listed \in ViewTable
    /\ chosen \in ViewIds \cup {NoView}
    /\ lastView \in ViewIds \cup {NoView}
    /\ actor \in Folk \cup {NoView}
    /\ viewCalls \in 0..MaxViewCalls

---------------------------------------------------------------------------
(* Who may do what: the service *)

ViewExists(id) == views[id] # NoView

(* ProjectAccessService.isEditor and MembersService.assertProjectAdmin.      *)
IsViewerOnly(p) == p \in ReadOnlys \/ p \notin team
IsProjectAdmin(p) == p \in TenantAdmins \/ p \in team \cap Leads

CanView(p, v) == v.visibility = "shared" \/ v.owner = p
FindVisible(p, id) == ViewExists(id) /\ CanView(p, views[id])

(* next is the visibility asked for, or NoView. *)
AssertViewerScope_Content(p, v, next, managing) ==
    \/ managing /\ p \in TenantAdmins
    \/ ~IsViewerOnly(p)
    \/ v.visibility = "private" /\ v.owner = p
AssertViewerScope(p, v, next, managing) ==
    \/ managing /\ p \in TenantAdmins
    \/ ~IsViewerOnly(p)
    \/ v.visibility = "private" /\ v.owner = p /\ next # "shared"

AssertOwnerOrAdmin(p, v) ==
    v.owner = p \/ (v.visibility = "shared" /\ IsProjectAdmin(p))

ViewUpdateAllowed(p, id, visibility, config) ==
    /\ FindVisible(p, id)
    /\ AssertViewerScope(p, views[id], visibility, visibility # NoView /\ config = NoView)
    /\ visibility \notin {NoView, views[id].visibility} => AssertOwnerOrAdmin(p, views[id])

ViewRemoveAllowed(p, id) ==
    /\ FindVisible(p, id)
    /\ AssertViewerScope(p, views[id], NoView, TRUE)
    /\ AssertOwnerOrAdmin(p, views[id])

---------------------------------------------------------------------------
(* The requests *)

ServeView(p) ==
    /\ \E d \in Desks : updates[d] = NoView
    /\ viewCalls < MaxViewCalls
    /\ viewCalls' = viewCalls + 1
    /\ actor' = p

InsertView(id, p, visibility, config) ==
    /\ id \notin used
    /\ used' = used \cup {id}
    /\ views' = [views EXCEPT ![id] = [owner |-> p, visibility |-> visibility, config |-> config]]

CreateView(p, id, visibility, config) ==
    /\ ServeView(p)
    /\ visibility # "private" => ~IsViewerOnly(p)
    /\ InsertView(id, p, visibility, config)
    /\ UNCHANGED <<team, updates>>

DuplicateView(p, id, copy) ==
    /\ ServeView(p)
    /\ FindVisible(p, id)
    /\ InsertView(copy, p, "private", views[id].config)
    /\ UNCHANGED <<team, updates>>

RemoveView(p, id) ==
    /\ ServeView(p)
    /\ ViewRemoveAllowed(p, id)
    /\ views' = [views EXCEPT ![id] = NoView]
    /\ UNCHANGED <<used, team, updates>>

ViewUpdateRead(p, id, visibility, config) ==
    /\ ServeView(p)
    /\ ViewUpdateAllowed(p, id, visibility, config)
    /\ LET d == CHOOSE d \in Desks : updates[d] = NoView
       IN updates' = [updates EXCEPT ![d] = [by |-> p, id |-> id, entity |->
            [views[id] EXCEPT !.visibility = IF visibility = NoView THEN @ ELSE visibility,
                              !.config = IF config = NoView THEN @ ELSE config]]]
    /\ UNCHANGED <<views, used, team>>

(* save() compares the entity with the row as it is now: what was read and   *)
(* has changed since is put back, and a row removed since is inserted again. *)
ViewUpdateSave(d) ==
    /\ updates[d] # NoView
    /\ views' = [views EXCEPT ![updates[d].id] = updates[d].entity]
    /\ actor' = updates[d].by
    /\ updates' = [updates EXCEPT ![d] = NoView]
    /\ UNCHANGED <<used, team, viewCalls>>

(* Membership changes elsewhere. *)
ChangeTeam(p) ==
    /\ ServeView(NoView)
    /\ team' = IF p \in team THEN team \ {p} ELSE team \cup {p}
    /\ UNCHANGED <<views, used, updates>>

---------------------------------------------------------------------------
(* The page of Viewer: listForUser, TaskViewSwitcher.vue and index.vue *)

ListForUser(p) == [id \in ViewIds |-> IF FindVisible(p, id) THEN views[id] ELSE NoView]

OwnsView(v) == v.owner = Viewer

CanEditContent(v) ==
    IF IsViewerOnly(Viewer) THEN OwnsView(v) /\ v.visibility = "private"
    ELSE OwnsView(v) \/ v.visibility = "shared"

CanDeleteOrChangeVisibility(v) ==
    IF IsViewerOnly(Viewer) THEN OwnsView(v) /\ v.visibility = "private"
    ELSE OwnsView(v) \/ (v.visibility = "shared" /\ IsProjectAdmin(Viewer))

(* Views arrive after each own change and with the event views.changed. *)
RefreshViews ==
    /\ listed # ListForUser(Viewer)
    /\ listed' = ListForUser(Viewer)
    /\ UNCHANGED <<views, used, team, updates, chosen, lastView, actor, viewCalls>>

ChooseView(id) ==
    /\ listed[id] # NoView
    /\ chosen # id
    /\ chosen' = id
    /\ lastView' = id
    /\ UNCHANGED <<views, used, team, updates, listed, actor, viewCalls>>

ClearView ==
    /\ chosen # NoView
    /\ chosen' = NoView
    /\ lastView' = NoView
    /\ UNCHANGED <<views, used, team, updates, listed, actor, viewCalls>>

(* onMounted: the view of the link, else the last one, if it is still there. *)
MountViews(link) ==
    /\ LET id == IF link # NoView THEN link ELSE lastView
       IN chosen' = IF id # NoView /\ FindVisible(Viewer, id) THEN id ELSE NoView
    /\ listed' = ListForUser(Viewer)
    /\ <<chosen', listed'>> # <<chosen, listed>>
    /\ UNCHANGED <<views, used, team, updates, lastView, actor, viewCalls>>

(* saveCurrentView sends the configuration, renameView the name and the      *)
(* visibility; the visibility is the one shown if the field is hidden.       *)
SaveChosen(config) ==
    /\ chosen # NoView
    /\ listed[chosen] # NoView
    /\ CanEditContent(listed[chosen])
    /\ ViewUpdateRead(Viewer, chosen, NoView, config)
    /\ UNCHANGED <<listed, chosen, lastView>>

RenameChosen(visibility, config) ==
    /\ chosen # NoView
    /\ listed[chosen] # NoView
    /\ CanEditContent(listed[chosen])
    /\ visibility # listed[chosen].visibility => CanDeleteOrChangeVisibility(listed[chosen])
    /\ ViewUpdateRead(Viewer, chosen, visibility, config)
    /\ UNCHANGED <<listed, chosen, lastView>>

SaveViewAs(id, visibility, config) ==
    /\ IsViewerOnly(Viewer) => visibility = "private"
    /\ CreateView(Viewer, id, visibility, config)
    /\ chosen' = id
    /\ lastView' = id
    /\ listed' = [v \in ViewIds |-> IF views'[v] # NoView /\ CanView(Viewer, views'[v])
                                    THEN views'[v] ELSE NoView]

DeleteChosen ==
    /\ chosen # NoView
    /\ listed[chosen] # NoView
    /\ CanDeleteOrChangeVisibility(listed[chosen])
    /\ RemoveView(Viewer, chosen)
    /\ chosen' = NoView
    /\ lastView' = NoView
    /\ UNCHANGED listed

---------------------------------------------------------------------------

SavedViewsInit ==
    /\ views = [id \in ViewIds |-> NoView]
    /\ used = {}
    /\ team = Folk
    /\ updates = [d \in Desks |-> NoView]
    /\ listed = [id \in ViewIds |-> NoView]
    /\ chosen = NoView
    /\ lastView = NoView
    /\ actor = NoView
    /\ viewCalls = 0

ViewRequest ==
    /\ \E p \in Folk, id \in ViewIds :
          \/ \E vis \in Visibilities, c \in Configs : CreateView(p, id, vis, c)
          \/ \E copy \in ViewIds : DuplicateView(p, id, copy)
          \/ RemoveView(p, id)
          \/ \E vis \in Visibilities \cup {NoView}, c \in Configs \cup {NoView} : ViewUpdateRead(p, id, vis, c)
          \/ ChangeTeam(p)
    /\ UNCHANGED <<listed, chosen, lastView>>

ViewPage ==
    \/ RefreshViews \/ ClearView \/ DeleteChosen
    \/ \E id \in ViewIds : ChooseView(id)
    \/ \E link \in ViewIds \cup {NoView} : MountViews(link)
    \/ \E c \in Configs : SaveChosen(c)
    \/ \E vis \in Visibilities, c \in Configs : RenameChosen(vis, c)
    \/ \E id \in ViewIds, vis \in Visibilities, c \in Configs : SaveViewAs(id, vis, c)

SavedViewsNext ==
    \/ ViewRequest
    \/ (\E d \in Desks : ViewUpdateSave(d)) /\ UNCHANGED <<listed, chosen, lastView>>
    \/ ViewPage

SavedViewsSpec == SavedViewsInit /\ [][SavedViewsNext]_savedViewsVars

---------------------------------------------------------------------------
(* Properties *)

(* What the whole project sees is never changed by a person who only views   *)
(* it, whatever was theirs while they were a member (a tenant admin manages   *)
(* shared views all the same), and a private view is changed, shared or       *)
(* removed by its owner only (lines 140 to 228).                              *)
SharedView(table, id) ==
    IF table[id] # NoView /\ table[id].visibility = "shared" THEN table[id] ELSE NoView
ViewsChangeByRight ==
    [][\A id \in ViewIds :
          /\ SharedView(views', id) # SharedView(views, id)
                => actor' \in TenantAdmins \/ ~IsViewerOnly(actor')
          /\ ViewExists(id) /\ views[id].visibility = "private" /\ views'[id] # views[id]
                => actor' = views[id].owner]_savedViewsVars
=============================================================================
