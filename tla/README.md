# A TLA+ verification project for back_hiro

back_hiro is a task-management web application: a NestJS backend (`nest/`) over MySQL with
TypeORM, and a Nuxt single-page front (`nuxt/`). This directory holds TLA+ models of its
core logic, the TLC configurations that check them, and TLAPS proofs.

Everything is translated from the code in `src/`. What the code only uses (TypeORM's
`Repository.save`, MySQL's constraints, Nuxt's `useAsyncData`, the router, the drag library)
is modelled from the way it is used and marked external.

Contents: 1 inventory, 2 modules, 3 runs, 4 proofs, 5 behaviours met while modelling,
6 what is not modelled, 7 plan.

## 1. Inventory

| Component | State | Operations | Interacts with | What makes it correct | Module |
| --- | --- | --- | --- | --- | --- |
| Tasks (`nest/src/tasks`) | table `tasks` (+ tags, flags) | create, update, bulkUpdate, remove, list, search, dashboard | status master, subtasks, notifications, audit, Slack | number unique in a project; `completed_at` set exactly while terminal; no closed parent with an open subtask; the trail explains the row | `TaskStore`, `TaskDetail`, `BulkEdit` |
| Subtasks (`nest/src/subtasks`) | table `subtasks` (+ flags) | create, update, remove, reorder | parent task, status master | a parent row, in the parent's project; positions form an order | `TaskStore`, `SubtaskList` |
| Task move (`task-move.service.ts`, `TaskMoveModal.vue`) | writes tasks, subtasks, comments, relations, notifications, audit in one transaction | preview, move | masters and members of the target, access | everything that hangs on a task follows it; what is lost was shown | `TaskStore`, `TaskMovePlan` |
| Masters (`nest/src/masters`) | statuses, priorities, tags, flags, departments | create, update, remove, move, reorder, attach and detach | tasks refer to them by code | orders are distinct; what the trail says of flags is true | `TaskStore`, `Masters` |
| Notifications (`nest/src/notifications`, `useNotifications.ts`) | table, preferences, in-memory SSE subjects; the bell | onTaskCreated/Changed, mentions, read, stream | tasks, members, access | links resolve; told once, never of one's own change; the bell's number is right | `TaskStore`, `Notices` |
| Audit (`nest/src/audit`) | append-only table | record, listForEntity | every service | an entry and the row before it give the row after it | `TaskStore`, `TaskDetail`, `Masters` |
| Authentication (`nest/src/auth`, `useApi.ts`, `useAuth.ts`) | table `refresh_tokens`, cookie shared by tabs, access token per tab | login, refresh (rotation), logout | users | tabs do not look like thieves to each other; what is left at rest is usable; a logout ends the session | `RefreshSession` |
| Users, user sync (`nest/src/users`, `user-sync.vue`) | table `users` | create, update, soft delete, restore, preview and apply of a spreadsheet | auth, members | a tenant keeps an active admin; a return brings all back | `UserRoster` |
| Projects, members, access (`nest/src/projects`, `members`, `members.vue`) | projects, members, grants | CRUD, archive, assertAccess/assertEditor/assertManager | every controller | who may see, edit, manage, and that the pages say the same | `ProjectAccess` |
| Project events (`nest/src/project-events`, `useProjectEvents.ts`) | in-memory subjects; per-tab timers | emit after a successful write; debounce; refetch | every write, every open page | an open page ends up showing the stored state | `LiveView` |
| Task relations | table `task_relations` | create, remove, list | tasks (move cuts them) | both ends in one project | `TaskRelations` |
| Comments and mentions | table `comments` | create, update, remove | notifications, move | author and project follow a move; the mentioned are told | `Notices`, `TaskMovePlan`, `LiveView` |
| Task views | table `task_views` | record and trim | projects | history bounded, the newest kept | `TaskHistory` |
| Saved views | table `saved_views`, URL, localStorage | create, update, share, duplicate, apply | projects, list page | rights by visibility and rank; a link never overwrites one's own layout | `SavedViews`, `TaskColumns` |
| Front: filters | refs, URL, drawn copies, localStorage | include, exclude, clear, remember | list, board, gantt | a link shows the same tasks; never included and excluded | `TaskFilters` |
| Front: list page (`tasks/index.vue`) | columns, open task, selection | arrange, open, walk, tick, edit many | all of the above | the panel stays on its task; what is edited was confirmed | `TaskColumns`, `TaskPage`, `BulkEdit` |
| Front: panel and form (`TaskDetailSlideover.vue`, `TaskCreateSlideover.vue`) | edited fields, history, draft | edit, close, return | tasks, audit | the history shows one's edits; nothing typed is lost | `TaskDetail`, `TaskDraft` |
| Front: board and gantt | columns, groups, bars | drag, open, reload | tasks, masters, members, relations | what is drawn is what is stored | `TaskCharts` |
| Public API, Slack, departments' fields, migrations, seed, scripts | - | thin wrappers, an outgoing webhook, plain tables, operator's tools | - | nothing of their own | - |

Which behaviours are hard: every service reads, checks and then writes in separate
database calls; transactions cover only the last write phase; no row is locked; the
notifications and events are sent after the commit; cookies, events and responses reach a
browser in any order; the front keeps the same choice in several places (refs, URL,
localStorage, server) and copies it by watchers a tick or two frames later. The list
`hazards` in `PROJECT.json` gives each at its line.

## 2. Modules

| Module | Models | MC module |
| --- | --- | --- |
| `TaskBoard` | the abstract board: places, tasks and subtasks | - |
| `TaskStore` | all write endpoints on tasks, subtasks, moves and the status master, one database call at a time; refines `TaskBoard` | `MCTaskStore` |
| `RefreshSession` | refresh tokens of a user and the tabs of one browser | `MCRefreshSession` |
| `LiveView` | project events and the list and panel of one open tab | `MCLiveView` |
| `UserRoster` | accounts of a tenant, sign-in, the sync and its page | `MCServices` |
| `ProjectAccess` | projects, members, grants, archive, the decisions of the guards, the pages that repeat them | `MCServices` |
| `Masters` | order of masters, creation and removal of departments, flags with their links and trail, the settings pages | `MCServices` |
| `SavedViews` | the service, the menu that offers its operations | `MCServices` |
| `TaskRelations` | the service, the section of the panel | `MCServices` |
| `TaskHistory` | recording and trimming task views, the menu | `MCServices` |
| `SubtaskList` | positions and reorder, the section in the panel with its requests | `MCServices` |
| `TaskMovePlan` | preview, move and dialog: what becomes of every reference | `MCTaskMovePlan`, `MCPages` |
| `TaskFilters` | chips, URL, drawn copies, memory | `MCTaskFilters`, `MCPages` |
| `TaskColumns` | columns, widths, views, URL, localStorage | `MCTaskColumns`, `MCPages` |
| `TaskPage` | which task the panel shows | `MCPages` |
| `TaskCharts` | board and gantt | `MCTaskCharts`, `MCPages` |
| `TaskDetail` | the panel's edits, `TasksService.update`, `task-audit.ts` | `MCDialogs` |
| `TaskDraft` | the form and its draft | `MCDialogs` |
| `BulkEdit` | selection, dialog, `bulkUpdate` | `MCDialogs` |
| `Notices` | recipients, preferences, stream, bell | `MCNotices`, `MCDialogs` |
| `TaskStoreProofs`, `TaskStoreSerialProofs`, `RefreshSessionProofs`, `LiveViewProofs` | proofs about the module of that name, its refinement of `TaskBoard` included (`TaskStoreSerialProofs`: about `TaskStore` with one handler) | - |
| `ServicesProofs` | proofs about the modules of `MCServices`, each by itself and all in one run | - |
| `PagesProofs` | the same for `MCPages` | - |
| `DialogsProofs` | the same for `MCDialogs` | - |
| `ListTheorems` | lemmas about finite sets and lists of them, which the proofs share | - |

`MCServices`, `MCPages` and `MCDialogs` put modules that share no variable in one run: the
initial state chooses a `focus`, the one that moves, and the others stay as they began. What
holds of each alone holds of all together because no variable belongs to two of them: proved
in `ServicesSideBySide`, `PagesSideBySide` and `DialogsSideBySide` (section 4).

How the modules fit together: `TaskStore` has the interleaving of the handlers on the rows
that carry invariants; the modules that detail what one handler writes (`TaskMovePlan`,
`TaskDetail`, `Notices`) take it as one step, which `TaskStore` takes apart; `BulkEdit` goes
through its updates await by await itself, as others act on the same tasks meanwhile.
`LiveView` has the event stream and its debounce; the pages (`TaskPage`, `TaskCharts`,
`TaskDetail`, `BulkEdit`) have an event delivered in one step and only what it makes them do.

### TaskStore

*State.* `task`, `sub`, `kind` (task_statuses) and `notes` are tables: functions from ids
to rows or `Null`, with the columns the properties need (project, number, status, whether
`completed_at` is set; task, project and done of a subtask; project and number a
notification links to). `trail` is what an audit reader gets by replaying the entries of
a task. `loc[h]` holds the local variables of the request handler `h`.

*Steps.* Node runs a handler alone between two awaits, so an action is one database call
and the code up to the next one: an update that closes a task reads the status (`UpdateCheck`)
and then counts the open subtasks (`UpdateCount`). Consecutive reads that feed no decision are
merged with the step before. A transaction's writes are one action: another transaction sees all of
them or none (MySQL's row locks; in `move` all reads come from the snapshot of the first,
`REPEATABLE READ`, while its UPDATE meets the current rows, so the unique index looks at
current rows).

*Repository.save* is a SELECT, a difference with the entity in memory and an UPDATE of
the differing columns, or an INSERT if the SELECT found nothing. `SavedTask`, `SavedSub`,
`TaskAfterSave` and the steps `SaveTaskRead`/`SaveTaskWrite`, `SaveSubRead`/`SaveSubWrite`
say so. A fresh `completedAt` differs from every stored one (`stamped`).

*Failure.* `Fail(h)` lets any await reject, at which point the transaction, if there is
one, has written nothing. It also stands for a server crash in that handler: what was
committed before stays.

*Abstractions.* Free fields, tags, flags, positions and members are left out; who is
notified is open (`Notify` may or may not write the link). `bulkUpdate` is
its series of updates (`BulkEdit`). `Quiescent` is the only step left when all requests of the bound
have been answered, so deadlock checking stays on.

### RefreshSession

*State.* `rows` is `refresh_tokens` of one user, tokens are numbered in the order they
are issued. `cookie` is the browser's; `req[t]` is the request the tab `t` has in flight,
which is at most one because `useApi` shares one refresh between all calls of a tab.

*Steps.* `SendRefresh`, `Lookup`, `Rotate` or `RevokeAll`, `FindUser`, `Issue`, `Purge`
follow `AuthService.refresh`; `Deliver` is the browser applying the response's
`Set-Cookie`, in any order between tabs. `Fail` is a rejected database call, which on the
refresh endpoint clears the cookie too; `Lose` is a lost response or a crash of the
server between two calls and is remembered in `lost`.

*Time.* `now` counts units; `REUSE_GRACE_MS` is `Grace`, the days of validity `TTL`. A
request is answered within `Delay` of being sent (`Tick` waits for it) and the assumption
is `2 * Delay <= Grace`: one request may wait behind another's. With 60 s of grace that is
an assumption of 30 s per request.

### LiveView

*State.* `writes[w]` is a write request: whether it concerns comments and of which task,
whether this tab sent it, and how far it is. `stream` and `wire` are the tab's EventSource
and the events under way; `timers` and `panelTimer` are the debounce timers of the two users
of `useProjectEvents`, the page and the panel; `fetch[v]` and `shown[v]` are the
`useAsyncData` of the list and of the comments of the open `task`. A view shows a set of
writes, so "the view is current" is an equality of sets.

*Steps.* `Commit` and `Answer` (the interceptor's `tap`) of a request, `Deliver` and
`Fire`/`FirePanel` of an event, `Read` and `Show` of a fetch, `Receive` of the tab's own
answer, `OpenTask`. A new `refresh` of a view discards the one in flight (Nuxt's
`dedupe: 'cancel'`, external); with a new key it may go on showing what it had until the new
answer (`Until`). `Fail` is a request that stops after writing something,
`FetchFails` a fetch, `Break` a stream that drops with what was on it; `Connect` may be
refused for good, as EventSource gives up on any answer but 200.

*What was not told.* `missed[v]` remembers that something happened the tab had no way to
learn of, until the view is fetched again. It is a history variable: nothing reads it but
the properties.

*Fairness.* Weak, on what the platform does by itself: requests end, events and answers
arrive, timers fire, fetches end. None on users, nor on the connection.

*Abstractions.* One tab is enough, as tabs act on each other only through writes. 300 ms
is "some time later". Masters, members, saved views and the history of the panel are
fetched in the same way and are left out. The page stays open on one project.

### The services (run `services`)

*UserRoster.* `accounts` is `users` (role, active, API key, Google link, `deleted_at`), `grants`
the projects given. A request is a record in `jobs`: the checks up to its first write are one
step, the write another, and `save` writes back every column that differs from the row.
`sync` is the spreadsheet page with its preview and the handler that takes its accounts one by
one: a deletion is checked in one step (`CheckDelete`, remembered in `passed`) and made in
another (`ApplyDelete`). A return and a new account are one step each: bringing back is the same
whoever did it first, and an address taken between check and insert makes the insert fail and
ends the sync with an error, which is left out.

*ProjectAccess.* Tables of projects, members (with rank), grants; `CanAccess`, `MayEdit`,
`ProjectAdmin` are `ProjectAccessService`, and the list endpoint and the pages compute the same
decisions apart from it. `screen` is the open settings page: the lists it loaded and what
is still to be loaded (`todo`). Creating a project is three writes.

*Masters.* `order` is `display_order`; `NextOrder`, `Swapped`, `Reordered` are
`ordered-master.helpers.ts`. A creation reads the largest number and saves in two calls, a swap
and a drag read the rows and write them in a transaction that sees them as they were: `pending[h]`
is what a request is about to write, and others are served in between. `SavePlaces` writes the
columns that differ from what was read, so two requests may leave two masters one number; `tangled`
remembers it until a drag that nobody overtook. `marks` and `items` are flags and the tasks that wear them, with
the trail the bulk operations write from a read of their own.

*SavedViews, TaskRelations, TaskHistory, SubtaskList.* The tables of these services with their
checks in one step and their write in another (in `TaskHistory` three: upsert, query, delete),
and the component that shows them. `mixed` and `overlapped` are history variables that
remember that two requests were under way at once. In `SubtaskList` a `clerk` is a request from
`Sends` to its answer; `section` is `SubtaskSection.vue`, with the rows it shows, its fetch and
`adding`, and `untold` remembers writes it cannot know of (those of others, and an addition or
removal whose answer was lost): nothing refreshes this section when others write.

### The pages (run `pages`)

*TaskMovePlan.* `db` holds the references of tasks, subtasks, comments and relations to
members, flags and statuses of two projects. A name may be `Nameless` (nothing but spaces), which
`sameName` finds equal to no name and the dialog takes for nobody. `asks` are previews under way, `orders` moves,
`edition` counts changes, so that a preview knows what it was made from.

*TaskFilters.* `url`, `ui`, `applied` (drawn two frames later) and `memory` are the four places. A
click changes several refs in one step, the watcher builds the query and replaces it later,
and a newer navigation cancels the one under way.

*TaskColumns.* `query` is the URL, `layout` the refs, `own` localStorage, `mine` what the user
last arranged by hand (a history variable), `applying` the flag that silences the watchers
while a view or link is applied.

*TaskPage.* `param` is `?task=`, `resolvingParam` the one being looked for by the two requests,
`openTaskCache` the task fetched alone, `navSeqs` the frozen order the arrows walk.

*TaskCharts.* `server` are the tables, `front` what was loaded of each, `cols` the drawn
columns, `dragging` the card in the hand with the status it was loaded with.

### The dialogs (run `dialogs`)

*TaskDetail.* A row, its last audit entry and `updated_at` to the second; the panel with its two
fetches. *TaskDraft.* Form, draft and masters. *BulkEdit.* Ticked rows, the dialog's two
steps, and the server's loop, one await of `update` at a time: the tags, the entity, the assignee,
the open subtasks, the SELECT of `save` and its UPDATE of the columns in which the entity differs
(`ReadTags`, `FindEntity`, `AssertAssignable`, `CountIncomplete`, `SelectForSave`, `WriteTask`),
with changes by others before, between and after them. `request.raced` remembers that the task in
hand was changed after its first reading. *Notices.* The rows of `notifications` by change, the
stream, the bell's list of the newest `Limit` rows and its count.

## 3. Runs

| Run | Question | Bounds | Result |
| --- | --- | --- | --- |
| `store_sequential` | do the handlers, one at a time, keep rows, subtasks, links, history and completion consistent? | 1 handler, 2 projects, 3 statuses, 2 tasks, 2 subtasks, 4 requests, numbers 1..4 | holds |
| `store_concurrent` | what survives every interleaving of every endpoint? does the store implement the board? | 2 handlers, 2 projects, 3 requests | unique numbers, subtasks with a parent, `ImplementsBoard` |
| `store_completion_race` | docs/SUBTASKS.md:42 when an update meets a subtask's creation? | 2 handlers, 2 requests | violated |
| `session_rotation` | do tabs of one browser ever look like a theft? is the cookie usable at rest? | 2 tabs, 3 tokens, Grace 2, TTL 3, Delay 1, clock 0..4 | holds |
| `session_logout` | auth.controller.ts:84: does a logout end the session? | as above | violated |
| `live_view` | does an open list end up with what is stored? are comments those of the open task? | 1 tab, 2 tasks, 2 writes | holds |
| `live_panel` | TaskDetailSlideover.vue:107: do the comments of the open task? | as above | violated |
| `services` | do the seven services keep what they promise of their tables, and do their pages agree? | 3 requests of one handler on 3 accounts; 2 of access on one project; of masters 2 requests, 3 with those on the orders, of which 2 at a time; 3 of views and relations; 4 records of views in 2 tabs with a limit of 2; 3 calls of 2 clerks on 3 subtasks of 2 tasks, with a change of the section's task | holds |
| `roster_last_admin` | users.service.ts:156 when two requests meet? | 2 admins, 2 handlers, 2 requests | violated |
| `pages` | do the parts of the list page, the move dialog and the charts show what is stored and keep what was chosen? | move: 1 change by others, 2 previews, in one of the seeds a member and a flag without a name; filters: 3 picks; columns: 3 acts, 3 views; panel: 2 tasks, 3 clicks, 1 change; charts: 3 gestures, at most 1 of them by others | holds |
| `view_reload` | tasks/index.vue:1797: does a chosen view survive a reload? | 4 acts, 3 views | violated |
| `dialogs` | do panel, form, bulk dialog and bell do what they show? | detail: 1 edit and 1 by others, 1 change of task, 2 seconds; draft: 6 strokes, 2 projects; bulk: 6 presses, 1 intrusion (at any await), 2 tasks; bell: 2 changes, 3 requests, 2 people, 2 projects, a list of 1 row | holds |

*Why the bounds are enough.* Two handlers are what every race found needs, and each of
them can be stopped at each of its awaits while the other runs to its end. Four requests
of one handler allow create, close, move and reopen in a row. The numbers 1..4 leave room
for every creation and move of the bound. In `RefreshSession` the clock reaches beyond
grace and beyond the expiry of the first token, so that `RevokeAll` and the purge happen;
three tokens let both tabs rotate the first one. In `LiveView` two writes are what a
debounce, an overtaking fetch and an own write beside another's need; what holds for any
number is proved. Three accounts are what "the last admin" needs with one to delete and
one to restore; three subtasks and three relations' ends are what an order and a triangle
need; a limit of 2 with three tasks makes the trim happen, a list of one row is shorter than the
rows there are. In the pages
and dialogs the bounds leave room for an operation, what meets it and what overtakes
it: three gestures (opened, closed from the panel and opened again) or two and one change by
others, two previews (one of them stale), an edit with one by others beside it, three picks (include, exclude, clear). Two tasks suffice wherever a task is compared
with "the other one". Each property has a mutant of a mapped definition that violates it
under the same configuration (`mutants` in `PROJECT.json`).

*Deadlock* is checked in the store, session and live runs. The others say
`CHECK_DEADLOCK FALSE`: they end when their bounds are used up, users being free to stop.

*Fairness* is stated in `LiveView` only, weak, on what the platform does by itself. It gives
`ListCatchesUp`: from some moment on the list shows all writes, or the tab was not told.
The other modules are checked for safety: a client may stop asking, a server may be down, and
no user has to press anything.

*Symmetry* is used where handlers or tabs are interchangeable and no liveness is checked.

### What the violations show

- *Passing checks* (`store_completion_race`): the count of open subtasks and the check of
  the parent's status are each made before the other's write. A move into a terminal status
  and a change of `isTerminal` break the same rule with one request at a time;
  `OnlyMoveOrMasterBreaksCompletion` says that in sequential use these are the only ways.
- *Logout* (`session_logout`): a refresh in flight during a logout is accepted under the
  grace rule, as the row does not say why it was revoked, and its response sets a new cookie
  after the logout's cleared it.
- *Panel* (`live_panel`): two comments within the debounce, the first on the open task; the
  timer keeps the second, which the panel then ignores.
- *Last admin* (`roster_last_admin`): two requests count before either writes.
- *Reload* (`view_reload`): the URL leaves out what is default, and a page opened with
  `?view` and any other part of the layout fills the gaps from localStorage, not from the view.

## 4. Proofs

`TaskStoreProofs` proves, for every value of the constants under `StoreAssumption` (any
number of handlers, tasks, requests; any seeds with distinct numbers and no orphans):

- `TypeCorrect`: `Spec => []TypeOK`. `TypeOK` alone is not inductive, as a handler past
  its first step needs the ids and entities it has read: `WellFormed` says which fields of
  `loc[h]` are set at which program counter, and `TInv` (`TypeOK` with `LocalInv`) is inductive.
- `SeqUniqueAlways`: `Spec => []SeqUnique`. Inductive given the types: each of the three
  writers of `tasks` (insert, save, move) requires `SeqFree` for the row it leaves.
- `SubtaskHasParentAlways`: `Spec => []SubtaskHasParent`. Inductive with `KidInv`: the
  entity a handler holds for a subtask names the task of its row, so a save cannot hang
  it on another, and a removal takes the children with it.
- `StoreImplementsBoard`: `Spec => ImplementsBoard`, where `ImplementsBoard` is
  `TaskBoard`'s specification with `place` the project and number of a task's row and `parent`
  the task of a subtask's. Each step of the store is one of the board (`Take`, `Leave`,
  `Attach`, `Detach`) or leaves it as it is; a save of an entity read long before is a `Take` of
  the place it puts back, if the index lets it, or nothing. The invariants above are
  needed: a save never empties a place, and never hangs a subtask elsewhere.

`RefreshSessionProofs` proves, for every value of the constants under `SessionAssumption`
(any number of tabs and tokens, any `Grace`, `TTL` and `Delay` with `2 * Delay <= Grace`):

- `SessionTypeCorrect`: `Spec => []TypeOK`.
- `NoFalseAlarmAlways`: `Spec => []NoFalseAlarm`, and
- `AtRestUsableAlways`: `Spec => []AtRestUsable`, both from the inductive invariant `Inv`.
  Its core, `Trusted`, holds while no response has been lost. `Answered`: if the token of
  the cookie has been revoked, an answer that replaces the cookie is under way, to a
  request sent before the revocation; hence such a token stays in the cookie for at most
  `Delay` (`Soon`), whoever presents it is looked up within another `Delay`, and that is
  inside the grace period. `Fresh`: a token on its way to the browser is nobody else's and
  has not been revoked, so the cookie it becomes is usable. `Timely` (a request is answered
  within `Delay`), `Fields`, `OnlyIssued` and `PurgedLate` carry what the steps need to
  know of requests, tokens and purged rows.

`LiveViewProofs` proves, for any number of tasks and writes:

- `LiveTypeCorrect`: `Spec => []TypeOK`, inductive with `Sent` (an event under way is about
  a committed write).
- `ListCurrentAlways`: `Spec => []ListCurrent`. The invariant `ListInv`: every stored write
  the list lacks is `OnItsWay` (its request is not over, a foreign event carries it, a
  timer is armed, a fetch has not been read, or has been read with it), and a fetch answers
  no less than the list shows already.
- `CommentsOfOpenTaskAlways`: `Spec => []CommentsOfOpenTask`, by `PanelInv`: what the panel
  waits for, and what it shows while it waits for nothing, are comments of its task.

### One request at a time

`store_completion_race` and `roster_last_admin` show that two handlers break the rules of closing
and of the last admin. What one handler at a time keeps, through any sequence of any number of
requests with a failure at any await, is proved under the hypothesis `OneAtATime` (there is one
handler), which is stated in each theorem and not assumed of the constants.

`TaskStoreSerialProofs` (also `SeedsPlaced`: in the initial tables a subtask is in the project of
its task; `SeedsCompleted`: completed_at is right in them; both hold of the runs' seeds):

- `ChildInParentProjectOneAtATime`, `NotificationResolvesOneAtATime`, `TrailExplainsRowOneAtATime`:
  all from `SerialInv`. Its core is `HoldsCurrent`: what the handler has read is still in the
  tables when it saves, so a save writes the entity and undoes nothing. It is needed because each of the
  properties is about rows, and a save writes what was read some awaits before.
- `CompletedAtTracksStatusOneAtATime`, if moreover nobody edits the status master
  (`NoStatusMaster`): `CompletedInv` says that the entity about to be written is right too.
- `OnlyMoveOrMasterOneAtATime`, same hypothesis: `ClosingInv`, what the checks of a handler have
  found is still so when it writes. A move checks nothing, and is what the property excepts.

`ServicesProofs` has those about accounts (any number, with any roles and projects):

- `RosterTypeCorrect` and `ListedSurviveAlways` for any number of handlers. `SyncInv`: one sync is
  executed at a time, and what it is still to delete is not in the sheet, nor whoever runs it.
- `SomeActiveAdminOneAtATime`: `AdminInv`, what a request is about to write leaves an admin who can
  sign in; a sync is run by one and spares him.
- `ReturnsAsLeftOneAtATime`: `DeletedInv`, the account a request holds is not deleted meanwhile.

### The services

`ServicesProofs` also has, under the named assumption of each module (null values are not data,
some sets are finite):

- `OrdersDistinctAlways`, for any number of requests at once: two masters share a number only after
  a write that another had overtaken, and no longer than until a drag that none overtook. `OrderInv`:
  the numbers are apart unless `tangled`; what a request is about to write moves the numbers it read
  (`Rearranges`: one more than the largest, two exchanged, or all anew), and while nobody has written
  since, the rows are as it read them, or removed (`UpToDate`).
- `FlagTrailAlways`: `MarkInv`, a flag the trail names has been given out, so that a new one is
  in no trail.
- `ViewsChangeByRightOneDesk`: with one request at a time (`OneDesk`; section 5 has what two do),
  `ViewInv` with what an update has read and checked still so when it saves.
- `TrimsTheOldestAlways`: `HistoryInv`. Times are distinct, and while no two records overlapped the
  rows the query found are those beyond the limit when the deletion comes.
- `OwnChangesShowAlways`: `ScreenInv`, what no refresh is under way for is as stored. It rests on
  `ListSaysWhatGuardDoes`: the decisions of the list endpoint are those of the guard (a lemma, as
  it follows from the definitions alone).
- `SubtasksInOrderAlways`: `SubtaskInv`. Positions (`PosInv`): each request has a task's positions
  to itself unless it is in `overlapped`, and what it will write is free. The section
  (`SectionInv`): an answer under way is the stored list, unless something changed that the
  section is not told of.

### The pages

`PagesProofs`, for any number of columns, views, values, tasks, people, projects and gestures:

- `LinksLeaveMineAlways`: `KeptInv`, while an applied layout is being drawn localStorage is as the
  user arranged it, and after an arrangement it lacks only the parts whose watchers are queued.
- `NeverBothAlways`: `SoundInv`, nothing that may come back (a navigation under way, the entry
  before, what is remembered) excludes what it includes.
- `LinkShowsTheSameAlways`: `DrawnInv` on top of it, how refs, drawn copies and URL relate while a
  frame or a navigation is due.
- `PanelStaysOpenAlways` (an action property): `CacheInv`, the shown task is the one cached.
- `FirstVisitOpensAlways`: `FirstInv`, a resolution belongs to the parameter it was begun for, its
  answer is what the server said, and a parameter looked for in its first visit is shown or its
  task is gone.
- `RefersHomeAlways`: from any tables for which it holds (the models' Init leaves them open), no
  move, whatever preview it was confirmed from, and no change by others leaves a reference behind.
- `LossesWereShownAlways` (an action property), from the same tables: the dialog listed what the
  move takes away, but for what has no name (`Untold`; section 5). `PlanInv`, a preview of the
  tables as they are tells what is lost, wherever it is (in an answer, in the dialog, in an
  order), and an order lists its preview and what was chosen to be nobody.
  `MoveTakesWhatIsTold` compares what the preview computes with what the move does, loss by loss;
  it rests on `NamesKept`, whether a flag is lost depends on its name only.
- `ChartsShowTheStoreAlways`: `ChartsSpec => []ChartsShowTheStore`. `ChartsInv` has four parts:
  types; `TablesInv`, a copy of a table is as stored, or the answer, request or event that will
  make it so is on its way; `ColsInv`, the columns of the board are those of its tasks, unless
  they are being dragged, will be rebuilt or are `torn`; `CacheInv`, what the panel keeps of its
  task is as stored, will be, or is `behind`. What is left is that the gantt's lines are in order:
  that a group has a list in order at all is `ListInOrder`.

### The dialogs

`DialogsProofs`, for any number of tasks, people, values and gestures:

- `DraftIsWhatWasTypedAlways`: `DraftInv`, the form that would open for a project shows what was
  typed, through the statuses and tags that disappear from its masters.
- `ToldOnceAlways`: `ToldInv`, what is queued for a change tells nobody twice, neither with itself
  nor with what is written already; one lemma for how a queue is worked off, one for what each
  change queues.
- `BellIsRightAlways`, for any number of rows and any `Limit` of a list: `BellInv`, while nothing is
  `astray` there is at most one request, the bell shows the newest rows but for those on their way
  to it (`Coming`) and the one being marked (`BellShows`), its number counts all unread rows, listed
  or not, but for those on their way (`CountedRows`), and the request holds the truth (`CallTrue`).
  A row that is not among the newest stays so when others come (`FewerNewer`). It takes in `ToldInv`
  for the rows that a hook writes.
- `OwnEditsInHistoryAlways`: `HistoryInv`, a stamp a task has had does not come back unless its
  tags change twice within a second (`StampKnown`), so an own entry that the history lacks is on
  its way: an edit, a list or a history is under way, or the stamp the panel waits for is new.
- `BulkAsConfirmedAlways` (an action property), with others acting between any two awaits: `BulkInv`,
  the patch a bulk edit sends has the fields of the summary that was confirmed, and what it has read
  of the task in hand is the task unless somebody came between (`ReadIsCurrent`, `raced`). Where
  somebody did, the property says what may go wrong and that nothing else does: a field the other
  changed is taken back to what was read, a field of the summary is left to the other (`save`
  compares with the row it selects), the other's tags are dropped, a removed task is inserted again.
- `EntryExplainsEditAlways` (an action property): on top of `HistoryInv`, `LinksInv` says that rows,
  copies, fetches and requests hold links no longer than allowed. The rest is about
  `buildLinkChanges`, for any two lists of links: `LinksExplained`. The n-th of a URL is paired
  with the n-th of it (`MatchedOnce`, from `NthGrows`), the changes of each kind are told once each
  (`ToldInOrder`, by a bijection), and the places of a link fall apart into those kept, rewritten,
  removed and added, so that they can be counted. If nothing is told, the pairing is an increasing
  bijection of two intervals, hence the identity.

### Types, and all parts in one run

The three runs that put modules side by side check one type invariant each, and it is proved for
each: `ServicesTypeCorrect`, `PagesTypeCorrect`, `DialogsTypeCorrect`. Two steps lead there.

*Each module by itself* (`...TypeCorrect`, one for every module of the three runs). Where a type
only says what a record looks like, it is inductive. The ones that are not:

- `Masters`: that the lists shown are of masters follows from `ListsHaveAll`.
- `TaskColumns`: that a layout has every column once rests on links that name no column twice
  (`Clean`), and those on layouts: `ColumnsForms` holds both for what is drawn, stored, saved,
  linked and remembered. `WithColsTyped`: a link's columns followed by the others in the default
  order are all columns, each once.
- `TaskPage`: the list the arrows walk through is no longer than there are tasks (`WalksShort`),
  as the list it is taken from has each task once and it only ever loses some.
- `TaskMovePlan`: the edition of the tables grows with each move, and a move has no bound of its
  own. `PlanCounts`: each move was asked for by a preview of its own, be it asked for, shown or
  sent (`Held`), so editions are at most the touches by others and the previews.
- `TaskDetail`: a task's entries and the saves not yet served are together no more than the saves
  sent and the writes of others (`EntriesBounded`); rows keep to the master of tags.
- `Notices`: at most two rows for each change and account (`RowsBounded`, which needs `ToldInv`).
  The number on the bell goes up with a pushed row and is set by an answer that may have counted
  it already, so it can exceed the rows there are; `BellKnown` bounds it, with the rows still to
  be taken in, by twice their number.
- `BulkEdit`: tasks updated and tasks still to be updated are together no more than the dialog
  announced.

*All parts in one run.* `ServicesSideBySide`, `PagesSideBySide`, `DialogsSideBySide`: a run of all
parts is, seen from a part that moves, a run of its specification, and leaves the others as
they began (`OthersWait`). With them `ServicesSafe`, `ServicesSafeOneAtATime`, `PagesSafe` and
`DialogsSafe` carry every invariant and action property above to the run that checks it. A part
that waits may begin smaller than it would by itself, so what is claimed of it must hold there
too: a board and gantt of nothing show it (`EmptyCharts`).

`ListTheorems` has what they share: of a finite set that is ordered the last element (`LastIsIn`),
a list in that order (`ListInOrder`) and what a list of a set has (`ListsHaveAll`).

### What is assumed, and what stays with TLC

Every `ASSUME` is named and evaluated by TLC in the runs: null and blank values are no
data (`FiltersAssumption`, `PageAssumption`, `MovePlanAssumption`, `DraftAssumption`,
`AccessAssumption`), data sets
are finite where a place or an order is taken from them, people alike in name are accounts
(`AlikeAreAccounts`), the default column order names every column once and the views there are
to begin with are views (`ColumnsAssumption`), the
tasks selected for a bulk edit are finite and final statuses are statuses (`BulkAssumption`), there
is a link at all, and "none" is no link and no column (`DetailAssumption`), of the charts tasks are
finitely many numbers, closed statuses are statuses, dates are numbers and "nobody" is neither a
status nor a date (`ChartsAssumption`); and each bound on a counter is a number. Three hypotheses
are in the theorems instead. `OneAtATime` and `OneDesk` are named above. That there is an id for
a member and a code of a master (`Rows # {} /\ Codes # {}`) is needed for the services that wait.
`db \in Db /\ RefersHome`: in the tables a move starts from (one of `MoveSeeds`) every reference is
within its project; the seeds of `MCTaskMovePlan` are such tables, as TLC finds in the initial
states of the run `pages`.

Model-checked only, as no prover here can do it: the liveness property `ListCatchesUp`, and
whatever depends on what a recursive function or a fold computes for every input, as
induction takes an operator as a parameter. (Where a proof needs a least or largest
element, or a list in order, it is found by well-founded induction over a set: `FirstIsIn`,
`LastIsIn`, `ListInOrder`.)

## 5. Behaviours met while modelling

These follow from the code, are reachable in the models, and are kept out of the properties
by the history variables or the wording named. Two contradict a comment of the source:

- *Losses without a name.* A member's or a flag's name may be nothing but spaces: the check on its
  length comes before it is trimmed (create-member.dto.ts:5, members.service.ts:114). The dialog of a
  move takes such an assignee or requester for nobody (TaskMoveModal.vue:97) and the preview leaves
  such a flag of a subtask out, so the loss is not listed, while task-move.service.ts:73 promises
  that what the dialog showed and what the move does do not differ
  (「画面が見せた「失われるもの」と実際の移動の結果が食い違わないようにする」). The model has such names
  (`Nameless`), and `LossesWereShown` excepts exactly these losses (`Untold`); without the exception
  it is violated.
- *`canEdit` of an administrator.* projects.controller.ts:28 says it is true for a tenant's
  administrator or a member (「テナント admin か ProjectMember なら true」); `editableProjectIds`
  (project-access.service.ts:149) looks at the membership alone, as the guard does and as the
  comment at project-access.service.ts:126 says (「テナント admin も例外にしない」). `MayEdit` and
  `EditableProjectIds` of `ProjectAccess` follow the code: an administrator who is no member sees the
  project and may not edit it.

Of the others no document says otherwise, so none of them is a run.

*Services.*
- There is no unique index on the order of masters (ordered-master.helpers.ts:19): two creations at
  once, or a creation beside a drag, give two masters one number. Rows of one number are listed in
  any order and swap without moving; a drag numbers all anew (`tangled` in `Masters`).
- `update` saves the entity it read some awaits before (tasks.service.ts:652, :720): a bulk edit of
  the assignee takes a status back that another has set meanwhile, and inserts a task again that
  another has removed (`raced` in `BulkEdit`; `TaskStore` has the same for single updates).
- A task number is given again after the last task was deleted; an old link then opens another
  task (tasks.service.ts:923).
- An archived project takes new tasks and edits by id: only a move and the public API ask
  (tasks.service.ts:593).
- A saved view shared or taken back between another's check and his save is saved by the
  old rights (saved-views.service.ts:116; one request at a time in the run).
- Two opposite "related" relations created at once both pass the check in both directions; the
  index looks at one only (task-relations.service.ts:161).
- A subtask wearing two flags, two of which have the same name in the target project, makes the
  move's insert fail on its key (task-move.service.ts:215, `NoTwinRows`).
- Two edits of tags in one second leave the same `updated_at`, so the panel does not fetch its
  history (`twice` in `TaskDetail`).
- Names in comments: the code around comments.service.ts:88 notifies every member whose name
  is contained in the text, also the shorter of two that begin alike.
- A bulk edit that fails half-way leaves what it wrote, and the list is not fetched.

*Pages.*
- A card dragged from A to B and back before the tasks are loaded again is not sent back,
  as board.vue:80 compares with the loaded status: the first drop stands. A drop after the
  columns were rebuilt during the drag leaves the card in the wrong column until the next
  rebuild (`torn`).
- Removing a member clears his tasks in the database but announces only members: the
  gantt grouped by assignee drops their lines until tasks are loaded again. Tasks of an unknown status
  are in a column of their own on the board but in no group of the gantt.
- What the panel keeps of a task that is not loaded (board.vue:102, a task just closed) may stay
  behind what is stored: when of two edits the earlier is answered last (board.vue:140), or when the
  panel was closed and opened again on the list of before the edit. Both take three gestures; met
  when `ChartsShowTheStore` was to be proved, and kept in `behind`.
- Returning to a task's URL may say "missing" of a task that is there (index.vue:366, 392); a
  link followed while another is being resolved is not resolved; closing the panel while an
  arrow fetches opens it again (`visits`, `resolvingParam` in `TaskPage`).
- Back to an entry without `cols` leaves a layout drawn that the URL does not name
  (`since` in `TaskColumns`).
- A range picked while the guard renews the token stays drawn and out of the URL when
  everything is cleared meanwhile (`slow` in `TaskFilters`).
- The move dialog opened again may show, for a moment, the preview of its earlier task.

*Dialogs.*
- What is typed while a creation is under way is lost; leaving during a creation lets the draft
  return (`blurred` in `TaskDraft`).
- The first answer of a bulk edit closes a dialog opened since and clears a newer selection;
  rows beyond `MAX_DISPLAY_ROWS` (255) cannot be ticked though 500 are allowed.
- A link edited by its place in a list that has shrunk overwrites another one.
- List and count of the bell are read apart; a refresh may overwrite a row pushed
  meanwhile, marking twice counts twice, read-all marks rows not shown (`astray` in `Notices`).
- The bell's list has the newest 30 rows and its number counts all (notifications.service.ts:49), so
  older unread rows can only be marked all at once (`Newest` in `Notices`).
- The bell's stream does not come back once its token has expired.

## 6. Not modelled

- *Public API*: thin controllers over `TasksService`; its writes are requests of `TaskStore`.
- *Slack*: an outgoing webhook that swallows its errors.
- *Migrations, seed, scripts*: run once by an operator.
- *Queries*: list, search and dashboard of tasks, and `createMany`'s reading of a sheet: they
  change nothing, or parse text.
- *List page*: sorting, grouping, export and the cells edited in place; *gantt*: the axis of
  tags, the marks of the scale, its keys in the URL; pickers, layout and wording everywhere.
- *Masters*: labels, colours and copying between projects; *departments* but for creation
  and removal; *tenants*. *Comments*: editing and removing one's own are plain writes.
- *Authentication*: other devices of a user, throttling, the access token, Google sign-in.

## 7. Plan

Done: the store and its board, sessions, live updates, the services, the pages and the
dialogs, with the proofs of section 4: every invariant and action property the runs check. Left:
the cells edited in place, the titles and memos edited in the subtask section, the gantt's axis
of tags, and, should a prover for it be at hand, the liveness of the list.
