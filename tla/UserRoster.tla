----------------------------- MODULE UserRoster -----------------------------
(***************************************************************************)
(* The accounts of one tenant: UsersService and its controllers, the       *)
(* sign-in checks of auth/, UserSyncService, and the page user-sync.vue    *)
(* an administrator drives it from.                                        *)
(*                                                                         *)
(* An account is identified by its e-mail address: addresses are unique    *)
(* over live and deleted rows, and nothing changes them.  A handler is     *)
(* two steps, the reads and checks up to its first write and the write,    *)
(* because every check is made on rows read before an await.  A sync takes *)
(* its accounts one after another: a deletion in two steps, a return or a  *)
(* new account in one (its insert would fail on an address taken between). *)
(* save() writes each column of the entity that differs from the row, so a *)
(* save puts the row back to what was read, with the handler's changes.    *)
(***************************************************************************)
EXTENDS Naturals, FiniteSets

CONSTANTS
    Users,        \* the addresses, numbered in the order accounts are made
    Founders,     \* the accounts of the initial state
    Roles,        \* "admin" and what else the instance uses
    Projects,     \* user_project_access may name these
    Ghost,        \* the id of a project that does not exist
    Googles,      \* subjects of Google accounts
    Handlers,     \* requests the server serves at a time
    MaxServed,    \* bound: requests served
    Null

Account == [role : Roles, active : BOOLEAN, gone : BOOLEAN, key : BOOLEAN,
            google : Googles \cup {Null}]

ASSUME RosterAssumption ==
    /\ Users \subseteq Nat
    /\ Founders \subseteq Users /\ Founders # {}
    /\ "admin" \in Roles
    /\ Ghost \notin Projects
    /\ Null \notin Googles /\ Null \notin Roles /\ Null \notin BOOLEAN /\ Null \notin Account
    /\ MaxServed \in Nat

VARIABLES
    accounts,   \* table users: [Users -> Account or Null]
    grants,     \* table user_project_access: [Users -> SUBSET Projects]
    jobs,       \* the request each handler is serving
    sync,       \* the page user-sync.vue of one administrator
    served      \* requests served so far

rosterVars == <<accounts, grants, jobs, sync, served>>

(* What a row of the file says of an address: not there, there in a row      *)
(* that is otherwise wrong, or there in a correct row.                       *)
File == [Users -> {"absent", "broken", "named"}]

ItemTypes == {"none", "create", "restore", "unchanged", "error", "delete", "kept"}

Asked == SUBSET (Projects \cup {Ghost})

Sync == [step : {"upload", "preview", "result"}, loading : BOOLEAN,
         by : Users \cup {Null}, file : File, items : [Users -> ItemTypes],
         skipped : SUBSET Users]

Job ==
    [pc : {"idle"}]
    \cup [pc : {"create"}, target : Users, role : Roles, projects : Asked]
    \cup [pc : {"save", "own"}, target : Users, entity : Account,
          projects : Asked \cup {Null}]
    \cup [pc : {"remove"}, target : Users]
    \cup [pc : {"sync"}, by : Users, restore : SUBSET Users, create : SUBSET Users,
          delete : SUBSET Users, passed : BOOLEAN, role : Roles,
          projects : SUBSET Projects, skipped : SUBSET Users]

RosterTypeOK ==
    /\ accounts \in [Users -> Account \cup {Null}]
    /\ grants \in [Users -> SUBSET Projects]
    /\ jobs \in [Handlers -> Job]
    /\ sync \in Sync
    /\ served \in Nat

---------------------------------------------------------------------------
(* Reading the table *)

Exists(u) == accounts[u] # Null
Present(u) == Exists(u) /\ ~accounts[u].gone
IsAdmin(u) == Exists(u) /\ accounts[u].role = "admin"

(* JwtStrategy.validate, then AdminGuard. *)
Authenticated(u) == Present(u) /\ accounts[u].active
AdminGuard(a) == Authenticated(a) /\ IsAdmin(a)

CanUseApiKey(u) == accounts[u].role \in {"admin", "power_user"}

ActiveAdmins == {u \in Users : Authenticated(u) /\ IsAdmin(u)}
PresentAdmins == {u \in Users : Present(u) /\ IsAdmin(u)}

NewAccount(r) ==
    [role |-> r, active |-> TRUE, gone |-> FALSE, key |-> FALSE, google |-> Null]

First(S) == CHOOSE u \in S : \A v \in S : u <= v

---------------------------------------------------------------------------
(* Serving requests *)

Idle == [pc |-> "idle"]
Serving(h, pc) == jobs[h].pc = pc

Accept(h, job) ==
    /\ Serving(h, "idle")
    /\ served < MaxServed
    /\ served' = served + 1
    /\ jobs' = [jobs EXCEPT ![h] = job]

Finish(h) == jobs' = [jobs EXCEPT ![h] = Idle]

(* ProjectAccessService.replaceForUser; 400 if a project does not exist. *)
Replaced(u, ps) == IF ps \subseteq Projects THEN [grants EXCEPT ![u] = ps] ELSE grants

---------------------------------------------------------------------------
(* UsersController and UsersService *)

(* POST /users: 409 if the address is taken, also by a deleted account. *)
CreateRead(h, a, u, r, ps) ==
    /\ AdminGuard(a)
    /\ ~Exists(u)
    /\ Accept(h, [pc |-> "create", target |-> u, role |-> r, projects |-> ps])
    /\ UNCHANGED <<accounts, grants, sync>>

(* The unique index refuses a second row.  The projects are checked only     *)
(* after the account has been inserted.                                      *)
CreateWrite(h) ==
    LET j == jobs[h] IN
    /\ Serving(h, "create")
    /\ IF Exists(j.target)
       THEN UNCHANGED <<accounts, grants>>
       ELSE /\ accounts' = [accounts EXCEPT ![j.target] = NewAccount(j.role)]
            /\ grants' = Replaced(j.target, j.projects)
    /\ Finish(h)
    /\ UNCHANGED <<sync, served>>

(* The form sends a role and the projects, the list's menu isActive alone. *)
Patch == [role : Roles, active : {Null}, projects : Asked]
         \cup [role : {Null}, active : BOOLEAN, projects : {Null}]

Patched_Undefined(e, p) == [e EXCEPT !.role = p.role, !.active = p.active]
Patched(e, p) ==
    [e EXCEPT !.role = IF p.role = Null THEN @ ELSE p.role,
              !.active = IF p.active = Null THEN @ ELSE p.active]

(* Nobody changes the own role or switches the own account off, and the      *)
(* last active administrator is neither demoted nor switched off.            *)
Refused_Unguarded(a, u, p) == FALSE
Refused(a, u, p) ==
    LET last == u \in ActiveAdmins /\ Cardinality(ActiveAdmins) <= 1 IN
    \/ p.role # Null /\ a = u /\ p.role # accounts[u].role
    \/ p.role = "member" /\ last
    \/ p.active = FALSE /\ accounts[u].active /\ (a = u \/ last)

UpdateRead(h, a, u, p) ==
    /\ AdminGuard(a)
    /\ Present(u)
    /\ ~Refused(a, u, p)
    /\ Accept(h, [pc |-> "save", target |-> u, projects |-> p.projects,
                  entity |-> Patched(accounts[u], p)])
    /\ UNCHANGED <<accounts, grants, sync>>

(* PATCH /me/settings and PATCH /auth/password: columns not modelled here,   *)
(* but the entity read is saved as a whole.                                  *)
OwnSaveRead(h, u) ==
    /\ Authenticated(u)
    /\ Accept(h, [pc |-> "own", target |-> u, projects |-> Null,
                  entity |-> accounts[u]])
    /\ UNCHANGED <<accounts, grants, sync>>

SaveWrite(h) ==
    LET j == jobs[h] IN
    /\ Serving(h, "save") \/ Serving(h, "own")
    /\ accounts' = [accounts EXCEPT ![j.target] = j.entity]
    /\ grants' = IF j.projects = Null THEN grants ELSE Replaced(j.target, j.projects)
    /\ Finish(h)
    /\ UNCHANGED <<sync, served>>

(* DELETE /users/:id *)
RemoveRead(h, a, u) ==
    /\ AdminGuard(a)
    /\ Present(u)
    /\ a # u
    /\ ~(u \in ActiveAdmins /\ Cardinality(ActiveAdmins) <= 1)
    /\ Accept(h, [pc |-> "remove", target |-> u])
    /\ UNCHANGED <<accounts, grants, sync>>

(* softRemove sets deleted_at and leaves everything else. *)
RemoveWrite_Wipes(h) ==
    LET u == jobs[h].target IN
    /\ Serving(h, "remove")
    /\ accounts' = [accounts EXCEPT ![u].gone = TRUE, ![u].active = FALSE]
    /\ grants' = [grants EXCEPT ![u] = {}]
    /\ Finish(h)
    /\ UNCHANGED <<sync, served>>
RemoveWrite(h) ==
    /\ Serving(h, "remove")
    /\ accounts' = [accounts EXCEPT ![jobs[h].target].gone = TRUE]
    /\ Finish(h)
    /\ UNCHANGED <<grants, sync, served>>

---------------------------------------------------------------------------
(* Own API key and Google account: single updates by id *)

(* POST and DELETE /users/me/api-key *)
SetApiKey(u, issued) ==
    /\ Authenticated(u)
    /\ CanUseApiKey(u)
    /\ accounts[u].key # issued
    /\ served < MaxServed
    /\ served' = served + 1
    /\ accounts' = [accounts EXCEPT ![u].key = issued]
    /\ UNCHANGED <<grants, sync, jobs>>

(* loginWithGoogle: the first sign-in of a Google account links it to the    *)
(* account with its address, unless the account or the subject is linked.    *)
(* The index on google_sub also holds for deleted accounts.                  *)
LinkGoogle(g, u) ==
    /\ Authenticated(u)
    /\ accounts[u].google = Null
    /\ \A v \in Users : Exists(v) => accounts[v].google # g
    /\ served < MaxServed
    /\ served' = served + 1
    /\ accounts' = [accounts EXCEPT ![u].google = g]
    /\ UNCHANGED <<grants, sync, jobs>>

---------------------------------------------------------------------------
(* POST /users/sync/preview *)

(* Administrators the sync would leave: those the file lists, those it       *)
(* brings back, and the one who runs it.                                     *)
AdminsLeft(a, f) ==
    {u \in Users : /\ IsAdmin(u)
                   /\ \/ Present(u) /\ (f[u] # "absent" \/ u = a)
                      \/ ~Present(u) /\ f[u] = "named"}

(* A row that is wrong keeps its account: only addresses in no row at all    *)
(* are deleted, except the one who runs the sync and, should no              *)
(* administrator be left, the oldest one.                                    *)
Preview_BrokenIsAbsent(a, f) ==
    [u \in Users |->
        CASE f[u] = "named" /\ ~Exists(u)               -> "create"
          [] f[u] = "named" /\ Exists(u) /\ ~Present(u) -> "restore"
          [] f[u] = "named" /\ Present(u)               -> "unchanged"
          [] f[u] # "named" /\ ~Present(u)              -> "none"
          [] f[u] # "named" /\ Present(u)               -> IF u = a THEN "kept" ELSE "delete"]
Preview(a, f) ==
    LET unlisted == {u \in Users : Present(u) /\ f[u] = "absent"}
        saved == {u \in unlisted \ {a} : AdminsLeft(a, f) = {} /\ IsAdmin(u)}
    IN [u \in Users |->
            CASE f[u] = "named" /\ ~Exists(u)               -> "create"
              [] f[u] = "named" /\ Exists(u) /\ ~Present(u) -> "restore"
              [] f[u] = "named" /\ Present(u)               -> "unchanged"
              [] f[u] = "broken"                            -> "error"
              [] f[u] = "absent" /\ ~Present(u)             -> "none"
              [] u \in unlisted ->
                    IF u = a \/ (saved # {} /\ u = First(saved)) THEN "kept" ELSE "delete"]

StartPreview(a, f) ==
    /\ sync.step = "upload"
    /\ ~sync.loading
    /\ AdminGuard(a)
    /\ \E u \in Users : f[u] # "absent"
    /\ served < MaxServed
    /\ served' = served + 1
    /\ sync' = [step |-> "preview", loading |-> FALSE, by |-> a, file |-> f,
                items |-> Preview(a, f), skipped |-> {}]
    /\ UNCHANGED <<accounts, grants, jobs>>

NoFile == [u \in Users |-> "absent"]
NoItems == [u \in Users |-> "none"]

(* Also open while an execution is in flight. *)
ResetToUpload ==
    /\ sync.step # "upload"
    /\ sync' = [sync EXCEPT !.step = "upload", !.file = NoFile, !.items = NoItems,
                            !.skipped = {}]
    /\ UNCHANGED <<accounts, grants, jobs, served>>

Actionable(type) == {u \in Users : sync.items[u] = type}

---------------------------------------------------------------------------
(* POST /users/sync/execute *)

(* The rows left checked; each new account with its role and projects. *)
Execute(h, checked, r, ps) ==
    /\ sync.step = "preview"
    /\ ~sync.loading
    /\ checked # {}
    /\ checked \subseteq Actionable("create") \cup Actionable("restore") \cup Actionable("delete")
    /\ AdminGuard(sync.by)
    /\ Accept(h, [pc |-> "sync", by |-> sync.by, role |-> r, projects |-> ps,
                  restore |-> checked \cap Actionable("restore"),
                  create |-> checked \cap Actionable("create"),
                  delete |-> checked \cap Actionable("delete"), passed |-> FALSE,
                  skipped |-> {}])
    /\ sync' = [sync EXCEPT !.loading = TRUE]
    /\ UNCHANGED <<accounts, grants>>

(* An action takes its account off the list, done or skipped. *)
Taken(h, kind, u, skip) ==
    LET j == jobs[h] IN
    jobs' = [jobs EXCEPT ![h] =
                [j EXCEPT ![kind] = j[kind] \ {u},
                          !.passed = FALSE,
                          !.skipped = IF skip THEN j.skipped \cup {u} ELSE j.skipped]]

ApplyRestore(h) ==
    LET j == jobs[h]
        u == First(j.restore)
        ok == Exists(u) /\ ~Present(u)
    IN
    /\ Serving(h, "sync")
    /\ j.restore # {}
    /\ accounts' = IF ok THEN [accounts EXCEPT ![u].gone = FALSE] ELSE accounts
    /\ Taken(h, "restore", u, ~ok)
    /\ UNCHANGED <<grants, sync, served>>

ApplyCreate(h) ==
    LET j == jobs[h]
        u == First(j.create)
    IN
    /\ Serving(h, "sync")
    /\ j.restore = {} /\ j.create # {}
    /\ IF Exists(u)
       THEN UNCHANGED <<accounts, grants>>
       ELSE /\ accounts' = [accounts EXCEPT ![u] = NewAccount(j.role)]
            /\ grants' = Replaced(u, j.projects)
    /\ Taken(h, "create", u, Exists(u))
    /\ UNCHANGED <<sync, served>>

(* Its guard on the last administrator counts inactive ones too. *)
Deletable(by, u) ==
    Present(u) /\ u # by /\ (IsAdmin(u) => Cardinality(PresentAdmins) > 1)

(* The next account to be deleted is read and checked, ... *)
CheckDelete(h) ==
    LET j == jobs[h]
        u == First(j.delete)
    IN
    /\ Serving(h, "sync")
    /\ j.restore = {} /\ j.create = {} /\ j.delete # {} /\ ~j.passed
    /\ IF Deletable(j.by, u) THEN jobs' = [jobs EXCEPT ![h].passed = TRUE]
                             ELSE Taken(h, "delete", u, TRUE)
    /\ UNCHANGED <<accounts, grants, sync, served>>

(* ... and deleted, whatever has become of it and of the others since. *)
ApplyDelete(h) ==
    LET u == First(jobs[h].delete) IN
    /\ Serving(h, "sync")
    /\ jobs[h].passed
    /\ accounts' = [accounts EXCEPT ![u].gone = TRUE]
    /\ Taken(h, "delete", u, FALSE)
    /\ UNCHANGED <<grants, sync, served>>

(* The answer shows the result, whatever the page shows by then. *)
Answer(h) ==
    LET j == jobs[h] IN
    /\ Serving(h, "sync")
    /\ j.restore = {} /\ j.create = {} /\ j.delete = {}
    /\ sync' = [sync EXCEPT !.step = "result", !.loading = FALSE, !.skipped = j.skipped]
    /\ Finish(h)
    /\ UNCHANGED <<accounts, grants, served>>

---------------------------------------------------------------------------

RosterInit ==
    /\ accounts = [u \in Users |-> IF u \in Founders THEN NewAccount("admin") ELSE Null]
    /\ grants = [u \in Users |-> {}]
    /\ jobs = [h \in Handlers |-> Idle]
    /\ sync = [step |-> "upload", loading |-> FALSE, by |-> Null, file |-> NoFile,
               items |-> NoItems, skipped |-> {}]
    /\ served = 0

Request(h, a) ==
    \/ \E u \in Users, r \in Roles, ps \in Asked : CreateRead(h, a, u, r, ps)
    \/ \E u \in Users, p \in Patch : UpdateRead(h, a, u, p)
    \/ OwnSaveRead(h, a)
    \/ \E u \in Users : RemoveRead(h, a, u)

Write(h) == CreateWrite(h) \/ SaveWrite(h) \/ RemoveWrite(h)

Page ==
    \/ \E a \in Users, f \in File : StartPreview(a, f)
    \/ ResetToUpload
    \/ \E h \in Handlers, checked \in SUBSET Users, r \in Roles,
          ps \in SUBSET Projects : Execute(h, checked, r, ps)

SyncStep(h) ==
    ApplyRestore(h) \/ ApplyCreate(h) \/ CheckDelete(h) \/ ApplyDelete(h) \/ Answer(h)

RosterNext ==
    \/ \E h \in Handlers : (\E a \in Users : Request(h, a)) \/ Write(h) \/ SyncStep(h)
    \/ \E u \in Users : \/ \E issued \in BOOLEAN : SetApiKey(u, issued)
                        \/ \E g \in Googles : LinkGoogle(g, u)
    \/ Page

RosterSpec == RosterInit /\ [][RosterNext]_rosterVars

---------------------------------------------------------------------------
(* Properties *)

(* users.service.ts, lines 99 to 119 and 150 to 156: whatever is served, the *)
(* tenant keeps an administrator who can sign in.                            *)
SomeActiveAdmin == ActiveAdmins # {}

(* USER_SOFT_DELETE.md, 復元 = deleted_at を NULL に戻すだけ: from the        *)
(* deletion of an account to its return nothing of it changes, and it comes  *)
(* back with the role, key, links and projects it was deleted with.          *)
ReturnsAsLeft ==
    [][\A u \in Users : Exists(u) /\ ~(Present(u) /\ Present(u)') =>
          /\ Exists(u)'
          /\ [accounts[u] EXCEPT !.gone = accounts'[u].gone] = accounts'[u]
          /\ grants'[u] = grants[u]]_rosterVars

(* USER_EXCEL_SYNC.md, 安全策: a sync deletes an account only if its address *)
(* is in no row of the file, correct or not, and never the one who runs it.  *)
ListedSurvive ==
    \A h \in Handlers : Serving(h, "sync") /\ sync.step = "preview" =>
        \A u \in jobs[h].delete : sync.file[u] = "absent" /\ u # jobs[h].by

=============================================================================
