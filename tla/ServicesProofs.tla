---------------------------- MODULE ServicesProofs ----------------------------
(***************************************************************************)
(* Theorems about the services that MCServices puts side by side, each for *)
(* every value of its constants.                                           *)
(***************************************************************************)
EXTENDS MCServices, ListTheorems

---------------------------------------------------------------------------
(* UserRoster: the inductive invariants.  The theorems about the last       *)
(* administrator and about deleted accounts are about a server that serves  *)
(* one request at a time: with two, run roster_last_admin shows the first   *)
(* of them broken.                                                          *)

OneAtATime == \E h : Handlers = {h}

(* Rows are never taken out of the table, so what is to be marked as deleted *)
(* is still in it.                                                           *)
Removable ==
    \A h \in Handlers : Serving(h, "remove") => jobs[h].target \in Users /\ Exists(jobs[h].target)

(* What the page shows was made for whoever runs the sync. *)
HasRunner == sync.step = "preview" => sync.by \in Users

(* An account a sync has checked is deleted next: it is in the table still,  *)
(* and it is not the account of whoever runs the sync.                       *)
Vetted(j) ==
    j.pc = "sync" /\ j.passed =>
        /\ j.delete # {}
        /\ First(j.delete) \in Users /\ Exists(First(j.delete)) /\ First(j.delete) # j.by

TypeInv == RosterTypeOK /\ Removable /\ HasRunner /\ \A h \in Handlers : Vetted(jobs[h])

(* What a request will write leaves an administrator who can sign in.        *)
LeavesAdmin(h) ==
    LET j == jobs[h] IN
    /\ j.pc \in {"save", "own"} =>
          \/ \E v \in ActiveAdmins : v # j.target
          \/ j.entity.role = "admin" /\ j.entity.active /\ ~j.entity.gone
    /\ Serving(h, "remove") => \E v \in ActiveAdmins : v # j.target
    /\ Serving(h, "sync") => j.by \in ActiveAdmins

AdminInv == SomeActiveAdmin /\ \A h \in Handlers : LeavesAdmin(h)

(* The account a request holds is still there when it is saved or removed.   *)
HoldsPresent(h) ==
    LET j == jobs[h] IN
    /\ j.pc \in {"save", "own"} => j.target \in Users /\ Present(j.target) /\ ~j.entity.gone
    /\ Serving(h, "remove") => j.target \in Users /\ Present(j.target)

DeletedInv == \A h \in Handlers : HoldsPresent(h)

(* The page executes one sync at a time, and waits for it. *)
OneSync ==
    \A h \in Handlers : Serving(h, "sync") =>
        sync.loading /\ \A g \in Handlers : Serving(g, "sync") => g = h

Spared(u) == sync.file[u] = "absent" /\ u # sync.by

(* What the page marks, and what the server was sent, for deletion. *)
MarksUnlisted ==
    sync.step = "preview" =>
        /\ \A u \in Users : sync.items[u] = "delete" => Spared(u)
        /\ \A h \in Handlers : Serving(h, "sync") =>
              jobs[h].by = sync.by /\ \A u \in jobs[h].delete : Spared(u)

SyncInv == OneSync /\ MarksUnlisted

---------------------------------------------------------------------------
(* UserRoster: types *)

CreateJob == [pc : {"create"}, target : Users, role : Roles, projects : Asked]
SaveJob == [pc : {"save", "own"}, target : Users, entity : Account,
            projects : Asked \cup {Null}]
RemoveJob == [pc : {"remove"}, target : Users]
SyncJob == [pc : {"sync"}, by : Users, restore : SUBSET Users, create : SUBSET Users,
            delete : SUBSET Users, passed : BOOLEAN, role : Roles,
            projects : SUBSET Projects, skipped : SUBSET Users]

(* The fields a request has are those of the step it is at. *)
LEMMA JobForms ==
    ASSUME NEW j \in Job
    PROVE  /\ j.pc = "create" => j \in CreateJob
           /\ j.pc \in {"save", "own"} => j \in SaveJob
           /\ j.pc = "remove" => j \in RemoveJob
           /\ j.pc = "sync" => j \in SyncJob
<1>. /\ j \in [pc : {"idle"}] => j.pc = "idle"
     /\ j \in CreateJob => j.pc = "create"
     /\ j \in SaveJob => j.pc \in {"save", "own"}
     /\ j \in RemoveJob => j.pc = "remove"
     /\ j \in SyncJob => j.pc = "sync"
  BY DEF CreateJob, SaveJob, RemoveJob, SyncJob
<1>. j \in [pc : {"idle"}] \cup CreateJob \cup SaveJob \cup RemoveJob \cup SyncJob
  BY DEF Job, CreateJob, SaveJob, RemoveJob, SyncJob
<1>. QED OBVIOUS

LEMMA JobsAreJobs ==
    /\ Idle \in Job
    /\ CreateJob \cup SaveJob \cup RemoveJob \cup SyncJob \subseteq Job
BY DEF Idle, Job, CreateJob, SaveJob, RemoveJob, SyncJob

(* Accounts and grants stay what they are when one of them is replaced. *)
LEMMA Tables ==
    ASSUME RosterTypeOK
    PROVE  /\ \A u, e : e \in Account => [accounts EXCEPT ![u] = e] \in [Users -> Account \cup {Null}]
           /\ \A u, ps : ps \in Asked => Replaced(u, ps) \in [Users -> SUBSET Projects]
           /\ \A u \in Users : Exists(u) => accounts[u] \in Account
<1>1. \A u, e : e \in Account => [accounts EXCEPT ![u] = e] \in [Users -> Account \cup {Null}]
  BY DEF RosterTypeOK
<1>2. \A u, ps : ps \in Asked => Replaced(u, ps) \in [Users -> SUBSET Projects]
  <2>. SUFFICES ASSUME NEW u, NEW ps, ps \in Asked
                PROVE  Replaced(u, ps) \in [Users -> SUBSET Projects]
    OBVIOUS
  <2>1. CASE ps \subseteq Projects
    BY <2>1 DEF Replaced, RosterTypeOK
  <2>2. CASE ~(ps \subseteq Projects)
    BY <2>2 DEF Replaced, RosterTypeOK
  <2>. QED BY <2>1, <2>2
<1>3. \A u \in Users : Exists(u) => accounts[u] \in Account
  BY DEF RosterTypeOK, Exists
<1>. QED BY <1>1, <1>2, <1>3

LEMMA AcceptType ==
    ASSUME RosterTypeOK, NEW h \in Handlers, NEW job \in Job, Accept(h, job)
    PROVE  jobs' \in [Handlers -> Job] /\ served' \in Nat
BY DEF RosterTypeOK, Accept

LEMMA FinishType ==
    ASSUME RosterTypeOK, NEW h \in Handlers, Finish(h)
    PROVE  jobs' \in [Handlers -> Job]
BY JobsAreJobs DEF RosterTypeOK, Finish

LEMMA NewAccountType == \A r \in Roles : NewAccount(r) \in Account
BY DEF NewAccount, Account

LEMMA PatchedType ==
    ASSUME NEW e \in Account, NEW p \in Patch
    PROVE  Patched(e, p) \in Account
<1>. DEFINE role == IF p.role = Null THEN e.role ELSE p.role
            active == IF p.active = Null THEN e.active ELSE p.active
<1>1. Patched(e, p) = [e EXCEPT !.role = role, !.active = active]
  BY DEF Patched
<1>2. p.role \in Roles \cup {Null} /\ p.active \in BOOLEAN \cup {Null}
  BY DEF Patch
<1>3. role \in Roles /\ active \in BOOLEAN
  BY <1>2 DEF Account
<1>. HIDE DEF role, active
<1>. QED BY <1>1, <1>3 DEF Account

(* A request read by its handler is one, and takes the place of none. *)
LEMMA RequestType ==
    ASSUME RosterTypeOK, NEW h \in Handlers, NEW a \in Users, Request(h, a)
    PROVE  RosterTypeOK'
<1>1. ASSUME NEW u \in Users, NEW r \in Roles, NEW ps \in Asked, CreateRead(h, a, u, r, ps)
      PROVE  RosterTypeOK'
  <2>1. [pc |-> "create", target |-> u, role |-> r, projects |-> ps] \in Job
    BY DEF Job
  <2>. QED BY <1>1, <2>1, AcceptType DEF CreateRead, RosterTypeOK
<1>2. ASSUME NEW u \in Users, NEW p \in Patch, UpdateRead(h, a, u, p)
      PROVE  RosterTypeOK'
  <2>1. Patched(accounts[u], p) \in Account
    BY <1>2, Tables, PatchedType DEF UpdateRead, Present
  <2>2. p.projects \in Asked \cup {Null}
    BY DEF Patch
  <2>3. [pc |-> "save", target |-> u, projects |-> p.projects,
         entity |-> Patched(accounts[u], p)] \in SaveJob
    BY <2>1, <2>2 DEF SaveJob
  <2>. QED BY <1>2, <2>3, JobsAreJobs, AcceptType DEF UpdateRead, RosterTypeOK
<1>3. ASSUME OwnSaveRead(h, a) PROVE RosterTypeOK'
  <2>1. accounts[a] \in Account
    BY <1>3, Tables DEF OwnSaveRead, Authenticated, Present
  <2>2. [pc |-> "own", target |-> a, projects |-> Null, entity |-> accounts[a]] \in SaveJob
    BY <2>1 DEF SaveJob
  <2>. QED BY <1>3, <2>2, JobsAreJobs, AcceptType DEF OwnSaveRead, RosterTypeOK
<1>4. ASSUME NEW u \in Users, RemoveRead(h, a, u) PROVE RosterTypeOK'
  <2>1. [pc |-> "remove", target |-> u] \in Job
    BY DEF Job
  <2>. QED BY <1>4, <2>1, AcceptType DEF RemoveRead, RosterTypeOK
<1>. QED BY <1>1, <1>2, <1>3, <1>4 DEF Request

LEMMA WriteType ==
    ASSUME TypeInv, NEW h \in Handlers, Write(h)
    PROVE  RosterTypeOK'
<1>. RosterTypeOK /\ jobs[h] \in Job
  BY DEF TypeInv, RosterTypeOK
<1>1. ASSUME CreateWrite(h) PROVE RosterTypeOK'
  <2>1. jobs[h] \in CreateJob
    BY <1>1, JobForms DEF CreateWrite, Serving
  <2>2. jobs[h].role \in Roles /\ jobs[h].projects \in Asked
    BY <2>1 DEF CreateJob
  <2>3. CASE Exists(jobs[h].target)
    BY <1>1, <2>3, FinishType DEF CreateWrite, RosterTypeOK
  <2>4. CASE ~Exists(jobs[h].target)
    <3>1. /\ accounts' = [accounts EXCEPT ![jobs[h].target] = NewAccount(jobs[h].role)]
          /\ grants' = Replaced(jobs[h].target, jobs[h].projects)
          /\ Finish(h) /\ UNCHANGED <<sync, served>>
      BY <1>1, <2>4 DEF CreateWrite
    <3>2. accounts' \in [Users -> Account \cup {Null}] /\ grants' \in [Users -> SUBSET Projects]
      BY <2>2, <3>1, Tables, NewAccountType
    <3>. QED BY <3>1, <3>2, FinishType DEF RosterTypeOK
  <2>. QED BY <2>3, <2>4
<1>2. ASSUME SaveWrite(h) PROVE RosterTypeOK'
  <2>1. jobs[h] \in SaveJob
    BY <1>2, JobForms DEF SaveWrite, Serving
  <2>2. jobs[h].entity \in Account /\ jobs[h].projects \in Asked \cup {Null}
    BY <2>1 DEF SaveJob
  <2>3. accounts' \in [Users -> Account \cup {Null}]
    BY <1>2, <2>2, Tables DEF SaveWrite
  <2>4. grants' \in [Users -> SUBSET Projects]
    BY <1>2, <2>2, Tables DEF SaveWrite, RosterTypeOK
  <2>. QED BY <1>2, <2>3, <2>4, FinishType DEF SaveWrite, RosterTypeOK
<1>3. ASSUME RemoveWrite(h) PROVE RosterTypeOK'
  <2>1. accounts[jobs[h].target] \in Account
    BY <1>3, Tables DEF RemoveWrite, TypeInv, Removable
  <2>2. [accounts[jobs[h].target] EXCEPT !.gone = TRUE] \in Account
    BY <2>1 DEF Account
  <2>3. accounts' = [accounts EXCEPT ![jobs[h].target] =
                        [accounts[jobs[h].target] EXCEPT !.gone = TRUE]]
    BY <1>3 DEF RemoveWrite
  <2>4. accounts' \in [Users -> Account \cup {Null}]
    BY <2>2, <2>3, Tables
  <2>. QED BY <1>3, <2>4, FinishType DEF RemoveWrite, RosterTypeOK
<1>. QED BY <1>1, <1>2, <1>3 DEF Write

(* The list of one kind of action, as it gets shorter. *)
LEMMA TakenType ==
    ASSUME RosterTypeOK, NEW h \in Handlers, Serving(h, "sync"),
           NEW kind \in {"restore", "create", "delete"}, NEW u, NEW skip \in BOOLEAN,
           skip => u \in Users, Taken(h, kind, u, skip)
    PROVE  jobs' \in [Handlers -> Job]
<1>. DEFINE j == jobs[h]
            left == j[kind] \ {u}
            skipped == IF skip THEN j.skipped \cup {u} ELSE j.skipped
<1>1. j \in SyncJob
  BY JobForms DEF Serving, RosterTypeOK
<1>2. jobs' = [jobs EXCEPT ![h] = [j EXCEPT ![kind] = left, !.passed = FALSE, !.skipped = skipped]]
  BY DEF Taken
<1>3. left \in SUBSET Users
  BY <1>1 DEF SyncJob
<1>4. skipped \in SUBSET Users
  BY <1>1 DEF SyncJob
<1>. HIDE DEF left, skipped
<1>5. [j EXCEPT ![kind] = left, !.passed = FALSE, !.skipped = skipped] \in SyncJob
  <2>1. CASE kind = "restore" BY <1>1, <1>3, <1>4, <2>1 DEF SyncJob
  <2>2. CASE kind = "create" BY <1>1, <1>3, <1>4, <2>2 DEF SyncJob
  <2>3. CASE kind = "delete" BY <1>1, <1>3, <1>4, <2>3 DEF SyncJob
  <2>. QED BY <2>1, <2>2, <2>3
<1>. QED BY <1>2, <1>5, JobsAreJobs DEF RosterTypeOK

(* A sync takes the accounts in the order they were made. *)
LEMMA FirstIsIn ==
    ASSUME NEW S \in SUBSET Nat, S # {}
    PROVE  First(S) \in S
<1>. DEFINE R == OpToRel(<, Nat)
<1>1. PICK x \in S : \A y \in S : ~(<<y, x>> \in R)
  <2>. HIDE DEF R
  <2>1. IsWellFoundedOn(R, Nat)
    BY NatLessThanWellFounded DEF R
  <2>. QED BY <2>1, WFMin
<1>2. \A y \in S : ~(y < x)
  BY <1>1 DEF OpToRel
<1>3. \A y \in S : x <= y
  BY <1>2
<1>. QED BY <1>3 DEF First

LEMMA SyncStepType ==
    ASSUME TypeInv, NEW h \in Handlers, SyncStep(h)
    PROVE  RosterTypeOK'
<1>. DEFINE j == jobs[h]
<1>1. RosterTypeOK /\ Serving(h, "sync") /\ j \in SyncJob
  BY JobForms DEF TypeInv, RosterTypeOK, SyncStep, ApplyRestore, ApplyCreate, CheckDelete,
                  ApplyDelete, Answer, Serving
<1>2. /\ j.role \in Roles /\ j.projects \in Asked
      /\ j.restore \in SUBSET Users /\ j.create \in SUBSET Users /\ j.delete \in SUBSET Users
      /\ j.skipped \in SUBSET Users
  BY <1>1 DEF SyncJob, Asked
<1>3. ASSUME ApplyRestore(h) PROVE RosterTypeOK'
  <2>. DEFINE u == First(j.restore)
              ok == Exists(u) /\ ~Present(u)
  <2>1. u \in Users
    BY <1>2, <1>3, FirstIsIn, RosterAssumption DEF ApplyRestore
  <2>2. /\ accounts' = IF ok THEN [accounts EXCEPT ![u].gone = FALSE] ELSE accounts
        /\ Taken(h, "restore", u, ~ok)
        /\ UNCHANGED <<grants, sync, served>>
    BY <1>3 DEF ApplyRestore
  <2>3. accounts' \in [Users -> Account \cup {Null}]
    <3>1. CASE ok
      <4>1. accounts[u] \in Account
        BY <1>1, <2>1, <3>1, Tables
      <4>2. [accounts[u] EXCEPT !.gone = FALSE] \in Account
        BY <4>1 DEF Account
      <4>3. accounts' = [accounts EXCEPT ![u] = [accounts[u] EXCEPT !.gone = FALSE]]
        BY <2>2, <3>1
      <4>. QED BY <1>1, <4>2, <4>3, Tables
    <3>2. CASE ~ok
      BY <1>1, <2>2, <3>2 DEF RosterTypeOK
    <3>. QED BY <3>1, <3>2
  <2>4. jobs' \in [Handlers -> Job]
    BY <1>1, <2>1, <2>2, TakenType
  <2>. QED BY <1>1, <2>2, <2>3, <2>4 DEF RosterTypeOK
<1>4. ASSUME ApplyCreate(h) PROVE RosterTypeOK'
  <2>. DEFINE u == First(j.create)
  <2>1. u \in Users
    BY <1>2, <1>4, FirstIsIn, RosterAssumption DEF ApplyCreate
  <2>2. /\ \/ UNCHANGED <<accounts, grants>>
           \/ /\ accounts' = [accounts EXCEPT ![u] = NewAccount(j.role)]
              /\ grants' = Replaced(u, j.projects)
        /\ Taken(h, "create", u, Exists(u))
        /\ UNCHANGED <<sync, served>>
    BY <1>4 DEF ApplyCreate
  <2>3. jobs' \in [Handlers -> Job]
    <3>1. Exists(u) \in BOOLEAN
      BY DEF Exists
    <3>. QED BY <1>1, <2>1, <2>2, <3>1, TakenType
  <2>4. accounts' \in [Users -> Account \cup {Null}] /\ grants' \in [Users -> SUBSET Projects]
    BY <1>1, <1>2, <2>2, Tables, NewAccountType DEF RosterTypeOK
  <2>. QED BY <1>1, <2>2, <2>3, <2>4 DEF RosterTypeOK
<1>5. ASSUME CheckDelete(h) PROVE RosterTypeOK'
  <2>. DEFINE u == First(j.delete)
  <2>1. u \in Users
    BY <1>2, <1>5, FirstIsIn, RosterAssumption DEF CheckDelete
  <2>2. [j EXCEPT !.passed = TRUE] \in SyncJob
    BY <1>1 DEF SyncJob
  <2>3. jobs' \in [Handlers -> Job]
    <3>1. CASE jobs' = [jobs EXCEPT ![h] = [j EXCEPT !.passed = TRUE]]
      BY <1>1, <2>2, <3>1, JobsAreJobs DEF RosterTypeOK
    <3>2. CASE Taken(h, "delete", u, TRUE)
      BY <1>1, <2>1, <3>2, TakenType
    <3>. QED BY <1>5, <3>1, <3>2 DEF CheckDelete
  <2>. QED BY <1>1, <1>5, <2>3 DEF CheckDelete, RosterTypeOK
<1>7. ASSUME ApplyDelete(h) PROVE RosterTypeOK'
  <2>. DEFINE u == First(j.delete)
  <2>1. u \in Users /\ Exists(u)
    BY <1>7 DEF ApplyDelete, Serving, TypeInv, Vetted
  <2>2. accounts[u] \in Account
    BY <1>1, <2>1, Tables
  <2>3. [accounts[u] EXCEPT !.gone = TRUE] \in Account
    BY <2>2 DEF Account
  <2>4. accounts' = [accounts EXCEPT ![u] = [accounts[u] EXCEPT !.gone = TRUE]]
    BY <1>7 DEF ApplyDelete
  <2>5. accounts' \in [Users -> Account \cup {Null}]
    BY <1>1, <2>3, <2>4, Tables
  <2>6. jobs' \in [Handlers -> Job]
    BY <1>1, <1>7, <2>1, TakenType DEF ApplyDelete
  <2>. QED BY <1>1, <1>7, <2>5, <2>6 DEF ApplyDelete, RosterTypeOK
<1>6. ASSUME Answer(h) PROVE RosterTypeOK'
  <2>1. sync' \in Sync
    BY <1>1, <1>2, <1>6 DEF Answer, RosterTypeOK, Sync
  <2>. QED BY <1>1, <1>6, <2>1, FinishType DEF Answer, RosterTypeOK
<1>. QED BY <1>3, <1>4, <1>5, <1>6, <1>7 DEF SyncStep

LEMMA PreviewType ==
    ASSUME NEW a \in Users, NEW f \in File
    PROVE  Preview(a, f) \in [Users -> ItemTypes]
<1>. DEFINE unlisted == {u \in Users : Present(u) /\ f[u] = "absent"}
            saved == {u \in unlisted \ {a} : AdminsLeft(a, f) = {} /\ IsAdmin(u)}
            item(u) == CASE f[u] = "named" /\ ~Exists(u)               -> "create"
                         [] f[u] = "named" /\ Exists(u) /\ ~Present(u) -> "restore"
                         [] f[u] = "named" /\ Present(u)               -> "unchanged"
                         [] f[u] = "broken"                            -> "error"
                         [] f[u] = "absent" /\ ~Present(u)             -> "none"
                         [] u \in unlisted ->
                               IF u = a \/ (saved # {} /\ u = First(saved)) THEN "kept" ELSE "delete"
<1>1. Preview(a, f) = [u \in Users |-> item(u)]
  BY DEF Preview
<1>2. ASSUME NEW u \in Users PROVE item(u) \in ItemTypes
  <2>1. f[u] \in {"absent", "broken", "named"}
    BY DEF File
  <2>2. (u \in unlisted) = (Present(u) /\ f[u] = "absent")
    OBVIOUS
  <2>. HIDE DEF unlisted, saved
  <2>. QED BY <2>1, <2>2 DEF ItemTypes, Present
<1>. HIDE DEF item
<1>. QED BY <1>1, <1>2

LEMMA PageType ==
    ASSUME TypeInv, Page
    PROVE  RosterTypeOK'
<1>. RosterTypeOK
  BY DEF TypeInv
<1>1. ASSUME NEW a \in Users, NEW f \in File, StartPreview(a, f) PROVE RosterTypeOK'
  <2>1. sync' \in Sync
    BY <1>1, PreviewType DEF StartPreview, Sync
  <2>. QED BY <1>1, <2>1 DEF StartPreview, RosterTypeOK
<1>2. ASSUME ResetToUpload PROVE RosterTypeOK'
  <2>1. NoFile \in File /\ NoItems \in [Users -> ItemTypes]
    BY DEF NoFile, File, NoItems, ItemTypes
  <2>2. sync' \in Sync
    BY <1>2, <2>1 DEF ResetToUpload, RosterTypeOK, Sync
  <2>. QED BY <1>2, <2>2 DEF ResetToUpload, RosterTypeOK
<1>3. ASSUME NEW h \in Handlers, NEW checked \in SUBSET Users, NEW r \in Roles,
             NEW ps \in SUBSET Projects, Execute(h, checked, r, ps)
      PROVE  RosterTypeOK'
  <2>. DEFINE job == [pc |-> "sync", by |-> sync.by, role |-> r, projects |-> ps,
                      restore |-> checked \cap Actionable("restore"),
                      create |-> checked \cap Actionable("create"),
                      delete |-> checked \cap Actionable("delete"), passed |-> FALSE,
                      skipped |-> {}]
  <2>1. sync.by \in Users
    BY <1>3 DEF Execute, TypeInv, HasRunner
  <2>2. job \in SyncJob
    BY <2>1 DEF SyncJob
  <2>3. Accept(h, job)
    BY <1>3 DEF Execute
  <2>4. jobs' \in [Handlers -> Job] /\ served' \in Nat
    BY <2>2, <2>3, JobsAreJobs, AcceptType
  <2>5. sync' \in Sync
    BY <1>3 DEF Execute, RosterTypeOK, Sync
  <2>. QED BY <1>3, <2>4, <2>5 DEF Execute, RosterTypeOK
<1>. QED BY <1>1, <1>2, <1>3 DEF Page

LEMMA OwnType ==
    ASSUME RosterTypeOK, NEW u \in Users,
           \/ \E issued \in BOOLEAN : SetApiKey(u, issued)
           \/ \E g \in Googles : LinkGoogle(g, u)
    PROVE  RosterTypeOK'
<1>1. accounts[u] \in Account
  BY Tables DEF SetApiKey, LinkGoogle, Authenticated, Present
<1>2. ASSUME NEW issued \in BOOLEAN, SetApiKey(u, issued) PROVE RosterTypeOK'
  <2>1. [accounts[u] EXCEPT !.key = issued] \in Account
    BY <1>1 DEF Account
  <2>2. accounts' = [accounts EXCEPT ![u] = [accounts[u] EXCEPT !.key = issued]]
    BY <1>2 DEF SetApiKey
  <2>. QED BY <1>2, <2>1, <2>2, Tables DEF SetApiKey, RosterTypeOK
<1>3. ASSUME NEW g \in Googles, LinkGoogle(g, u) PROVE RosterTypeOK'
  <2>1. [accounts[u] EXCEPT !.google = g] \in Account
    BY <1>1 DEF Account
  <2>2. accounts' = [accounts EXCEPT ![u] = [accounts[u] EXCEPT !.google = g]]
    BY <1>3 DEF LinkGoogle
  <2>. QED BY <1>3, <2>1, <2>2, Tables DEF LinkGoogle, RosterTypeOK
<1>. QED BY <1>2, <1>3

LEMMA RosterTypeStep ==
    ASSUME TypeInv, [RosterNext]_rosterVars
    PROVE  RosterTypeOK'
<1>1. CASE UNCHANGED rosterVars
  BY <1>1 DEF TypeInv, RosterTypeOK, rosterVars
<1>2. CASE RosterNext
  BY <1>2, RequestType, WriteType, SyncStepType, OwnType, PageType DEF RosterNext, TypeInv
<1>. QED BY <1>1, <1>2

---------------------------------------------------------------------------
(* UserRoster: what a step may do to a request and to the rows *)

Submits(h) == \E checked \in SUBSET Users, r \in Roles, ps \in SUBSET Projects :
                Execute(h, checked, r, ps)

(* A sync goes on with what is left of its lists. *)
GoesOn(h) ==
    /\ SyncStep(h)
    /\ Serving(h, "sync") /\ jobs'[h].pc = "sync"
    /\ jobs'[h].by = jobs[h].by
    /\ jobs'[h].delete \subseteq jobs[h].delete

LEMMA TakenGoesOn ==
    ASSUME RosterTypeOK, NEW h \in Handlers, Serving(h, "sync"),
           NEW kind \in {"restore", "create", "delete"}, NEW u, NEW skip, Taken(h, kind, u, skip)
    PROVE  /\ \A g \in Handlers \ {h} : jobs'[g] = jobs[g]
           /\ jobs'[h].pc = "sync" /\ ~jobs'[h].passed
           /\ jobs'[h].by = jobs[h].by
           /\ jobs'[h].delete \subseteq jobs[h].delete
<1>. DEFINE j == jobs[h]
            left == j[kind] \ {u}
            skipped == IF skip THEN j.skipped \cup {u} ELSE j.skipped
<1>1. j \in SyncJob
  BY JobForms DEF Serving, RosterTypeOK
<1>2. jobs' = [jobs EXCEPT ![h] = [j EXCEPT ![kind] = left, !.passed = FALSE, !.skipped = skipped]]
  BY DEF Taken
<1>3. left \subseteq j[kind]
  OBVIOUS
<1>. HIDE DEF left, skipped
<1>4. jobs'[h] = [j EXCEPT ![kind] = left, !.passed = FALSE, !.skipped = skipped]
  BY <1>2 DEF RosterTypeOK
<1>5. \A g \in Handlers \ {h} : jobs'[g] = jobs[g]
  BY <1>2 DEF RosterTypeOK
<1>6. CASE kind = "restore" BY <1>1, <1>4, <1>5, <1>6 DEF SyncJob
<1>7. CASE kind = "create" BY <1>1, <1>4, <1>5, <1>7 DEF SyncJob
<1>8. CASE kind = "delete" BY <1>1, <1>3, <1>4, <1>5, <1>8 DEF SyncJob
<1>. QED BY <1>6, <1>7, <1>8

(* A check that lets a deletion pass changes nothing else. *)
LEMMA PassedGoesOn ==
    ASSUME RosterTypeOK, NEW h \in Handlers, Serving(h, "sync"),
           jobs' = [jobs EXCEPT ![h].passed = TRUE]
    PROVE  /\ \A g \in Handlers \ {h} : jobs'[g] = jobs[g]
           /\ jobs'[h].pc = "sync"
           /\ jobs'[h].by = jobs[h].by
           /\ jobs'[h].delete = jobs[h].delete
<1>1. jobs[h] \in SyncJob
  BY JobForms DEF Serving, RosterTypeOK
<1>2. jobs'[h] = [jobs[h] EXCEPT !.passed = TRUE]
  BY DEF RosterTypeOK
<1>3. \A g \in Handlers \ {h} : jobs'[g] = jobs[g]
  BY DEF RosterTypeOK
<1>. QED BY <1>1, <1>2, <1>3 DEF SyncJob

(* Where what a handler serves after a step comes from. *)
LEMMA JobOrigin ==
    ASSUME RosterTypeOK, RosterNext, NEW g \in Handlers
    PROVE  \/ jobs'[g] = jobs[g]
           \/ jobs'[g] = Idle
           \/ \E a \in Users : Request(g, a)
           \/ Submits(g)
           \/ GoesOn(g)
<1>1. ASSUME NEW h \in Handlers, NEW a \in Users, Request(h, a), g # h
      PROVE  jobs'[g] = jobs[g]
  BY <1>1 DEF Request, CreateRead, UpdateRead, OwnSaveRead, RemoveRead, Accept, RosterTypeOK
<1>2. ASSUME NEW h \in Handlers, Write(h)
      PROVE  jobs'[g] = jobs[g] \/ jobs'[g] = Idle
  BY <1>2 DEF Write, CreateWrite, SaveWrite, RemoveWrite, Finish, RosterTypeOK
<1>3. ASSUME NEW h \in Handlers, SyncStep(h)
      PROVE  jobs'[g] = jobs[g] \/ jobs'[g] = Idle \/ GoesOn(g)
  <2>1. CASE Answer(h)
    BY <2>1 DEF Answer, Finish, RosterTypeOK
  <2>2. ASSUME NEW kind \in {"restore", "create", "delete"}, NEW u, NEW skip,
               Serving(h, "sync"), Taken(h, kind, u, skip)
        PROVE  jobs'[g] = jobs[g] \/ GoesOn(g)
    BY <1>3, <2>2, TakenGoesOn DEF GoesOn
  <2>3. CASE ApplyRestore(h)
    BY <2>2, <2>3 DEF ApplyRestore
  <2>4. CASE ApplyCreate(h)
    BY <2>2, <2>4 DEF ApplyCreate
  <2>5. CASE ApplyDelete(h)
    BY <2>2, <2>5 DEF ApplyDelete
  <2>6. CASE CheckDelete(h)
    <3>1. CASE jobs' = [jobs EXCEPT ![h].passed = TRUE]
      BY <1>3, <2>6, <3>1, PassedGoesOn DEF CheckDelete, GoesOn
    <3>. QED BY <2>2, <2>6, <3>1 DEF CheckDelete
  <2>. QED BY <1>3, <2>1, <2>3, <2>4, <2>5, <2>6 DEF SyncStep
<1>4. ASSUME NEW u \in Users,
             \/ \E issued \in BOOLEAN : SetApiKey(u, issued)
             \/ \E google \in Googles : LinkGoogle(google, u)
      PROVE  jobs'[g] = jobs[g]
  BY <1>4 DEF SetApiKey, LinkGoogle
<1>5. ASSUME Page PROVE jobs'[g] = jobs[g] \/ Submits(g)
  BY <1>5 DEF Page, StartPreview, ResetToUpload, Submits, Execute, Accept, RosterTypeOK
<1>. QED BY <1>1, <1>2, <1>3, <1>4, <1>5 DEF RosterNext

(* A deleted account keeps its row. *)
LEMMA RowsStay ==
    ASSUME TypeInv, RosterNext, NEW u \in Users, Exists(u)
    PROVE  accounts'[u] # Null
<1>. RosterTypeOK /\ \A h \in Handlers : jobs[h] \in Job
  BY DEF TypeInv, RosterTypeOK
<1>. \A v \in Users : Exists(v) => accounts[v] \in Account
  BY Tables
<1>. accounts \in [Users -> Account \cup {Null}] /\ accounts[u] # Null
  BY DEF RosterTypeOK, Exists
<1>. Null \notin Account
  BY RosterAssumption
<1>1. ASSUME NEW h \in Handlers, NEW a \in Users, Request(h, a)
      PROVE  accounts'[u] # Null
  BY <1>1 DEF Request, CreateRead, UpdateRead, OwnSaveRead, RemoveRead
<1>2. ASSUME NEW v, NEW e \in Account, accounts' = [accounts EXCEPT ![v] = e]
      PROVE  accounts'[u] # Null
  BY <1>2
<1>3. ASSUME NEW h \in Handlers, Write(h) PROVE accounts'[u] # Null
  <2>1. CASE CreateWrite(h)
    <3>1. jobs[h].role \in Roles
      BY <2>1, JobForms DEF CreateWrite, Serving, CreateJob
    <3>. QED BY <1>2, <2>1, <3>1, NewAccountType DEF CreateWrite
  <2>2. CASE SaveWrite(h)
    <3>1. jobs[h].entity \in Account
      BY <2>2, JobForms DEF SaveWrite, Serving, SaveJob
    <3>. QED BY <1>2, <2>2, <3>1 DEF SaveWrite
  <2>3. CASE RemoveWrite(h)
    <3>1. accounts[jobs[h].target] \in Account
      BY <2>3, Tables DEF RemoveWrite, TypeInv, Removable
    <3>2. [accounts[jobs[h].target] EXCEPT !.gone = TRUE] \in Account
      BY <3>1 DEF Account
    <3>. QED BY <1>2, <2>3, <3>2 DEF RemoveWrite
  <2>. QED BY <1>3, <2>1, <2>2, <2>3 DEF Write
<1>4. ASSUME NEW h \in Handlers, SyncStep(h) PROVE accounts'[u] # Null
  <2>1. jobs[h] \in SyncJob
    BY <1>4, JobForms DEF SyncStep, ApplyRestore, ApplyCreate, CheckDelete, ApplyDelete, Answer,
                          Serving
  <2>2. /\ jobs[h].role \in Roles
        /\ jobs[h].restore \in SUBSET Users /\ jobs[h].delete \in SUBSET Users
    BY <2>1 DEF SyncJob
  <2>3. CASE ApplyRestore(h)
    <3>. DEFINE v == First(jobs[h].restore)
    <3>1. CASE ~(Exists(v) /\ ~Present(v))
      BY <2>3, <3>1 DEF ApplyRestore
    <3>2. CASE Exists(v) /\ ~Present(v)
      <4>1. accounts[v] \in Account
        BY <2>2, <2>3, <3>2, FirstIsIn, RosterAssumption DEF ApplyRestore
      <4>2. [accounts[v] EXCEPT !.gone = FALSE] \in Account
        BY <4>1 DEF Account
      <4>. QED BY <1>2, <2>3, <3>2, <4>2 DEF ApplyRestore
    <3>. QED BY <3>1, <3>2
  <2>4. CASE ApplyCreate(h)
    BY <1>2, <2>2, <2>4, NewAccountType DEF ApplyCreate
  <2>5. CASE ApplyDelete(h)
    <3>. DEFINE v == First(jobs[h].delete)
    <3>1. accounts[v] \in Account
      BY <2>5 DEF ApplyDelete, Serving, TypeInv, Vetted
    <3>2. [accounts[v] EXCEPT !.gone = TRUE] \in Account
      BY <3>1 DEF Account
    <3>. QED BY <1>2, <2>5, <3>2 DEF ApplyDelete
  <2>6. CASE Answer(h) \/ CheckDelete(h)
    BY <2>6 DEF Answer, CheckDelete
  <2>. QED BY <1>4, <2>3, <2>4, <2>5, <2>6 DEF SyncStep
<1>5. ASSUME NEW v \in Users,
             \/ \E issued \in BOOLEAN : SetApiKey(v, issued)
             \/ \E g \in Googles : LinkGoogle(g, v)
      PROVE  accounts'[u] # Null
  <2>1. accounts[v] \in Account
    BY <1>5 DEF SetApiKey, LinkGoogle, Authenticated, Present
  <2>2. ASSUME NEW issued \in BOOLEAN, SetApiKey(v, issued) PROVE accounts'[u] # Null
    <3>1. [accounts[v] EXCEPT !.key = issued] \in Account
      BY <2>1 DEF Account
    <3>. QED BY <1>2, <2>2, <3>1 DEF SetApiKey
  <2>3. ASSUME NEW g \in Googles, LinkGoogle(g, v) PROVE accounts'[u] # Null
    <3>1. [accounts[v] EXCEPT !.google = g] \in Account
      BY <2>1 DEF Account
    <3>. QED BY <1>2, <2>3, <3>1 DEF LinkGoogle
  <2>. QED BY <1>5, <2>2, <2>3
<1>6. ASSUME Page PROVE accounts'[u] # Null
  BY <1>6 DEF Page, StartPreview, ResetToUpload, Execute
<1>. QED BY <1>1, <1>3, <1>4, <1>5, <1>6 DEF RosterNext

(* What has just been checked for deletion is there, and is not the runner's.*)
LEMMA VettedGoesOn ==
    ASSUME TypeInv, NEW h \in Handlers, GoesOn(h), jobs'[h].passed
    PROVE  Vetted(jobs[h])'
<1>. RosterTypeOK /\ Serving(h, "sync")
  BY DEF TypeInv, GoesOn
<1>1. ~Answer(h)
  BY DEF GoesOn, Answer, Finish, Idle, RosterTypeOK
<1>2. ASSUME NEW kind \in {"restore", "create", "delete"}, NEW u, NEW skip, Taken(h, kind, u, skip)
      PROVE  FALSE
  BY <1>2, TakenGoesOn
<1>3. ~ApplyRestore(h) /\ ~ApplyCreate(h) /\ ~ApplyDelete(h)
  BY <1>2 DEF ApplyRestore, ApplyCreate, ApplyDelete
<1>4. CheckDelete(h)
  BY <1>1, <1>3 DEF GoesOn, SyncStep
<1>. DEFINE u == First(jobs[h].delete)
<1>5. /\ jobs' = [jobs EXCEPT ![h].passed = TRUE] /\ Deletable(jobs[h].by, u)
      /\ jobs[h].delete # {} /\ accounts' = accounts
  BY <1>2, <1>4 DEF CheckDelete
<1>6. u \in Users
  <2>1. jobs[h].delete \in SUBSET Users
    BY JobForms DEF Serving, RosterTypeOK, SyncJob
  <2>. QED BY <1>5, <2>1, FirstIsIn, RosterAssumption
<1>. QED BY <1>5, <1>6, PassedGoesOn DEF Vetted, Deletable, Present, Exists

LEMMA TypeInvStep ==
    ASSUME TypeInv, [RosterNext]_rosterVars
    PROVE  TypeInv'
<1>1. CASE UNCHANGED rosterVars
  BY <1>1, RosterTypeStep DEF TypeInv, Removable, HasRunner, Vetted, Serving, Exists, rosterVars
<1>2. CASE RosterNext
  <2>1. RosterTypeOK'
    BY <1>2, RosterTypeStep
  <2>2. Removable'
    <3>. SUFFICES ASSUME NEW g \in Handlers, jobs'[g].pc = "remove"
                  PROVE  jobs'[g].target \in Users /\ accounts'[jobs'[g].target] # Null
      BY DEF Removable, Serving, Exists
    <3>1. CASE jobs'[g] = jobs[g]
      BY <1>2, <3>1, RowsStay DEF TypeInv, Removable, Serving
    <3>2. ASSUME NEW a \in Users, Request(g, a)
          PROVE  jobs'[g].target \in Users /\ accounts'[jobs'[g].target] # Null
      BY <3>2 DEF Request, CreateRead, UpdateRead, OwnSaveRead, RemoveRead, Accept, Present,
                  Exists, TypeInv, RosterTypeOK
    <3>3. ~(jobs'[g] = Idle) /\ ~Submits(g) /\ ~GoesOn(g)
      BY DEF Idle, Submits, Execute, Accept, GoesOn, TypeInv, RosterTypeOK
    <3>. QED BY <1>2, <3>1, <3>2, <3>3, JobOrigin DEF TypeInv
  <2>3. HasRunner'
    <3>1. ASSUME NEW a \in Users, NEW f \in File, StartPreview(a, f) PROVE HasRunner'
      BY <3>1 DEF StartPreview, HasRunner
    <3>2. CASE ResetToUpload
      BY <3>2 DEF ResetToUpload, HasRunner, TypeInv, RosterTypeOK, Sync
    <3>3. CASE \E h \in Handlers : Submits(h)
      BY <3>3 DEF Submits, Execute, HasRunner, TypeInv, RosterTypeOK, Sync
    <3>4. CASE \E h \in Handlers : Answer(h)
      BY <3>4 DEF Answer, HasRunner, TypeInv, RosterTypeOK, Sync
    <3>5. CASE UNCHANGED sync
      BY <3>5 DEF HasRunner, TypeInv
    <3>6. RosterNext => \/ \E a \in Users, f \in File : StartPreview(a, f)
                        \/ ResetToUpload
                        \/ \E h \in Handlers : Submits(h) \/ Answer(h)
                        \/ UNCHANGED sync
      BY DEF RosterNext, Request, CreateRead, UpdateRead, OwnSaveRead, RemoveRead, Write,
             CreateWrite, SaveWrite, RemoveWrite, SyncStep, ApplyRestore, ApplyCreate, CheckDelete,
             ApplyDelete, SetApiKey, LinkGoogle, Page, Submits
    <3>. QED BY <1>2, <3>1, <3>2, <3>3, <3>4, <3>5, <3>6
  <2>4. \A h \in Handlers : Vetted(jobs[h])'
    <3>. SUFFICES ASSUME NEW g \in Handlers, jobs'[g].pc = "sync", jobs'[g].passed
                  PROVE  Vetted(jobs[g])'
      BY DEF Vetted
    <3>1. CASE jobs'[g] = jobs[g]
      BY <1>2, <3>1, RowsStay DEF TypeInv, Vetted, Exists
    <3>2. CASE GoesOn(g)
      BY <1>2, <3>2, VettedGoesOn
    <3>3. \A a \in Users : ~Request(g, a)
      BY DEF Request, CreateRead, UpdateRead, OwnSaveRead, RemoveRead, Accept, TypeInv,
             RosterTypeOK
    <3>4. ~(jobs'[g] = Idle) /\ ~Submits(g)
      BY DEF Idle, Submits, Execute, Accept, TypeInv, RosterTypeOK
    <3>. QED BY <1>2, <3>1, <3>2, <3>3, <3>4, JobOrigin DEF TypeInv
  <2>. QED BY <2>1, <2>2, <2>3, <2>4 DEF TypeInv
<1>. QED BY <1>1, <1>2

LEMMA TypeInvInit == RosterInit => TypeInv
<1>. SUFFICES ASSUME RosterInit PROVE TypeInv
  OBVIOUS
<1>1. accounts \in [Users -> Account \cup {Null}]
  BY NewAccountType, RosterAssumption DEF RosterInit
<1>2. sync \in Sync
  BY DEF RosterInit, Sync, NoFile, File, NoItems, ItemTypes
<1>3. jobs \in [Handlers -> Job]
  BY JobsAreJobs DEF RosterInit
<1>4. RosterTypeOK
  BY <1>1, <1>2, <1>3 DEF RosterInit, RosterTypeOK
<1>. QED BY <1>4 DEF TypeInv, Removable, HasRunner, Vetted, RosterInit, Serving, Idle

LEMMA TypeInvAlways == RosterSpec => []TypeInv
BY TypeInvInit, TypeInvStep, PTL DEF RosterSpec

(* The tables of accounts and grants, the requests in service and the page   *)
(* of the sync keep their types, whatever requests are served at once.       *)
THEOREM RosterTypeCorrect == RosterSpec => []RosterTypeOK
<1>1. TypeInv => RosterTypeOK
  BY DEF TypeInv
<1>. QED BY <1>1, TypeInvAlways, PTL

---------------------------------------------------------------------------
(* UserRoster: some administrator can sign in *)

Standing(account) == account # Null /\ ~account.gone /\ account.active /\ account.role = "admin"

LEMMA ActiveAdminsStand ==
    /\ ActiveAdmins = {u \in Users : Standing(accounts[u])}
    /\ ActiveAdmins' = {u \in Users : Standing(accounts'[u])}
BY DEF ActiveAdmins, Authenticated, Present, IsAdmin, Exists, Standing

(* No request serves itself badly when every standing administrator stays.   *)
LEMMA StandingStay ==
    ASSUME AdminInv, NEW h \in Handlers, jobs'[h] \in {jobs[h], Idle},
           ActiveAdmins \subseteq ActiveAdmins'
    PROVE  SomeActiveAdmin' /\ LeavesAdmin(h)'
BY DEF AdminInv, SomeActiveAdmin, LeavesAdmin, Serving, Idle

LEMMA AdminRequest ==
    ASSUME TypeInv, AdminInv, NEW h \in Handlers, NEW a \in Users, Request(h, a)
    PROVE  SomeActiveAdmin' /\ LeavesAdmin(h)'
<1>. RosterTypeOK
  BY DEF TypeInv
<1>1. accounts' = accounts
  BY DEF Request, CreateRead, UpdateRead, OwnSaveRead, RemoveRead
<1>2. ActiveAdmins' = ActiveAdmins
  BY <1>1, ActiveAdminsStand
<1>3. SomeActiveAdmin'
  BY <1>2 DEF AdminInv, SomeActiveAdmin
<1>4. ASSUME NEW job, Accept(h, job) PROVE jobs'[h] = job
  BY <1>4 DEF Accept, RosterTypeOK
<1>5. AdminGuard(a) => a \in ActiveAdmins
  BY DEF AdminGuard, ActiveAdmins
<1>6. ASSUME NEW u \in Users, NEW r \in Roles, NEW ps \in Asked, CreateRead(h, a, u, r, ps)
      PROVE  LeavesAdmin(h)'
  BY <1>4, <1>6 DEF CreateRead, LeavesAdmin, Serving
<1>7. ASSUME NEW u \in Users, NEW p \in Patch, UpdateRead(h, a, u, p)
      PROVE  LeavesAdmin(h)'
  <2>. DEFINE e == Patched(accounts[u], p)
  <2>1. /\ jobs'[h].pc = "save" /\ jobs'[h].target = u /\ jobs'[h].entity = e
        /\ a \in ActiveAdmins /\ Present(u) /\ ~Refused(a, u, p)
    BY <1>4, <1>5, <1>7 DEF UpdateRead
  <2>2. CASE a # u
    BY <1>2, <2>1, <2>2 DEF LeavesAdmin, Serving
  <2>3. CASE a = u
    <3>1. accounts[u] \in Account /\ Standing(accounts[u])
      BY <2>1, <2>3, Tables, ActiveAdminsStand DEF Present
    <3>2. p.role = Null \/ p.role = "admin"
      BY <2>1, <2>3, <3>1 DEF Refused, Standing
    <3>3. p.active = Null \/ p.active = TRUE
      BY <2>1, <2>3, <3>1 DEF Refused, Standing, Patch
    <3>4. e.role = "admin" /\ e.active /\ ~e.gone
      BY <3>1, <3>2, <3>3 DEF Patched, Standing, Account
    <3>. HIDE DEF e
    <3>. QED BY <2>1, <3>4 DEF LeavesAdmin, Serving
  <2>. QED BY <2>2, <2>3
<1>8. ASSUME OwnSaveRead(h, a) PROVE LeavesAdmin(h)'
  <2>1. jobs'[h].pc = "own" /\ jobs'[h].target = a /\ jobs'[h].entity = accounts[a]
    BY <1>4, <1>8 DEF OwnSaveRead
  <2>2. PICK v \in ActiveAdmins : TRUE
    BY DEF AdminInv, SomeActiveAdmin
  <2>3. CASE v # a
    BY <1>2, <2>1, <2>3 DEF LeavesAdmin, Serving
  <2>4. CASE v = a
    BY <2>1, <2>4, ActiveAdminsStand DEF LeavesAdmin, Serving, Standing
  <2>. QED BY <2>3, <2>4
<1>9. ASSUME NEW u \in Users, RemoveRead(h, a, u) PROVE LeavesAdmin(h)'
  <2>1. jobs'[h] = [pc |-> "remove", target |-> u] /\ a \in ActiveAdmins /\ a # u
    BY <1>4, <1>5, <1>9 DEF RemoveRead
  <2>. QED BY <1>2, <2>1 DEF LeavesAdmin, Serving
<1>. QED BY <1>3, <1>6, <1>7, <1>8, <1>9 DEF Request

LEMMA AdminWrite ==
    ASSUME TypeInv, AdminInv, NEW h \in Handlers, Write(h)
    PROVE  SomeActiveAdmin' /\ LeavesAdmin(h)'
<1>. RosterTypeOK /\ jobs[h] \in Job /\ LeavesAdmin(h)
  BY DEF TypeInv, RosterTypeOK, AdminInv
<1>1. jobs'[h] = Idle
  BY DEF Write, CreateWrite, SaveWrite, RemoveWrite, Finish, RosterTypeOK
<1>2. LeavesAdmin(h)'
  BY <1>1 DEF LeavesAdmin, Serving, Idle
<1>3. CASE CreateWrite(h)
  <2>1. \A v \in Users : Exists(v) => accounts'[v] = accounts[v]
    BY <1>3 DEF CreateWrite, RosterTypeOK
  <2>2. ActiveAdmins \subseteq ActiveAdmins'
    BY <2>1, ActiveAdminsStand DEF Standing, Exists
  <2>. QED BY <1>1, <2>2, StandingStay
<1>4. CASE SaveWrite(h)
  <2>1. jobs[h] \in SaveJob
    BY <1>4, JobForms DEF SaveWrite, Serving
  <2>2. /\ jobs[h].target \in Users
        /\ accounts'[jobs[h].target] = jobs[h].entity
        /\ jobs[h].entity \in Account
        /\ \A v \in Users : v # jobs[h].target => accounts'[v] = accounts[v]
    BY <1>4, <2>1 DEF SaveWrite, SaveJob, RosterTypeOK
  <2>3. ASSUME NEW v \in ActiveAdmins, v # jobs[h].target PROVE v \in ActiveAdmins'
    BY <2>2, <2>3, ActiveAdminsStand
  <2>4. CASE jobs[h].entity.role = "admin" /\ jobs[h].entity.active /\ ~jobs[h].entity.gone
    <3>1. Standing(accounts'[jobs[h].target])
      BY <2>2, <2>4, RosterAssumption DEF Standing
    <3>. QED BY <1>2, <2>2, <3>1, ActiveAdminsStand DEF SomeActiveAdmin
  <2>5. jobs[h].pc \in {"save", "own"}
    BY <1>4 DEF SaveWrite, Serving
  <2>. QED BY <1>2, <2>3, <2>4, <2>5 DEF LeavesAdmin, SomeActiveAdmin
<1>5. CASE RemoveWrite(h)
  <2>1. PICK v \in ActiveAdmins : v # jobs[h].target
    BY <1>5 DEF RemoveWrite, LeavesAdmin
  <2>2. accounts'[v] = accounts[v] /\ v \in Users
    BY <1>5, <2>1 DEF RemoveWrite, RosterTypeOK, ActiveAdmins
  <2>3. v \in ActiveAdmins'
    BY <2>2, ActiveAdminsStand
  <2>. QED BY <1>2, <2>3 DEF SomeActiveAdmin
<1>. QED BY <1>3, <1>4, <1>5 DEF Write

LEMMA AdminSync ==
    ASSUME TypeInv, AdminInv, NEW h \in Handlers, SyncStep(h)
    PROVE  SomeActiveAdmin' /\ LeavesAdmin(h)'
<1>. DEFINE j == jobs[h]
<1>. RosterTypeOK /\ j \in Job /\ LeavesAdmin(h)
  BY DEF TypeInv, RosterTypeOK, AdminInv
<1>1. Serving(h, "sync") /\ j.by \in ActiveAdmins
  BY DEF SyncStep, ApplyRestore, ApplyCreate, CheckDelete, ApplyDelete, Answer, LeavesAdmin
<1>2. accounts'[j.by] = accounts[j.by]
  <2>1. j.by \in Users /\ accounts[j.by] # Null /\ ~accounts[j.by].gone
    BY <1>1, ActiveAdminsStand DEF Standing
  <2>2. ASSUME NEW u, u # j.by, NEW e, accounts' = [accounts EXCEPT ![u] = e]
        PROVE  accounts'[j.by] = accounts[j.by]
    BY <2>1, <2>2 DEF RosterTypeOK
  <2>3. CASE ApplyRestore(h)
    BY <2>1, <2>2, <2>3 DEF ApplyRestore, Present, Exists
  <2>4. CASE ApplyCreate(h)
    BY <2>1, <2>2, <2>4 DEF ApplyCreate, Exists
  <2>5. CASE ApplyDelete(h)
    BY <2>1, <2>2, <2>5 DEF ApplyDelete, Serving, TypeInv, Vetted
  <2>. QED BY <2>3, <2>4, <2>5 DEF SyncStep, CheckDelete, Answer
<1>3. j.by \in ActiveAdmins'
  BY <1>1, <1>2, ActiveAdminsStand
<1>4. jobs'[h] = Idle \/ (jobs'[h].pc = "sync" /\ jobs'[h].by = j.by)
  <2>1. ASSUME Answer(h) PROVE jobs'[h] = Idle
    BY <2>1 DEF Answer, Finish, RosterTypeOK
  <2>2. ASSUME NEW kind \in {"restore", "create", "delete"}, NEW u, NEW skip,
               Taken(h, kind, u, skip)
        PROVE  jobs'[h].pc = "sync" /\ jobs'[h].by = j.by
    BY <1>1, <2>2, TakenGoesOn
  <2>3. ASSUME jobs' = [jobs EXCEPT ![h].passed = TRUE]
        PROVE  jobs'[h].pc = "sync" /\ jobs'[h].by = j.by
    BY <1>1, <2>3, PassedGoesOn
  <2>. QED BY <2>1, <2>2, <2>3 DEF SyncStep, ApplyRestore, ApplyCreate, CheckDelete, ApplyDelete
<1>. QED BY <1>3, <1>4 DEF SomeActiveAdmin, LeavesAdmin, Serving, Idle

LEMMA AdminOwn ==
    ASSUME TypeInv, AdminInv, NEW h \in Handlers, NEW u \in Users,
           \/ \E issued \in BOOLEAN : SetApiKey(u, issued)
           \/ \E g \in Googles : LinkGoogle(g, u)
    PROVE  SomeActiveAdmin' /\ LeavesAdmin(h)'
<1>1. jobs' = jobs /\ accounts[u] \in Account
  BY Tables DEF SetApiKey, LinkGoogle, Authenticated, Present, TypeInv
<1>2. ASSUME NEW v \in Users, Standing(accounts[v])
      PROVE  Standing(accounts'[v])
  <2>1. CASE v # u
    BY <1>2, <2>1 DEF SetApiKey, LinkGoogle, TypeInv, RosterTypeOK
  <2>2. CASE v = u
    <3>1. \/ \E issued \in BOOLEAN : accounts'[u] = [accounts[u] EXCEPT !.key = issued]
          \/ \E g \in Googles : accounts'[u] = [accounts[u] EXCEPT !.google = g]
      BY DEF SetApiKey, LinkGoogle, TypeInv, RosterTypeOK
    <3>2. /\ accounts'[u].gone = accounts[u].gone
          /\ accounts'[u].active = accounts[u].active
          /\ accounts'[u].role = accounts[u].role
          /\ accounts'[u] \in Account
      BY <1>1, <3>1 DEF Account
    <3>. QED BY <1>2, <2>2, <3>2, RosterAssumption DEF Standing
  <2>. QED BY <2>1, <2>2
<1>3. ActiveAdmins \subseteq ActiveAdmins'
  BY <1>2, ActiveAdminsStand
<1>. QED BY <1>1, <1>3, StandingStay

LEMMA AdminPage ==
    ASSUME TypeInv, AdminInv, NEW h \in Handlers, Page, OneAtATime
    PROVE  SomeActiveAdmin' /\ LeavesAdmin(h)'
<1>1. accounts' = accounts
  BY DEF Page, StartPreview, ResetToUpload, Execute
<1>2. ActiveAdmins' = ActiveAdmins
  BY <1>1, ActiveAdminsStand
<1>3. CASE jobs' = jobs
  BY <1>2, <1>3, StandingStay
<1>4. CASE \E g \in Handlers : Submits(g)
  <2>1. jobs'[h].pc = "sync" /\ jobs'[h].by = sync.by /\ AdminGuard(sync.by)
    BY <1>4 DEF OneAtATime, Submits, Execute, Accept, TypeInv, RosterTypeOK
  <2>2. sync.by \in ActiveAdmins
    BY <1>4, <2>1 DEF Submits, Execute, TypeInv, HasRunner, AdminGuard, ActiveAdmins
  <2>. QED BY <1>2, <2>1, <2>2 DEF SomeActiveAdmin, LeavesAdmin, Serving
<1>. QED BY <1>3, <1>4 DEF Page, StartPreview, ResetToUpload, Submits

LEMMA AdminStep ==
    ASSUME OneAtATime, TypeInv, AdminInv, [RosterNext]_rosterVars
    PROVE  AdminInv'
<1>1. CASE UNCHANGED rosterVars
  BY <1>1, ActiveAdminsStand
     DEF AdminInv, SomeActiveAdmin, LeavesAdmin, Serving, rosterVars
<1>2. CASE RosterNext
  <2>1. PICK h \in Handlers : Handlers = {h}
    BY DEF OneAtATime
  <2>2. SomeActiveAdmin' /\ LeavesAdmin(h)'
    BY <1>2, <2>1, AdminRequest, AdminWrite, AdminSync, AdminOwn, AdminPage DEF RosterNext
  <2>3. \A g \in Handlers : LeavesAdmin(g)'
    BY <2>1, <2>2
  <2>. QED BY <2>2, <2>3 DEF AdminInv
<1>. QED BY <1>1, <1>2

(* Whatever requests and syncs are served, in whatever order, the tenant     *)
(* keeps an administrator who can sign in (users.service.ts, lines 99 to 119 *)
(* and 150 to 156), as long as the server serves one at a time.              *)
THEOREM SomeActiveAdminOneAtATime ==
    ASSUME OneAtATime
    PROVE  RosterSpec => []SomeActiveAdmin
<1>1. RosterInit => AdminInv
  <2>. SUFFICES ASSUME RosterInit PROVE AdminInv
    OBVIOUS
  <2>1. PICK u \in Founders : TRUE
    BY RosterAssumption
  <2>2. accounts[u] = NewAccount("admin") /\ u \in Users
    BY RosterAssumption DEF RosterInit
  <2>3. Standing(accounts[u])
    BY <2>2, NewAccountType, RosterAssumption DEF Standing, NewAccount
  <2>. QED BY <2>2, <2>3, ActiveAdminsStand
           DEF AdminInv, SomeActiveAdmin, LeavesAdmin, Serving, RosterInit, Idle
<1>2. TypeInv /\ AdminInv /\ [RosterNext]_rosterVars => AdminInv'
  BY AdminStep
<1>3. AdminInv => SomeActiveAdmin
  BY DEF AdminInv
<1>. QED BY <1>1, <1>2, <1>3, TypeInvAlways, PTL DEF RosterSpec

---------------------------------------------------------------------------
(* UserRoster: a deleted account comes back as it was left *)

(* An account's key and link change in the row alone, and leave it there.    *)
LEMMA OwnRow ==
    ASSUME TypeInv, NEW u \in Users,
           \/ \E issued \in BOOLEAN : SetApiKey(u, issued)
           \/ \E g \in Googles : LinkGoogle(g, u)
    PROVE  /\ Present(u) /\ Present(u)'
           /\ \A v \in Users : v # u => accounts'[v] = accounts[v]
           /\ UNCHANGED <<jobs, grants>>
<1>1. accounts[u] \in Account /\ Present(u)
  BY Tables DEF SetApiKey, LinkGoogle, Authenticated, Present, TypeInv
<1>2. \/ \E issued \in BOOLEAN : accounts'[u] = [accounts[u] EXCEPT !.key = issued]
      \/ \E g \in Googles : accounts'[u] = [accounts[u] EXCEPT !.google = g]
  BY DEF SetApiKey, LinkGoogle, TypeInv, RosterTypeOK
<1>3. accounts'[u].gone = accounts[u].gone /\ accounts'[u] \in Account
  BY <1>1, <1>2 DEF Account
<1>4. Present(u)'
  BY <1>1, <1>3, RosterAssumption DEF Present, Exists
<1>5. /\ \A v \in Users : v # u => accounts'[v] = accounts[v]
      /\ UNCHANGED <<jobs, grants>>
  BY DEF SetApiKey, LinkGoogle, TypeInv, RosterTypeOK
<1>. QED BY <1>1, <1>4, <1>5

LEMMA DeletedStep ==
    ASSUME OneAtATime, TypeInv, DeletedInv, [RosterNext]_rosterVars
    PROVE  DeletedInv'
<1>1. CASE UNCHANGED rosterVars
  BY <1>1 DEF DeletedInv, HoldsPresent, Serving, Present, Exists, rosterVars
<1>2. CASE RosterNext
  <2>. RosterTypeOK
    BY DEF TypeInv
  <2>1. PICK h \in Handlers : Handlers = {h}
    BY DEF OneAtATime
  <2>2. ASSUME jobs'[h].pc \notin {"save", "own", "remove"} PROVE HoldsPresent(h)'
    BY <2>2 DEF HoldsPresent, Serving
  <2>3. ASSUME NEW a \in Users, Request(h, a) PROVE HoldsPresent(h)'
    <3>1. accounts' = accounts
      BY <2>3 DEF Request, CreateRead, UpdateRead, OwnSaveRead, RemoveRead
    <3>2. ASSUME NEW job, Accept(h, job) PROVE jobs'[h] = job
      BY <3>2 DEF Accept, RosterTypeOK
    <3>3. ASSUME NEW u \in Users, NEW r \in Roles, NEW ps \in Asked, CreateRead(h, a, u, r, ps)
          PROVE  HoldsPresent(h)'
      BY <2>2, <3>2, <3>3 DEF CreateRead
    <3>4. ASSUME NEW u \in Users, NEW p \in Patch, UpdateRead(h, a, u, p)
          PROVE  HoldsPresent(h)'
      <4>1. Patched(accounts[u], p).gone = accounts[u].gone
        <5>1. accounts[u] \in Account
          BY <3>4, Tables DEF UpdateRead, Present
        <5>. QED BY <5>1 DEF Patched, Account
      <4>2. /\ jobs'[h].pc = "save" /\ jobs'[h].target = u
            /\ jobs'[h].entity = Patched(accounts[u], p) /\ Present(u)
        BY <3>2, <3>4 DEF UpdateRead
      <4>. QED BY <3>1, <4>1, <4>2 DEF HoldsPresent, Serving, Present, Exists
    <3>5. ASSUME OwnSaveRead(h, a) PROVE HoldsPresent(h)'
      <4>1. /\ jobs'[h].pc = "own" /\ jobs'[h].target = a
            /\ jobs'[h].entity = accounts[a] /\ Present(a)
        BY <3>2, <3>5 DEF OwnSaveRead, Authenticated
      <4>. QED BY <3>1, <4>1 DEF HoldsPresent, Serving, Present, Exists
    <3>6. ASSUME NEW u \in Users, RemoveRead(h, a, u) PROVE HoldsPresent(h)'
      <4>1. jobs'[h] = [pc |-> "remove", target |-> u] /\ Present(u)
        BY <3>2, <3>6 DEF RemoveRead
      <4>. QED BY <3>1, <4>1 DEF HoldsPresent, Serving, Present, Exists
    <3>. QED BY <2>3, <3>3, <3>4, <3>5, <3>6 DEF Request
  <2>4. ASSUME jobs'[h] = jobs[h], jobs[h].pc \in {"save", "own", "remove"}
        PROVE  HoldsPresent(h)'
    <3>1. \/ accounts' = accounts
          \/ \E u \in Users : \/ \E issued \in BOOLEAN : SetApiKey(u, issued)
                              \/ \E g \in Googles : LinkGoogle(g, u)
      <4>1. ~Write(h)
        BY <2>4 DEF Write, CreateWrite, SaveWrite, RemoveWrite, Finish, Idle, RosterTypeOK
      <4>2. ~SyncStep(h)
        BY <2>4 DEF SyncStep, ApplyRestore, ApplyCreate, CheckDelete, ApplyDelete, Answer, Serving
      <4>3. Page => accounts' = accounts
        BY DEF Page, StartPreview, ResetToUpload, Execute
      <4>4. \A a \in Users : ~Request(h, a)
        BY <2>4 DEF Request, CreateRead, UpdateRead, OwnSaveRead, RemoveRead, Accept, Serving
      <4>. QED BY <1>2, <2>1, <4>1, <4>2, <4>3, <4>4 DEF RosterNext
    <3>2. \A u \in Users : Present(u) => Present(u)'
      BY <3>1, OwnRow DEF Present, Exists
    <3>. QED BY <2>4, <3>2 DEF DeletedInv, HoldsPresent, Serving
  <2>5. HoldsPresent(h)'
    <3>1. Idle.pc = "idle"
      BY DEF Idle
    <3>2. Submits(h) => jobs'[h].pc = "sync"
      BY DEF Submits, Execute, Accept, RosterTypeOK
    <3>. QED BY <1>2, <2>2, <2>3, <2>4, <3>1, <3>2, JobOrigin DEF GoesOn
  <2>6. \A g \in Handlers : HoldsPresent(g)'
    BY <2>1, <2>5
  <2>. QED BY <2>6 DEF DeletedInv
<1>. QED BY <1>1, <1>2

(* What a step does to an account that is deleted before or after it. *)
AsLeft(u) ==
    Exists(u) /\ ~(Present(u) /\ Present(u)') =>
        /\ Exists(u)'
        /\ [accounts[u] EXCEPT !.gone = accounts'[u].gone] = accounts'[u]
        /\ grants'[u] = grants[u]

LEMMA SameRowAsLeft ==
    ASSUME TypeInv, NEW u \in Users, accounts'[u] = accounts[u], grants'[u] = grants[u]
    PROVE  AsLeft(u)
<1>1. Exists(u) => accounts[u] \in Account
  BY Tables DEF TypeInv
<1>. QED BY <1>1 DEF AsLeft, Exists, Account

LEMMA MarkedRowAsLeft ==
    ASSUME TypeInv, NEW u \in Users, NEW v \in Users, NEW gone \in BOOLEAN, Exists(v),
           accounts' = [accounts EXCEPT ![v].gone = gone], grants' = grants
    PROVE  AsLeft(u)
<1>1. CASE u # v
  BY <1>1, SameRowAsLeft DEF TypeInv, RosterTypeOK
<1>2. CASE u = v
  <2>1. accounts[u] \in Account
    BY <1>2, Tables DEF TypeInv
  <2>2. accounts'[u] = [accounts[u] EXCEPT !.gone = gone]
    BY <1>2 DEF TypeInv, RosterTypeOK
  <2>3. accounts'[u] \in Account /\ accounts'[u].gone = gone
    BY <2>1, <2>2 DEF Account
  <2>. QED BY <2>1, <2>2, <2>3, RosterAssumption DEF AsLeft, Exists
<1>. QED BY <1>1, <1>2

LEMMA AsLeftStep ==
    ASSUME TypeInv, DeletedInv, RosterNext, NEW u \in Users
    PROVE  AsLeft(u)
<1>. RosterTypeOK /\ \A h \in Handlers : jobs[h] \in Job
  BY DEF TypeInv, RosterTypeOK
<1>1. ASSUME NEW h \in Handlers, NEW a \in Users, Request(h, a) PROVE AsLeft(u)
  BY <1>1, SameRowAsLeft DEF Request, CreateRead, UpdateRead, OwnSaveRead, RemoveRead
<1>2. ASSUME NEW v, ~Exists(v), NEW e, NEW ps, accounts' = [accounts EXCEPT ![v] = e],
             grants' = Replaced(v, ps)
      PROVE  AsLeft(u)
  <2>1. CASE u = v
    BY <1>2, <2>1 DEF AsLeft
  <2>2. CASE u # v
    BY <1>2, <2>2, SameRowAsLeft DEF Replaced, RosterTypeOK
  <2>. QED BY <2>1, <2>2
<1>3. ASSUME NEW h \in Handlers, Write(h) PROVE AsLeft(u)
  <2>. DEFINE j == jobs[h]
  <2>1. CASE CreateWrite(h)
    BY <1>2, <2>1, SameRowAsLeft DEF CreateWrite
  <2>2. CASE SaveWrite(h)
    <3>1. j \in SaveJob /\ j.pc \in {"save", "own"}
      BY <2>2, JobForms DEF SaveWrite, Serving
    <3>2. j.target \in Users /\ Present(j.target) /\ ~j.entity.gone /\ j.entity \in Account
      BY <3>1 DEF DeletedInv, HoldsPresent, SaveJob
    <3>3. CASE u # j.target
      BY <2>2, <3>3, SameRowAsLeft DEF SaveWrite, Replaced, RosterTypeOK
    <3>4. CASE u = j.target
      <4>1. accounts'[u] = j.entity
        BY <2>2, <3>4 DEF SaveWrite, RosterTypeOK
      <4>2. Present(u)'
        BY <3>2, <4>1, RosterAssumption DEF Present, Exists
      <4>. QED BY <3>2, <3>4, <4>2 DEF AsLeft
    <3>. QED BY <3>3, <3>4
  <2>3. CASE RemoveWrite(h)
    BY <2>3, MarkedRowAsLeft DEF RemoveWrite, TypeInv, Removable
  <2>. QED BY <1>3, <2>1, <2>2, <2>3 DEF Write
<1>4. ASSUME NEW h \in Handlers, SyncStep(h) PROVE AsLeft(u)
  <2>1. jobs[h] \in SyncJob
    BY <1>4, JobForms DEF SyncStep, ApplyRestore, ApplyCreate, CheckDelete, ApplyDelete, Answer,
                          Serving
  <2>2. jobs[h].restore \in SUBSET Nat /\ jobs[h].delete \in SUBSET Nat
        /\ jobs[h].restore \in SUBSET Users /\ jobs[h].delete \in SUBSET Users
    BY <2>1, RosterAssumption DEF SyncJob
  <2>3. CASE ApplyRestore(h)
    <3>1. First(jobs[h].restore) \in Users
      BY <2>2, <2>3, FirstIsIn DEF ApplyRestore
    <3>. QED BY <2>3, <3>1, SameRowAsLeft, MarkedRowAsLeft DEF ApplyRestore
  <2>4. CASE ApplyCreate(h)
    BY <1>2, <2>4, SameRowAsLeft DEF ApplyCreate
  <2>5. CASE ApplyDelete(h)
    <3>1. First(jobs[h].delete) \in Users /\ Exists(First(jobs[h].delete))
      BY <2>5 DEF ApplyDelete, Serving, TypeInv, Vetted
    <3>. QED BY <2>5, <3>1, MarkedRowAsLeft DEF ApplyDelete
  <2>6. CASE Answer(h) \/ CheckDelete(h)
    BY <2>6, SameRowAsLeft DEF Answer, CheckDelete
  <2>. QED BY <1>4, <2>3, <2>4, <2>5, <2>6 DEF SyncStep
<1>5. ASSUME NEW v \in Users,
             \/ \E issued \in BOOLEAN : SetApiKey(v, issued)
             \/ \E g \in Googles : LinkGoogle(g, v)
      PROVE  AsLeft(u)
  <2>1. CASE u = v
    BY <1>5, <2>1, OwnRow DEF AsLeft
  <2>2. CASE u # v
    BY <1>5, <2>2, OwnRow, SameRowAsLeft
  <2>. QED BY <2>1, <2>2
<1>6. ASSUME Page PROVE AsLeft(u)
  BY <1>6, SameRowAsLeft DEF Page, StartPreview, ResetToUpload, Execute
<1>. QED BY <1>1, <1>3, <1>4, <1>5, <1>6 DEF RosterNext

(* From its deletion to its return nothing of an account changes, so it      *)
(* comes back with the role, key, links and projects it was deleted with     *)
(* (USER_SOFT_DELETE.md), as long as the server serves one request at a      *)
(* time: a save of what was read before a deletion undoes it.                *)
THEOREM ReturnsAsLeftOneAtATime ==
    ASSUME OneAtATime
    PROVE  RosterSpec => ReturnsAsLeft
<1>1. RosterInit => DeletedInv
  BY DEF RosterInit, DeletedInv, HoldsPresent, Serving, Idle
<1>2. TypeInv /\ DeletedInv /\ [RosterNext]_rosterVars => DeletedInv'
  BY DeletedStep
<1>3. TypeInv /\ DeletedInv /\ [RosterNext]_rosterVars =>
          [\A u \in Users : AsLeft(u)]_rosterVars
  BY AsLeftStep
<1>4. RosterSpec => [][\A u \in Users : AsLeft(u)]_rosterVars
  BY <1>1, <1>2, <1>3, TypeInvAlways, PTL DEF RosterSpec
<1>5. (\A u \in Users : AsLeft(u)) <=>
          (\A u \in Users : Exists(u) /\ ~(Present(u) /\ Present(u)') =>
              /\ Exists(u)'
              /\ [accounts[u] EXCEPT !.gone = accounts'[u].gone] = accounts'[u]
              /\ grants'[u] = grants[u])
  BY DEF AsLeft
<1>. QED BY <1>4, <1>5, PTL DEF ReturnsAsLeft

---------------------------------------------------------------------------
(* UserRoster: a sync deletes only who is in no row of the file *)

LEMMA DeleteIsUnlisted ==
    ASSUME NEW a \in Users, NEW f \in File, NEW u \in Users, Preview(a, f)[u] = "delete"
    PROVE  f[u] = "absent" /\ u # a
<1>. DEFINE unlisted == {v \in Users : Present(v) /\ f[v] = "absent"}
            saved == {v \in unlisted \ {a} : AdminsLeft(a, f) = {} /\ IsAdmin(v)}
            item == CASE f[u] = "named" /\ ~Exists(u)               -> "create"
                      [] f[u] = "named" /\ Exists(u) /\ ~Present(u) -> "restore"
                      [] f[u] = "named" /\ Present(u)               -> "unchanged"
                      [] f[u] = "broken"                            -> "error"
                      [] f[u] = "absent" /\ ~Present(u)             -> "none"
                      [] u \in unlisted ->
                            IF u = a \/ (saved # {} /\ u = First(saved)) THEN "kept" ELSE "delete"
<1>1. item = "delete"
  BY DEF Preview
<1>2. f[u] \in {"absent", "broken", "named"}
  BY DEF File
<1>3. (u \in unlisted) = (Present(u) /\ f[u] = "absent")
  OBVIOUS
<1>. HIDE DEF unlisted, saved
<1>. QED BY <1>1, <1>2, <1>3 DEF Present

(* What of the page and of the requests the invariant is about, step by step. *)
LEMMA SyncFrame ==
    ASSUME TypeInv, SyncInv, sync' = sync,
           \A g \in Handlers : jobs'[g].pc = "sync" => jobs'[g] = jobs[g] \/ GoesOn(g)
    PROVE  SyncInv'
<1>1. \A g \in Handlers : jobs'[g].pc = "sync" =>
          /\ jobs[g].pc = "sync"
          /\ jobs'[g].by = jobs[g].by
          /\ jobs'[g].delete \subseteq jobs[g].delete
  BY DEF GoesOn, Serving
<1>2. OneSync'
  BY <1>1 DEF SyncInv, OneSync, Serving
<1>3. MarksUnlisted'
  BY <1>1 DEF SyncInv, MarksUnlisted, Spared, Serving
<1>. QED BY <1>2, <1>3 DEF SyncInv

LEMMA SyncPage ==
    ASSUME TypeInv, SyncInv, Page
    PROVE  SyncInv'
<1>. RosterTypeOK /\ sync \in Sync
  BY DEF TypeInv, RosterTypeOK
<1>1. ASSUME NEW a \in Users, NEW f \in File, StartPreview(a, f) PROVE SyncInv'
  <2>1. \A g \in Handlers : jobs'[g] = jobs[g] /\ jobs[g].pc # "sync"
    BY <1>1 DEF StartPreview, SyncInv, OneSync, Serving
  <2>2. sync'.items = Preview(a, f) /\ sync'.file = f /\ sync'.by = a
    BY <1>1 DEF StartPreview
  <2>3. \A u \in Users : sync'.items[u] = "delete" => sync'.file[u] = "absent" /\ u # sync'.by
    BY <2>2, DeleteIsUnlisted
  <2>. QED BY <2>1, <2>3 DEF SyncInv, OneSync, MarksUnlisted, Spared, Serving
<1>2. ASSUME ResetToUpload PROVE SyncInv'
  <2>1. sync'.step = "upload" /\ sync'.loading = sync.loading /\ jobs' = jobs
    BY <1>2 DEF ResetToUpload, Sync
  <2>. QED BY <2>1 DEF SyncInv, OneSync, MarksUnlisted, Serving
<1>3. ASSUME NEW h \in Handlers, NEW checked \in SUBSET Users, NEW r \in Roles,
             NEW ps \in SUBSET Projects, Execute(h, checked, r, ps)
      PROVE  SyncInv'
  <2>1. /\ sync'.loading /\ sync'.step = "preview" /\ sync'.by = sync.by
        /\ sync'.file = sync.file /\ sync'.items = sync.items
        /\ sync.step = "preview" /\ ~sync.loading
    BY <1>3 DEF Execute, Sync
  <2>2. \A g \in Handlers : g # h => jobs'[g] = jobs[g] /\ jobs[g].pc # "sync"
    BY <1>3, <2>1 DEF Execute, Accept, SyncInv, OneSync, Serving, RosterTypeOK
  <2>3. jobs'[h].by = sync.by /\ jobs'[h].delete = checked \cap Actionable("delete")
    BY <1>3 DEF Execute, Accept, RosterTypeOK
  <2>4. \A u \in jobs'[h].delete : Spared(u)
    BY <2>1, <2>3 DEF Actionable, SyncInv, MarksUnlisted
  <2>5. OneSync'
    BY <2>1, <2>2 DEF OneSync, Serving
  <2>6. MarksUnlisted'
    BY <2>1, <2>2, <2>3, <2>4 DEF SyncInv, MarksUnlisted, Spared, Serving
  <2>. QED BY <2>5, <2>6 DEF SyncInv
<1>. QED BY <1>1, <1>2, <1>3 DEF Page

LEMMA SyncAnswer ==
    ASSUME TypeInv, SyncInv, NEW h \in Handlers, Answer(h)
    PROVE  SyncInv'
<1>1. sync'.step = "result" /\ jobs' = [jobs EXCEPT ![h] = Idle]
  BY DEF Answer, Finish, TypeInv, RosterTypeOK, Sync
<1>2. \A g \in Handlers : jobs'[g].pc # "sync"
  BY <1>1 DEF Answer, SyncInv, OneSync, Serving, Idle, TypeInv, RosterTypeOK
<1>. QED BY <1>1, <1>2 DEF SyncInv, OneSync, MarksUnlisted, Serving

LEMMA SyncStepInv ==
    ASSUME TypeInv, SyncInv, [RosterNext]_rosterVars
    PROVE  SyncInv'
<1>. RosterTypeOK
  BY DEF TypeInv
<1>1. CASE UNCHANGED rosterVars
  BY <1>1, SyncFrame DEF rosterVars
<1>2. CASE RosterNext
  <2>1. CASE sync' # sync
    <3>1. Page \/ \E h \in Handlers : Answer(h)
      BY <1>2, <2>1 DEF RosterNext, Request, CreateRead, UpdateRead, OwnSaveRead, RemoveRead,
         Write, CreateWrite, SaveWrite, RemoveWrite, SyncStep, ApplyRestore, ApplyCreate,
         CheckDelete, ApplyDelete, SetApiKey, LinkGoogle
    <3>. QED BY <3>1, SyncPage, SyncAnswer
  <2>2. CASE sync' = sync
    <3>1. ASSUME NEW g \in Handlers, jobs'[g].pc = "sync"
          PROVE  jobs'[g] = jobs[g] \/ GoesOn(g)
      <4>1. \A a \in Users : ~Request(g, a)
        BY <3>1 DEF Request, CreateRead, UpdateRead, OwnSaveRead, RemoveRead, Accept,
                    RosterTypeOK
      <4>2. ~Submits(g)
        BY <2>2 DEF Submits, Execute, RosterTypeOK, Sync
      <4>3. jobs'[g] # Idle
        BY <3>1 DEF Idle
      <4>. QED BY <1>2, <4>1, <4>2, <4>3, JobOrigin
    <3>. QED BY <2>2, <3>1, SyncFrame
  <2>. QED BY <2>1, <2>2
<1>. QED BY <1>1, <1>2

(* A sync deletes an account only if its address is in no row of the file,   *)
(* correct or not, and never the one who runs it (USER_EXCEL_SYNC.md),       *)
(* whatever else is served at the same time.                                 *)
THEOREM ListedSurviveAlways == RosterSpec => []ListedSurvive
<1>1. RosterInit => SyncInv
  BY DEF RosterInit, SyncInv, OneSync, MarksUnlisted, Serving, Idle
<1>2. TypeInv /\ SyncInv /\ [RosterNext]_rosterVars => SyncInv'
  BY SyncStepInv
<1>3. SyncInv => ListedSurvive
  BY DEF SyncInv, MarksUnlisted, ListedSurvive, Spared
<1>. QED BY <1>1, <1>2, <1>3, TypeInvAlways, PTL DEF RosterSpec

---------------------------------------------------------------------------
(* Masters: the places of a project's masters *)

Apart(o) == \A c, d \in Codes : o[c] > 0 /\ o[d] > 0 /\ c # d => o[c] # o[d]

(* What a request makes of the orders it read: a row past all others, two    *)
(* rows exchanged, or a number of its own for every row.                     *)
Rearranges(w) ==
    \/ /\ w.kind = "insert"
       /\ \E c \in Codes : /\ \A d \in Codes : w.seen[d] < w.to[c]
                           /\ \A d \in Codes \ {c} : w.to[d] = w.seen[d]
    \/ /\ w.kind = "swap"
       /\ \E c, d \in Codes : /\ w.seen[c] > 0 /\ w.seen[d] > 0
                              /\ w.to[c] = w.seen[d] /\ w.to[d] = w.seen[c]
                              /\ \A e \in Codes \ {c, d} : w.to[e] = w.seen[e]
    \/ /\ w.kind = "renumber"
       /\ Apart(w.to)
       /\ \A c \in Codes : w.seen[c] > 0 <=> w.to[c] > 0

(* Nothing was written since it read: rows are as it saw them, or removed.   *)
UpToDate(w) ==
    ~w.crossed => /\ \A c \in Codes : order[c] \in {0, w.seen[c]}
                  /\ ~tangled => Apart(w.seen)

OrderInv ==
    /\ order \in Numbers
    /\ pending \in [Hands -> Writing \cup {None}]
    /\ tangled \in BOOLEAN
    /\ ~tangled => Apart(order)
    /\ \A h \in Hands : pending[h] # None => Rearranges(pending[h]) /\ UpToDate(pending[h])

LEMMA PresentFinite ==
    /\ IsFiniteSet(PresentCodes) /\ PresentCodes \subseteq Codes
BY MastersAssumption, FS_Subset DEF PresentCodes

LEMMA NextOrderIsNew ==
    ASSUME order \in Numbers
    PROVE  /\ NextOrder \in Nat \ {0}
           /\ \A c \in PresentCodes : order[c] < NextOrder
<1>1. CASE PresentCodes = {}
  BY <1>1 DEF NextOrder
<1>2. CASE PresentCodes # {}
  <2>. DEFINE S == {order[c] : c \in PresentCodes}
  <2>1. S \in SUBSET Nat /\ S # {}
    BY <1>2, PresentFinite DEF Numbers
  <2>2. IsFiniteSet(S)
    <3>. DEFINE f == [c \in PresentCodes |-> order[c]]
    <3>1. f \in Surjection(PresentCodes, S)
      BY DEF Surjection
    <3>. HIDE DEF f, S
    <3>. QED BY <3>1, PresentFinite, FS_Surjection
  <2>3. \E m \in S : \A n \in S : n <= m
    <3>. HIDE DEF S
    <3>. QED BY <2>1, <2>2, LargestIsIn
  <2>4. \E m \in S : \A c \in PresentCodes : order[c] <= m
    BY <2>3
  <2>. DEFINE m == CHOOSE n \in S : \A c \in PresentCodes : order[c] <= n
  <2>5. m \in S /\ \A c \in PresentCodes : order[c] <= m
    BY <2>4
  <2>6. NextOrder = 1 + m
    BY <1>2 DEF NextOrder
  <2>7. m \in Nat /\ \A c \in PresentCodes : order[c] \in Nat
    BY <2>1, <2>5, PresentFinite
  <2>. HIDE DEF m, S
  <2>. QED BY <2>5, <2>6, <2>7
<1>. QED BY <1>1, <1>2

(* Numbers read off a list of all the rows are positive and distinct. *)
LEMMA IndexesDistinct ==
    ASSUME NEW S, IsFiniteSet(S), NEW q \in SetToSeqs(S)
    PROVE  /\ \A c \in S : IndexIn(q, c) \in Nat \ {0}
           /\ \A c, d \in S : c # d => IndexIn(q, c) # IndexIn(q, d)
<1>. DEFINE n == Cardinality(S)
<1>1. q \in [1..n -> S] /\ n \in Nat /\ \A s \in S : \E i \in 1..n : q[i] = s
  BY ListsHaveAll
<1>. HIDE DEF n
<1>2. Len(q) = n
  BY <1>1
<1>3. \A c \in S : IndexIn(q, c) \in 1..n /\ q[IndexIn(q, c)] = c
  BY <1>1, <1>2 DEF IndexIn
<1>. QED BY <1>1, <1>3

LEMMA CreationRearranges ==
    ASSUME order \in Numbers, NEW c \in Codes, NEW w \in Writing, w.kind = "insert",
           w.seen = order, w.to = [order EXCEPT ![c] = NextOrder]
    PROVE  Rearranges(w)
<1>1. NextOrder \in Nat \ {0} /\ \A d \in Codes : order[d] > 0 => order[d] < NextOrder
  BY NextOrderIsNew DEF PresentCodes
<1>2. \A d \in Codes : order[d] \in Nat
  BY DEF Numbers
<1>3. w.to[c] = NextOrder /\ \A d \in Codes \ {c} : w.to[d] = order[d]
  BY DEF Numbers
<1>. QED BY <1>1, <1>2, <1>3 DEF Rearranges

LEMMA SwapRearranges ==
    ASSUME order \in Numbers, NEW c \in PresentCodes, NEW all \in ListByProject, NEW up,
           NEW w \in Writing, w.kind = "swap", w.seen = order, w.to = Swapped(all, c, up)
    PROVE  Rearranges(w)
<1>. DEFINE i == IndexIn(all, c)
            j == IF up THEN i - 1 ELSE i + 1
<1>1. all \in SetToSeqs(PresentCodes)
  BY DEF ListByProject
<1>2. all \in [1..Cardinality(PresentCodes) -> PresentCodes] /\ Cardinality(PresentCodes) \in Nat
  BY <1>1, PresentFinite, ListsHaveAll
<1>3. w.to = IF j \in 1..Len(all) THEN [order EXCEPT ![c] = order[all[j]], ![all[j]] = order[c]]
             ELSE order
  BY DEF Swapped
<1>4. \A k \in 1..Len(all) : all[k] \in PresentCodes
  BY <1>2
<1>. HIDE DEF i, j
<1>5. CASE j \in 1..Len(all)
  <2>1. PICK d \in PresentCodes : d = all[j]
    BY <1>4, <1>5
  <2>2. w.to = [order EXCEPT ![c] = order[d], ![d] = order[c]]
    BY <1>3, <1>5, <2>1
  <2>3. c \in Codes /\ d \in Codes /\ order[c] > 0 /\ order[d] > 0
    BY DEF PresentCodes
  <2>4. \A e \in Codes : w.to[e] = IF e = d THEN order[c] ELSE IF e = c THEN order[d] ELSE order[e]
    BY <2>2, <2>3 DEF Numbers
  <2>. QED BY <2>3, <2>4 DEF Rearranges
<1>6. CASE j \notin 1..Len(all)
  <2>1. c \in Codes /\ order[c] > 0
    BY DEF PresentCodes
  <2>. QED BY <1>3, <1>6, <2>1 DEF Rearranges
<1>. QED BY <1>5, <1>6

LEMMA SwappedTyped ==
    ASSUME order \in Numbers, NEW c \in PresentCodes, NEW all \in ListByProject, NEW up
    PROVE  Swapped(all, c, up) \in Numbers
<1>. DEFINE i == IndexIn(all, c)
            j == IF up THEN i - 1 ELSE i + 1
<1>1. all \in SetToSeqs(PresentCodes)
  BY DEF ListByProject
<1>2. all \in [1..Cardinality(PresentCodes) -> PresentCodes] /\ Cardinality(PresentCodes) \in Nat
  BY <1>1, PresentFinite, ListsHaveAll
<1>3. \A k \in 1..Len(all) : all[k] \in Codes
  BY <1>2 DEF PresentCodes
<1>4. Swapped(all, c, up) =
        IF j \in 1..Len(all) THEN [order EXCEPT ![c] = order[all[j]], ![all[j]] = order[c]]
        ELSE order
  BY DEF Swapped
<1>5. \A d \in Codes : order[d] \in Nat
  BY DEF Numbers
<1>6. c \in Codes
  BY DEF PresentCodes
<1>. HIDE DEF i, j
<1>. QED BY <1>3, <1>4, <1>5, <1>6 DEF Numbers

LEMMA DragRearranges ==
    ASSUME order \in Numbers, NEW all \in SetToSeqs(PresentCodes),
           NEW w \in Writing, w.kind = "renumber", w.seen = order, w.to = Reordered(all)
    PROVE  Rearranges(w)
<1>1. /\ \A c \in PresentCodes : IndexIn(all, c) \in Nat \ {0}
      /\ \A c, d \in PresentCodes : c # d => IndexIn(all, c) # IndexIn(all, d)
  BY PresentFinite, IndexesDistinct
<1>2. \A c \in Codes : w.to[c] = IF c \in PresentCodes THEN IndexIn(all, c) ELSE 0
  BY DEF Reordered
<1>3. \A c \in Codes : c \in PresentCodes <=> order[c] > 0
  BY DEF PresentCodes
<1>. HIDE DEF PresentCodes
<1>4. \A c \in Codes : order[c] > 0 <=> w.to[c] > 0
  BY <1>1, <1>2, <1>3
<1>5. Apart(w.to)
  <2>. SUFFICES ASSUME NEW c \in Codes, NEW d \in Codes, w.to[c] > 0, w.to[d] > 0, c # d
                PROVE  w.to[c] # w.to[d]
    BY DEF Apart
  <2>. QED BY <1>1, <1>2, <1>3, <1>4
<1>. QED BY <1>4, <1>5 DEF Rearranges

(* A request reads: what it saw is what there is.                            *)
LEMMA PrepareStep ==
    ASSUME OrderInv, NEW h \in Hands, NEW kind \in {"insert", "swap", "renumber"},
           NEW to \in Numbers, Prepare(h, kind, to),
           \A w \in Writing : w.kind = kind /\ w.seen = order /\ w.to = to => Rearranges(w)
    PROVE  OrderInv'
<1>. DEFINE w == [kind |-> kind, seen |-> order, to |-> to, crossed |-> FALSE]
<1>1. w \in Writing /\ w.kind = kind /\ w.seen = order /\ w.to = to /\ w.crossed = FALSE
  BY DEF Writing, OrderInv
<1>2. pending' = [pending EXCEPT ![h] = w] /\ UNCHANGED <<order, tangled>>
  BY DEF Prepare
<1>3. Rearranges(w)
  BY <1>1
<1>4. UpToDate(w)
  BY <1>1 DEF UpToDate, OrderInv
<1>. HIDE DEF w
<1>5. \A g \in Hands : pending'[g] # None => Rearranges(pending'[g]) /\ UpToDate(pending'[g])
  BY <1>2, <1>3, <1>4 DEF OrderInv
<1>6. pending' \in [Hands -> Writing \cup {None}]
  BY <1>1, <1>2 DEF OrderInv
<1>. QED BY <1>2, <1>5, <1>6 DEF OrderInv, UpToDate

(* A request that none overtook leaves all apart, if it found them so or     *)
(* numbers all of them.                                                      *)
LEMMA SavedApart ==
    ASSUME order \in Numbers, NEW w \in Writing, Rearranges(w),
           \A c \in Codes : order[c] \in {0, w.seen[c]},
           w.kind = "renumber" \/ Apart(w.seen)
    PROVE  Apart(AfterSave(w))
<1>. DEFINE o == AfterSave(w)
<1>1. \A c \in Codes : o[c] = IF w.to[c] # w.seen[c] /\ (order[c] > 0 \/ w.kind = "insert")
                              THEN w.to[c] ELSE order[c]
  BY DEF AfterSave, PresentCodes
<1>2. \A c \in Codes : order[c] \in Nat /\ w.to[c] \in Nat /\ w.seen[c] \in Nat
  BY DEF Numbers, Writing
<1>. SUFFICES Apart(o)
  OBVIOUS
<1>. HIDE DEF o
<1>3. CASE w.kind = "insert"
  <2>1. PICK c \in Codes : /\ \A d \in Codes : w.seen[d] < w.to[c]
                           /\ \A d \in Codes \ {c} : w.to[d] = w.seen[d]
    BY <1>3 DEF Rearranges
  <2>2. o[c] = w.to[c] /\ \A d \in Codes \ {c} : o[d] = order[d]
    BY <1>1, <1>2, <1>3, <2>1
  <2>3. \A d, e \in Codes : order[d] > 0 /\ order[e] > 0 /\ d # e => order[d] # order[e]
    BY <1>2, <1>3 DEF Apart
  <2>4. \A d \in Codes \ {c} : o[d] < o[c]
    BY <1>2, <2>1, <2>2
  <2>. SUFFICES ASSUME NEW d \in Codes, NEW e \in Codes, o[d] > 0, o[e] > 0, d # e
                PROVE  o[d] # o[e]
    BY DEF Apart
  <2>5. \A x \in Codes : o[x] \in Nat
    BY <1>1, <1>2
  <2>. QED BY <2>2, <2>3, <2>4, <2>5
<1>4. CASE w.kind = "swap"
  <2>1. PICK c \in Codes, d \in Codes :
              /\ w.seen[c] > 0 /\ w.seen[d] > 0
              /\ w.to[c] = w.seen[d] /\ w.to[d] = w.seen[c]
              /\ \A e \in Codes \ {c, d} : w.to[e] = w.seen[e]
    BY <1>4 DEF Rearranges
  <2>2. \A e \in Codes : o[e] \in {0, w.to[e]}
    BY <1>1, <1>2, <1>4
  <2>3. \A e, f \in Codes : w.seen[e] > 0 /\ w.seen[f] > 0 /\ e # f => w.seen[e] # w.seen[f]
    BY <1>4 DEF Apart
  <2>4. \A e, f \in Codes : w.to[e] > 0 /\ w.to[f] > 0 /\ e # f => w.to[e] # w.to[f]
    BY <1>2, <2>1, <2>3
  <2>. QED BY <2>2, <2>4 DEF Apart
<1>5. CASE w.kind = "renumber"
  <2>1. Apart(w.to) /\ \A c \in Codes : w.seen[c] > 0 <=> w.to[c] > 0
    BY <1>5 DEF Rearranges
  <2>2. \A c \in Codes : o[c] \in {0, w.to[c]}
    BY <1>1, <1>2, <1>5
  <2>. QED BY <2>1, <2>2 DEF Apart
<1>. QED BY <1>3, <1>4, <1>5 DEF Writing

LEMMA SaveStep ==
    ASSUME OrderInv, NEW h \in Hands, SavePlaces(h)
    PROVE  OrderInv'
<1>. DEFINE w == pending[h]
<1>1. w \in Writing /\ Rearranges(w) /\ UpToDate(w)
  BY DEF SavePlaces, OrderInv
<1>2. /\ order' = AfterSave(w) /\ pending' = Overtaken(h)
      /\ tangled' = (w.crossed \/ (tangled /\ w.kind # "renumber"))
  BY DEF SavePlaces
<1>3. order' \in Numbers
  <2>1. \A c \in Codes : order[c] \in Nat /\ w.to[c] \in Nat
    BY <1>1 DEF OrderInv, Numbers, Writing
  <2>. HIDE DEF w
  <2>. QED BY <1>2, <2>1 DEF AfterSave, Numbers
<1>4. tangled' \in BOOLEAN
  BY <1>2
<1>5. ~tangled' => Apart(order')
  <2>. SUFFICES ASSUME ~tangled' PROVE Apart(order')
    OBVIOUS
  <2>1. ~w.crossed
    BY <1>2
  <2>2. w.kind = "renumber" \/ ~tangled
    BY <1>2
  <2>3. /\ \A c \in Codes : order[c] \in {0, w.seen[c]}
        /\ w.kind = "renumber" \/ Apart(w.seen)
    BY <1>1, <2>1, <2>2 DEF UpToDate
  <2>4. order \in Numbers
    BY DEF OrderInv
  <2>. HIDE DEF w
  <2>5. Apart(AfterSave(w))
    BY <1>1, <2>3, <2>4, SavedApart
  <2>. QED BY <1>2, <2>5
<1>6. \A g \in Hands : \/ pending'[g] = None
                       \/ /\ pending[g] \in Writing
                          /\ pending'[g] = [pending[g] EXCEPT !.crossed = TRUE]
  BY <1>2 DEF Overtaken, OrderInv
<1>7. \A v \in Writing : LET x == [v EXCEPT !.crossed = TRUE]
                         IN x \in Writing /\ x.crossed /\ x.kind = v.kind
                            /\ x.seen = v.seen /\ x.to = v.to
  BY DEF Writing
<1>8. \A g \in Hands : pending'[g] # None =>
            /\ pending'[g] \in Writing /\ pending'[g].crossed
            /\ pending[g] # None /\ pending'[g].kind = pending[g].kind
            /\ pending'[g].seen = pending[g].seen /\ pending'[g].to = pending[g].to
  BY <1>6, <1>7, <1>2 DEF Overtaken
<1>9. (\A g \in Hands : pending[g] # None => Rearranges(pending[g]) /\ UpToDate(pending[g]))'
  BY <1>8 DEF OrderInv, Rearranges, UpToDate
<1>10. pending' \in [Hands -> Writing \cup {None}]
  BY <1>2, <1>8 DEF Overtaken
<1>. QED BY <1>3, <1>4, <1>5, <1>9, <1>10 DEF OrderInv

(* A row that goes leaves the others apart.                                  *)
LEMMA RemovalStep ==
    ASSUME OrderInv, NEW c \in Codes, order' = [order EXCEPT ![c] = 0],
           UNCHANGED <<pending, tangled>>
    PROVE  OrderInv'
<1>1. order' \in Numbers /\ \A d \in Codes : order'[d] = IF d = c THEN 0 ELSE order[d]
  BY DEF OrderInv, Numbers
<1>2. \A d \in Codes : order'[d] \in {0, order[d]}
  BY <1>1
<1>3. ~tangled' => Apart(order')
  BY <1>2 DEF OrderInv, Apart
<1>4. \A h \in Hands : pending[h] # None => UpToDate(pending[h])'
  BY <1>2 DEF OrderInv, UpToDate
<1>. QED BY <1>1, <1>3, <1>4 DEF OrderInv

LEMMA OrderStep ==
    ASSUME OrderInv, [MastersNext]_mastersVars
    PROVE  OrderInv'
<1>1. CASE UNCHANGED orderVars
  BY <1>1 DEF OrderInv, UpToDate, orderVars
<1>2. ASSUME NEW h \in Hands, NEW c \in Codes, CreateMaster(h, c) PROVE OrderInv'
  <2>. DEFINE to == [order EXCEPT ![c] = NextOrder]
  <2>1. Prepare(h, "insert", to)
    BY <1>2 DEF CreateMaster
  <2>2. to \in Numbers
    BY NextOrderIsNew DEF OrderInv, Numbers
  <2>3. \A w \in Writing : w.kind = "insert" /\ w.seen = order /\ w.to = to => Rearranges(w)
    BY CreationRearranges DEF OrderInv
  <2>. HIDE DEF to
  <2>. QED BY <2>1, <2>2, <2>3, PrepareStep
<1>3. ASSUME NEW h \in Hands, NEW c \in Codes, NEW up \in BOOLEAN, MoveMaster(h, c, up)
      PROVE  OrderInv'
  <2>1. PICK all \in ListByProject : Prepare(h, "swap", Swapped(all, c, up))
    BY <1>3 DEF MoveMaster
  <2>. DEFINE to == Swapped(all, c, up)
  <2>2. c \in PresentCodes /\ order \in Numbers
    BY <1>3 DEF MoveMaster, OrderInv
  <2>3. \A w \in Writing : w.kind = "swap" /\ w.seen = order /\ w.to = to => Rearranges(w)
    BY <2>2, SwapRearranges
  <2>4. to \in Numbers
    BY <2>2, SwappedTyped
  <2>. HIDE DEF to
  <2>. QED BY <2>1, <2>3, <2>4, PrepareStep DEF to
<1>4. ASSUME NEW h \in Hands, DragEnd(h) PROVE OrderInv'
  <2>1. PICK all \in SetToSeqs(PresentCodes) : Prepare(h, "renumber", Reordered(all))
    BY <1>4 DEF DragEnd
  <2>. DEFINE to == Reordered(all)
  <2>2. \A w \in Writing : w.kind = "renumber" /\ w.seen = order /\ w.to = to => Rearranges(w)
    BY DragRearranges DEF OrderInv
  <2>3. to \in Numbers
    <3>1. \A d \in PresentCodes : IndexIn(all, d) \in Nat
      BY PresentFinite, IndexesDistinct
    <3>. QED BY <3>1 DEF Reordered, Numbers
  <2>. HIDE DEF to
  <2>. QED BY <2>1, <2>2, <2>3, PrepareStep DEF to
<1>5. ASSUME NEW h \in Hands, SavePlacesFails(h) PROVE OrderInv'
  BY <1>5 DEF SavePlacesFails, OrderInv, UpToDate
<1>6. ASSUME NEW c \in Codes, RemoveMaster(c) PROVE OrderInv'
  BY <1>6, RemovalStep DEF RemoveMaster
<1>7. CASE ConfirmDelete
  <2>1. CASE dialog.of \in Codes
    BY <1>7, <2>1, RemovalStep DEF ConfirmDelete
  <2>2. CASE dialog.of \notin Codes
    BY <1>1, <1>7, <2>2 DEF ConfirmDelete, orderVars
  <2>. QED BY <2>1, <2>2
<1>8. \/ UNCHANGED orderVars
      \/ MasterRequest
      \/ \E h \in Hands : DragEnd(h)
      \/ ConfirmDelete
  BY DEF MastersNext, MarkRequest, CreateMark, RemoveMark, FlagRequest, FlagOp, DeptRequest,
         CreateDept, RemoveDept, ItemRequest, SetStatus, SetDept, SetMarks, SetSubmarks,
         RemoveDeptRow, RemoveDeptFails, OrderNext, OrderPage, DeletePage, Load, Drag, AskDelete,
         CloseDialog, mastersVars, orderVars
<1>. QED BY <1>1, <1>2, <1>3, <1>4, <1>5, <1>6, <1>7, <1>8, SaveStep DEF MasterRequest

LEMMA OrderInvAlways == MastersSpec => []OrderInv
<1>1. MastersInit => OrderInv
  <2>. SUFFICES ASSUME NEW n \in 1..Cardinality(Codes), NEW ms \in SUBSET Marks, NEW c \in Codes,
                       MastersFrom(n, ms, c)
                PROVE  OrderInv
    BY DEF MastersInit
  <2>. DEFINE q == SetToSeq(Codes)
  <2>1. q \in SetToSeqs(Codes)
    BY FirstList, MastersAssumption
  <2>2. /\ order = [d \in Codes |-> IF IndexIn(q, d) <= n THEN IndexIn(q, d) ELSE 0]
        /\ pending = [h \in Hands |-> None] /\ tangled = FALSE
    BY DEF MastersFrom
  <2>. HIDE DEF q
  <2>3. /\ \A d \in Codes : IndexIn(q, d) \in Nat \ {0}
        /\ \A d, e \in Codes : d # e => IndexIn(q, d) # IndexIn(q, e)
    BY <2>1, MastersAssumption, IndexesDistinct
  <2>4. \A d \in Codes : order[d] = IF IndexIn(q, d) <= n THEN IndexIn(q, d) ELSE 0
    BY <2>2
  <2>5. order \in Numbers
    BY <2>2, <2>3 DEF Numbers
  <2>6. Apart(order)
    BY <2>3, <2>4 DEF Apart
  <2>7. \A h \in Hands : pending[h] = None
    BY <2>2
  <2>8. pending \in [Hands -> Writing \cup {None}] /\ tangled \in BOOLEAN
    BY <2>2
  <2>. QED BY <2>5, <2>6, <2>7, <2>8 DEF OrderInv
<1>2. OrderInv /\ [MastersNext]_mastersVars => OrderInv'
  BY OrderStep
<1>. QED BY <1>1, <1>2, PTL DEF MastersSpec

(* Creations past the largest place read, moves over a gap and drags on a    *)
(* page that misses a row, each read and written in two steps with others in *)
(* between: two masters of a project stand in one place only after a write   *)
(* that another had overtaken, and not after a drag that none overtook, for  *)
(* any number of masters and of requests at once.                            *)
THEOREM OrdersDistinctAlways == MastersSpec => []OrdersDistinct
<1>1. OrderInv => OrdersDistinct
  BY DEF OrderInv, OrdersDistinct, Apart, PresentCodes
<1>. QED BY <1>1, OrderInvAlways, PTL

---------------------------------------------------------------------------
(* Masters: the trail of flags *)

(* A flag the trail names has been given out, so a new one is in no trail.   *)
MarkInv ==
    /\ items \in [Items -> Item]
    /\ trail \in [Items -> SUBSET Marks]
    /\ marks \subseteq Marks \cap spent
    /\ \A t \in Items : trail[t] \subseteq spent
    /\ FlagTrail

LEMMA ItemStatus ==
    ASSUME NEW item \in Item, NEW c \in Codes
    PROVE  [item EXCEPT !.status = c] \in Item /\ [item EXCEPT !.status = c].marks = item.marks
BY DEF Item

LEMMA ItemDept ==
    ASSUME NEW item \in Item, NEW d \in Depts \cup {None}
    PROVE  [item EXCEPT !.dept = d] \in Item /\ [item EXCEPT !.dept = d].marks = item.marks
BY DEF Item

LEMMA ItemMarks ==
    ASSUME NEW item \in Item, NEW ms \in SUBSET Marks
    PROVE  /\ [item EXCEPT !.marks = ms] \in Item /\ [item EXCEPT !.marks = ms].marks = ms
           /\ [item EXCEPT !.submarks = ms] \in Item
           /\ [item EXCEPT !.submarks = ms].marks = item.marks
BY DEF Item

LEMMA ItemBothMarks ==
    ASSUME NEW item \in Item, NEW ms \in SUBSET Marks, NEW ns \in SUBSET Marks
    PROVE  /\ [item EXCEPT !.marks = ms, !.submarks = ns] \in Item
           /\ [item EXCEPT !.marks = ms, !.submarks = ns].marks = ms
BY DEF Item

(* A step that touches neither flags nor their trail. *)
LEMMA MarksKept ==
    ASSUME MarkInv, items' \in [Items -> Item], \A t \in Items : items'[t].marks = items[t].marks,
           UNCHANGED <<trail, marks>>, spent \subseteq spent'
    PROVE  MarkInv'
BY DEF MarkInv, FlagTrail

(* A flag that goes takes its links along: those left are in the trail.      *)
LEMMA MarkGoes ==
    ASSUME MarkInv, NEW m, marks' = marks \ {m}, UNCHANGED <<trail, spent>>,
           items' = [t \in Items |-> [items[t] EXCEPT !.marks = @ \ {m}, !.submarks = @ \ {m}]]
    PROVE  MarkInv'
<1>1. \A t \in Items : items'[t] \in Item /\ items'[t].marks = items[t].marks \ {m}
  <2>. TAKE t \in Items
  <2>1. items[t] \in Item
    BY DEF MarkInv
  <2>2. items[t].marks \ {m} \in SUBSET Marks /\ items[t].submarks \ {m} \in SUBSET Marks
    BY <2>1 DEF Item
  <2>. DEFINE ms == items[t].marks \ {m}
              ns == items[t].submarks \ {m}
              e == [items[t] EXCEPT !.marks = ms, !.submarks = ns]
  <2>3. items'[t] = e
    OBVIOUS
  <2>5. ms \in SUBSET Marks /\ ns \in SUBSET Marks
    BY <2>2
  <2>4. e \in Item /\ e.marks = ms
    <3>. HIDE DEF ms, ns
    <3>. QED BY <2>1, <2>5, ItemBothMarks
  <2>. HIDE DEF e
  <2>. QED BY <2>3, <2>4
<1>2. items' \in [Items -> Item]
  BY <1>1
<1>. QED BY <1>1, <1>2 DEF MarkInv, FlagTrail

(* What a bulk operation writes into the links, and what it computes for the *)
(* trail from the sets read before, is the same set.                         *)
LEMMA LoggedIsWritten ==
    ASSUME NEW op \in {"detach", "copy", "move"}, NEW s \in marks, NEW m,
           op # "detach" => m \in marks /\ m # s, NEW codes \in SUBSET marks
    PROVE  /\ Relinked(op, s, m, codes) \in SUBSET marks
           /\ s \notin codes => Relinked(op, s, m, codes) = codes
           /\ s \in codes => Relinked(op, s, m, codes) = LoggedAfter(op, s, m, codes)
<1>1. CASE op = "detach"
  BY <1>1 DEF Relinked, LoggedAfter
<1>2. CASE op = "copy"
  BY <1>2 DEF Relinked, LoggedAfter
<1>3. CASE op = "move"
  BY <1>3 DEF Relinked, LoggedAfter
<1>. QED BY <1>1, <1>2, <1>3

LEMMA FlagOpMarks ==
    ASSUME MarkInv, NEW op \in {"detach", "copy", "move"}, NEW s \in Marks, NEW m \in Marks,
           FlagOp(op, s, m)
    PROVE  MarkInv'
<1>. DEFINE links(t) == Relinked(op, s, m, items[t].marks)
            sublinks(t) == Relinked(op, s, m, items[t].submarks)
<1>1. /\ s \in marks /\ (op # "detach" => m \in marks /\ m # s)
      /\ \A t \in Items : /\ items'[t] = [items[t] EXCEPT !.marks = links(t), !.submarks = sublinks(t)]
                          /\ trail'[t] = IF s \in items[t].marks
                                            /\ LoggedAfter(op, s, m, items[t].marks) # items[t].marks
                                         THEN LoggedAfter(op, s, m, items[t].marks) ELSE trail[t]
      /\ UNCHANGED <<marks, spent>>
      /\ items' = [t \in Items |-> items'[t]] /\ trail' = [t \in Items |-> trail'[t]]
  BY DEF FlagOp
<1>2. \A t \in Items : /\ items[t] \in Item /\ items[t].marks \in SUBSET marks
                       /\ trail[t] \cap marks = items[t].marks
  BY DEF MarkInv, FlagTrail
<1>3. \A t \in Items : sublinks(t) \in SUBSET Marks
  <2>1. \A t \in Items : items[t].submarks \in SUBSET Marks
    BY <1>2 DEF Item
  <2>. QED BY <2>1 DEF Relinked
<1>4. \A t \in Items : /\ links(t) \in SUBSET marks
                       /\ s \notin items[t].marks => links(t) = items[t].marks
                       /\ s \in items[t].marks =>
                             links(t) = LoggedAfter(op, s, m, items[t].marks)
  <2>. TAKE t \in Items
  <2>. DEFINE codes == items[t].marks
  <2>1. codes \in SUBSET marks
    BY <1>2
  <2>3. s \in marks /\ (op # "detach" => m \in marks /\ m # s)
    BY <1>1
  <2>. HIDE DEF codes
  <2>2. /\ Relinked(op, s, m, codes) \in SUBSET marks
        /\ s \notin codes => Relinked(op, s, m, codes) = codes
        /\ s \in codes => Relinked(op, s, m, codes) = LoggedAfter(op, s, m, codes)
    BY <2>1, <2>3, LoggedIsWritten
  <2>. QED BY <2>2 DEF codes
<1>5. marks \subseteq Marks /\ marks \subseteq spent
  BY DEF MarkInv
<1>6. \A t \in Items : items'[t] \in Item /\ items'[t].marks = links(t)
  <2>. TAKE t \in Items
  <2>1. links(t) \in SUBSET Marks /\ sublinks(t) \in SUBSET Marks /\ items[t] \in Item
    BY <1>2, <1>3, <1>4, <1>5
  <2>. DEFINE ms == links(t)
              ns == sublinks(t)
              e == [items[t] EXCEPT !.marks = ms, !.submarks = ns]
  <2>2. items'[t] = e
    BY <1>1
  <2>4. ms \in SUBSET Marks /\ ns \in SUBSET Marks
    BY <2>1
  <2>3. e \in Item /\ e.marks = ms
    <3>. HIDE DEF ms, ns
    <3>. QED BY <2>1, <2>4, ItemBothMarks
  <2>. HIDE DEF e
  <2>. QED BY <2>2, <2>3
<1>. HIDE DEF links, sublinks
<1>7. \A t \in Items : /\ trail'[t] \cap marks = links(t)
                       /\ trail'[t] \in {trail[t], links(t)}
  <2>. TAKE t \in Items
  <2>. DEFINE before == items[t].marks
              after == LoggedAfter(op, s, m, before)
              t1 == trail'[t]
  <2>1. t1 = IF s \in before /\ after # before THEN after ELSE trail[t]
    BY <1>1
  <2>2. /\ links(t) \in SUBSET marks
        /\ s \notin before => links(t) = before
        /\ s \in before => links(t) = after
        /\ trail[t] \cap marks = before
    BY <1>2, <1>4
  <2>. HIDE DEF before, after, t1
  <2>3. t1 \cap marks = links(t) /\ t1 \in {trail[t], links(t)}
    BY <2>1, <2>2
  <2>. QED BY <2>3 DEF t1
<1>8. items' \in [Items -> Item] /\ trail' \in [Items -> SUBSET Marks]
  <2>1. \A t \in Items : trail'[t] \in SUBSET Marks
    BY <1>4, <1>5, <1>7 DEF MarkInv
  <2>. QED BY <1>1, <1>6, <2>1
<1>. QED BY <1>1, <1>4, <1>5, <1>6, <1>7, <1>8 DEF MarkInv, FlagTrail

LEMMA MarkStep ==
    ASSUME MarkInv, [MastersNext]_mastersVars
    PROVE  MarkInv'
<1>1. CASE UNCHANGED <<items, trail, marks>> /\ spent \subseteq spent'
  BY <1>1, MarksKept DEF MarkInv
<1>2. CASE MarkRequest
  <2>1. ASSUME NEW m \in Marks, CreateMark(m) PROVE MarkInv'
    BY <2>1 DEF CreateMark, MarkInv, FlagTrail
  <2>2. ASSUME NEW m \in Marks, RemoveMark(m) PROVE MarkInv'
    BY <2>2, MarkGoes DEF RemoveMark
  <2>. QED BY <1>2, <2>1, <2>2 DEF MarkRequest
<1>3. CASE FlagRequest
  BY <1>3, FlagOpMarks DEF FlagRequest
<1>4. CASE DeptRequest
  <2>1. ASSUME NEW d \in Depts, RemoveDept(d) PROVE MarkInv'
    <3>1. \A t \in Items : items'[t] \in Item /\ items'[t].marks = items[t].marks
      <4>. TAKE t \in Items
      <4>. DEFINE e == [items[t] EXCEPT !.dept = None]
      <4>1. items[t] \in Item
        BY DEF MarkInv
      <4>2. e \in Item /\ e.marks = items[t].marks
        BY <4>1, ItemDept
      <4>3. items'[t] = e \/ items'[t] = items[t]
        BY <2>1 DEF RemoveDept
      <4>. HIDE DEF e
      <4>. QED BY <4>1, <4>2, <4>3
    <3>. QED BY <2>1, <3>1, MarksKept DEF RemoveDept
  <2>. QED BY <1>1, <1>4, <2>1 DEF DeptRequest, CreateDept
<1>5. CASE ItemRequest
  <2>1. ASSUME NEW t \in Items, NEW c \in Codes, SetStatus(t, c) PROVE MarkInv'
    <3>. DEFINE e == [items[t] EXCEPT !.status = c]
    <3>1. items' = [items EXCEPT ![t] = e]
      BY <2>1 DEF SetStatus
    <3>3. items \in [Items -> Item]
      BY DEF MarkInv
    <3>4. e \in Item /\ e.marks = items[t].marks
      BY <3>3, ItemStatus
    <3>. HIDE DEF e
    <3>2. items' \in [Items -> Item] /\ \A u \in Items : items'[u].marks = items[u].marks
      BY <3>1, <3>3, <3>4
    <3>. QED BY <2>1, <3>2, MarksKept DEF SetStatus
  <2>2. ASSUME NEW t \in Items, NEW d \in Depts \cup {None}, SetDept(t, d) PROVE MarkInv'
    <3>. DEFINE e == [items[t] EXCEPT !.dept = d]
    <3>1. items' = [items EXCEPT ![t] = e]
      BY <2>2 DEF SetDept
    <3>3. items \in [Items -> Item]
      BY DEF MarkInv
    <3>4. e \in Item /\ e.marks = items[t].marks
      BY <3>3, ItemDept
    <3>. HIDE DEF e
    <3>2. items' \in [Items -> Item] /\ \A u \in Items : items'[u].marks = items[u].marks
      BY <3>1, <3>3, <3>4
    <3>. QED BY <2>2, <3>2, MarksKept DEF SetDept
  <2>3. ASSUME NEW t \in Items, NEW ms \in SUBSET Marks, SetSubmarks(t, ms) PROVE MarkInv'
    <3>. DEFINE kept == ms \cap marks
                e == [items[t] EXCEPT !.submarks = kept]
    <3>1. items' = [items EXCEPT ![t] = e]
      BY <2>3 DEF SetSubmarks
    <3>2. kept \in SUBSET Marks
      OBVIOUS
    <3>4. items \in [Items -> Item]
      BY DEF MarkInv
    <3>5. e \in Item /\ e.marks = items[t].marks
      <4>. HIDE DEF kept
      <4>. QED BY <3>2, <3>4, ItemMarks
    <3>. HIDE DEF e
    <3>3. items' \in [Items -> Item] /\ \A u \in Items : items'[u].marks = items[u].marks
      BY <3>1, <3>4, <3>5
    <3>. QED BY <2>3, <3>3, MarksKept DEF SetSubmarks
  <2>4. ASSUME NEW t \in Items, NEW ms \in SUBSET Marks, SetMarks(t, ms) PROVE MarkInv'
    <3>. DEFINE kept == ms \cap marks
                e == [items[t] EXCEPT !.marks = kept]
    <3>1. items' = [items EXCEPT ![t] = e]
          /\ UNCHANGED <<marks, spent>>
      BY <2>4 DEF SetMarks
    <3>2. kept \in SUBSET Marks /\ kept \subseteq marks
      OBVIOUS
    <3>3. trail' = IF kept = items[t].marks THEN trail ELSE [trail EXCEPT ![t] = kept]
      BY <2>4 DEF SetMarks
    <3>. HIDE DEF kept
    <3>5. items \in [Items -> Item]
      BY DEF MarkInv
    <3>6. e \in Item /\ e.marks = kept
      BY <3>2, <3>5, ItemMarks
    <3>. HIDE DEF e
    <3>4. /\ items' \in [Items -> Item]
          /\ \A u \in Items : items'[u].marks = IF u = t THEN kept ELSE items[u].marks
      BY <3>1, <3>5, <3>6
    <3>. QED BY <3>1, <3>2, <3>3, <3>4 DEF MarkInv, FlagTrail
  <2>. QED BY <1>5, <2>1, <2>2, <2>3, <2>4 DEF ItemRequest
<1>6. CASE ConfirmDelete
  <2>1. CASE dialog.of \in Codes
    BY <1>1, <1>6, <2>1 DEF ConfirmDelete
  <2>2. CASE dialog.of \notin Codes
    BY <1>6, <2>2, MarkGoes DEF ConfirmDelete
  <2>. QED BY <2>1, <2>2
<1>7. \/ UNCHANGED <<items, trail, marks>> /\ spent \subseteq spent'
      \/ MarkRequest \/ FlagRequest \/ DeptRequest \/ ItemRequest
      \/ ConfirmDelete
  BY DEF MastersNext, MasterRequest, CreateMaster, RemoveMaster, MoveMaster, RemoveDeptRow,
         RemoveDeptFails, OrderNext, OrderPage, DeletePage, SavePlaces, SavePlacesFails, Prepare,
         Load, Drag, DragEnd, AskDelete, CloseDialog, mastersVars
<1>. QED BY <1>1, <1>2, <1>3, <1>4, <1>5, <1>6, <1>7

LEMMA MarkInvAlways == MastersSpec => []MarkInv
<1>1. MastersInit => MarkInv
  <2>. SUFFICES ASSUME NEW n \in 1..Cardinality(Codes), NEW ms \in SUBSET Marks, NEW c \in Codes,
                       MastersFrom(n, ms, c)
                PROVE  MarkInv
    BY DEF MastersInit
  <2>. QED BY DEF MastersFrom, MarkInv, FlagTrail, Item
<1>2. MarkInv /\ [MastersNext]_mastersVars => MarkInv'
  BY MarkStep
<1>. QED BY <1>1, <1>2, PTL DEF MastersSpec

(* The bulk operations on flags log what they compute from a read of their   *)
(* own, and delete and set flags log nothing or what the request named: the  *)
(* last entry of a task's trail still names the flags it has, but for those  *)
(* deleted since.                                                            *)
THEOREM FlagTrailAlways == MastersSpec => []FlagTrail
<1>1. MarkInv => FlagTrail
  BY DEF MarkInv
<1>. QED BY <1>1, MarkInvAlways, PTL

---------------------------------------------------------------------------
(* Masters: types *)

LEMMA RowsInOrder ==
    ASSUME NEW q \in ListByProject
    PROVE  q \in Seq(Codes)
<1>1. q \in [1..Cardinality(PresentCodes) -> PresentCodes] /\ Cardinality(PresentCodes) \in Nat
  BY PresentFinite, FS_CardinalityType DEF ListByProject, SetToSeqs
<1>. QED BY <1>1, PresentFinite

(* The tables of masters and tasks, the trail, a removal half done, the page *)
(* and its dialog have their types: the page's list holds masters only,      *)
(* however many drags and reloads.                                           *)
THEOREM MastersTypeCorrect == MastersSpec => []MastersTypeOK
<1>. DEFINE Board == [shown : Seq(Codes), step : {"idle", "dropped", "sent", "reload"}]
            MasterRest == /\ depts \in SUBSET Depts /\ removal \in Depts \cup {None} /\ board \in Board
                    /\ dialog \in {None} \cup [of : Codes \cup Marks, tasks : Nat]
                    /\ spent \subseteq Codes \cup Marks /\ requests \in 0..MaxPlacings
<1>1. MastersInit => MasterRest
  <2>. SUFFICES ASSUME NEW n \in 1..Cardinality(Codes), NEW ms \in SUBSET Marks, NEW c \in Codes,
                       MastersFrom(n, ms, c)
                PROVE  MasterRest
    BY DEF MastersInit
  <2>1. <<>> \in Seq(Codes) /\ PresentCodes \subseteq Codes
    BY DEF PresentCodes
  <2>2. board \in Board
    BY <2>1 DEF MastersFrom
  <2>. QED BY <2>1, <2>2, MastersAssumption DEF MastersFrom
<1>2. OrderInv /\ MarkInv /\ MasterRest /\ [MastersNext]_mastersVars => MasterRest'
  <2>. SUFFICES ASSUME OrderInv, MarkInv, MasterRest, [MastersNext]_mastersVars PROVE MasterRest'
    OBVIOUS
  <2>0. Serve \/ ServePlacing => requests' \in 0..MaxPlacings
    BY MastersAssumption DEF Serve, ServePlacing
  <2>1. CASE MasterRequest
    BY <2>0, <2>1 DEF MasterRequest, CreateMaster, RemoveMaster, MoveMaster, Prepare, SavePlaces,
                      SavePlacesFails
  <2>2. CASE MarkRequest
    BY <2>0, <2>2 DEF MarkRequest, CreateMark, RemoveMark
  <2>3. CASE FlagRequest
    BY <2>0, <2>3 DEF FlagRequest, FlagOp
  <2>4. CASE DeptRequest
    BY <2>0, <2>4 DEF DeptRequest, CreateDept, RemoveDept
  <2>5. CASE ItemRequest
    BY <2>0, <2>5 DEF ItemRequest, SetStatus, SetDept, SetMarks, SetSubmarks
  <2>6. CASE RemoveDeptRow \/ RemoveDeptFails
    BY <2>6 DEF RemoveDeptRow, RemoveDeptFails
  <2>7. CASE Load
    BY <2>7, RowsInOrder DEF Load
  <2>8. ASSUME NEW i, NEW j, Drag(i, j) PROVE MasterRest'
    <3>. DEFINE q == InsertAt(RemoveAt(board.shown, i), j, board.shown[i])
    <3>1. /\ {i, j} \subseteq 1..Len(board.shown) /\ board.shown \in Seq(Codes)
          /\ board' = [board EXCEPT !.step = "dropped", !.shown = q]
      BY <2>8 DEF Drag
    <3>2. q \in Seq(Codes)
      BY <3>1, MovedHasTheSame
    <3>. HIDE DEF q
    <3>3. board' \in Board
      BY <3>1, <3>2
    <3>. QED BY <2>8, <3>3 DEF Drag
  <2>9. ASSUME NEW h \in Hands, DragEnd(h) PROVE MasterRest'
    BY <2>0, <2>9 DEF DragEnd, Prepare
  <2>10. ASSUME NEW x \in Codes \cup Marks, AskDelete(x) PROVE MasterRest'
    <3>1. Cardinality(References(x)) \in Nat
      <4>1. References(x) \subseteq Items
        BY DEF References
      <4>2. IsFiniteSet(References(x))
        BY <4>1, MastersAssumption, FS_Subset
      <4>. QED BY <4>2, FS_CardinalityType
    <3>. QED BY <2>10, <3>1 DEF AskDelete
  <2>11. CASE ConfirmDelete \/ CloseDialog
    BY <2>0, <2>11 DEF ConfirmDelete, CloseDialog
  <2>12. CASE UNCHANGED mastersVars
    BY <2>12 DEF mastersVars
  <2>. HIDE DEF MasterRest
  <2>. QED BY <2>1, <2>2, <2>3, <2>4, <2>5, <2>6, <2>7, <2>8, <2>9, <2>10, <2>11, <2>12
           DEF MastersNext, OrderNext, OrderPage, DeletePage
<1>3. OrderInv /\ MarkInv /\ MasterRest => MastersTypeOK
  BY DEF OrderInv, MarkInv, MastersTypeOK
<1>. HIDE DEF MasterRest
<1>. QED BY <1>1, <1>2, <1>3, OrderInvAlways, MarkInvAlways, PTL DEF MastersSpec

---------------------------------------------------------------------------
(* SavedViews: types *)

LEMMA DesksTyped ==
    ASSUME SavedViewsTypeOK, NEW p \in Folk, NEW id \in ViewIds,
           NEW vis \in Visibilities \cup {NoView}, NEW c \in Configs \cup {NoView},
           ViewUpdateRead(p, id, vis, c)
    PROVE  /\ updates' \in [Desks -> [by : Folk, id : ViewIds, entity : SavedView] \cup {NoView}]
           /\ actor' \in Folk \cup {NoView} /\ viewCalls' \in 0..MaxViewCalls
           /\ UNCHANGED <<views, used, team>>
<1>. DEFINE d == CHOOSE d \in Desks : updates[d] = NoView
            e == [views[id] EXCEPT !.visibility = IF vis = NoView THEN @ ELSE vis,
                                   !.config = IF c = NoView THEN @ ELSE c]
            u == [by |-> p, id |-> id, entity |-> e]
<1>1. d \in Desks
  BY DEF ViewUpdateRead, ServeView
<1>2. views[id] \in SavedView
  BY DEF ViewUpdateRead, ViewUpdateAllowed, FindVisible, ViewExists, SavedViewsTypeOK, ViewTable
<1>3. e \in SavedView
  BY <1>2 DEF SavedView
<1>4. updates' = [updates EXCEPT ![d] = u]
  BY DEF ViewUpdateRead
<1>5. u \in [by : Folk, id : ViewIds, entity : SavedView]
  <2>. HIDE DEF e
  <2>. QED BY <1>3
<1>6. updates' \in [Desks -> [by : Folk, id : ViewIds, entity : SavedView] \cup {NoView}]
  <2>. HIDE DEF d, u
  <2>. QED BY <1>1, <1>4, <1>5 DEF SavedViewsTypeOK
<1>. QED BY <1>6, SavedViewsAssumption DEF ViewUpdateRead, ServeView, SavedViewsTypeOK

LEMMA ServedTyped ==
    ASSUME SavedViewsTypeOK, NEW p \in Folk \cup {NoView}, ServeView(p)
    PROVE  actor' \in Folk \cup {NoView} /\ viewCalls' \in 0..MaxViewCalls
BY SavedViewsAssumption DEF ServeView, SavedViewsTypeOK

LEMMA InsertedTyped ==
    ASSUME SavedViewsTypeOK, NEW id \in ViewIds, NEW p \in Folk, NEW vis \in Visibilities,
           NEW c \in Configs, InsertView(id, p, vis, c)
    PROVE  views' \in ViewTable /\ used' \in SUBSET ViewIds
<1>1. [owner |-> p, visibility |-> vis, config |-> c] \in SavedView
  BY DEF SavedView
<1>. QED BY <1>1 DEF InsertView, SavedViewsTypeOK, ViewTable

LEMMA ViewRemovedTyped ==
    ASSUME SavedViewsTypeOK, NEW p \in Folk, NEW id \in ViewIds, RemoveView(p, id)
    PROVE  /\ views' \in ViewTable /\ actor' \in Folk \cup {NoView} /\ viewCalls' \in 0..MaxViewCalls
           /\ UNCHANGED <<used, team, updates>>
BY ServedTyped DEF RemoveView, SavedViewsTypeOK, ViewTable

LEMMA ListTyped == ASSUME SavedViewsTypeOK PROVE ListForUser(Viewer) \in ViewTable
BY DEF SavedViewsTypeOK, ViewTable, ListForUser

(* The table of views, the updates between their read and their save and     *)
(* what the page keeps of both have their types, however many desks.         *)
THEOREM SavedViewsTypeCorrect == SavedViewsSpec => []SavedViewsTypeOK
<1>1. SavedViewsInit => SavedViewsTypeOK
  BY SavedViewsAssumption DEF SavedViewsInit, SavedViewsTypeOK, ViewTable
<1>2. SavedViewsTypeOK /\ [SavedViewsNext]_savedViewsVars => SavedViewsTypeOK'
  <2>. SUFFICES ASSUME SavedViewsTypeOK, [SavedViewsNext]_savedViewsVars PROVE SavedViewsTypeOK'
    OBVIOUS
  <2>. USE DEF SavedViewsTypeOK
  <2>0. CASE UNCHANGED savedViewsVars
    BY <2>0 DEF savedViewsVars
  <2>1. ASSUME NEW p \in Folk, NEW id \in ViewIds, UNCHANGED <<listed, chosen, lastView>>,
               \/ \E vis \in Visibilities, c \in Configs : CreateView(p, id, vis, c)
               \/ \E copy \in ViewIds : DuplicateView(p, id, copy)
               \/ RemoveView(p, id)
               \/ ChangeTeam(p)
        PROVE  SavedViewsTypeOK'
    <3>1. ASSUME NEW vis \in Visibilities, NEW c \in Configs, CreateView(p, id, vis, c)
          PROVE  SavedViewsTypeOK'
      BY <2>1, <3>1, InsertedTyped, ServedTyped DEF CreateView
    <3>2. ASSUME NEW copy \in ViewIds, DuplicateView(p, id, copy) PROVE SavedViewsTypeOK'
      <4>1. views[id] \in SavedView
        BY <3>2 DEF DuplicateView, FindVisible, ViewExists, ViewTable
      <4>2. views[id].config \in Configs /\ "private" \in Visibilities
        BY <4>1 DEF SavedView, Visibilities
      <4>. QED BY <2>1, <3>2, <4>2, InsertedTyped, ServedTyped DEF DuplicateView
    <3>3. CASE RemoveView(p, id)
      BY <2>1, <3>3, ViewRemovedTyped
    <3>4. CASE ChangeTeam(p)
      BY <2>1, <3>4, ServedTyped DEF ChangeTeam
    <3>. QED BY <2>1, <3>1, <3>2, <3>3, <3>4
  <2>2. ASSUME NEW p \in Folk, NEW id \in ViewIds, UNCHANGED <<listed, chosen, lastView>>,
               NEW vis \in Visibilities \cup {NoView}, NEW c \in Configs \cup {NoView},
               ViewUpdateRead(p, id, vis, c)
        PROVE  SavedViewsTypeOK'
    BY <2>2, DesksTyped
  <2>3. CASE ViewRequest
    BY <2>1, <2>2, <2>3 DEF ViewRequest
  <2>4. ASSUME NEW d \in Desks, ViewUpdateSave(d), UNCHANGED <<listed, chosen, lastView>>
        PROVE  SavedViewsTypeOK'
    <3>1. updates[d] \in [by : Folk, id : ViewIds, entity : SavedView]
      BY <2>4 DEF ViewUpdateSave
    <3>2. views' \in ViewTable
      BY <2>4, <3>1 DEF ViewUpdateSave, ViewTable
    <3>. QED BY <2>4, <3>1, <3>2 DEF ViewUpdateSave
  <2>5. CASE RefreshViews \/ ClearView
    BY <2>5, ListTyped DEF RefreshViews, ClearView
  <2>6. CASE DeleteChosen
    <3>1. chosen \in ViewIds /\ Viewer \in Folk
      BY <2>6, SavedViewsAssumption DEF DeleteChosen
    <3>. QED BY <2>6, <3>1, ViewRemovedTyped DEF DeleteChosen
  <2>7. ASSUME NEW id \in ViewIds, ChooseView(id) PROVE SavedViewsTypeOK'
    BY <2>7 DEF ChooseView
  <2>8. ASSUME NEW link \in ViewIds \cup {NoView}, MountViews(link) PROVE SavedViewsTypeOK'
    BY <2>8, ListTyped DEF MountViews
  <2>9. ASSUME NEW vis \in Visibilities \cup {NoView}, NEW c \in Configs, chosen # NoView,
               ViewUpdateRead(Viewer, chosen, vis, c), UNCHANGED <<listed, chosen, lastView>>
        PROVE  SavedViewsTypeOK'
    BY <2>2, <2>9, SavedViewsAssumption
  <2>10. ASSUME NEW id \in ViewIds, NEW vis \in Visibilities, NEW c \in Configs,
                SaveViewAs(id, vis, c)
         PROVE  SavedViewsTypeOK'
    <3>1. Viewer \in Folk
      BY SavedViewsAssumption
    <3>2. views' \in ViewTable /\ used' \in SUBSET ViewIds
      BY <2>10, <3>1, InsertedTyped DEF SaveViewAs, CreateView
    <3>3. listed' \in ViewTable
      BY <2>10, <3>2 DEF SaveViewAs, ViewTable
    <3>. QED BY <2>10, <3>1, <3>2, <3>3, ServedTyped DEF SaveViewAs, CreateView
  <2>11. CASE ViewPage
    <3>1. ASSUME NEW c \in Configs, SaveChosen(c) PROVE SavedViewsTypeOK'
      BY <3>1, <2>9 DEF SaveChosen
    <3>2. ASSUME NEW vis \in Visibilities, NEW c \in Configs, RenameChosen(vis, c)
          PROVE  SavedViewsTypeOK'
      BY <3>2, <2>9 DEF RenameChosen
    <3>. QED BY <2>5, <2>6, <2>7, <2>8, <2>10, <2>11, <3>1, <3>2 DEF ViewPage
  <2>. QED BY <2>0, <2>3, <2>4, <2>11 DEF SavedViewsNext
<1>. QED BY <1>1, <1>2, PTL DEF SavedViewsSpec

---------------------------------------------------------------------------
(* SavedViews: who changes what *)

OneDesk == \E d : Desks = {d}

(* With one desk, what an update has read and checked is still so when it    *)
(* saves: no other request and no change of the team has been served.        *)
UpdateInRight(d) ==
    updates[d] # NoView =>
        LET u == updates[d] IN
        /\ u.id \in ViewIds /\ u.entity \in SavedView
        /\ ViewExists(u.id)
        /\ views[u.id].visibility = "private" => views[u.id].owner = u.by
        /\ \/ u.by \in TenantAdmins \/ ~IsViewerOnly(u.by)
           \/ views[u.id].visibility = "private" /\ u.entity.visibility = "private"

ViewInv ==
    /\ views \in ViewTable
    /\ updates \in [Desks -> {NoView} \cup [by : Folk, id : ViewIds, entity : SavedView]]
    /\ \A id \in ViewIds : ViewExists(id) => id \in used
    /\ \A d \in Desks : UpdateInRight(d)

ViewRight(id) ==
    /\ SharedView(views', id) # SharedView(views, id)
          => actor' \in TenantAdmins \/ ~IsViewerOnly(actor')
    /\ ViewExists(id) /\ views[id].visibility = "private" /\ views'[id] # views[id]
          => actor' = views[id].owner

(* The row an update asks for, as save() gets it. *)
LEMMA EntityIsView ==
    ASSUME NEW v \in SavedView, NEW w \in Visibilities, NEW c \in Configs
    PROVE  /\ [v EXCEPT !.visibility = w, !.config = c] \in SavedView
           /\ [v EXCEPT !.visibility = w, !.config = c].visibility = w
BY DEF SavedView

LEMMA ViewReadStep ==
    ASSUME ViewInv, OneDesk, NEW p \in Folk, NEW id \in ViewIds,
           NEW visibility \in Visibilities \cup {NoView}, NEW config \in Configs \cup {NoView},
           ViewUpdateRead(p, id, visibility, config)
    PROVE  ViewInv'
<1>. DEFINE w == IF visibility = NoView THEN views[id].visibility ELSE visibility
            k == IF config = NoView THEN views[id].config ELSE config
            e == [views[id] EXCEPT !.visibility = w, !.config = k]
<1>1. PICK d : Desks = {d}
  BY DEF OneDesk
<1>2. /\ ViewUpdateAllowed(p, id, visibility, config)
      /\ UNCHANGED <<views, used, team>>
  BY DEF ViewUpdateRead
<1>3. views[id] \in SavedView /\ ViewExists(id)
  BY <1>2 DEF ViewInv, ViewTable, ViewUpdateAllowed, FindVisible, ViewExists
<1>4. e \in SavedView /\ e.visibility = w
  <2>1. w \in Visibilities /\ k \in Configs
    BY <1>3 DEF SavedView
  <2>. HIDE DEF w, k
  <2>. QED BY <1>3, <2>1, EntityIsView
<1>5. updates' = [updates EXCEPT ![d] = [by |-> p, id |-> id, entity |-> e]]
  <2>1. (CHOOSE c \in Desks : updates[c] = NoView) = d
    BY <1>1 DEF ViewUpdateRead, ServeView
  <2>. QED BY <2>1 DEF ViewUpdateRead
<1>. HIDE DEF e
<1>. DEFINE u == [by |-> p, id |-> id, entity |-> e]
<1>6. u \in [by : Folk, id : ViewIds, entity : SavedView] /\ u.by = p /\ u.id = id /\ u.entity = e
  BY <1>4
<1>7. updates' = [updates EXCEPT ![d] = u]
  BY <1>5
<1>. HIDE DEF u
<1>8. updates' \in [Desks -> {NoView} \cup [by : Folk, id : ViewIds, entity : SavedView]]
      /\ updates'[d] = u
  BY <1>1, <1>6, <1>7 DEF ViewInv
<1>9. views[id].visibility = "private" => views[id].owner = p
  BY <1>2, <1>3 DEF ViewUpdateAllowed, FindVisible, CanView
<1>10. \/ p \in TenantAdmins \/ ~IsViewerOnly(p)
       \/ views[id].visibility = "private" /\ visibility # "shared"
  BY <1>2 DEF ViewUpdateAllowed, AssertViewerScope
<1>11. views[id].visibility = "private" /\ visibility # "shared" => e.visibility = "private"
  BY <1>4 DEF Visibilities
<1>12. UpdateInRight(d)'
  BY <1>2, <1>3, <1>4, <1>6, <1>8, <1>9, <1>10, <1>11
     DEF UpdateInRight, ViewExists, IsViewerOnly
<1>. QED BY <1>1, <1>2, <1>8, <1>12 DEF ViewInv, ViewExists

ChosenOK == {chosen, lastView} \subseteq ViewIds \cup {NoView}

LEMMA ChosenStep ==
    ASSUME ChosenOK, [SavedViewsNext]_savedViewsVars
    PROVE  ChosenOK'
BY DEF ChosenOK, SavedViewsNext, ViewRequest, ViewPage, RefreshViews, ClearView, DeleteChosen,
       ChooseView, MountViews, SaveChosen, RenameChosen, SaveViewAs, savedViewsVars

LEMMA ViewStep ==
    ASSUME ViewInv, ChosenOK, OneDesk, [SavedViewsNext]_savedViewsVars
    PROVE  ViewInv' /\ \A id \in ViewIds : ViewRight(id)
<1>0. PICK d : Desks = {d}
  BY DEF OneDesk
<1>1. CASE UNCHANGED <<views, used, team, updates>>
  BY <1>1 DEF ViewInv, UpdateInRight, ViewExists, IsViewerOnly, ViewRight
<1>2. ASSUME NEW p \in Folk, NEW id \in ViewIds, NEW visibility \in Visibilities \cup {NoView},
             NEW config \in Configs \cup {NoView}, ViewUpdateRead(p, id, visibility, config)
      PROVE  ViewInv' /\ \A v \in ViewIds : ViewRight(v)
  <2>1. views' = views
    BY <1>2 DEF ViewUpdateRead
  <2>. QED BY <1>2, <2>1, ViewReadStep DEF ViewRight
(* A new row: the id has none, and no update is under way. *)
<1>3. ASSUME NEW p \in Folk, NEW id \in ViewIds, NEW visibility \in Visibilities,
             NEW config \in Configs, ServeView(p), InsertView(id, p, visibility, config),
             visibility = "private" \/ ~IsViewerOnly(p), UNCHANGED <<team, updates>>
      PROVE  ViewInv' /\ \A v \in ViewIds : ViewRight(v)
  <2>. DEFINE new == [owner |-> p, visibility |-> visibility, config |-> config]
  <2>1. new \in SavedView /\ new.visibility = visibility
    BY DEF SavedView
  <2>2. /\ views' = [views EXCEPT ![id] = new] /\ used' = used \cup {id} /\ id \notin used
        /\ updates' = updates /\ updates[d] = NoView /\ actor' = p /\ team' = team
    BY <1>0, <1>3 DEF ServeView, InsertView
  <2>. HIDE DEF new
  <2>3. views[id] = NoView
    BY <2>2 DEF ViewInv, ViewExists
  <2>4. views' \in ViewTable /\ views'[id] = new /\ \A v \in ViewIds \ {id} : views'[v] = views[v]
    BY <2>1, <2>2 DEF ViewInv, ViewTable
  <2>5. ViewInv'
    BY <1>0, <2>2, <2>4 DEF ViewInv, ViewExists, UpdateInRight
  <2>6. ASSUME NEW v \in ViewIds PROVE ViewRight(v)
    <3>1. CASE v = id
      BY <1>3, <2>1, <2>2, <2>3, <2>4, <3>1 DEF ViewRight, SharedView, ViewExists
    <3>2. CASE v # id
      BY <2>4, <3>2 DEF ViewRight, SharedView
    <3>. QED BY <3>1, <3>2
  <2>. QED BY <2>5, <2>6
<1>4. ASSUME NEW p \in Folk, NEW id \in ViewIds, RemoveView(p, id)
      PROVE  ViewInv' /\ \A v \in ViewIds : ViewRight(v)
  <2>1. /\ views' = [views EXCEPT ![id] = NoView] /\ UNCHANGED <<used, team, updates>>
        /\ updates[d] = NoView /\ actor' = p /\ ViewRemoveAllowed(p, id)
    BY <1>0, <1>4 DEF RemoveView, ServeView
  <2>2. views' \in ViewTable /\ views'[id] = NoView
        /\ \A v \in ViewIds \ {id} : views'[v] = views[v]
    BY <2>1 DEF ViewInv, ViewTable
  <2>3. ViewInv'
    BY <1>0, <2>1, <2>2 DEF ViewInv, ViewExists, UpdateInRight
  <2>4. /\ views[id].visibility = "private" => views[id].owner = p
        /\ views[id].visibility = "shared" => p \in TenantAdmins \/ ~IsViewerOnly(p)
    BY <2>1 DEF ViewRemoveAllowed, FindVisible, CanView, AssertViewerScope
  <2>5. ASSUME NEW v \in ViewIds PROVE ViewRight(v)
    <3>1. CASE v = id
      BY <2>1, <2>2, <2>4, <3>1 DEF ViewRight, SharedView
    <3>2. CASE v # id
      BY <2>2, <3>2 DEF ViewRight, SharedView
    <3>. QED BY <3>1, <3>2
  <2>. QED BY <2>3, <2>5
<1>5. ASSUME NEW c \in Desks, ViewUpdateSave(c) PROVE ViewInv' /\ \A v \in ViewIds : ViewRight(v)
  <2>. DEFINE u == updates[c]
  <2>1. /\ views' = [views EXCEPT ![u.id] = u.entity] /\ UNCHANGED <<used, team>>
        /\ updates' = [updates EXCEPT ![c] = NoView]
        /\ u # NoView /\ actor' = u.by
    BY <1>5 DEF ViewUpdateSave
  <2>2. /\ u.id \in ViewIds /\ u.entity \in SavedView /\ ViewExists(u.id)
        /\ views[u.id].visibility = "private" => views[u.id].owner = u.by
        /\ \/ u.by \in TenantAdmins \/ ~IsViewerOnly(u.by)
           \/ views[u.id].visibility = "private" /\ u.entity.visibility = "private"
    BY <2>1 DEF ViewInv, UpdateInRight
  <2>3. updates' \in [Desks -> {NoView} \cup [by : Folk, id : ViewIds, entity : SavedView]]
        /\ updates'[d] = NoView
    BY <1>0, <2>1 DEF ViewInv
  <2>. DEFINE i == u.id
              e == u.entity
  <2>4. /\ views' = [views EXCEPT ![i] = e] /\ i \in ViewIds /\ e \in SavedView
    BY <2>1, <2>2
  <2>. HIDE DEF u, i, e
  <2>5. views' \in ViewTable /\ views'[i] = e /\ \A v \in ViewIds \ {i} : views'[v] = views[v]
    BY <2>4 DEF ViewInv, ViewTable
  <2>6. ViewInv'
    <3>1. i \in used
      BY <2>2, <2>4 DEF ViewInv, i
    <3>. QED BY <1>0, <2>1, <2>3, <2>4, <2>5, <3>1 DEF ViewInv, ViewExists, UpdateInRight
  <2>7. ASSUME NEW v \in ViewIds PROVE ViewRight(v)
    <3>1. CASE v = i
      BY <2>1, <2>2, <2>5, <3>1 DEF ViewRight, SharedView, i, e
    <3>2. CASE v # i
      BY <2>5, <3>2 DEF ViewRight, SharedView
    <3>. QED BY <3>1, <3>2
  <2>. QED BY <2>6, <2>7
<1>6. ASSUME ServeView(NoView), UNCHANGED <<views, used, updates>>
      PROVE  ViewInv' /\ \A v \in ViewIds : ViewRight(v)
  BY <1>0, <1>6 DEF ServeView, ViewInv, UpdateInRight, ViewExists, ViewRight
<1>7. ASSUME NEW p \in Folk, NEW id \in ViewIds, NEW visibility \in Visibilities,
             NEW config \in Configs, CreateView(p, id, visibility, config)
      PROVE  ViewInv' /\ \A v \in ViewIds : ViewRight(v)
  BY <1>3, <1>7 DEF CreateView
<1>8. ASSUME NEW p \in Folk, NEW id \in ViewIds, NEW copy \in ViewIds, DuplicateView(p, id, copy)
      PROVE  ViewInv' /\ \A v \in ViewIds : ViewRight(v)
  <2>1. views[id].config \in Configs
    BY <1>8 DEF DuplicateView, FindVisible, ViewExists, ViewInv, ViewTable, SavedView
  <2>2. "private" \in Visibilities
    BY DEF Visibilities
  <2>. QED BY <1>3, <1>8, <2>1, <2>2 DEF DuplicateView
<1>9. CASE ViewRequest
  BY <1>2, <1>4, <1>6, <1>7, <1>8, <1>9 DEF ViewRequest, ChangeTeam
<1>10. CASE ViewPage
  <2>1. Viewer \in Folk /\ Visibilities \subseteq Visibilities \cup {NoView}
        /\ Configs \subseteq Configs \cup {NoView}
    BY SavedViewsAssumption
  <2>2. CASE \/ RefreshViews \/ ClearView
             \/ \E id \in ViewIds : ChooseView(id)
             \/ \E link \in ViewIds \cup {NoView} : MountViews(link)
    BY <1>1, <2>2 DEF RefreshViews, ClearView, ChooseView, MountViews
  <2>3. ASSUME NEW c \in Configs, SaveChosen(c), chosen \in ViewIds
        PROVE  ViewInv' /\ \A v \in ViewIds : ViewRight(v)
    BY <1>2, <2>1, <2>3 DEF SaveChosen
  <2>4. ASSUME NEW vis \in Visibilities, NEW c \in Configs, RenameChosen(vis, c), chosen \in ViewIds
        PROVE  ViewInv' /\ \A v \in ViewIds : ViewRight(v)
    BY <1>2, <2>1, <2>4 DEF RenameChosen
  <2>5. ASSUME NEW id \in ViewIds, NEW vis \in Visibilities, NEW c \in Configs, SaveViewAs(id, vis, c)
        PROVE  ViewInv' /\ \A v \in ViewIds : ViewRight(v)
    BY <1>7, <2>1, <2>5 DEF SaveViewAs
  <2>6. ASSUME DeleteChosen, chosen \in ViewIds
        PROVE  ViewInv' /\ \A v \in ViewIds : ViewRight(v)
    BY <1>4, <2>1, <2>6 DEF DeleteChosen
  <2>7. chosen # NoView => chosen \in ViewIds
    BY DEF ChosenOK
  <2>. QED BY <1>10, <2>2, <2>3, <2>4, <2>5, <2>6, <2>7
           DEF ViewPage, SaveChosen, RenameChosen, DeleteChosen
<1>. QED BY <1>1, <1>5, <1>9, <1>10 DEF SavedViewsNext, savedViewsVars

(* If the server works on one request at a time, what everybody sees is      *)
(* never changed by a person who only views the project, and a private view  *)
(* by its owner only: the checks cover the visibility a view has and the one *)
(* it gets, and neither the row nor the team is stale at the save.           *)
THEOREM ViewsChangeByRightOneDesk ==
    ASSUME OneDesk
    PROVE  SavedViewsSpec => ViewsChangeByRight
<1>. DEFINE Inv == ViewInv /\ ChosenOK
<1>1. SavedViewsInit => Inv
  BY DEF SavedViewsInit, ViewInv, ViewTable, ViewExists, UpdateInRight, ChosenOK
<1>2. Inv /\ [SavedViewsNext]_savedViewsVars => Inv'
  BY ViewStep, ChosenStep
<1>3. Inv /\ [SavedViewsNext]_savedViewsVars
         => [\A id \in ViewIds :
               /\ SharedView(views', id) # SharedView(views, id)
                     => actor' \in TenantAdmins \/ ~IsViewerOnly(actor')
               /\ ViewExists(id) /\ views[id].visibility = "private" /\ views'[id] # views[id]
                     => actor' = views[id].owner]_savedViewsVars
  BY ViewStep DEF ViewRight
<1>. QED BY <1>1, <1>2, <1>3, PTL DEF SavedViewsSpec, ViewsChangeByRight

---------------------------------------------------------------------------
(* TaskRelations: types *)

LEMMA NormalizedIsEdge ==
    ASSUME NEW task \in Ends, NEW other \in Ends, NEW kind \in Kinds
    PROVE  Normalize(task, other, kind) \in Edge
BY DEF Normalize, Edge, Kinds

LEMMA SectionListsKinds ==
    ASSUME edges \in SUBSET Edge, NEW task \in Ends
    PROVE  ListForTask(task) \in SUBSET KindOf
<1>1. ASSUME NEW e \in Edge PROVE ViewFor(task, e) \in KindOf
  BY <1>1 DEF ViewFor, Edge, KindOf, Kinds
<1>. QED BY <1>1 DEF ListForTask, Party

(* The rows of relations, the creations between their check and their insert *)
(* and what the section shows keep their types: what each end of a row sees  *)
(* of it is one of the five kinds.                                           *)
THEOREM TaskRelationsTypeCorrect == TaskRelationsSpec => []TaskRelationsTypeOK
<1>1. TaskRelationsInit => TaskRelationsTypeOK
  BY TaskRelationsAssumption DEF TaskRelationsInit, TaskRelationsTypeOK
<1>2. TaskRelationsTypeOK /\ [TaskRelationsNext]_taskRelationsVars => TaskRelationsTypeOK'
  <2>. SUFFICES ASSUME TaskRelationsTypeOK, [TaskRelationsNext]_taskRelationsVars
                PROVE  TaskRelationsTypeOK'
    OBVIOUS
  <2>. USE DEF TaskRelationsTypeOK
  <2>1. ServeRelation => relCalls' \in 0..MaxRelCalls
    BY TaskRelationsAssumption DEF ServeRelation
  <2>2. ASSUME NEW w \in Typists, NEW task \in Ends, NEW other \in Ends, NEW kind \in Kinds,
               CreateCheck(w, task, other, kind)
        PROVE  TaskRelationsTypeOK'
    BY <2>1, <2>2, NormalizedIsEdge DEF CreateCheck
  <2>3. ASSUME NEW w \in Typists, CreateInsert(w) PROVE TaskRelationsTypeOK'
    BY <2>3 DEF CreateInsert
  <2>4. ASSUME NEW task, NEW e, RemoveRelation(task, e) PROVE TaskRelationsTypeOK'
    BY <2>1, <2>4 DEF RemoveRelation
  <2>5. ASSUME NEW task \in Ends, TaskLeaves(task) PROVE TaskRelationsTypeOK'
    BY <2>1, <2>5 DEF TaskLeaves
  <2>6. ASSUME NEW task \in Ends, OpenPanel(task) PROVE TaskRelationsTypeOK'
    BY <2>6, SectionListsKinds DEF OpenPanel
  <2>7. CASE RefreshPanel
    BY <2>7, SectionListsKinds DEF RefreshPanel
  <2>8. ASSUME NEW v \in KindOf, RemoveShown(v) PROVE TaskRelationsTypeOK'
    BY <2>4, <2>8 DEF RemoveShown
  <2>9. CASE UNCHANGED taskRelationsVars
    BY <2>9 DEF taskRelationsVars
  <2>. QED BY <2>2, <2>3, <2>4, <2>5, <2>6, <2>7, <2>8, <2>9 DEF TaskRelationsNext
<1>. QED BY <1>1, <1>2, PTL DEF TaskRelationsSpec

---------------------------------------------------------------------------
(* TaskHistory: types *)

LEMMA StageForms ==
    ASSUME TaskHistoryTypeOK, NEW b \in Tabs, stage[b].next = "delete"
    PROVE  stage[b].stale \in SUBSET Seen
<1>1. stage[b] \in [next : {"idle", "find"}] \cup [next : {"delete"}, stale : SUBSET Seen]
  BY DEF TaskHistoryTypeOK
<1>. QED BY <1>1

(* The rows of the history, their times, the records between their three     *)
(* steps and the menu keep their types, however many windows record at once. *)
THEOREM TaskHistoryTypeCorrect == TaskHistorySpec => []TaskHistoryTypeOK
<1>1. TaskHistoryInit => TaskHistoryTypeOK
  <2>. SUFFICES ASSUME TaskHistoryInit PROVE TaskHistoryTypeOK
    OBVIOUS
  <2>1. 0 \in 0..MaxSights
    BY TaskHistoryAssumption
  <2>2. [next |-> "idle"] \in [next : {"idle", "find"}]
    OBVIOUS
  <2>. QED BY <2>1, <2>2 DEF TaskHistoryInit, TaskHistoryTypeOK
<1>2. TaskHistoryTypeOK /\ [TaskHistoryNext]_taskHistoryVars => TaskHistoryTypeOK'
  <2>. SUFFICES ASSUME TaskHistoryTypeOK, [TaskHistoryNext]_taskHistoryVars
                PROVE  TaskHistoryTypeOK'
    OBVIOUS
  <2>. DEFINE Stage == [next : {"idle", "find"}] \cup [next : {"delete"}, stale : SUBSET Seen]
  <2>0. [next |-> "idle"] \in Stage /\ [next |-> "find"] \in Stage
    OBVIOUS
  <2>1. ASSUME NEW b \in Tabs, NEW t \in Seen, Upsert(b, t) PROVE TaskHistoryTypeOK'
    <3>1. sights' \in 0..MaxSights
      BY <2>1, TaskHistoryAssumption DEF Upsert, TaskHistoryTypeOK
    <3>2. viewedAt' = [viewedAt EXCEPT ![t] = sights'] /\ mixed' \in BOOLEAN
      BY <2>1 DEF Upsert, TaskHistoryTypeOK
    <3>3. viewedAt' \in [Seen -> 0..MaxSights]
      BY <3>1, <3>2 DEF TaskHistoryTypeOK
    <3>. QED BY <2>0, <2>1, <3>1, <3>2, <3>3 DEF Upsert, TaskHistoryTypeOK
  <2>2. ASSUME NEW b \in Tabs, FindStale(b) PROVE TaskHistoryTypeOK'
    <3>1. Beyond \in SUBSET Seen
      BY DEF Beyond, Sighted
    <3>2. [next |-> "delete", stale |-> Beyond] \in Stage
      BY <3>1
    <3>. QED BY <2>0, <2>2, <3>2 DEF FindStale, TaskHistoryTypeOK
  <2>3. ASSUME NEW b \in Tabs, DeleteStale(b) PROVE TaskHistoryTypeOK'
    BY <2>0, <2>3, TaskHistoryAssumption DEF DeleteStale, TaskHistoryTypeOK
  <2>4. ASSUME NEW b \in Tabs, RecordFails(b) PROVE TaskHistoryTypeOK'
    BY <2>0, <2>4 DEF RecordFails, TaskHistoryTypeOK
  <2>5. ASSUME NEW t \in Seen, ToggleReadable(t) PROVE TaskHistoryTypeOK'
    BY <2>5 DEF ToggleReadable, TaskHistoryTypeOK
  <2>6. CASE OpenMenu
    BY <2>6 DEF OpenMenu, ListMine, Sighted, TaskHistoryTypeOK
  <2>7. CASE UNCHANGED taskHistoryVars
    BY <2>7 DEF taskHistoryVars, TaskHistoryTypeOK
  <2>. QED BY <2>1, <2>2, <2>3, <2>4, <2>5, <2>6, <2>7 DEF TaskHistoryNext
<1>. QED BY <1>1, <1>2, PTL DEF TaskHistorySpec

---------------------------------------------------------------------------
(* TaskHistory: what is trimmed *)

(* The rows have times of their own, none in the future; while no two records *)
(* overlap, one window at most is in a record, and what it found to delete    *)
(* is still what is beyond the limit.                                         *)
TimesApart ==
    /\ viewedAt \in [Seen -> Nat]
    /\ sights \in Nat
    /\ \A t \in Seen : viewedAt[t] <= sights
    /\ \A t, u \in Sighted : t # u => viewedAt[t] # viewedAt[u]

FoundIsStale ==
    ~mixed => /\ \A b, c \in Tabs : stage[b].next # "idle" /\ stage[c].next # "idle" => b = c
              /\ \A b \in Tabs : stage[b].next = "delete" => stage[b].stale = Beyond /\ Beyond # {}

HistoryInv ==
    /\ TimesApart
    /\ DOMAIN stage = Tabs
    /\ FoundIsStale

LEMMA SightedFinite ==
    /\ IsFiniteSet(Sighted) /\ Sighted \subseteq Seen
    /\ \A t \in Seen : IsFiniteSet(Newer(t))
<1>1. IsFiniteSet(Sighted)
  BY TaskHistoryAssumption, FS_Subset DEF Sighted
<1>2. \A t \in Seen : Newer(t) \subseteq Sighted
  BY DEF Newer
<1>. QED BY <1>1, <1>2, FS_Subset DEF Sighted

(* Of some rows, one was viewed last and one first. *)
LEMMA LastAndFirst ==
    ASSUME TimesApart, NEW T \in SUBSET Seen, T # {}
    PROVE  /\ \E t \in T : \A u \in T : viewedAt[u] <= viewedAt[t]
           /\ \E t \in T : \A u \in T : viewedAt[t] <= viewedAt[u]
<1>1. IsFiniteSet(T)
  BY TaskHistoryAssumption, FS_Subset
<1>2. ASSUME NEW f \in [T -> Nat] PROVE \E t \in T : \A u \in T : f[u] <= f[t]
  <2>. DEFINE S == {f[t] : t \in T}
  <2>1. f \in Surjection(T, S)
    BY DEF Surjection
  <2>2. IsFiniteSet(S)
    <3>. HIDE DEF S
    <3>. QED BY <1>1, <2>1, FS_Surjection
  <2>3. S \in SUBSET Nat /\ S # {}
    OBVIOUS
  <2>4. \E m \in S : \A n \in S : n <= m
    <3>. HIDE DEF S
    <3>. QED BY <2>2, <2>3, LargestIsIn
  <2>. QED BY <2>4
<1>3. \A t \in T : viewedAt[t] \in Nat /\ sights - viewedAt[t] \in Nat
  BY DEF TimesApart
<1>4. \E t \in T : \A u \in T : viewedAt[u] <= viewedAt[t]
  <2>. DEFINE f == [t \in T |-> viewedAt[t]]
  <2>1. f \in [T -> Nat] /\ \A t \in T : f[t] = viewedAt[t]
    BY <1>3
  <2>. HIDE DEF f
  <2>2. PICK t \in T : \A u \in T : f[u] <= f[t]
    BY <1>2, <2>1
  <2>. QED BY <2>1, <2>2
<1>5. \E t \in T : \A u \in T : viewedAt[t] <= viewedAt[u]
  <2>. DEFINE f == [t \in T |-> sights - viewedAt[t]]
  <2>1. f \in [T -> Nat] /\ \A t \in T : f[t] = sights - viewedAt[t]
    BY <1>3
  <2>. HIDE DEF f
  <2>2. PICK t \in T : \A u \in T : f[u] <= f[t]
    BY <1>2, <2>1
  <2>3. sights \in Nat
    BY DEF TimesApart
  <2>4. \A u \in T : viewedAt[t] <= viewedAt[u]
    BY <1>3, <2>1, <2>2, <2>3
  <2>. QED BY <2>4
<1>. QED BY <1>4, <1>5

(* Without the rows beyond the limit there are as many as the limit says, all *)
(* of them newer than those.                                                  *)
LEMMA TrimLeavesLimit ==
    ASSUME TimesApart, Beyond # {}
    PROVE  /\ Cardinality(Sighted \ Beyond) = Limit
           /\ \A t \in Sighted \ Beyond, u \in Beyond : viewedAt[t] > viewedAt[u]
<1>0. /\ Limit \in Nat \ {0}
      /\ \A t \in Seen : Cardinality(Newer(t)) \in Nat
      /\ Beyond \subseteq Sighted /\ Sighted \subseteq Seen
  BY TaskHistoryAssumption, SightedFinite, FS_CardinalityType DEF Beyond
<1>10. /\ Sighted \subseteq Seen /\ Beyond \subseteq Sighted
      /\ \A t \in Sighted : viewedAt[t] \in Nat
  BY <1>0 DEF TimesApart
<1>1. ASSUME NEW t \in Sighted \ Beyond, NEW u \in Beyond PROVE viewedAt[t] > viewedAt[u]
  <2>1. CASE viewedAt[t] <= viewedAt[u]
    <3>1. t \in Seen /\ u \in Seen /\ Newer(u) \subseteq Newer(t)
      BY <1>10, <2>1 DEF Newer
    <3>2. Cardinality(Newer(u)) <= Cardinality(Newer(t))
      BY <3>1, SightedFinite, FS_Subset
    <3>3. Cardinality(Newer(u)) >= Limit /\ ~(Cardinality(Newer(t)) >= Limit)
      BY DEF Beyond
    <3>. QED BY <1>0, <3>1, <3>2, <3>3
  <2>. QED BY <1>0, <1>10, <2>1
<1>2. PICK n \in Beyond : \A u \in Beyond : viewedAt[u] <= viewedAt[n]
  BY <1>0, LastAndFirst
<1>. DEFINE S == Newer(n)
<1>3. Sighted \ Beyond = S
  <2>1. \A t \in Sighted \ Beyond : t \in S
    BY <1>1, <1>2 DEF Newer
  <2>2. \A t \in S : t \in Sighted \ Beyond
    BY <1>2, <1>10 DEF Newer
  <2>. QED BY <2>1, <2>2 DEF Newer
<1>4. Cardinality(S) >= Limit /\ IsFiniteSet(S) /\ S \subseteq Sighted
  BY <1>0, <1>2, SightedFinite DEF Beyond, Newer
<1>5. S # {}
  BY <1>0, <1>4, FS_EmptySet
<1>6. PICK o \in S : \A u \in S : viewedAt[o] <= viewedAt[u]
  BY <1>0, <1>4, <1>5, LastAndFirst
<1>7. Newer(o) = S \ {o}
  <2>1. o \in Sighted /\ viewedAt[o] > viewedAt[n]
    BY <1>6 DEF Newer
  <2>2. \A t \in Newer(o) : t \in S /\ t # o
    BY <1>2, <1>10, <2>1 DEF Newer
  <2>3. \A t \in S \ {o} : viewedAt[t] > viewedAt[o] /\ t \in Sighted
    BY <1>4, <1>6, <1>10, <2>1 DEF TimesApart
  <2>. QED BY <2>2, <2>3 DEF Newer
<1>. HIDE DEF S
<1>8. Cardinality(Newer(o)) = Cardinality(S) - 1
  BY <1>4, <1>6, <1>7, FS_RemoveElement
<1>9. ~(Cardinality(Newer(o)) >= Limit)
  BY <1>3, <1>6 DEF Beyond
<1>11. Cardinality(S) \in Nat
  BY <1>4, FS_CardinalityType
<1>. QED BY <1>0, <1>1, <1>3, <1>4, <1>8, <1>9, <1>11

LEMMA HistoryStep ==
    ASSUME HistoryInv, [TaskHistoryNext]_taskHistoryVars
    PROVE  HistoryInv'
<1>. USE DEF HistoryInv
<1>1. CASE UNCHANGED <<viewedAt, sights, stage, mixed>>
  BY <1>1 DEF TimesApart, FoundIsStale, Sighted, Beyond, Newer
<1>2. ASSUME NEW b \in Tabs, NEW t \in Seen, Upsert(b, t) PROVE HistoryInv'
  <2>1. /\ viewedAt' = [viewedAt EXCEPT ![t] = sights + 1] /\ sights' = sights + 1
        /\ stage' = [stage EXCEPT ![b] = [next |-> "find"]]
        /\ mixed' = (mixed \/ \E c \in Tabs \ {b} : stage[c].next # "idle")
    BY <1>2 DEF Upsert
  <2>2. \A u \in Seen : viewedAt'[u] = IF u = t THEN sights + 1 ELSE viewedAt[u]
    BY <2>1 DEF TimesApart
  <2>3. TimesApart'
    BY <2>1, <2>2 DEF TimesApart, Sighted
  <2>4. DOMAIN stage' = Tabs /\ stage'[b].next = "find" /\ \A c \in Tabs \ {b} : stage'[c] = stage[c]
    BY <2>1
  <2>5. ~mixed' => \A c \in Tabs \ {b} : stage'[c].next = "idle"
    BY <2>1, <2>4
  <2>6. FoundIsStale'
    BY <2>4, <2>5 DEF FoundIsStale
  <2>. QED BY <2>3, <2>4, <2>6
<1>3. ASSUME NEW b \in Tabs, FindStale(b) PROVE HistoryInv'
  <2>. DEFINE s == IF Beyond = {} THEN [next |-> "idle"] ELSE [next |-> "delete", stale |-> Beyond]
  <2>1. /\ UNCHANGED <<viewedAt, sights, mixed>> /\ stage[b].next = "find"
        /\ stage' = [stage EXCEPT ![b] = s]
    BY <1>3 DEF FindStale
  <2>2. s.next = "delete" => s.stale = Beyond /\ Beyond # {}
    OBVIOUS
  <2>. HIDE DEF s
  <2>3. TimesApart' /\ Beyond' = Beyond
    BY <2>1 DEF TimesApart, Sighted, Beyond, Newer
  <2>4. DOMAIN stage' = Tabs /\ stage'[b] = s /\ \A c \in Tabs \ {b} : stage'[c] = stage[c]
    BY <2>1
  <2>5. FoundIsStale'
    BY <2>1, <2>2, <2>3, <2>4 DEF FoundIsStale
  <2>. QED BY <2>3, <2>4, <2>5
<1>4. ASSUME NEW b \in Tabs, DeleteStale(b) PROVE HistoryInv'
  <2>1. /\ viewedAt' = [t \in Seen |-> IF t \in stage[b].stale THEN 0 ELSE viewedAt[t]]
        /\ stage' = [stage EXCEPT ![b] = [next |-> "idle"]]
        /\ UNCHANGED <<sights, mixed>> /\ stage[b].next = "delete"
    BY <1>4 DEF DeleteStale
  <2>2. TimesApart'
    BY <2>1 DEF TimesApart, Sighted
  <2>3. DOMAIN stage' = Tabs /\ stage'[b].next = "idle" /\ \A c \in Tabs \ {b} : stage'[c] = stage[c]
    BY <2>1
  <2>4. ~mixed => \A c \in Tabs : stage'[c].next = "idle"
    BY <2>1, <2>3 DEF FoundIsStale
  <2>5. FoundIsStale'
    BY <2>1, <2>4 DEF FoundIsStale
  <2>. QED BY <2>2, <2>3, <2>5
<1>5. ASSUME NEW b \in Tabs, RecordFails(b) PROVE HistoryInv'
  <2>1. /\ UNCHANGED <<viewedAt, sights, mixed>>
        /\ stage' = [stage EXCEPT ![b] = [next |-> "idle"]]
    BY <1>5 DEF RecordFails
  <2>2. TimesApart' /\ Beyond' = Beyond
    BY <2>1 DEF TimesApart, Sighted, Beyond, Newer
  <2>3. DOMAIN stage' = Tabs /\ stage'[b].next = "idle" /\ \A c \in Tabs \ {b} : stage'[c] = stage[c]
    BY <2>1
  <2>4. FoundIsStale'
    BY <2>1, <2>2, <2>3 DEF FoundIsStale
  <2>. QED BY <2>2, <2>3, <2>4
<1>6. \/ UNCHANGED <<viewedAt, sights, stage, mixed>>
      \/ \E b \in Tabs, t \in Seen : Upsert(b, t)
      \/ \E b \in Tabs : FindStale(b) \/ DeleteStale(b) \/ RecordFails(b)
  BY DEF TaskHistoryNext, ToggleReadable, OpenMenu, taskHistoryVars
<1>. QED BY <1>1, <1>2, <1>3, <1>4, <1>5, <1>6

(* The task just opened is never the one trimmed: while no two records of a  *)
(* user overlap, a deletion leaves as many rows as the limit says, each newer *)
(* than all that go, however many earlier records have failed half-way.      *)
THEOREM TrimsTheOldestAlways == TaskHistorySpec => TrimsTheOldest
<1>1. TaskHistoryInit => HistoryInv
  BY DEF TaskHistoryInit, HistoryInv, TimesApart, FoundIsStale, Sighted
<1>2. HistoryInv /\ [TaskHistoryNext]_taskHistoryVars => HistoryInv'
  BY HistoryStep
<1>3. HistoryInv =>
        [\A b \in Tabs : DeleteStale(b) /\ ~mixed =>
              /\ Cardinality(Sighted') = Limit
              /\ \A t \in Sighted', u \in Sighted \ Sighted' : viewedAt[t] > viewedAt[u]]_taskHistoryVars
  <2>. SUFFICES ASSUME HistoryInv, NEW b \in Tabs, DeleteStale(b), ~mixed
                PROVE  /\ Cardinality(Sighted') = Limit
                       /\ \A t \in Sighted', u \in Sighted \ Sighted' : viewedAt[t] > viewedAt[u]
    OBVIOUS
  <2>1. stage[b].stale = Beyond /\ Beyond # {} /\ TimesApart
    BY DEF DeleteStale, HistoryInv, FoundIsStale
  <2>2. viewedAt' = [t \in Seen |-> IF t \in Beyond THEN 0 ELSE viewedAt[t]]
    BY <2>1 DEF DeleteStale
  <2>3. Sighted' = Sighted \ Beyond
    BY <2>2 DEF Sighted
  <2>4. Sighted \ Sighted' \subseteq Beyond
    BY <2>3
  <2>. QED BY <2>1, <2>3, <2>4, TrimLeavesLimit
<1>. QED BY <1>1, <1>2, <1>3, PTL DEF TaskHistorySpec, TrimsTheOldest

---------------------------------------------------------------------------
(* ProjectAccess: types *)

(* The fields a handler has are those of the step it is at. *)
LEMMA WorkForms ==
    ASSUME NEW j \in Work
    PROVE  /\ j.pc \in {"view", "join"} => j \in [pc : {"view", "join"}, by : People, area : Areas]
           /\ j.pc = "area" => j \in [pc : {"area"}, area : Areas, entity : Area, by : People]
           /\ j.pc = "row" => j \in [pc : {"row"}, row : Rows, entity : Row]
BY DEF Work

LEMMA WorkRests ==
    ASSUME AccessTypeOK, NEW w \in Workers, Rest(w)
    PROVE  work' \in [Workers -> Work]
<1>1. [pc |-> "idle"] \in Work
  BY DEF Work
<1>. QED BY <1>1 DEF Rest, AccessTypeOK

(* What the browser starts to load, and that it was not alone, keep its type. *)
LEMMA ScreenTyped ==
    ASSUME screen \in Screen, NEW what \in SUBSET {"projects", "members"},
           \/ Foreign \/ Refetch(what) \/ screen' = screen
    PROVE  screen' \in Screen
<1>1. CASE Foreign
  BY <1>1 DEF Foreign, Screen
<1>2. CASE Refetch(what)
  <2>1. screen.todo \cup what \in SUBSET {"projects", "members"}
    BY DEF Screen
  <2>. QED BY <1>2, <2>1 DEF Refetch, Screen
<1>. QED BY <1>1, <1>2

LEMMA ListsTyped ==
    ASSUME AccessTypeOK
    PROVE  /\ ProjectList(Me) \in [Areas -> {"absent", "archived", "edit", "view"}]
           /\ \A p : MemberList(p) \in [Rows -> Listed]
<1>1. ProjectList(Me) \in [Areas -> {"absent", "archived", "edit", "view"}]
  BY DEF ProjectList
<1>2. ASSUME NEW p PROVE MemberList(p) \in [Rows -> Listed]
  <2>1. \A r \in Rows : (IF r \in MembersOf(p) THEN rows[r] ELSE Nobody) \in Listed
    BY DEF AccessTypeOK, Listed
  <2>. QED BY <2>1 DEF MemberList
<1>. QED BY <1>1, <1>2

LEMMA RoomForRow == ASSUME Room PROVE NewRow \in Rows /\ rows[NewRow] = Nobody
BY DEF Room, NewRow

LEMMA DroppedTyped ==
    ASSUME AccessTypeOK, NEW r \in Rows, Dropped(r)
    PROVE  rows' \in [Rows -> Row \cup {Nobody}] /\ refs' \in [Rows -> SUBSET Referrers]
BY DEF AccessTypeOK, Dropped

LEMMA AskTyped == ASSUME AccessTypeOK, Ask PROVE asked' \in 0..MaxAsked
BY AccessAssumption DEF AccessTypeOK, Ask

LEMMA ProjectRequestTyped ==
    ASSUME AccessTypeOK, NEW w \in Workers, NEW u \in People, NEW p \in Areas,
           ProjectRequest(w, u, p)
    PROVE  AccessTypeOK'
<1>1. ASSUME NEW n \in Names, CreateProject(w, u, p, n) PROVE AccessTypeOK'
  <2>1. [state |-> "open", name |-> n, slack |-> FALSE] \in Area
    BY DEF Area
  <2>2. [pc |-> "view", by |-> u, area |-> p] \in Work
    BY DEF Work
  <2>3. areas' \in [Areas -> Area] /\ work' \in [Workers -> Work]
    BY <1>1, <2>1, <2>2 DEF CreateProject, AccessTypeOK
  <2>. QED BY <1>1, <2>3, AskTyped, ScreenTyped DEF CreateProject, AccessTypeOK
<1>2. ASSUME NEW c \in Changes, UpdateProjectRead(w, u, p, c) PROVE AccessTypeOK'
  <2>. DEFINE e == [areas[p] EXCEPT ![c.field] = c.value]
              j == [pc |-> "area", area |-> p, by |-> u, entity |-> e]
  <2>1. areas[p] \in Area
    BY DEF AccessTypeOK
  <2>2. \/ c.field = "name" /\ c.value \in Names
        \/ c.field = "slack" /\ c.value \in BOOLEAN
        \/ c.field = "state" /\ c.value \in {"open", "archived"}
    BY DEF Changes
  <2>3. e \in Area
    BY <2>1, <2>2 DEF Area
  <2>4. j \in Work
    <3>. HIDE DEF e
    <3>. QED BY <2>3 DEF Work
  <2>5. work' = [work EXCEPT ![w] = j]
    BY <1>2 DEF UpdateProjectRead
  <2>. HIDE DEF j, e
  <2>. QED BY <1>2, <2>4, <2>5, AskTyped DEF UpdateProjectRead, AccessTypeOK
<1>. QED BY <1>1, <1>2 DEF ProjectRequest

LEMMA MemberRequestTyped ==
    ASSUME AccessTypeOK, NEW u \in People, MemberRequest(u)
    PROVE  AccessTypeOK'
<1>1. ASSUME NEW r \in Row, AddMember(u, r) PROVE AccessTypeOK'
  <2>1. rows' \in [Rows -> Row \cup {Nobody}]
    BY <1>1, RoomForRow DEF AddMember, AccessTypeOK
  <2>. QED BY <1>1, <2>1, AskTyped, ScreenTyped DEF AddMember, AccessTypeOK
<1>2. ASSUME NEW r \in Rows, RemoveMember(u, r) PROVE AccessTypeOK'
  BY <1>2, DroppedTyped, AskTyped, ScreenTyped DEF RemoveMember, AccessTypeOK
<1>3. ASSUME NEW r \in Rows, NEW k \in Referrers, Refer(u, r, k) PROVE AccessTypeOK'
  <2>1. refs' \in [Rows -> SUBSET Referrers]
    BY <1>3 DEF Refer, AccessTypeOK
  <2>. QED BY <1>3, <2>1, AskTyped DEF Refer, AccessTypeOK
<1>4. ASSUME NEW w \in Workers, NEW r \in Rows, NEW v \in People \cup {Nobody},
             NEW role \in {"admin", "member"}, UpdateMemberRead(w, u, r, v, role)
      PROVE  AccessTypeOK'
  <2>. DEFINE e == [rows[r] EXCEPT !.user = v, !.role = role]
              j == [pc |-> "row", row |-> r, entity |-> e]
  <2>1. rows[r] \in Row
    BY <1>4 DEF UpdateMemberRead, AccessTypeOK
  <2>2. e \in Row
    BY <2>1 DEF Row
  <2>3. j \in Work
    <3>. HIDE DEF e
    <3>. QED BY <2>2 DEF Work
  <2>4. work' = [work EXCEPT ![w] = j]
    BY <1>4 DEF UpdateMemberRead
  <2>. HIDE DEF j, e
  <2>. QED BY <1>4, <2>3, <2>4, AskTyped DEF UpdateMemberRead, AccessTypeOK
<1>. QED BY <1>1, <1>2, <1>3, <1>4 DEF MemberRequest

LEMMA AccessWriteTyped ==
    ASSUME AccessTypeOK, NEW w \in Workers, AccessWrite(w)
    PROVE  AccessTypeOK'
<1>. DEFINE j == work[w]
<1>0. j \in Work
  BY DEF AccessTypeOK
<1>1. CASE GrantView(w)
  <2>1. j \in [pc : {"view", "join"}, by : People, area : Areas]
    BY <1>0, <1>1, WorkForms DEF GrantView
  <2>2. [j EXCEPT !.pc = "join"] \in Work
    BY <2>1 DEF Work
  <2>3. viewers' \in [Areas -> SUBSET People] /\ work' \in [Workers -> Work]
    BY <1>1, <2>1, <2>2 DEF GrantView, AccessTypeOK
  <2>. QED BY <1>1, <2>3, ScreenTyped DEF GrantView, AccessTypeOK
<1>2. CASE GrantMember(w)
  <2>1. j \in [pc : {"view", "join"}, by : People, area : Areas]
    BY <1>0, <1>2, WorkForms DEF GrantMember
  <2>2. [area |-> j.area, user |-> j.by, role |-> "admin"] \in Row
    BY <2>1 DEF Row
  <2>3. rows' \in [Rows -> Row \cup {Nobody}]
    BY <1>2, <2>2, RoomForRow DEF GrantMember, AccessTypeOK
  <2>. QED BY <1>2, <2>3, ScreenTyped, WorkRests DEF GrantMember, AccessTypeOK
<1>3. CASE CreationFails(w)
  BY <1>3, WorkRests DEF CreationFails, AccessTypeOK
<1>4. CASE UpdateProjectWrite(w)
  <2>1. j \in [pc : {"area"}, area : Areas, entity : Area, by : People]
    BY <1>0, <1>4, WorkForms DEF UpdateProjectWrite
  <2>2. areas' \in [Areas -> Area]
    BY <1>4, <2>1 DEF UpdateProjectWrite, AccessTypeOK
  <2>3. screen' \in Screen
    BY <1>4, ScreenTyped DEF UpdateProjectWrite, AccessTypeOK
  <2>. QED BY <1>4, <2>2, <2>3, WorkRests DEF UpdateProjectWrite, AccessTypeOK
<1>5. CASE UpdateMemberWrite(w)
  <2>1. j \in [pc : {"row"}, row : Rows, entity : Row]
    BY <1>0, <1>5, WorkForms DEF UpdateMemberWrite
  <2>2. rows' \in [Rows -> Row \cup {Nobody}]
    BY <1>5, <2>1 DEF UpdateMemberWrite, AccessTypeOK
  <2>. QED BY <1>5, <2>2, ScreenTyped, WorkRests DEF UpdateMemberWrite, AccessTypeOK
<1>. QED BY <1>1, <1>2, <1>3, <1>4, <1>5 DEF AccessWrite

LEMMA BrowseTyped ==
    ASSUME AccessTypeOK, Browse
    PROVE  AccessTypeOK'
<1>1. ASSUME NEW p \in Areas, Visit(p) PROVE AccessTypeOK'
  <2>1. screen' \in Screen
    BY <1>1, ListsTyped DEF Visit, Screen, Counts
  <2>. QED BY <1>1, <2>1 DEF Visit, AccessTypeOK
<1>2. CASE ProjectsLoaded
  <2>1. screen' \in Screen
    BY <1>2, ListsTyped DEF ProjectsLoaded, Screen, AccessTypeOK
  <2>. QED BY <1>2, <2>1 DEF ProjectsLoaded, AccessTypeOK
<1>3. CASE MembersLoaded
  <2>1. screen' \in Screen
    BY <1>3, ListsTyped DEF MembersLoaded, Screen, AccessTypeOK
  <2>. QED BY <1>3, <2>1 DEF MembersLoaded, AccessTypeOK
<1>4. ASSUME NEW r \in Rows, NEW v \in People \cup {Nobody}, NEW role \in {"admin", "member"},
             SaveMember(r, v, role)
      PROVE  AccessTypeOK'
  <2>1. rows[r] \in Row
    BY <1>4 DEF SaveMember, AccessTypeOK
  <2>2. [rows[r] EXCEPT !.user = v, !.role = role] \in Row
    BY <2>1 DEF Row
  <2>3. rows' \in [Rows -> Row \cup {Nobody}]
    BY <1>4, <2>2 DEF SaveMember, AccessTypeOK
  <2>4. screen' \in Screen
    BY <1>4, ScreenTyped DEF SaveMember, AccessTypeOK
  <2>. QED BY <1>4, <2>3, <2>4, AskTyped DEF SaveMember, AccessTypeOK
<1>5. ASSUME NEW r \in Rows, OpenDelete(r) PROVE AccessTypeOK'
  <2>1. Counted(r) \in [of : Rows, found : SUBSET Referrers]
    BY DEF Counted, AccessTypeOK
  <2>2. screen' \in Screen
    BY <1>5, <2>1 DEF OpenDelete, Screen, AccessTypeOK, Counts
  <2>. QED BY <1>5, <2>2, AskTyped DEF OpenDelete, AccessTypeOK
<1>6. ASSUME NEW c \in screen.counting, CountsArrive(c) PROVE AccessTypeOK'
  <2>1. screen' \in Screen
    BY <1>6 DEF CountsArrive, Screen, AccessTypeOK, Counts
  <2>. QED BY <1>6, <2>1 DEF CountsArrive, AccessTypeOK
<1>7. CASE PerformDelete
  <2>1. screen.target \in Rows /\ screen' \in Screen
    BY <1>7 DEF PerformDelete, Screen, AccessTypeOK
  <2>. QED BY <1>7, <2>1, DroppedTyped, AskTyped DEF PerformDelete, AccessTypeOK
<1>. QED BY <1>1, <1>2, <1>3, <1>4, <1>5, <1>6, <1>7 DEF Browse

(* The tables of projects, members and grants, the handlers between two of   *)
(* their writes and the browser keep their types, however many requests are  *)
(* between two steps at once.                                                *)
THEOREM AccessTypeCorrect == AccessSpec => []AccessTypeOK
<1>1. AccessInit => AccessTypeOK
  <2>. SUFFICES ASSUME NEW ranks \in [People -> Ranks], NEW made \in SUBSET Areas,
                       NEW u \in People, NEW r \in Rows, AccessFrom(ranks, made, u, r)
                PROVE  AccessTypeOK
    BY DEF AccessInit
  <2>1. Blank \in Area /\ [Blank EXCEPT !.state = "open"] \in Area
    BY AccessAssumption DEF Blank, Area
  <2>2. made # {} => [area |-> CHOOSE p \in made : TRUE, user |-> u, role |-> "admin"] \in Row
    BY DEF Row
  <2>3. areas \in [Areas -> Area] /\ rows \in [Rows -> Row \cup {Nobody}]
    <3>. HIDE DEF Blank
    <3>. QED BY <2>1, <2>2 DEF AccessFrom
  <2>4. screen \in Screen
    BY DEF AccessFrom, Screen, Listed, Counts
  <2>5. [pc |-> "idle"] \in Work
    BY DEF Work
  <2>6. /\ rank \in [People -> Ranks] /\ viewers \in [Areas -> SUBSET People]
        /\ refs \in [Rows -> SUBSET Referrers] /\ work \in [Workers -> Work]
    BY <2>5 DEF AccessFrom
  <2>7. 0 \in 0..MaxTasks /\ 0 \in 0..MaxAsked
    BY AccessAssumption
  <2>8. tasks \in [Areas -> 0..MaxTasks] /\ asked \in 0..MaxAsked
    BY <2>7 DEF AccessFrom
  <2>. QED BY <2>3, <2>4, <2>6, <2>8 DEF AccessTypeOK
<1>2. AccessTypeOK /\ [AccessNext]_accessVars => AccessTypeOK'
  <2>. SUFFICES ASSUME AccessTypeOK, [AccessNext]_accessVars PROVE AccessTypeOK'
    OBVIOUS
  <2>1. ASSUME NEW a \in People, NEW u \in People, NEW ps \in SUBSET Areas, ReplaceForUser(a, u, ps)
        PROVE  AccessTypeOK'
    <3>1. viewers' \in [Areas -> SUBSET People]
      BY <2>1 DEF ReplaceForUser, AccessTypeOK
    <3>. QED BY <2>1, <3>1, AskTyped, ScreenTyped DEF ReplaceForUser, AccessTypeOK
  <2>2. ASSUME NEW u \in People, NEW p \in Areas, AddTask(u, p) PROVE AccessTypeOK'
    <3>1. tasks' \in [Areas -> 0..MaxTasks]
      BY <2>2, AccessAssumption DEF AddTask, AccessTypeOK
    <3>. QED BY <2>2, <3>1, AskTyped DEF AddTask, AccessTypeOK
  <2>3. CASE UNCHANGED accessVars
    BY <2>3 DEF accessVars, AccessTypeOK
  <2>. QED BY <2>1, <2>2, <2>3, ProjectRequestTyped, MemberRequestTyped, AccessWriteTyped, BrowseTyped
         DEF AccessNext, AddTaskByKey
<1>. QED BY <1>1, <1>2, PTL DEF AccessSpec

---------------------------------------------------------------------------
(* ProjectAccess: what the browser allows *)

(* What the list says of a project and what the guard decides agree in every *)
(* state, reachable or not.                                                  *)
LEMMA ListSaysWhatGuardDoes ==
    ASSUME NEW u \in People
    PROVE  LET shown == AccessibleProjectIds(u) IN
           /\ \A p \in Areas : p \in shown <=> CanAccess(u, p)
           /\ \A p \in shown : p \in EditableProjectIds(u, shown) <=> MayEdit(u, p)
BY DEF AccessibleProjectIds, CanAccess, EditableProjectIds, MayEdit, IsEditor

ScreenFields == {"at", "canEdit", "list", "todo", "foreign", "target", "counts", "counting"}

(* Until somebody else acts, what no refresh is under way for is as stored,  *)
(* and the project of the route is one the list lets stay.                   *)
ScreenTrue ==
    ~screen.foreign =>
        /\ "projects" \notin screen.todo =>
              /\ screen.canEdit = ProjectList(Me)
              /\ screen.at # Nobody => screen.canEdit[screen.at] \in {"edit", "view"}
        /\ "members" \notin screen.todo /\ screen.at # Nobody => screen.list = MemberList(screen.at)

ScreenInv ==
    /\ DOMAIN screen = ScreenFields
    /\ screen.at \in Areas \cup {Nobody}
    /\ ScreenTrue

LEMMA ScreenStays ==
    ASSUME ScreenInv, UNCHANGED <<rank, areas, viewers, rows>>, DOMAIN screen' = ScreenFields,
           screen'.at = screen.at, screen'.canEdit = screen.canEdit, screen'.list = screen.list,
           screen'.todo = screen.todo, screen'.foreign = screen.foreign
    PROVE  ScreenInv'
<1>1. ProjectList(Me)' = ProjectList(Me) /\ MemberList(screen.at)' = MemberList(screen.at)
  BY DEF ProjectList, AccessibleProjectIds, EditableProjectIds, Made, RowsOf, MembersOf, MemberList
<1>. QED BY <1>1 DEF ScreenInv, ScreenTrue

LEMMA ForeignActs ==
    ASSUME ScreenInv, Foreign
    PROVE  ScreenInv'
BY DEF ScreenInv, ScreenTrue, Foreign, ScreenFields

(* A request of the browser that changes projects, and members if it says so. *)
LEMMA BrowserActs ==
    ASSUME ScreenInv, NEW what, "projects" \in what, Refetch(what),
           "members" \in what \/ UNCHANGED rows
    PROVE  ScreenInv'
<1>1. /\ DOMAIN screen' = ScreenFields /\ screen'.at = screen.at /\ screen'.list = screen.list
      /\ screen'.todo = screen.todo \cup what /\ screen'.foreign = screen.foreign
  BY DEF ScreenInv, Refetch, ScreenFields
<1>2. rows' = rows => MemberList(screen.at)' = MemberList(screen.at)
  BY <1>1 DEF MemberList, MembersOf
<1>. QED BY <1>1, <1>2 DEF ScreenInv, ScreenTrue

LEMMA ScreenStep ==
    ASSUME ScreenInv, [AccessNext]_accessVars
    PROVE  ScreenInv'
<1>1. CASE UNCHANGED <<rank, areas, viewers, rows, screen>>
  BY <1>1, ScreenStays DEF ScreenInv
<1>2. CASE Foreign
  BY <1>2, ForeignActs
<1>3. CASE Refetch({"projects"}) /\ UNCHANGED rows
  BY <1>3, BrowserActs
<1>4. CASE Refetch({"members", "projects"})
  BY <1>4, BrowserActs
<1>5. ASSUME NEW p \in Areas, Visit(p) PROVE ScreenInv'
  <2>. DEFINE list == ProjectList(Me)
              s == [at |-> p, canEdit |-> list, list |-> MemberList(p), todo |-> {},
                    foreign |-> FALSE, target |-> Nobody, counts |-> Nobody, counting |-> {}]
  <2>1. screen' = s /\ list[p] \in {"edit", "view"} /\ UNCHANGED <<rank, areas, viewers, rows>>
    BY <1>5 DEF Visit
  <2>2. /\ DOMAIN s = ScreenFields /\ s.at = p /\ s.canEdit = list /\ s.list = MemberList(p)
        /\ s.foreign = FALSE /\ s.todo = {}
    BY DEF ScreenFields
  <2>3. ProjectList(Me)' = list /\ \A q : MemberList(q)' = MemberList(q)
    BY <2>1 DEF ProjectList, AccessibleProjectIds, EditableProjectIds, Made, RowsOf, MembersOf,
                MemberList
  <2>. HIDE DEF list, s
  <2>. QED BY <2>1, <2>2, <2>3 DEF ScreenInv, ScreenTrue
<1>6. CASE ProjectsLoaded
  <2>. DEFINE list == ProjectList(Me)
              stays == screen.at # Nobody /\ list[screen.at] \in {"edit", "view"}
  <2>1. /\ screen' = [screen EXCEPT !.canEdit = list, !.todo = screen.todo \ {"projects"},
                                    !.at = IF stays THEN screen.at ELSE Nobody]
        /\ UNCHANGED <<rank, areas, viewers, rows>>
    BY <1>6 DEF ProjectsLoaded
  <2>2. ProjectList(Me)' = list /\ \A q : MemberList(q)' = MemberList(q)
    BY <2>1 DEF ProjectList, AccessibleProjectIds, EditableProjectIds, Made, RowsOf, MembersOf,
                MemberList
  <2>3. stays => list[screen.at] \in {"edit", "view"}
    OBVIOUS
  <2>. HIDE DEF list, stays
  <2>4. /\ DOMAIN screen' = ScreenFields /\ screen'.canEdit = list /\ screen'.list = screen.list
        /\ screen'.todo = screen.todo \ {"projects"} /\ screen'.foreign = screen.foreign
        /\ screen'.at = IF stays THEN screen.at ELSE Nobody
    BY <2>1 DEF ScreenInv, ScreenFields
  <2>. QED BY <2>2, <2>3, <2>4 DEF ScreenInv, ScreenTrue
<1>7. CASE MembersLoaded
  <2>. DEFINE list == IF screen.at = Nobody THEN screen.list ELSE MemberList(screen.at)
  <2>1. /\ screen' = [screen EXCEPT !.list = list, !.todo = screen.todo \ {"members"}]
        /\ UNCHANGED <<rank, areas, viewers, rows>>
    BY <1>7 DEF MembersLoaded
  <2>2. ProjectList(Me)' = ProjectList(Me) /\ \A q : MemberList(q)' = MemberList(q)
    BY <2>1 DEF ProjectList, AccessibleProjectIds, EditableProjectIds, Made, RowsOf, MembersOf,
                MemberList
  <2>3. screen.at # Nobody => list = MemberList(screen.at)
    OBVIOUS
  <2>. HIDE DEF list
  <2>4. /\ DOMAIN screen' = ScreenFields /\ screen'.canEdit = screen.canEdit /\ screen'.list = list
        /\ screen'.todo = screen.todo \ {"members"} /\ screen'.foreign = screen.foreign
        /\ screen'.at = screen.at
    BY <2>1 DEF ScreenInv, ScreenFields
  <2>. QED BY <2>2, <2>3, <2>4 DEF ScreenInv, ScreenTrue
<1>8. ASSUME NEW r \in Rows, OpenDelete(r) PROVE ScreenInv'
  <2>1. /\ UNCHANGED <<rank, areas, viewers, rows>> /\ DOMAIN screen' = ScreenFields
        /\ screen'.at = screen.at /\ screen'.canEdit = screen.canEdit
        /\ screen'.list = screen.list /\ screen'.todo = screen.todo
        /\ screen'.foreign = screen.foreign
    BY <1>8 DEF OpenDelete, ScreenInv, ScreenFields
  <2>. QED BY <2>1, ScreenStays
<1>9. ASSUME NEW c, CountsArrive(c) PROVE ScreenInv'
  <2>1. /\ UNCHANGED <<rank, areas, viewers, rows>> /\ DOMAIN screen' = ScreenFields
        /\ screen'.at = screen.at /\ screen'.canEdit = screen.canEdit
        /\ screen'.list = screen.list /\ screen'.todo = screen.todo
        /\ screen'.foreign = screen.foreign
    BY <1>9 DEF CountsArrive, ScreenInv, ScreenFields
  <2>. QED BY <2>1, ScreenStays
<1>10. CASE PerformDelete
  <2>1. /\ DOMAIN screen' = ScreenFields /\ screen'.at = screen.at
        /\ screen'.todo = {"members", "projects"}
    BY <1>10 DEF PerformDelete, ScreenInv, ScreenFields
  <2>. QED BY <2>1 DEF ScreenInv, ScreenTrue
<1>11. CASE Browse
  BY <1>4, <1>5, <1>6, <1>7, <1>8, <1>9, <1>10, <1>11 DEF Browse, SaveMember
<1>12. ASSUME NEW w \in Workers, AccessWrite(w) PROVE ScreenInv'
  BY <1>1, <1>2, <1>3, <1>12
     DEF AccessWrite, GrantView, GrantMember, CreationFails, UpdateProjectWrite, UpdateMemberWrite
<1>13. ASSUME NEW w \in Workers, NEW u \in People, NEW p \in Areas, ProjectRequest(w, u, p)
       PROVE  ScreenInv'
  BY <1>1, <1>2, <1>13 DEF ProjectRequest, CreateProject, UpdateProjectRead
<1>14. ASSUME NEW u \in People, MemberRequest(u) PROVE ScreenInv'
  BY <1>1, <1>2, <1>4, <1>14 DEF MemberRequest, AddMember, RemoveMember, Refer, UpdateMemberRead
<1>15. CASE \/ \E a, u \in People, ps \in SUBSET Areas : ReplaceForUser(a, u, ps)
            \/ \E u \in People, p \in Areas : AddTask(u, p) \/ AddTaskByKey(u, p)
  BY <1>1, <1>2, <1>15 DEF ReplaceForUser, AddTask, AddTaskByKey
<1>16. CASE UNCHANGED accessVars
  BY <1>1, <1>16 DEF accessVars
<1>. QED BY <1>11, <1>12, <1>13, <1>14, <1>15, <1>16 DEF AccessNext

(* One's own changes show without a reload: once the refreshes that each     *)
(* starts have arrived, and if nobody else has acted since the visit, the    *)
(* page takes for editable and manageable exactly what the server's guards   *)
(* let one edit and manage.  A project just archived is left.                *)
THEOREM OwnChangesShowAlways == AccessSpec => []OwnChangesShow
<1>1. AccessInit => ScreenInv
  BY DEF AccessInit, AccessFrom, ScreenInv, ScreenTrue, ScreenFields
<1>2. ScreenInv /\ [AccessNext]_accessVars => ScreenInv'
  BY ScreenStep
<1>3. ScreenInv => OwnChangesShow
  <2>. SUFFICES ASSUME ScreenInv, screen.at # Nobody, screen.todo = {}, ~screen.foreign
                PROVE  /\ Readonly(screen.at) <=> ~MayEdit(Me, screen.at)
                       /\ ManagerShown(screen.at) <=> ProjectAdmin(Me, screen.at)
    BY DEF OwnChangesShow
  <2>. DEFINE p == screen.at
  <2>1. /\ p \in Areas /\ screen.canEdit = ProjectList(Me)
        /\ screen.canEdit[p] \in {"edit", "view"} /\ screen.list = MemberList(p)
    BY DEF ScreenInv, ScreenTrue
  <2>. DEFINE shown == AccessibleProjectIds(Me)
              editable == EditableProjectIds(Me, shown)
              archived == {q \in shown : areas[q].state = "archived"}
  <2>2. screen.canEdit[p] = CASE p \notin shown             -> "absent"
                              [] p \in archived            -> "archived"
                              [] p \in editable \ archived -> "edit"
                              [] OTHER                      -> "view"
    BY <2>1 DEF ProjectList
  <2>3. /\ archived \subseteq shown /\ editable \subseteq shown
        /\ p \in shown => (p \in editable <=> MayEdit(Me, p))
    BY AccessAssumption, ListSaysWhatGuardDoes DEF EditableProjectIds
  <2>. HIDE DEF shown, editable, archived
  <2>7. screen.canEdit[p] = "edit" <=> MayEdit(Me, p)
    BY <2>1, <2>2, <2>3
  <2>4. MayEdit(Me, p) => rank[Me] # "readonly"
    BY DEF MayEdit
  <2>5. Readonly(p) <=> ~MayEdit(Me, p)
    BY <2>4, <2>7 DEF Readonly
  <2>6. ManagerShown(p) <=> ProjectAdmin(Me, p)
    <3>1. \A r \in Rows : screen.list[r] = IF r \in MembersOf(p) THEN rows[r] ELSE Nobody
      BY <2>1 DEF MemberList
    <3>2. \A r \in MembersOf(p) : r \in Rows /\ rows[r] # Nobody
      BY DEF MembersOf
    <3>. QED BY <3>1, <3>2 DEF ManagerShown, ProjectAdmin, RowsOf
  <2>. QED BY <2>5, <2>6
<1>. QED BY <1>1, <1>2, <1>3, PTL DEF AccessSpec

---------------------------------------------------------------------------
(* SubtaskList: positions *)

Section ==
    [task : Parents, rows : Seq(Pieces), fetch : {"idle", "sent", "read"},
     answer : Seq(Pieces), adding : {"no", "sent", "loading"}]

SubtaskTypes ==
    /\ row \in [Pieces -> {Gone} \cup [of : Parents, at : Nat]]
    /\ clerk \in [Clerks -> {Idling} \cup Call]
    /\ section \in Section

Reading(k) == clerk[k].step = "read"

(* What a request has read stays of its task, and two that name the same     *)
(* subtask are of the same task; the id of one to be created is named once.  *)
NamesRight ==
    \A k \in Clerks : Reading(k) =>
        \A s \in Involves(k) : row[s] = Gone \/ (clerk[k].does # "create" /\ row[s].of = clerk[k].of)
NamesApart ==
    \A k, c \in Clerks : k # c /\ Reading(k) /\ Reading(c) =>
        \A s \in Involves(k) \cap Involves(c) : clerk[k].of = clerk[c].of /\ clerk[k].does # "create"

(* Two that are about to write positions of a task have been seen to overlap; *)
(* one on a task without an overlap writes where no other subtask is, or      *)
(* places them all.                                                           *)
OverlapSeen ==
    \A k, c \in Clerks : k # c /\ Positioning(k) /\ Positioning(c) /\ clerk[k].of = clerk[c].of =>
        clerk[k].of \in overlapped
PlacesFree ==
    \A k \in Clerks : Positioning(k) /\ clerk[k].of \notin overlapped =>
        IF clerk[k].does = "reorder" THEN There(clerk[k].of) \subseteq Range(clerk[k].ids)
        ELSE \A s \in There(clerk[k].of) \ {clerk[k].piece} : row[s].at # clerk[k].at

PosInv == NamesRight /\ NamesApart /\ OverlapSeen /\ PlacesFree /\ PositionsDistinct

LEMMA NextPositionIsFree ==
    ASSUME SubtaskTypes, NEW t \in Parents
    PROVE  /\ NextPosition(t) \in Nat
           /\ \A s \in There(t) : row[s].at # NextPosition(t)
<1>. DEFINE S == {row[s].at : s \in There(t)}
<1>1. CASE There(t) = {}
  BY <1>1 DEF NextPosition
<1>2. CASE There(t) # {}
  <2>1. \A s \in There(t) : row[s].at \in Nat
    BY DEF SubtaskTypes, There
  <2>2. S \in SUBSET Nat /\ S # {}
    BY <1>2, <2>1
  <2>3. IsFiniteSet(S)
    <3>. DEFINE f == [s \in There(t) |-> row[s].at]
    <3>1. IsFiniteSet(There(t))
      <4>1. There(t) \subseteq Pieces
        BY DEF There
      <4>. QED BY <4>1, SubtaskListAssumption, FS_Subset
    <3>2. f \in Surjection(There(t), S)
      BY DEF Surjection
    <3>. HIDE DEF f, S
    <3>. QED BY <3>1, <3>2, FS_Surjection
  <2>4. \E m \in S : \A n \in S : n <= m
    <3>. HIDE DEF S
    <3>. QED BY <2>2, <2>3, LargestIsIn
  <2>5. \E m \in S : \A s \in There(t) : row[s].at <= m
    BY <2>4
  <2>. DEFINE m == CHOOSE n \in S : \A s \in There(t) : row[s].at <= n
  <2>6. m \in S /\ \A s \in There(t) : row[s].at <= m
    BY <2>5
  <2>7. NextPosition(t) = 1 + m
    BY <1>2 DEF NextPosition
  <2>8. m \in Nat
    BY <2>2, <2>6
  <2>. HIDE DEF m, S
  <2>. QED BY <2>1, <2>6, <2>7, <2>8
<1>. QED BY <1>1, <1>2

(* A request that has not read, or has ended without a write. *)
LEMMA NoReading ==
    ASSUME PosInv, NEW k \in Clerks, NEW r, clerk \in [Clerks -> {Idling} \cup Call],
           clerk' = [clerk EXCEPT ![k] = r], r.step # "read", UNCHANGED <<row, overlapped>>
    PROVE  PosInv'
<1>1. clerk'[k].step # "read" /\ \A c \in Clerks \ {k} : clerk'[c] = clerk[c]
  OBVIOUS
<1>2. \A t : There(t)' = There(t)
  BY DEF There
<1>3. NamesRight' /\ NamesApart'
  BY <1>1 DEF PosInv, NamesRight, NamesApart, Reading, Involves
<1>4. OverlapSeen' /\ PlacesFree'
  BY <1>1, <1>2 DEF PosInv, OverlapSeen, PlacesFree, Positioning
<1>5. PositionsDistinct'
  BY <1>2 DEF PosInv, PositionsDistinct
<1>. QED BY <1>3, <1>4, <1>5 DEF PosInv

(* What a request finds when it reads. *)
NamesOf(c, s) == IF c.does = "reorder" THEN Range(c.ids) ELSE {s}
Finds(k, c, s, at) ==
    /\ \A p \in NamesOf(c, s) : row[p] = Gone \/ (c.does # "create" /\ row[p].of = c.of)
    /\ \A d \in Clerks \ {k} : Reading(d) =>
          \A p \in NamesOf(c, s) \cap Involves(d) :
              clerk[d].of = c.of /\ clerk[d].does # "create" /\ c.does # "create"
    /\ c.of \notin overlapped =>
          IF c.does = "reorder" THEN There(c.of) \subseteq Range(c.ids)
          ELSE c.does = "remove" \/ \A p \in There(c.of) \ {s} : row[p].at # at

LEMMA ReadsStep ==
    ASSUME SubtaskTypes, PosInv, NEW k \in Clerks, NEW c \in Call, NEW s \in Pieces, NEW at \in Nat,
           Reads(k, c, s, at), Finds(k, c, s, at)
    PROVE  PosInv' /\ clerk' \in [Clerks -> {Idling} \cup Call]
<1>. DEFINE r == [c EXCEPT !.step = "read", !.piece = s, !.at = at]
<1>1. clerk' = [clerk EXCEPT ![k] = r] /\ row' = row
  BY DEF Reads
<1>2. /\ r \in Call /\ r.step = "read" /\ r.piece = s /\ r.at = at
      /\ r.does = c.does /\ r.of = c.of /\ r.ids = c.ids
  BY DEF Call
<1>. HIDE DEF r
<1>3. /\ clerk' \in [Clerks -> {Idling} \cup Call] /\ clerk'[k] = r
      /\ \A d \in Clerks \ {k} : clerk'[d] = clerk[d]
  BY <1>1, <1>2 DEF SubtaskTypes
<1>4. Involves(k)' = NamesOf(c, s) /\ \A d \in Clerks \ {k} : Involves(d)' = Involves(d)
  BY <1>2, <1>3 DEF Involves, NamesOf
<1>5. \A t : There(t)' = There(t)
  BY <1>1 DEF There
<1>6. /\ overlapped \subseteq overlapped'
      /\ c.does = "remove" \/ \A d \in Clerks \ {k} : Positioning(d) /\ clerk[d].of = c.of =>
                                 c.of \in overlapped'
  <2>1. CASE c.does = "remove"
    BY <2>1 DEF Reads
  <2>2. CASE c.does # "remove"
    BY <2>2 DEF Reads, Overlap
  <2>. QED BY <2>1, <2>2
<1>7. NamesRight'
  BY <1>1, <1>2, <1>3, <1>4 DEF PosInv, NamesRight, Reading, Finds
<1>8. NamesApart'
  <2>. SUFFICES ASSUME NEW d \in Clerks, NEW e \in Clerks, d # e, Reading(d)', Reading(e)',
                       NEW p \in Involves(d)' \cap Involves(e)'
                PROVE  clerk'[d].of = clerk'[e].of /\ clerk'[d].does # "create"
    BY DEF NamesApart
  <2>1. CASE d # k /\ e # k
    BY <1>3, <1>4, <2>1 DEF PosInv, NamesApart, Reading
  <2>2. CASE d = k
    BY <1>2, <1>3, <1>4, <2>2 DEF Finds, Reading
  <2>3. CASE e = k
    BY <1>2, <1>3, <1>4, <2>3 DEF Finds, Reading
  <2>. QED BY <2>1, <2>2, <2>3
<1>9. OverlapSeen'
  BY <1>2, <1>3, <1>6 DEF PosInv, OverlapSeen, Positioning
<1>10. PlacesFree'
  <2>. SUFFICES ASSUME NEW d \in Clerks, Positioning(d)', clerk'[d].of \notin overlapped'
                PROVE  IF clerk'[d].does = "reorder"
                       THEN There(clerk'[d].of) \subseteq Range(clerk'[d].ids)
                       ELSE \A p \in There(clerk'[d].of) \ {clerk'[d].piece} :
                               row[p].at # clerk'[d].at
    BY <1>1, <1>5 DEF PlacesFree
  <2>1. CASE d = k
    BY <1>2, <1>3, <1>6, <2>1 DEF Finds, Positioning
  <2>2. CASE d # k
    <3>1. clerk'[d] = clerk[d] /\ Positioning(d) /\ clerk[d].of \notin overlapped
      BY <1>3, <1>6, <2>2 DEF Positioning
    <3>. QED BY <3>1 DEF PosInv, PlacesFree
  <2>. QED BY <2>1, <2>2
<1>11. PositionsDistinct'
  BY <1>1, <1>5, <1>6 DEF PosInv, PositionsDistinct
<1>. QED BY <1>3, <1>7, <1>8, <1>9, <1>10, <1>11 DEF PosInv

LEMMA HandleStep ==
    ASSUME SubtaskTypes, PosInv, NEW k \in Clerks, NEW c \in Call, Handle(k, c), row' = row
    PROVE  /\ PosInv' /\ clerk' \in [Clerks -> {Idling} \cup Call]
           /\ \E r : clerk' = [clerk EXCEPT ![k] = r] /\ r.does = c.does /\ r.own = c.own
           /\ UNCHANGED <<section, untold>>
<1>1. ASSUME NEW s \in Pieces, NEW at \in Nat, Reads(k, c, s, at), Finds(k, c, s, at)
      PROVE  /\ PosInv' /\ clerk' \in [Clerks -> {Idling} \cup Call]
             /\ \E r : clerk' = [clerk EXCEPT ![k] = r] /\ r.does = c.does /\ r.own = c.own
             /\ UNCHANGED <<section, untold>>
  <2>. DEFINE r == [c EXCEPT !.step = "read", !.piece = s, !.at = at]
  <2>1. r.does = c.does /\ r.own = c.own
    BY DEF Call
  <2>2. clerk' = [clerk EXCEPT ![k] = r]
    BY <1>1 DEF Reads
  <2>. HIDE DEF r
  <2>3. \E q : clerk' = [clerk EXCEPT ![k] = q] /\ q.does = c.does /\ q.own = c.own
    BY <2>1, <2>2
  <2>4. UNCHANGED <<section, untold>>
    BY <1>1 DEF Reads
  <2>. QED BY <1>1, <2>3, <2>4, ReadsStep
<1>2. CASE CreateReads(k, c)
  <2>1. PICK s \in Pieces : /\ row[s] = Gone /\ Reads(k, c, s, NextPosition(c.of))
                            /\ \A d \in Clerks : clerk[d].step = "read" => s \notin Involves(d)
    BY <1>2 DEF CreateReads
  <2>2. c.does = "create" /\ c.of \in Parents
    BY <1>2 DEF CreateReads, Call
  <2>3. NextPosition(c.of) \in Nat /\ \A p \in There(c.of) : row[p].at # NextPosition(c.of)
    BY <2>2, NextPositionIsFree
  <2>4. NamesOf(c, s) = {s}
    BY <2>2 DEF NamesOf
  <2>5. Finds(k, c, s, NextPosition(c.of))
    BY <2>1, <2>2, <2>3, <2>4 DEF Finds, Reading
  <2>. QED BY <1>1, <2>1, <2>3, <2>5
<1>3. ASSUME FindInTask(k, c) \/ ReorderReads(k, c)
      PROVE  /\ c.does \in {"update", "remove", "reorder"}
             /\ \E s \in Pieces, at \in Nat :
                   /\ Reads(k, c, s, at) /\ NamesOf(c, s) \subseteq There(c.of)
                   /\ IF c.does = "reorder" THEN There(c.of) \subseteq Range(c.ids)
                      ELSE There(c.of) # {} /\ s \in There(c.of) /\ row[s].at = at
  <2>1. CASE FindInTask(k, c)
    <3>1. c.piece \in Pieces /\ row[c.piece].at \in Nat /\ c.piece \in There(c.of)
      BY <2>1 DEF FindInTask, There, SubtaskTypes, Call
    <3>. QED BY <2>1, <3>1 DEF FindInTask, NamesOf
  <2>2. CASE ReorderReads(k, c)
    <3>1. c.piece \in Pieces /\ c.at \in Nat
      BY DEF Call
    <3>. QED BY <2>2, <3>1 DEF ReorderReads, NamesOf
  <2>. QED BY <1>3, <2>1, <2>2
<1>4. CASE FindInTask(k, c) \/ ReorderReads(k, c)
  <2>1. c.does \in {"update", "remove", "reorder"}
    BY <1>3, <1>4
  <2>2. PICK s \in Pieces, at \in Nat :
                   /\ Reads(k, c, s, at) /\ NamesOf(c, s) \subseteq There(c.of)
                   /\ IF c.does = "reorder" THEN There(c.of) \subseteq Range(c.ids)
                      ELSE There(c.of) # {} /\ s \in There(c.of) /\ row[s].at = at
    BY <1>3, <1>4
  <2>3. \A p \in NamesOf(c, s) : row[p] # Gone /\ row[p].of = c.of
    BY <2>2 DEF There
  <2>4. \A d \in Clerks \ {k} : Reading(d) =>
           \A p \in NamesOf(c, s) \cap Involves(d) : clerk[d].of = c.of /\ clerk[d].does # "create"
    BY <2>3 DEF PosInv, NamesRight
  <2>5. CASE c.does \in {"remove", "reorder"}
    <3>1. Finds(k, c, s, at)
      BY <2>1, <2>2, <2>3, <2>4, <2>5 DEF Finds
    <3>. QED BY <1>1, <2>2, <3>1
  <2>6. CASE c.does = "update"
    <3>1. s \in There(c.of) /\ row[s].at = at /\ c.of \in Parents
      BY <2>2, <2>6 DEF Call
    <3>2. c.of \notin overlapped => \A p \in There(c.of) \ {s} : row[p].at # at
      BY <3>1 DEF PosInv, PositionsDistinct
    <3>3. Finds(k, c, s, at)
      BY <2>3, <2>4, <2>6, <3>2 DEF Finds
    <3>. QED BY <1>1, <2>2, <3>3
  <2>. QED BY <2>1, <2>5, <2>6
<1>. QED BY <1>2, <1>4 DEF Handle

(* Whatever a request writes, it writes in its own task. *)
SomeWrite(k) == CreateWrites(k) \/ UpdateSaves(k) \/ Removes(k) \/ ReorderWrites(k)

(* row' is row with s at a place of task t, which it was of or not at all.   *)
Places(s, t, at) == row' = [row EXCEPT ![s] = [of |-> t, at |-> at]]

LEMMA PlacedRow ==
    ASSUME SubtaskTypes, NEW s \in Pieces, NEW t \in Parents, NEW at \in Nat, Places(s, t, at)
    PROVE  /\ row' \in [Pieces -> {Gone} \cup [of : Parents, at : Nat]]
           /\ row'[s] # Gone /\ row'[s].of = t /\ row'[s].at = at
           /\ \A p \in Pieces \ {s} : row'[p] = row[p]
<1>. DEFINE r == [of |-> t, at |-> at]
<1>1. r \in [of : Parents, at : Nat] /\ r.of = t /\ r.at = at /\ DOMAIN r = {"of", "at"}
  OBVIOUS
<1>2. r # Gone
  BY <1>1 DEF Gone
<1>3. row' = [row EXCEPT ![s] = r]
  BY DEF Places
<1>. HIDE DEF r
<1>. QED BY <1>1, <1>2, <1>3 DEF SubtaskTypes

(* A reordering gives its subtasks places of their own and no other task. *)
LEMMA ReorderedRows ==
    ASSUME SubtaskTypes, NEW k \in Clerks, ReorderWrites(k)
    PROVE  /\ row' \in [Pieces -> {Gone} \cup [of : Parents, at : Nat]]
           /\ \A s \in Pieces : row[s] = Gone \/ s \notin Range(clerk[k].ids) => row'[s] = row[s]
           /\ \A s \in Pieces : row[s] # Gone => row'[s] # Gone /\ row'[s].of = row[s].of
           /\ \A s, p \in Pieces : /\ s # p /\ row[s] # Gone /\ row[p] # Gone
                                   /\ {s, p} \subseteq Range(clerk[k].ids)
                                   => row'[s].at # row'[p].at
<1>. DEFINE ids == clerk[k].ids
            Place(s) == (CHOOSE i \in DOMAIN ids : ids[i] = s) - 1
<1>1. row' = [s \in Pieces |-> IF row[s] = Gone \/ s \notin Range(ids) THEN row[s]
                               ELSE [row[s] EXCEPT !.at = Place(s)]]
  BY DEF ReorderWrites
<1>2. ids \in Seq(Pieces)
  BY DEF ReorderWrites, Is, SubtaskTypes, Idling, Call
<1>3. \A s \in Range(ids) : \E i \in DOMAIN ids : ids[i] = s
  BY DEF Range
<1>4. ASSUME NEW s \in Range(ids)
      PROVE  Place(s) + 1 \in DOMAIN ids /\ ids[Place(s) + 1] = s /\ Place(s) \in Nat
  <2>. DEFINE j == CHOOSE i \in DOMAIN ids : ids[i] = s
  <2>1. j \in DOMAIN ids /\ ids[j] = s
    BY <1>3
  <2>2. DOMAIN ids = 1..Len(ids) /\ Len(ids) \in Nat
    BY <1>2
  <2>3. Place(s) = j - 1
    OBVIOUS
  <2>. HIDE DEF j, ids, Place
  <2>4. j \in Nat /\ j >= 1
    BY <2>1, <2>2
  <2>5. Place(s) + 1 = j /\ Place(s) \in Nat
    BY <2>3, <2>4
  <2>. QED BY <2>1, <2>5
<1>. HIDE DEF ids, Place
<1>5. ASSUME NEW s \in Pieces, row[s] # Gone, s \in Range(ids)
      PROVE  row'[s] \in [of : Parents, at : Nat] /\ row'[s].of = row[s].of /\ row'[s].at = Place(s)
  <2>1. row[s] \in [of : Parents, at : Nat]
    BY <1>5 DEF SubtaskTypes
  <2>2. row'[s] = [row[s] EXCEPT !.at = Place(s)]
    BY <1>1, <1>5
  <2>. QED BY <1>4, <1>5, <2>1, <2>2
<1>6. \A s \in Pieces : row[s] = Gone \/ s \notin Range(ids) => row'[s] = row[s]
  BY <1>1
<1>7. \A r \in [of : Parents, at : Nat] : r # Gone
  <2>1. \A r \in [of : Parents, at : Nat] : "at" \in DOMAIN r
    OBVIOUS
  <2>2. DOMAIN Gone = {"of"}
    BY DEF Gone
  <2>. QED BY <2>1, <2>2
<1>8. \A s \in Pieces : row'[s] \in {Gone} \cup [of : Parents, at : Nat]
  BY <1>5, <1>6 DEF SubtaskTypes
<1>9. row' \in [Pieces -> {Gone} \cup [of : Parents, at : Nat]]
  BY <1>1, <1>8
<1>10. \A s \in Pieces : row[s] # Gone => row'[s] # Gone /\ row'[s].of = row[s].of
  BY <1>5, <1>6, <1>7
<1>11. \A s, p \in Pieces : /\ s # p /\ row[s] # Gone /\ row[p] # Gone
                            /\ {s, p} \subseteq Range(ids)
                            => row'[s].at # row'[p].at
  BY <1>4, <1>5
<1>. QED BY <1>6, <1>9, <1>10, <1>11 DEF ids

LEMMA WritesOwnTask ==
    ASSUME SubtaskTypes, PosInv, NEW k \in Clerks, SomeWrite(k)
    PROVE  /\ row' \in [Pieces -> {Gone} \cup [of : Parents, at : Nat]]
           /\ Reading(k) /\ clerk[k] \in Call
           /\ clerk' = [clerk EXCEPT ![k] = Idling]
           /\ \A t : t # clerk[k].of => There(t)' = There(t) /\ \A s \in There(t) : row'[s] = row[s]
           /\ Written(k)
<1>1. Reading(k) /\ clerk[k] \in Call /\ Written(k)
  BY DEF SomeWrite, CreateWrites, UpdateSaves, Removes, ReorderWrites, Is, Reading, SubtaskTypes,
         Idling
<1>2. clerk' = [clerk EXCEPT ![k] = Idling]
  BY <1>1 DEF Written
<1>. DEFINE p == clerk[k].piece
            t == clerk[k].of
<1>3. p \in Pieces /\ t \in Parents /\ clerk[k].at \in Nat
  BY <1>1 DEF Call
<1>4. CASE CreateWrites(k) \/ UpdateSaves(k)
  <2>1. Places(p, t, clerk[k].at) /\ clerk[k].does \in {"create", "update"}
    BY <1>4 DEF CreateWrites, UpdateSaves, Places, Is
  <2>2. row[p] = Gone \/ row[p].of = t
    BY <1>1, <2>1 DEF PosInv, NamesRight, Involves
  <2>3. /\ row' \in [Pieces -> {Gone} \cup [of : Parents, at : Nat]]
        /\ row'[p] # Gone /\ row'[p].of = t /\ \A q \in Pieces \ {p} : row'[q] = row[q]
    BY <1>3, <2>1, PlacedRow
  <2>4. \A u : u # t => There(u)' = There(u) /\ p \notin There(u)
    BY <1>3, <2>2, <2>3 DEF There
  <2>5. \A u : There(u) \subseteq Pieces
    BY DEF There
  <2>. QED BY <1>1, <1>2, <2>3, <2>4, <2>5
<1>5. CASE Removes(k)
  <2>1. row' = [row EXCEPT ![p] = Gone] /\ clerk[k].does = "remove"
    BY <1>5 DEF Removes, Is
  <2>2. row[p] = Gone \/ row[p].of = t
    BY <1>1, <2>1 DEF PosInv, NamesRight, Involves
  <2>3. /\ row' \in [Pieces -> {Gone} \cup [of : Parents, at : Nat]]
        /\ row'[p] = Gone /\ \A q \in Pieces \ {p} : row'[q] = row[q]
    BY <1>3, <2>1 DEF SubtaskTypes
  <2>4. \A u : u # t => There(u)' = There(u) /\ p \notin There(u)
    BY <1>3, <2>2, <2>3 DEF There
  <2>5. \A u : There(u) \subseteq Pieces
    BY DEF There
  <2>. QED BY <1>1, <1>2, <2>3, <2>4, <2>5
<1>6. CASE ReorderWrites(k)
  <2>1. /\ row' \in [Pieces -> {Gone} \cup [of : Parents, at : Nat]]
        /\ \A s \in Pieces : row[s] = Gone \/ s \notin Range(clerk[k].ids) => row'[s] = row[s]
        /\ \A s \in Pieces : row[s] # Gone => row'[s] # Gone /\ row'[s].of = row[s].of
    BY <1>6, ReorderedRows
  <2>2. clerk[k].does = "reorder"
    BY <1>6 DEF ReorderWrites, Is
  <2>3. \A s \in Range(clerk[k].ids) : row[s] = Gone \/ row[s].of = t
    BY <1>1, <2>2 DEF PosInv, NamesRight, Involves
  <2>4. \A u : There(u)' = There(u)
    BY <2>1 DEF There
  <2>5. \A u : u # t => \A s \in There(u) : row'[s] = row[s]
    BY <2>1, <2>3 DEF There
  <2>. QED BY <1>1, <1>2, <2>1, <2>4, <2>5
<1>. QED BY <1>4, <1>5, <1>6 DEF SomeWrite

LEMMA WriteStep ==
    ASSUME SubtaskTypes, PosInv, NEW k \in Clerks, SomeWrite(k)
    PROVE  PosInv'
<1>. DEFINE p == clerk[k].piece
            t == clerk[k].of
<1>1. /\ Reading(k) /\ clerk[k] \in Call
      /\ \A u : u # t => There(u)' = There(u) /\ \A s \in There(u) : row'[s] = row[s]
  BY WritesOwnTask
<1>2. ~Reading(k)' /\ ~Positioning(k)' /\ \A c \in Clerks \ {k} : clerk'[c] = clerk[c]
  <2>1. clerk' = [clerk EXCEPT ![k] = Idling]
    BY WritesOwnTask
  <2>. QED BY <2>1 DEF SubtaskTypes, Reading, Positioning, Idling
<1>3. \A c \in Clerks \ {k} : /\ Reading(c)' = Reading(c) /\ Involves(c)' = Involves(c)
                              /\ Positioning(c)' = Positioning(c)
  BY <1>2 DEF Reading, Involves, Positioning
<1>4. NamesApart'
  BY <1>2, <1>3 DEF PosInv, NamesApart
<1>5. p \in Pieces /\ t \in Parents /\ clerk[k].at \in Nat
  BY <1>1 DEF Call
(* Requests on the same task have been seen to overlap with k. *)
<1>6. \A c \in Clerks \ {k} : Positioning(c) /\ Positioning(k) /\ clerk[c].of = t => t \in overlapped
  BY DEF PosInv, OverlapSeen
<1>7. CASE CreateWrites(k) \/ UpdateSaves(k)
  <2>1. /\ Places(p, t, clerk[k].at) /\ clerk[k].does \in {"create", "update"}
        /\ overlapped' = overlapped
    BY <1>7 DEF CreateWrites, UpdateSaves, Places, Is
  <2>2. /\ row'[p].of = t /\ row'[p].at = clerk[k].at /\ \A q \in Pieces \ {p} : row'[q] = row[q]
    BY <1>5, <2>1, PlacedRow
  <2>3. Positioning(k) /\ Involves(k) = {p}
    BY <1>1, <2>1 DEF Positioning, Reading, Involves
  <2>4. NamesRight'
    <3>. SUFFICES ASSUME NEW c \in Clerks \ {k}, Reading(c), NEW s \in Involves(c)
                  PROVE  row'[s] = Gone \/ (clerk[c].does # "create" /\ row'[s].of = clerk[c].of)
      BY <1>2, <1>3 DEF NamesRight
    <3>1. CASE s = p
      BY <1>1, <2>2, <2>3, <3>1 DEF PosInv, NamesApart
    <3>2. CASE s # p
      <4>1. s \in Pieces
        <5>1. clerk[c] \in Call
          BY DEF Reading, SubtaskTypes, Idling
        <5>. QED BY <5>1 DEF Involves, Call, Range
      <4>2. row'[s] = row[s]
        BY <2>2, <3>2, <4>1
      <4>. QED BY <4>2 DEF PosInv, NamesRight
    <3>. QED BY <3>1, <3>2
  <2>5. OverlapSeen'
    BY <1>2, <1>3, <2>1 DEF PosInv, OverlapSeen
  <2>6. PlacesFree'
    <3>. SUFFICES ASSUME NEW c \in Clerks \ {k}, Positioning(c), NEW u, u = clerk[c].of,
                         u \notin overlapped
                  PROVE  IF clerk[c].does = "reorder" THEN There(u)' \subseteq Range(clerk[c].ids)
                         ELSE \A s \in There(u)' \ {clerk[c].piece} : row'[s].at # clerk[c].at
      BY <1>2, <1>3, <2>1 DEF PlacesFree
    <3>1. u # t
      BY <1>6, <2>3
    <3>. QED BY <1>1, <3>1 DEF PosInv, PlacesFree
  <2>7. PositionsDistinct'
    <3>. SUFFICES ASSUME NEW u \in Parents \ overlapped, NEW s \in There(u)', NEW q \in There(u)',
                         s # q
                  PROVE  row'[s].at # row'[q].at
      BY <2>1 DEF PositionsDistinct
    <3>1. CASE u # t
      BY <1>1, <3>1 DEF PosInv, PositionsDistinct
    <3>2. CASE u = t
      <4>1. \A r \in There(u)' \ {p} : r \in There(u) /\ row'[r] = row[r]
        BY <2>2 DEF There
      <4>2. \A r \in There(u) \ {p} : row[r].at # clerk[k].at
        BY <2>1, <2>3, <3>2 DEF PosInv, PlacesFree
      <4>3. s # p /\ q # p => row[s].at # row[q].at
        BY <4>1 DEF PosInv, PositionsDistinct
      <4>. QED BY <2>2, <4>1, <4>2, <4>3
    <3>. QED BY <3>1, <3>2
  <2>. QED BY <1>4, <2>4, <2>5, <2>6, <2>7 DEF PosInv
<1>8. CASE Removes(k)
  <2>1. row' = [row EXCEPT ![p] = Gone] /\ overlapped' = overlapped
    BY <1>8 DEF Removes
  <2>2. row'[p] = Gone /\ \A q \in Pieces \ {p} : row'[q] = row[q]
    BY <1>5, <2>1 DEF SubtaskTypes
  <2>3. \A u : There(u)' \subseteq There(u) /\ \A s \in There(u)' : row'[s] = row[s]
    BY <2>2 DEF There
  <2>4. NamesRight'
    <3>1. \A s : row'[s] = Gone \/ row'[s] = row[s]
      BY <2>1, <2>2 DEF SubtaskTypes
    <3>. QED BY <1>2, <1>3, <3>1 DEF PosInv, NamesRight
  <2>5. OverlapSeen'
    BY <1>2, <1>3, <2>1 DEF PosInv, OverlapSeen
  <2>6. PlacesFree'
    <3>. SUFFICES ASSUME NEW c \in Clerks \ {k}, Positioning(c), NEW u, u = clerk[c].of,
                         u \notin overlapped
                  PROVE  IF clerk[c].does = "reorder" THEN There(u)' \subseteq Range(clerk[c].ids)
                         ELSE \A s \in There(u)' \ {clerk[c].piece} : row'[s].at # clerk[c].at
      BY <1>2, <1>3, <2>1 DEF PlacesFree
    <3>. QED BY <2>3 DEF PosInv, PlacesFree
  <2>7. PositionsDistinct'
    BY <2>1, <2>3 DEF PosInv, PositionsDistinct
  <2>. QED BY <1>4, <2>4, <2>5, <2>6, <2>7 DEF PosInv
<1>9. CASE ReorderWrites(k)
  <2>. DEFINE ids == clerk[k].ids
              alone == ~\E c \in Clerks \ {k} : Positioning(c) /\ clerk[c].of = t
  <2>1. /\ clerk[k].does = "reorder"
        /\ overlapped' = IF alone /\ Range(ids) = There(t) THEN overlapped \ {t} ELSE overlapped
    BY <1>9 DEF ReorderWrites, Is
  <2>2. /\ \A s \in Pieces : row[s] = Gone \/ s \notin Range(ids) => row'[s] = row[s]
        /\ \A s \in Pieces : row[s] # Gone => row'[s] # Gone /\ row'[s].of = row[s].of
        /\ \A s, q \in Pieces : /\ s # q /\ row[s] # Gone /\ row[q] # Gone
                                /\ {s, q} \subseteq Range(ids)
                                => row'[s].at # row'[q].at
    BY <1>9, ReorderedRows
  <2>3. \A u : There(u)' = There(u)
    BY <2>2 DEF There
  <2>4. Positioning(k)
    BY <1>1, <2>1 DEF Positioning, Reading
  <2>5. NamesRight'
    <3>. SUFFICES ASSUME NEW c \in Clerks \ {k}, Reading(c), NEW s \in Involves(c)
                  PROVE  row'[s] = Gone \/ (clerk[c].does # "create" /\ row'[s].of = clerk[c].of)
      BY <1>2, <1>3 DEF NamesRight
    <3>1. s \in Pieces
      <4>1. clerk[c] \in Call
        BY DEF Reading, SubtaskTypes, Idling
      <4>. QED BY <4>1 DEF Involves, Call, Range
    <3>. QED BY <2>2, <3>1 DEF PosInv, NamesRight
  <2>6. overlapped' \subseteq overlapped /\ \A u \in overlapped : u # t \/ ~alone => u \in overlapped'
    BY <2>1
  <2>7. OverlapSeen'
    <3>. SUFFICES ASSUME NEW c \in Clerks \ {k}, NEW d \in Clerks \ {k}, c # d, Positioning(c),
                         Positioning(d), clerk[c].of = clerk[d].of
                  PROVE  clerk[c].of \in overlapped'
      BY <1>2, <1>3 DEF OverlapSeen
    <3>1. clerk[c].of \in overlapped
      BY DEF PosInv, OverlapSeen
    <3>. QED BY <2>6, <3>1
  <2>8. PlacesFree'
    <3>. SUFFICES ASSUME NEW c \in Clerks \ {k}, Positioning(c), NEW u, u = clerk[c].of,
                         u \notin overlapped'
                  PROVE  IF clerk[c].does = "reorder" THEN There(u)' \subseteq Range(clerk[c].ids)
                         ELSE \A s \in There(u)' \ {clerk[c].piece} : row'[s].at # clerk[c].at
      BY <1>2, <1>3 DEF PlacesFree
    <3>1. u # t
      BY <1>6, <2>4, <2>6
    <3>2. u \notin overlapped
      BY <2>6, <3>1
    <3>. QED BY <1>1, <3>1, <3>2 DEF PosInv, PlacesFree
  <2>9. PositionsDistinct'
    <3>. SUFFICES ASSUME NEW u \in Parents \ overlapped', NEW s \in There(u), NEW q \in There(u),
                         s # q
                  PROVE  row'[s].at # row'[q].at
      BY <2>3 DEF PositionsDistinct
    <3>1. CASE u # t
      <4>1. u \notin overlapped
        BY <2>6, <3>1
      <4>. QED BY <1>1, <3>1, <4>1 DEF PosInv, PositionsDistinct
    <3>2. CASE u = t
      <4>1. There(t) \subseteq Range(ids)
        <5>1. CASE t \in overlapped
          BY <2>1, <3>2, <5>1
        <5>2. CASE t \notin overlapped
          BY <2>1, <2>4, <5>2 DEF PosInv, PlacesFree
        <5>. QED BY <5>1, <5>2
      <4>. QED BY <2>2, <3>2, <4>1 DEF There
    <3>. QED BY <3>1, <3>2
  <2>. QED BY <1>4, <2>5, <2>7, <2>8, <2>9 DEF PosInv
<1>. QED BY <1>7, <1>8, <1>9 DEF SomeWrite

---------------------------------------------------------------------------
(* SubtaskList: what the section shows *)

OwnReorder == \E k \in Clerks : clerk[k].does = "reorder" /\ clerk[k].own

(* What a fetch has read is what it would read, unless something has changed *)
(* the list since that the section is not told of.                           *)
AnswerTrue ==
    section.fetch = "read" /\ ~untold => section.answer \in ListByTask(section.task)

SectionInv == AnswerTrue /\ SectionInOrder

LEMMA SameList ==
    ASSUME NEW t, There(t)' = There(t), \A s \in There(t) : row'[s] = row[s]
    PROVE  ListByTask(t)' = ListByTask(t)
<1>. DEFINE S == There(t)
            Q == SetToSeqs(S)
<1>1. \A q \in Q : \A i \in DOMAIN q : q[i] \in S
  BY DEF SetToSeqs
<1>2. ListByTask(t) = {q \in Q : \A i, j \in DOMAIN q : i < j => row[q[i]].at <= row[q[j]].at}
  BY DEF ListByTask
<1>3. ListByTask(t)' =
        {q \in Q : \A i, j \in DOMAIN q : i < j => row'[q[i]].at <= row'[q[j]].at}
  BY DEF ListByTask
<1>4. \A s \in S : row'[s] = row[s]
  OBVIOUS
<1>. HIDE DEF S, Q
<1>. QED BY <1>1, <1>2, <1>3, <1>4

LEMMA ListsAreSeqs ==
    ASSUME NEW t
    PROVE  ListByTask(t) \subseteq Seq(Pieces)
<1>1. There(t) \subseteq Pieces
  BY DEF There
<1>2. IsFiniteSet(There(t))
  BY <1>1, SubtaskListAssumption, FS_Subset
<1>3. Cardinality(There(t)) \in Nat
  BY <1>2, FS_CardinalityType
<1>4. \A q \in SetToSeqs(There(t)) : q \in [1..Cardinality(There(t)) -> Pieces]
  BY <1>1 DEF SetToSeqs
<1>. QED BY <1>3, <1>4 DEF ListByTask

(* A step that leaves the list of the task, and what the section shows. *)
LEMMA SectionStays ==
    ASSUME SectionInv, NEW t, t = section.task, There(t)' = There(t),
           \A s \in There(t) : row'[s] = row[s], ~untold' => ~untold,
           section'.task = t, section'.rows = section.rows, section'.fetch = section.fetch,
           section'.answer = section.answer, OwnReorder => OwnReorder'
    PROVE  SectionInv'
<1>1. ListByTask(t)' = ListByTask(t)
  BY SameList
<1>2. section'.answer \in ListByTask(t) <=> section.answer \in ListByTask(section.task)
  OBVIOUS
<1>3. section'.rows \in ListByTask(t) <=> section.rows \in ListByTask(section.task)
  OBVIOUS
<1>4. AnswerTrue'
  <2>. SUFFICES ASSUME section'.fetch = "read", ~untold'
                PROVE  section'.answer \in ListByTask(t)'
    BY DEF AnswerTrue
  <2>. QED BY <1>1, <1>2 DEF SectionInv, AnswerTrue
<1>5. SectionInOrder'
  <2>. SUFFICES ASSUME section'.fetch = "idle", ~untold', ~OwnReorder'
                PROVE  section'.rows \in ListByTask(t)'
    BY DEF SectionInOrder, OwnReorder
  <2>. QED BY <1>1, <1>3 DEF SectionInv, SectionInOrder, OwnReorder
<1>. QED BY <1>4, <1>5 DEF SectionInv

(* A request of the section has ended: it fetches, or shows what it did. *)
LEMMA EndedKeeps ==
    ASSUME SubtaskTypes, NEW c \in Call, NEW heard \in BOOLEAN, Ended(c, heard)
    PROVE  /\ section' \in Section /\ section'.task = section.task
           /\ c.own /\ Refreshes(c.does, heard) => section'.fetch = "sent"
           /\ ~c.own \/ ~Refreshes(c.does, heard) =>
                 /\ section'.rows = section.rows /\ section'.fetch = section.fetch
                 /\ section'.answer = section.answer
<1>1. CASE ~c.own
  BY <1>1 DEF Ended, SubtaskTypes
<1>2. CASE c.own
  <2>. DEFINE f == IF Refreshes(c.does, heard) THEN "sent" ELSE section.fetch
              a == IF Refreshes(c.does, heard) THEN <<>> ELSE section.answer
              d == AddingAfter(c.does, heard)
  <2>1. section' = [section EXCEPT !.fetch = f, !.answer = a, !.adding = d]
    BY <1>2 DEF Ended
  <2>2. section \in Section
    BY DEF SubtaskTypes
  <2>3. f \in {"idle", "sent", "read"} /\ a \in Seq(Pieces) /\ d \in {"no", "sent", "loading"}
    BY <2>2 DEF Section, AddingAfter
  <2>. HIDE DEF f, a, d
  <2>4. /\ section' \in Section /\ section'.task = section.task /\ section'.rows = section.rows
        /\ section'.fetch = f /\ section'.answer = a
    BY <2>1, <2>2, <2>3 DEF Section
  <2>. QED BY <1>2, <2>4 DEF f, a
<1>. QED BY <1>1, <1>2

LEMMA SectionAfterWrite ==
    ASSUME SubtaskTypes, PosInv, SectionInv, NEW k \in Clerks, SomeWrite(k)
    PROVE  SectionInv' /\ section' \in Section
<1>1. /\ clerk[k] \in Call /\ clerk' = [clerk EXCEPT ![k] = Idling]
      /\ \A t : t # clerk[k].of => There(t)' = There(t) /\ \A s \in There(t) : row'[s] = row[s]
      /\ Written(k)
  BY WritesOwnTask
<1>2. PICK heard \in BOOLEAN :
        /\ Ended(clerk[k], heard)
        /\ untold' = (untold \/ (clerk[k].of = section.task /\ ~Told(clerk[k], heard)))
  BY <1>1 DEF Written
<1>. DEFINE c == clerk[k]
            t == section.task
<1>3. /\ section' \in Section /\ section'.task = t
      /\ c.own /\ Refreshes(c.does, heard) => section'.fetch = "sent"
      /\ ~c.own \/ ~Refreshes(c.does, heard) =>
            /\ section'.rows = section.rows /\ section'.fetch = section.fetch
            /\ section'.answer = section.answer
  BY <1>1, <1>2, EndedKeeps
<1>4. CASE c.own /\ Refreshes(c.does, heard)
  BY <1>3, <1>4 DEF SectionInv, AnswerTrue, SectionInOrder
<1>5. CASE ~(c.own /\ Refreshes(c.does, heard))
  <2>1. ~Told(c, heard) /\ ~(c.own /\ c.does = "reorder")
    BY <1>5 DEF Told, Refreshes
  <2>2. CASE c.of = t
    <3>1. untold'
      BY <1>2, <2>1, <2>2
    <3>. QED BY <1>3, <3>1 DEF SectionInv, AnswerTrue, SectionInOrder
  <2>3. CASE c.of # t
    <3>1. There(t)' = There(t) /\ \A s \in There(t) : row'[s] = row[s]
      <4>. SUFFICES ASSUME NEW u, u = t PROVE There(u)' = There(u) /\ \A s \in There(u) : row'[s] = row[s]
        BY <1>3
      <4>. QED BY <1>1, <2>3
    <3>2. ~untold' => ~untold
      BY <1>2
    <3>3. OwnReorder => OwnReorder'
      BY <1>1, <2>1 DEF OwnReorder, SubtaskTypes
    <3>. QED BY <1>3, <1>5, <3>1, <3>2, <3>3, SectionStays
  <2>. QED BY <1>3, <2>2, <2>3
<1>. QED BY <1>3, <1>4, <1>5

(* A step that leaves the table; the requests that reorder go on. *)
LEMMA SectionIdles ==
    ASSUME SectionInv, UNCHANGED <<row, untold>>, section'.task = section.task,
           section'.rows = section.rows, section'.fetch = section.fetch,
           section'.answer = section.answer, OwnReorder => OwnReorder'
    PROVE  SectionInv'
<1>1. \A t : There(t)' = There(t)
  BY DEF There
<1>. DEFINE t == section.task
<1>2. PICK u : u = t
  OBVIOUS
<1>3. There(u)' = There(u) /\ \A s \in There(u) : row'[s] = row[s]
  BY <1>1
<1>. HIDE DEF t
<1>. QED BY <1>2, <1>3, SectionStays DEF t

(* A clerk free to take a request had none, so no reordering ends with it. *)
LEMMA TakesIdle ==
    ASSUME SubtaskTypes, NEW k \in Clerks, Takes(k), NEW r, clerk' = [clerk EXCEPT ![k] = r]
    PROVE  OwnReorder => OwnReorder'
<1>1. \E c \in Clerks : clerk[c] = Idling
  BY DEF Takes, Range, SubtaskTypes
<1>2. clerk[k] = Idling
  BY <1>1 DEF Takes
<1>3. clerk[k].does # "reorder" /\ \A c \in Clerks \ {k} : clerk'[c] = clerk[c]
  BY <1>2 DEF Idling, SubtaskTypes
<1>. QED BY <1>3 DEF OwnReorder

SubtaskInv == SubtaskTypes /\ PosInv /\ SectionInv

LEMMA SentStep ==
    ASSUME SubtaskInv, NEW k \in Clerks, NEW does \in {"create", "update", "remove", "reorder"},
           NEW s \in Pieces, NEW ids \in Seq(Pieces), Sends(k, does, s, ids)
    PROVE  /\ PosInv' /\ clerk' \in [Clerks -> {Idling} \cup Call]
           /\ OwnReorder => OwnReorder'
           /\ does = "reorder" => OwnReorder'
           /\ UNCHANGED <<row, untold>>
<1>. DEFINE r == ACall(does, section.task, TRUE, s, ids)
<1>1. Takes(k) /\ clerk' = [clerk EXCEPT ![k] = r] /\ UNCHANGED <<row, overlapped, untold>>
  BY DEF Sends
<1>2. r \in Call /\ r.step = "sent" /\ r.does = does /\ r.own
  <2>1. section.task \in Parents
    BY DEF SubtaskInv, SubtaskTypes, Section
  <2>. QED BY <2>1 DEF ACall, Call
<1>. HIDE DEF r
<1>3. clerk' \in [Clerks -> {Idling} \cup Call] /\ clerk'[k] = r
  BY <1>1, <1>2 DEF SubtaskInv, SubtaskTypes
<1>4. PosInv'
  BY <1>1, <1>2, NoReading DEF SubtaskInv, SubtaskTypes
<1>5. OwnReorder => OwnReorder'
  BY <1>1, TakesIdle DEF SubtaskInv
<1>. QED BY <1>1, <1>2, <1>3, <1>4, <1>5 DEF OwnReorder

(* What anybody else sends is a request.                                     *)
LEMMA OtherCallsTyped ==
    ASSUME NEW t \in Parents, NEW c \in OtherCalls(t)
    PROVE  c \in Call
<1>0. SomePiece \in Pieces /\ <<>> \in Seq(Pieces)
  BY SubtaskListAssumption DEF SomePiece
<1>1. There(t) \subseteq Pieces
  BY DEF There
<1>2. SetToSeqs(There(t)) \subseteq Seq(Pieces)
  <2>1. IsFiniteSet(There(t))
    BY <1>1, SubtaskListAssumption, FS_Subset
  <2>2. Cardinality(There(t)) \in Nat
    BY <2>1, FS_CardinalityType
  <2>. QED BY <1>1, <2>2 DEF SetToSeqs
<1>3. ASSUME NEW does \in {"create", "update", "remove", "reorder"}, NEW s \in Pieces,
             NEW ids \in Seq(Pieces)
      PROVE  ACall(does, t, FALSE, s, ids) \in Call
  BY DEF ACall, Call
<1>4. ACall("create", t, FALSE, SomePiece, <<>>) \in Call
  BY <1>0, <1>3
<1>5. \A s \in There(t) : /\ ACall("update", t, FALSE, s, <<>>) \in Call
                          /\ ACall("remove", t, FALSE, s, <<>>) \in Call
  BY <1>0, <1>1, <1>3
<1>6. \A ids \in SetToSeqs(There(t)) : ACall("reorder", t, FALSE, SomePiece, ids) \in Call
  BY <1>0, <1>2, <1>3
<1>. QED BY <1>4, <1>5, <1>6, Zenon DEF OtherCalls

LEMMA SubtaskStep ==
    ASSUME SubtaskInv, [SubtaskListNext]_subtaskListVars
    PROVE  SubtaskInv'
<1>. USE DEF SubtaskInv
<1>0. section \in Section /\ section.task \in Parents /\ SomePiece \in Pieces /\ <<>> \in Seq(Pieces)
  BY SubtaskListAssumption DEF SubtaskTypes, Section, SomePiece
<1>1. CASE UNCHANGED subtaskListVars
  <2>1. UNCHANGED <<row, clerk, section, untold, overlapped>>
    BY <1>1 DEF subtaskListVars
  <2>2. SubtaskTypes'
    BY <2>1 DEF SubtaskTypes
  <2>3. PosInv'
    BY <2>1 DEF PosInv, NamesRight, NamesApart, OverlapSeen, PlacesFree, PositionsDistinct, There,
                Reading, Involves, Positioning
  <2>4. OwnReorder => OwnReorder'
    BY <2>1 DEF OwnReorder
  <2>. QED BY <2>1, <2>2, <2>3, <2>4, SectionIdles
<1>2. ASSUME NEW k \in Clerks, NEW c \in Call, Handle(k, c), row' = row,
             Takes(k) \/ clerk[k] = c
      PROVE  SubtaskInv'
  <2>1. /\ PosInv' /\ clerk' \in [Clerks -> {Idling} \cup Call]
        /\ UNCHANGED <<section, untold>>
    BY <1>2, HandleStep
  <2>2. PICK r : clerk' = [clerk EXCEPT ![k] = r] /\ r.does = c.does /\ r.own = c.own
    BY <1>2, HandleStep
  <2>3. OwnReorder => OwnReorder'
    <3>1. CASE Takes(k)
      BY <2>2, <3>1, TakesIdle
    <3>2. CASE clerk[k] = c
      <4>1. \A d \in Clerks : clerk'[d].does = clerk[d].does /\ clerk'[d].own = clerk[d].own
        BY <2>2, <3>2 DEF SubtaskTypes
      <4>. QED BY <4>1 DEF OwnReorder
    <3>. QED BY <1>2, <3>1, <3>2
  <2>4. SectionInv'
    BY <1>2, <2>1, <2>3, SectionIdles
  <2>5. SubtaskTypes'
    BY <1>2, <2>1 DEF SubtaskTypes
  <2>. QED BY <2>1, <2>4, <2>5
<1>3. ASSUME NEW k \in Clerks, NEW t \in Parents, OtherCall(k, t) PROVE SubtaskInv'
  <2>1. PICK c \in OtherCalls(t) : Handle(k, c)
    BY <1>3 DEF OtherCall
  <2>2. c \in Call
    BY OtherCallsTyped
  <2>3. row' = row
    BY <2>1 DEF Handle, CreateReads, FindInTask, ReorderReads, Reads
  <2>. QED BY <1>2, <1>3, <2>1, <2>2, <2>3 DEF OtherCall
<1>4. ASSUME NEW k \in Clerks, OwnCall(k) PROVE SubtaskInv'
  <2>1. clerk[k] \in Call /\ Handle(k, clerk[k])
    BY <1>4 DEF OwnCall, SubtaskTypes, Idling
  <2>2. row' = row
    BY <2>1 DEF Handle, CreateReads, FindInTask, ReorderReads, Reads
  <2>. QED BY <1>2, <2>1, <2>2
<1>5. ASSUME NEW k \in Clerks, CallFails(k) PROVE SubtaskInv'
  <2>1. /\ clerk[k] \in Call /\ clerk[k].own /\ Ended(clerk[k], FALSE)
        /\ clerk' = [clerk EXCEPT ![k] = Idling] /\ UNCHANGED <<row, overlapped, untold>>
    BY <1>5 DEF CallFails, SubtaskTypes
  <2>2. Idling.step # "read"
    BY DEF Idling
  <2>3. PosInv'
    BY <2>1, <2>2, NoReading DEF SubtaskTypes
  <2>4. /\ section' \in Section /\ section'.task = section.task
        /\ Refreshes(clerk[k].does, FALSE) => section'.fetch = "sent"
        /\ ~Refreshes(clerk[k].does, FALSE) =>
              /\ section'.rows = section.rows /\ section'.fetch = section.fetch
              /\ section'.answer = section.answer
    BY <2>1, EndedKeeps
  <2>5. SubtaskTypes'
    BY <2>1, <2>4 DEF SubtaskTypes
  <2>6. CASE Refreshes(clerk[k].does, FALSE)
    BY <2>3, <2>4, <2>5, <2>6 DEF SectionInv, AnswerTrue, SectionInOrder
  <2>7. CASE ~Refreshes(clerk[k].does, FALSE)
    <3>1. OwnReorder => OwnReorder'
      BY <2>1, <2>7 DEF OwnReorder, SubtaskTypes, Refreshes
    <3>. QED BY <2>1, <2>3, <2>4, <2>5, <2>7, <3>1, SectionIdles
  <2>. QED BY <2>6, <2>7
<1>6. ASSUME NEW k \in Clerks, SomeWrite(k) PROVE SubtaskInv'
  <2>1. SubtaskTypes'
    <3>1. /\ row' \in [Pieces -> {Gone} \cup [of : Parents, at : Nat]]
          /\ clerk' = [clerk EXCEPT ![k] = Idling]
      BY <1>6, WritesOwnTask
    <3>2. section' \in Section
      BY <1>6, SectionAfterWrite
    <3>. QED BY <3>1, <3>2 DEF SubtaskTypes
  <2>. QED BY <1>6, <2>1, WriteStep, SectionAfterWrite
<1>7. ASSUME NEW k \in Clerks, AddSubtask(k) PROVE SubtaskInv'
  <2>1. /\ Sends(k, "create", SomePiece, <<>>)
        /\ section' = [section EXCEPT !.adding = "sent"]
    BY <1>7 DEF AddSubtask
  <2>2. /\ PosInv' /\ clerk' \in [Clerks -> {Idling} \cup Call]
        /\ OwnReorder => OwnReorder'
        /\ UNCHANGED <<row, untold>>
    BY <1>0, <2>1, SentStep
  <2>3. /\ section' \in Section /\ section'.task = section.task /\ section'.rows = section.rows
        /\ section'.fetch = section.fetch /\ section'.answer = section.answer
    BY <1>0, <2>1 DEF Section
  <2>4. SectionInv'
    BY <2>2, <2>3, SectionIdles
  <2>. QED BY <2>2, <2>3, <2>4 DEF SubtaskTypes
<1>8. ASSUME NEW k \in Clerks, NEW s \in Pieces, PatchRow(k, s) \/ RemoveSubtask(k, s)
      PROVE  SubtaskInv'
  <2>1. PICK does \in {"update", "remove"} : Sends(k, does, s, <<>>) /\ section' = section
    BY <1>8 DEF PatchRow, RemoveSubtask
  <2>2. /\ PosInv' /\ clerk' \in [Clerks -> {Idling} \cup Call]
        /\ OwnReorder => OwnReorder'
        /\ UNCHANGED <<row, untold>>
    BY <1>0, <2>1, SentStep
  <2>3. SectionInv'
    BY <2>1, <2>2, SectionIdles
  <2>. QED BY <2>1, <2>2, <2>3 DEF SubtaskTypes
<1>9. ASSUME NEW k \in Clerks, NEW i, NEW j, DragRow(k, i, j) PROVE SubtaskInv'
  <2>. DEFINE q == InsertAt(RemoveAt(section.rows, i), j, section.rows[i])
  <2>1. /\ {i, j} \subseteq 1..Len(section.rows)
        /\ Sends(k, "reorder", SomePiece, q)
        /\ section' = [section EXCEPT !.rows = q]
    BY <1>9 DEF DragRow
  <2>2. section.rows \in Seq(Pieces)
    BY <1>0 DEF Section
  <2>3. q \in Seq(Pieces)
    BY <2>1, <2>2, MovedHasTheSame
  <2>. HIDE DEF q
  <2>4. /\ PosInv' /\ clerk' \in [Clerks -> {Idling} \cup Call] /\ OwnReorder'
        /\ UNCHANGED <<row, untold>>
    BY <1>0, <2>1, <2>3, SentStep
  <2>5. /\ section' \in Section /\ section'.task = section.task
        /\ section'.fetch = section.fetch /\ section'.answer = section.answer
    BY <1>0, <2>1, <2>3 DEF Section
  <2>6. AnswerTrue'
    <3>1. ListByTask(section.task)' = ListByTask(section.task)
      BY <2>4, <2>5 DEF ListByTask, There
    <3>. QED BY <2>4, <2>5, <3>1 DEF SectionInv, AnswerTrue
  <2>7. SectionInOrder'
    BY <2>4 DEF SectionInOrder, OwnReorder
  <2>. QED BY <2>4, <2>5, <2>6, <2>7 DEF SubtaskTypes, SectionInv
<1>10. ASSUME FetchReads \/ FetchShows \/ FetchFails \/ \E t \in Parents : SwitchTo(t)
       PROVE  SubtaskInv'
  <2>1. UNCHANGED <<row, clerk, overlapped>>
    BY <1>10 DEF FetchReads, FetchShows, FetchFails, SwitchTo
  <2>2. PosInv'
    BY <2>1 DEF PosInv, NamesRight, NamesApart, OverlapSeen, PlacesFree, PositionsDistinct, There,
                Reading, Involves, Positioning
  <2>3. \A t : ListByTask(t)' = ListByTask(t)
    BY <2>1 DEF ListByTask, There
  <2>4. Settled \in {"no", "sent"}
    BY <1>0 DEF Settled, Section
  <2>5. CASE FetchReads
    <3>1. PICK q \in ListByTask(section.task) :
             section' = [section EXCEPT !.fetch = "read", !.answer = q]
      BY <2>5 DEF FetchReads
    <3>2. q \in Seq(Pieces)
      BY ListsAreSeqs
    <3>3. section' \in Section /\ section'.task = section.task /\ section'.fetch = "read"
          /\ section'.answer = q
      BY <1>0, <3>1, <3>2 DEF Section
    <3>4. SectionInv'
      BY <2>3, <3>1, <3>3 DEF SectionInv, AnswerTrue, SectionInOrder
    <3>. QED BY <2>1, <2>2, <3>3, <3>4 DEF SubtaskTypes
  <2>6. CASE FetchShows
    <3>1. /\ section' = [section EXCEPT !.fetch = "idle", !.answer = <<>>, !.rows = section.answer,
                                        !.adding = Settled]
          /\ section.fetch = "read" /\ untold' = untold
      BY <2>6 DEF FetchShows
    <3>2. section' \in Section /\ section'.task = section.task /\ section'.fetch = "idle"
          /\ section'.rows = section.answer
      BY <1>0, <2>4, <3>1 DEF Section
    <3>3. SectionInv'
      BY <2>3, <3>1, <3>2 DEF SectionInv, AnswerTrue, SectionInOrder
    <3>. QED BY <2>1, <2>2, <3>2, <3>3 DEF SubtaskTypes
  <2>7. CASE FetchFails
    <3>1. /\ section' = [section EXCEPT !.fetch = "idle", !.answer = <<>>, !.rows = <<>>,
                                        !.adding = Settled]
          /\ untold'
      BY <2>7 DEF FetchFails
    <3>2. section' \in Section
      BY <1>0, <2>4, <3>1 DEF Section
    <3>. QED BY <2>1, <2>2, <3>1, <3>2 DEF SubtaskTypes, SectionInv, AnswerTrue, SectionInOrder
  <2>8. ASSUME NEW t \in Parents, SwitchTo(t) PROVE SubtaskInv'
    <3>1. PICK kept \in {<<>>, section.rows} :
             section' = [task |-> t, rows |-> kept, fetch |-> "sent", answer |-> <<>>,
                         adding |-> Settled]
      BY <2>8 DEF SwitchTo
    <3>2. kept \in Seq(Pieces)
      BY <1>0 DEF Section
    <3>3. section' \in Section /\ section'.fetch = "sent"
      BY <1>0, <2>4, <3>1, <3>2 DEF Section
    <3>. QED BY <2>1, <2>2, <3>3 DEF SubtaskTypes, SectionInv, AnswerTrue, SectionInOrder
  <2>. QED BY <1>10, <2>5, <2>6, <2>7, <2>8
<1>. QED BY <1>1, <1>3, <1>4, <1>5, <1>6, <1>7, <1>8, <1>9, <1>10
         DEF SubtaskListNext, SomeWrite

LEMMA SubtaskInvAlways == SubtaskListSpec => []SubtaskInv
<1>1. SubtaskListInit => SubtaskInv
  <2>. SUFFICES ASSUME SubtaskListInit PROVE SubtaskInv
    OBVIOUS
  <2>. DEFINE t == CHOOSE t \in Parents : TRUE
              S == Pieces \ {SomePiece}
              first == SetToSeq(S)
              n == Cardinality(S)
              Place(s) == (CHOOSE i \in DOMAIN first : first[i] = s) - 1
  <2>1. /\ row = [s \in Pieces |-> IF s = SomePiece THEN Gone ELSE [of |-> t, at |-> Place(s)]]
        /\ clerk = [k \in Clerks |-> Idling]
        /\ section = [task |-> t, rows |-> first, fetch |-> "idle", answer |-> <<>>,
                      adding |-> "no"]
        /\ overlapped = {}
    BY DEF SubtaskListInit
  <2>2. t \in Parents /\ IsFiniteSet(S)
    BY SubtaskListAssumption, FS_Subset
  <2>3. first \in SetToSeqs(S)
    <3>. HIDE DEF S
    <3>. QED BY <2>2, FirstList
  <2>4. /\ first \in [1..n -> S] /\ n \in Nat
        /\ \A s \in S : \E i \in 1..n : first[i] = s
        /\ \A i, j \in 1..n : first[i] = first[j] => i = j
    BY <2>2, <2>3, ListsHaveAll
  <2>. HIDE DEF n
  <2>5. \A i \in 1..n : Place(first[i]) = i - 1
    <3>. HIDE DEF first
    <3>1. DOMAIN first = 1..n
      BY <2>4
    <3>2. \A i \in 1..n : (CHOOSE j \in DOMAIN first : first[j] = first[i]) = i
      BY <2>4, <3>1
    <3>. QED BY <3>2
  <2>. HIDE DEF first, Place
  <2>6. \A s \in S : Place(s) \in Nat /\ \A r \in S : Place(s) = Place(r) => s = r
    BY <2>4, <2>5
  <2>7. \A s \in S : row[s] = [of |-> t, at |-> Place(s)] /\ row[s] # Gone
    <3>1. DOMAIN Gone = {"of"}
      BY DEF Gone
    <3>. QED BY <2>1, <3>1
  <2>8. There(t) = S
    BY <2>1, <2>7, SubtaskListAssumption DEF There, SomePiece
  <2>9. SubtaskTypes
    <3>1. row \in [Pieces -> {Gone} \cup [of : Parents, at : Nat]]
      BY <2>1, <2>2, <2>6
    <3>2. first \in Seq(Pieces) /\ <<>> \in Seq(Pieces)
      BY <2>4
    <3>3. section \in Section
      BY <2>1, <2>2, <3>2 DEF Section
    <3>. QED BY <2>1, <3>1, <3>3 DEF SubtaskTypes
  <2>10. PosInv
    <3>1. \A k \in Clerks : clerk[k].step = "idle"
      BY <2>1 DEF Idling
    <3>2. PositionsDistinct
      BY <2>1, <2>6, <2>7 DEF PositionsDistinct, There
    <3>. QED BY <3>1, <3>2
             DEF PosInv, NamesRight, NamesApart, OverlapSeen, PlacesFree, Reading, Positioning
  <2>11. SectionInv
    <3>1. first \in ListByTask(t)
      <4>1. \A i, j \in 1..n : i < j => row[first[i]].at <= row[first[j]].at
        <5>1. ASSUME NEW i \in 1..n PROVE first[i] \in S /\ row[first[i]].at = i - 1
          <6>1. first[i] \in S
            BY <2>4
          <6>. DEFINE s == first[i]
                      r == [of |-> t, at |-> Place(s)]
          <6>2. row[s] = r /\ r.at = Place(s)
            BY <2>7, <6>1
          <6>. QED BY <2>5, <6>1, <6>2
        <5>. HIDE DEF S
        <5>. QED BY <2>4, <5>1
      <4>2. DOMAIN first = 1..n
        BY <2>4
      <4>. QED BY <2>3, <2>8, <4>1, <4>2 DEF ListByTask
    <3>. QED BY <2>1, <3>1 DEF SectionInv, AnswerTrue, SectionInOrder
  <2>. QED BY <2>9, <2>10, <2>11 DEF SubtaskInv
<1>2. SubtaskInv /\ [SubtaskListNext]_subtaskListVars => SubtaskInv'
  BY SubtaskStep
<1>. QED BY <1>1, <1>2, PTL DEF SubtaskListSpec

(* However the requests of everybody overlap, fail or lose their answers:    *)
(* two subtasks of a task share a position only once two requests that write *)
(* positions of it have overlapped, and no longer than until a reordering of *)
(* them all ends alone; and the section shows the stored list of the task it *)
(* is on by then whenever it waits for nothing and was told of every change. *)
THEOREM SubtasksInOrderAlways == SubtaskListSpec => []SubtasksInOrder
<1>1. SubtaskInv => SubtasksInOrder
  BY DEF SubtaskInv, PosInv, SectionInv, SubtasksInOrder
<1>. QED BY <1>1, SubtaskInvAlways, PTL

(* The table of subtasks, the requests under way and what the section keeps  *)
(* of its list have their types, and so have the histories the invariants    *)
(* are stated with.                                                          *)
THEOREM SubtaskListTypeCorrect == SubtaskListSpec => []SubtaskListTypeOK
<1>. DEFINE PieceCounts == /\ overlapped \subseteq Parents /\ untold \in BOOLEAN
                       /\ pieceCalls \in 0..MaxPieceCalls /\ switches \in 0..MaxSwitches
<1>1. SubtaskListInit => PieceCounts
  <2>. SUFFICES ASSUME SubtaskListInit PROVE PieceCounts
    OBVIOUS
  <2>1. overlapped = {} /\ untold = FALSE /\ pieceCalls = 0 /\ switches = 0
    BY DEF SubtaskListInit
  <2>2. 0 \in 0..MaxPieceCalls /\ 0 \in 0..MaxSwitches
    BY SubtaskListAssumption
  <2>. QED BY <2>1, <2>2
<1>2. SubtaskInv /\ PieceCounts /\ [SubtaskListNext]_subtaskListVars => PieceCounts'
  <2>. SUFFICES ASSUME SubtaskInv, PieceCounts, [SubtaskListNext]_subtaskListVars PROVE PieceCounts'
    OBVIOUS
  <2>0. clerk \in [Clerks -> {Idling} \cup Call]
    BY DEF SubtaskInv, SubtaskTypes
  <2>1. \A k : Takes(k) => pieceCalls' \in 0..MaxPieceCalls
    BY SubtaskListAssumption DEF Takes
  <2>2. ASSUME NEW k, Written(k) PROVE /\ untold' \in BOOLEAN
                                       /\ UNCHANGED <<pieceCalls, switches>>
    BY <2>2 DEF Written
  <2>3. ASSUME NEW k \in Clerks, NEW c \in Call, Handle(k, c)
        PROVE  overlapped' \subseteq Parents /\ UNCHANGED <<untold, switches>>
    <3>1. \A d \in Clerks : Positioning(d) => clerk[d].of \in Parents
      BY <2>0 DEF Positioning, Idling, Call
    <3>2. Overlap(k, c.of) => overlapped' \subseteq Parents
      BY <3>1 DEF Overlap
    <3>. QED BY <2>3, <3>2 DEF Handle, CreateReads, FindInTask, ReorderReads, Reads
  <2>4. ASSUME NEW k \in Clerks, NEW t \in Parents, OtherCall(k, t) PROVE PieceCounts'
    <3>1. PICK c \in OtherCalls(t) : Handle(k, c)
      BY <2>4 DEF OtherCall
    <3>2. c \in Call
      BY OtherCallsTyped
    <3>. QED BY <2>1, <2>3, <2>4, <3>1, <3>2 DEF OtherCall
  <2>5. ASSUME NEW k \in Clerks, OwnCall(k) PROVE PieceCounts'
    <3>1. clerk[k] \in Call
      BY <2>0, <2>5 DEF OwnCall, Idling
    <3>. QED BY <2>3, <2>5, <3>1 DEF OwnCall
  <2>6. ASSUME NEW k \in Clerks, CallFails(k) PROVE PieceCounts'
    BY <2>6 DEF CallFails
  <2>7. ASSUME NEW k \in Clerks,
               CreateWrites(k) \/ UpdateSaves(k) \/ Removes(k) \/ ReorderWrites(k)
        PROVE  PieceCounts'
    BY <2>2, <2>7 DEF CreateWrites, UpdateSaves, Removes, ReorderWrites
  <2>8. ASSUME NEW k \in Clerks, NEW does, NEW s, NEW ids, Sends(k, does, s, ids) PROVE PieceCounts'
    BY <2>1, <2>8 DEF Sends
  <2>9. CASE FetchReads \/ FetchShows \/ FetchFails
    BY <2>9 DEF FetchReads, FetchShows, FetchFails
  <2>10. ASSUME NEW t \in Parents, SwitchTo(t) PROVE PieceCounts'
    BY <2>10, SubtaskListAssumption DEF SwitchTo
  <2>11. CASE UNCHANGED subtaskListVars
    BY <2>11 DEF subtaskListVars
  <2>. HIDE DEF PieceCounts
  <2>. QED BY <2>4, <2>5, <2>6, <2>7, <2>8, <2>9, <2>10, <2>11
           DEF SubtaskListNext, AddSubtask, PatchRow, RemoveSubtask, DragRow
<1>3. SubtaskInv /\ PieceCounts => SubtaskListTypeOK
  BY DEF SubtaskInv, SubtaskTypes, Section, SubtaskListTypeOK
<1>. QED BY <1>1, <1>2, <1>3, SubtaskInvAlways, PTL DEF SubtaskListSpec

---------------------------------------------------------------------------
(* MCServices: the services side by side *)

(* Places given out one after the other put every master there is in a list. *)
LEMMA AllCodesPresent ==
    ASSUME NEW c \in Codes, MastersFrom(Cardinality(Codes), {}, c)
    PROVE  /\ PresentCodes = Codes
           /\ Cardinality(Codes) \in 1..Cardinality(Codes)
<1>. DEFINE q == SetToSeq(Codes)
            n == Cardinality(Codes)
<1>1. n \in Nat /\ q \in SetToSeqs(Codes)
  BY FirstList, FS_CardinalityType, MastersAssumption
<1>2. order = [d \in Codes |-> IF IndexIn(q, d) <= n THEN IndexIn(q, d) ELSE 0]
  BY DEF MastersFrom
<1>3. /\ q \in [1..n -> Codes] /\ \A d \in Codes : \E i \in 1..n : q[i] = d
  BY <1>1, MastersAssumption, ListsHaveAll
<1>. HIDE DEF q, n
<1>4. Len(q) = n
  BY <1>1, <1>3
<1>5. \A d \in Codes : IndexIn(q, d) \in 1..n
  BY <1>3, <1>4 DEF IndexIn
<1>6. \A d \in Codes : order[d] \in 1..n
  BY <1>1, <1>2, <1>5
<1>7. PresentCodes = Codes
  BY <1>1, <1>6 DEF PresentCodes
<1>8. n \in 1..n
  BY <1>1, <1>6
<1>. QED BY <1>7, <1>8 DEF n

(* The services share no variable, so what moves one leaves the others where *)
(* they are: seen from any one of them, a run of all of them is a run of it, *)
(* with nothing done while another moves.  (The services that wait begin in  *)
(* a state of their own, which takes an id for a member and a code for a     *)
(* task to have.)                                                            *)
THEOREM ServicesSideBySide ==
    Rows # {} /\ Codes # {} /\ Spec =>
        /\ RosterSpec /\ AccessSpec /\ MastersSpec /\ SavedViewsSpec
        /\ TaskRelationsSpec /\ TaskHistorySpec /\ SubtaskListSpec
<1>1. Rows # {} /\ Init => AccessInit
  <2>. SUFFICES ASSUME Rows # {}, Init PROVE AccessInit
    OBVIOUS
  <2>1. CASE focus = "access"
    BY <2>1 DEF Init
  <2>2. CASE focus # "access"
    <3>. DEFINE ranks == [u \in People |-> "member"]
                r == CHOOSE r \in Rows : TRUE
    <3>1. AccessFrom(ranks, {}, Me, r)
      BY <2>2 DEF Init
    <3>2. ranks \in [People -> Ranks] /\ r \in Rows /\ Me \in People /\ {} \in SUBSET Areas
      BY AccessAssumption DEF Ranks
    <3>3. Cardinality({}) <= 1
      BY FS_EmptySet
    <3>. HIDE DEF ranks, r
    <3>. QED BY <3>1, <3>2, <3>3 DEF AccessInit
  <2>. QED BY <2>1, <2>2
<1>2. Codes # {} /\ Init => MastersInit
  <2>. SUFFICES ASSUME Codes # {}, Init PROVE MastersInit
    OBVIOUS
  <2>1. CASE focus \in {"masters", "places"}
    BY <2>1 DEF Init
  <2>2. CASE focus \notin {"masters", "places"}
    <3>. DEFINE c == CHOOSE c \in Codes : TRUE
    <3>1. MastersFrom(Cardinality(Codes), {}, c) /\ c \in Codes
      BY <2>2 DEF Init
    <3>. HIDE DEF c
    <3>2. c \in PresentCodes /\ Cardinality(Codes) \in 1..Cardinality(Codes)
      BY <3>1, AllCodesPresent
    <3>3. {} \in SUBSET Marks
      OBVIOUS
    <3>. QED BY <3>1, <3>2, <3>3 DEF MastersInit
  <2>. QED BY <2>1, <2>2
<1>3. Init => RosterInit /\ SavedViewsInit /\ TaskRelationsInit /\ TaskHistoryInit /\ SubtaskListInit
  BY DEF Init
<1>4. [Next]_vars => /\ [RosterNext]_rosterVars /\ [AccessNext]_accessVars
                     /\ [MastersNext]_mastersVars /\ [SavedViewsNext]_savedViewsVars
                     /\ [TaskRelationsNext]_taskRelationsVars
                     /\ [TaskHistoryNext]_taskHistoryVars /\ [SubtaskListNext]_subtaskListVars
  BY DEF Next, vars, MastersNext
<1>. QED BY <1>1, <1>2, <1>3, <1>4, PTL
         DEF Spec, RosterSpec, AccessSpec, MastersSpec, SavedViewsSpec, TaskRelationsSpec,
             TaskHistorySpec, SubtaskListSpec

(* The type invariant of the run services.                                   *)
THEOREM ServicesTypeCorrect == Rows # {} /\ Codes # {} /\ Spec => []TypeOK
<1>1. Init => focus \in Focuses
  BY DEF Init
<1>2. focus \in Focuses /\ [Next]_vars => (focus \in Focuses)'
  BY DEF Next, vars
<1>3. (/\ focus \in Focuses
       /\ RosterTypeOK /\ AccessTypeOK /\ MastersTypeOK /\ SavedViewsTypeOK
       /\ TaskRelationsTypeOK /\ TaskHistoryTypeOK /\ SubtaskListTypeOK) => TypeOK
  BY DEF TypeOK
<1>. QED BY <1>1, <1>2, <1>3, ServicesSideBySide, RosterTypeCorrect, AccessTypeCorrect,
            MastersTypeCorrect, SavedViewsTypeCorrect, TaskRelationsTypeCorrect,
            TaskHistoryTypeCorrect, SubtaskListTypeCorrect, PTL DEF Spec

(* What is shown of each service holds while all of them run: the run        *)
(* services, for every value of its constants.  The three that need a server *)
(* that serves one request at a time are left to it.                         *)
THEOREM ServicesSafe ==
    Rows # {} /\ Codes # {} /\ Spec =>
        /\ [](ListedSurvive /\ OwnChangesShow)
        /\ [](OrdersDistinct /\ FlagTrail /\ SubtasksInOrder)
        /\ TrimsTheOldest
BY ServicesSideBySide, ListedSurviveAlways, OwnChangesShowAlways,
   OrdersDistinctAlways, FlagTrailAlways, SubtasksInOrderAlways, TrimsTheOldestAlways, PTL

(* The three that are left, where accounts and saved views are each changed  *)
(* by one request at a time: some account that can sign in administers the   *)
(* tenant, an account comes back as it was removed, and a view changes only  *)
(* for whoever may change it.                                                *)
THEOREM ServicesSafeOneAtATime ==
    ASSUME OneAtATime, OneDesk
    PROVE  Rows # {} /\ Codes # {} /\ Spec =>
               []SomeActiveAdmin /\ ReturnsAsLeft /\ ViewsChangeByRight
<1>1. RosterSpec => []SomeActiveAdmin
  BY SomeActiveAdminOneAtATime
<1>2. RosterSpec => ReturnsAsLeft
  BY ReturnsAsLeftOneAtATime
<1>3. SavedViewsSpec => ViewsChangeByRight
  BY ViewsChangeByRightOneDesk
<1>. QED BY <1>1, <1>2, <1>3, ServicesSideBySide, PTL

=============================================================================
