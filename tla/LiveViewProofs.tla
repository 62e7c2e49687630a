---------------------------- MODULE LiveViewProofs ----------------------------
(***************************************************************************)
(* Proofs about LiveView, for any number of tasks and writes.              *)
(***************************************************************************)
EXTENDS LiveView, TLAPS

---------------------------------------------------------------------------
(* The inductive invariant *)

(* Every event on its way is about a write that has been committed. *)
Sent == \A i \in DOMAIN wire : writes[wire[i]] # Null

(* What will make the list show the write w. *)
OnItsWay(w) ==
    \/ writes[w].pc \in {"committed", "answered"}
    \/ ~writes[w].own /\ \E i \in DOMAIN wire : wire[i] = w
    \/ timers # {}
    \/ fetch["list"].pc = "asked"
    \/ fetch["list"].pc = "read" /\ w \in fetch["list"].got

(* The list shows nothing that is not stored, a fetch answers no less than   *)
(* the list shows, and what the list lacks is on its way.                    *)
ListInv ==
    /\ shown["list"] \subseteq Committed
    /\ fetch["list"].got \subseteq Committed
    /\ fetch["list"].pc = "read" => shown["list"] \subseteq fetch["list"].got
    /\ ~missed["list"] => \A w \in Committed : w \notin shown["list"] => OnItsWay(w)

(* The panel waits for comments of its task only, and shows no others but    *)
(* while it waits.                                                           *)
PanelInv ==
    /\ fetch["comments"].pc = "idle" => shown["comments"] \subseteq Stored("comments")
    /\ fetch["comments"].got \subseteq Stored("comments")

---------------------------------------------------------------------------
(* Types *)

LEMMA RefetchedType ==
    ASSUME TypeOK, NEW vs
    PROVE  Refetched(vs) \in [Views -> Fetch]
BY DEF TypeOK, Refetched, Fetch, Asked

LEMMA UntoldType ==
    ASSUME TypeOK, NEW vs
    PROVE  Untold(vs) \in [Views -> BOOLEAN]
BY DEF TypeOK, Untold

LEMMA StoredType ==
    ASSUME NEW v \in Views
    PROVE  Stored(v) \subseteq Writes
BY DEF Stored, Committed

(* Only the progress of a request changes once it is there. *)
LEMMA ProgressType ==
    ASSUME TypeOK, NEW w \in Writes, writes[w] # Null,
           NEW pc \in {"committed", "answered", "done"}
    PROVE  [writes EXCEPT ![w].pc = pc] \in [Writes -> Write \cup {Null}]
<1>1. writes[w] \in Write
  BY DEF TypeOK
<1>2. [writes[w] EXCEPT !.pc = pc] \in Write
  BY <1>1 DEF Write
<1>. QED BY <1>2 DEF TypeOK

(* ... and what kind of write it is does not. *)
LEMMA Kept ==
    ASSUME TypeOK, NEW w \in Writes, writes[w] # Null, NEW pc \in {"committed", "answered", "done"},
           writes' = [writes EXCEPT ![w].pc = pc]
    PROVE  \A x \in Writes :
                /\ writes'[x] = Null <=> writes[x] = Null
                /\ x # w => writes'[x] = writes[x]
                /\ writes[x] # Null => /\ writes'[x].own = writes[x].own
                                       /\ writes'[x].type = writes[x].type
                                       /\ writes'[x].task = writes[x].task
                /\ writes'[w].pc = pc
<1>1. writes[w] \in Write
  BY DEF TypeOK
<1>2. writes'[w] = [writes[w] EXCEPT !.pc = pc]
  BY DEF TypeOK
<1>3. writes'[w] \in Write
  BY <1>1, <1>2 DEF Write
<1>4. writes'[w] # Null
  BY <1>3, LiveAssumption DEF LiveAssumption
<1>. QED BY <1>1, <1>2, <1>4 DEF Write, TypeOK

LEMMA InitTypes == Init => TypeOK
<1>. SUFFICES ASSUME Init PROVE TypeOK
  OBVIOUS
<1>1. wire \in Seq(Writes)
  BY DEF Init
<1>2. fetch \in [Views -> Fetch]
  BY DEF Init, Fetch, Idle
<1>3. /\ writes \in [Writes -> Write \cup {Null}]
      /\ shown \in [Views -> SUBSET Writes]
      /\ missed \in [Views -> BOOLEAN]
  BY DEF Init
<1>. QED BY <1>1, <1>2, <1>3 DEF Init, TypeOK

LEMMA TypeStep ==
    ASSUME TypeOK, Sent, [Next]_vars
    PROVE  TypeOK'
<1>1. ASSUME NEW w \in Writes, Commit(w) PROVE TypeOK'
  <2>1. PICK r \in Write : writes' = [writes EXCEPT ![w] = r]
    BY <1>1 DEF Commit, Write, Types
  <2>. QED BY <1>1, <2>1 DEF Commit, TypeOK
<1>2. ASSUME NEW w \in Writes, Answer(w) PROVE TypeOK'
  <2>1. writes' \in [Writes -> Write \cup {Null}]
    <3>. DEFINE pc == IF writes[w].own THEN "answered" ELSE "done"
    <3>1. pc \in {"committed", "answered", "done"}
      OBVIOUS
    <3>2. writes' = [writes EXCEPT ![w].pc = pc] /\ writes[w] # Null
      BY <1>2 DEF Answer, Answered
    <3>. HIDE DEF pc
    <3>. QED BY <3>1, <3>2, ProgressType
  <2>2. wire' \in Seq(Writes)
    BY <1>2 DEF Answer, TypeOK
  <2>3. missed' \in [Views -> BOOLEAN]
    BY <1>2, UntoldType DEF Answer, TypeOK
  <2>. QED BY <1>2, <2>1, <2>2, <2>3 DEF Answer, TypeOK
<1>3. ASSUME NEW w \in Writes, Fail(w) PROVE TypeOK'
  <2>1. writes' \in [Writes -> Write \cup {Null}]
    BY <1>3, ProgressType DEF Fail, Finished
  <2>2. missed' \in [Views -> BOOLEAN]
    BY <1>3, UntoldType DEF Fail
  <2>. QED BY <1>3, <2>1, <2>2 DEF Fail, TypeOK
<1>4. ASSUME NEW w \in Writes, Receive(w) PROVE TypeOK'
  <2>1. writes' \in [Writes -> Write \cup {Null}]
    BY <1>4, ProgressType DEF Receive, Finished
  <2>2. fetch' \in [Views -> Fetch]
    BY <1>4, RefetchedType DEF Receive
  <2>. QED BY <1>4, <2>1, <2>2 DEF Receive, TypeOK
<1>5. ASSUME Deliver PROVE TypeOK'
  <2>1. /\ Head(wire) \in Writes /\ wire' \in Seq(Writes)
        /\ Head(wire) = wire[1] /\ 1 \in DOMAIN wire
    BY <1>5 DEF Deliver, TypeOK
  <2>2. writes[Head(wire)] \in Write
    BY <2>1 DEF Sent, TypeOK
  <2>3. writes[Head(wire)].type \in Types
    BY <2>2 DEF Write
  <2>. QED BY <1>5, <2>1, <2>3 DEF Deliver, TypeOK
<1>6. ASSUME NEW type \in Types, Fire(type) PROVE TypeOK'
  BY <1>6, RefetchedType DEF Fire, TypeOK
<1>7. ASSUME FirePanel PROVE TypeOK'
  <2>1. fetch' \in [Views -> Fetch]
    BY <1>7, RefetchedType DEF FirePanel, TypeOK
  <2>. QED BY <1>7, <2>1 DEF FirePanel, TypeOK
<1>8. ASSUME NEW k \in Tasks \cup {Null}, OpenTask(k) PROVE TypeOK'
  <2>1. Idle \in Fetch /\ Asked \in Fetch
    BY DEF Idle, Asked, Fetch
  <2>2. shown' \in [Views -> SUBSET Writes]
    BY <1>8 DEF OpenTask, Until, Views, TypeOK
  <2>. QED BY <1>8, <2>1, <2>2 DEF OpenTask, TypeOK
<1>9. ASSUME NEW v \in Views, Read(v) PROVE TypeOK'
  <2>1. [pc |-> "read", got |-> Stored(v)] \in Fetch
    BY StoredType DEF Fetch
  <2>. QED BY <1>9, <2>1 DEF Read, TypeOK
<1>10. ASSUME NEW v \in Views, Show(v) PROVE TypeOK'
  <2>1. fetch[v].got \subseteq Writes /\ Idle \in Fetch
    BY DEF TypeOK, Fetch, Idle
  <2>. QED BY <1>10, <2>1 DEF Show, TypeOK
<1>11. ASSUME NEW v \in Views, FetchFails(v) PROVE TypeOK'
  <2>1. Idle \in Fetch
    BY DEF Idle, Fetch
  <2>. QED BY <1>11, <2>1 DEF FetchFails, TypeOK
<1>12. ASSUME Break PROVE TypeOK'
  BY <1>12, UntoldType DEF Break, TypeOK
<1>13. ASSUME Connect PROVE TypeOK'
  BY <1>13 DEF Connect, TypeOK
<1>14. CASE UNCHANGED vars
  BY <1>14 DEF vars, TypeOK
<1>. QED
  BY <1>1, <1>2, <1>3, <1>4, <1>5, <1>6, <1>7, <1>8, <1>9, <1>10, <1>11, <1>12, <1>13, <1>14
  DEF Next

LEMMA SentStep ==
    ASSUME TypeOK, Sent, [Next]_vars
    PROVE  Sent'
<1>1. ASSUME NEW w \in Writes, Commit(w) PROVE Sent'
  <2>1. PICK r \in Write : writes' = [writes EXCEPT ![w] = r]
    BY <1>1 DEF Commit, Write, Types
  <2>2. r # Null
    BY LiveAssumption DEF LiveAssumption
  <2>. QED BY <1>1, <2>1, <2>2 DEF Commit, Sent, TypeOK
<1>2. ASSUME NEW w \in Writes, Answer(w) PROVE Sent'
  <2>1. \A x \in Writes : writes[x] # Null => writes'[x] # Null
    <3>. DEFINE pc == IF writes[w].own THEN "answered" ELSE "done"
    <3>1. pc \in {"committed", "answered", "done"}
      OBVIOUS
    <3>2. writes' = [writes EXCEPT ![w].pc = pc] /\ writes[w] # Null
      BY <1>2 DEF Answer, Answered
    <3>. HIDE DEF pc
    <3>. QED BY <3>1, <3>2, Kept
  <2>2. \A i \in DOMAIN wire' : wire'[i] = w \/ (i \in DOMAIN wire /\ wire'[i] = wire[i])
    <3>1. CASE wire' = wire
      BY <3>1
    <3>2. CASE wire' = Append(wire, w)
      <4>1. wire \in Seq(Writes)
        BY DEF TypeOK
      <4>2. /\ DOMAIN wire = 1..Len(wire) /\ Len(wire) \in Nat
            /\ DOMAIN wire' = 1..(Len(wire) + 1)
            /\ \A i \in 1..Len(wire) : wire'[i] = wire[i]
            /\ wire'[Len(wire) + 1] = w
        BY <3>2, <4>1
      <4>. QED BY <4>2
    <3>. QED BY <1>2, <3>1, <3>2 DEF Answer
  <2>3. \A i \in DOMAIN wire' : wire'[i] \in Writes
    BY <2>2 DEF TypeOK
  <2>. QED BY <1>2, <2>1, <2>2, <2>3 DEF Answer, Sent
<1>3. ASSUME NEW w \in Writes, Fail(w) \/ Receive(w) PROVE Sent'
  <2>1. \A x \in Writes : writes[x] # Null => writes'[x] # Null
    BY <1>3, Kept DEF Fail, Receive, Finished
  <2>. QED BY <1>3, <2>1 DEF Fail, Receive, Sent, TypeOK
<1>4. ASSUME Deliver PROVE Sent'
  <2>1. \A i \in DOMAIN wire' : i + 1 \in DOMAIN wire /\ wire'[i] = wire[i + 1]
    BY <1>4 DEF Deliver, TypeOK
  <2>. QED BY <1>4, <2>1 DEF Deliver, Sent
<1>5. ASSUME Break PROVE Sent'
  BY <1>5 DEF Break, Sent
<1>6. CASE UNCHANGED <<writes, wire>>
  BY <1>6 DEF Sent
<1>. QED
  BY <1>1, <1>2, <1>3, <1>4, <1>5, <1>6
  DEF Next, Fire, FirePanel, OpenTask, Read, Show, FetchFails, Connect, vars

LEMMA TypedStep == TypeOK /\ Sent /\ [Next]_vars => (TypeOK /\ Sent)'
BY TypeStep, SentStep

LEMMA TypedInit == Init => TypeOK /\ Sent
BY InitTypes DEF Init, Sent

LEMMA TypedAlways == Spec => [](TypeOK /\ Sent)
BY TypedInit, TypedStep, PTL DEF Spec

(* Every variable keeps its type: the requests, the stream with its events,  *)
(* the timers of useProjectEvents and the fetches.                           *)
THEOREM LiveTypeCorrect == Spec => []TypeOK
BY TypedAlways, PTL

---------------------------------------------------------------------------
(* Init and the steps of the server *)

Typed == TypeOK /\ Sent

LEMMA InvInit == Init => ListInv /\ PanelInv
<1>. SUFFICES ASSUME Init PROVE ListInv /\ PanelInv
  OBVIOUS
<1>1. Committed = {}
  BY DEF Init, Committed
<1>2. /\ \A v \in Views : fetch[v] = Idle /\ shown[v] = {}
      /\ "list" \in Views /\ "comments" \in Views
  BY DEF Init, Views
<1>3. Idle.pc = "idle" /\ Idle.got = {}
  BY DEF Idle
<1>4. ListInv
  BY <1>1, <1>2, <1>3 DEF ListInv
<1>5. PanelInv
  BY <1>1, <1>2, <1>3 DEF PanelInv, Stored
<1>. QED BY <1>4, <1>5

LEMMA CommitStep ==
    ASSUME Typed, ListInv, PanelInv, NEW w \in Writes, Commit(w)
    PROVE  ListInv' /\ PanelInv'
<1>1. PICK r \in Write : /\ writes' = [writes EXCEPT ![w] = r]
                         /\ r.pc = "committed"
  <2>1. PICK own \in BOOLEAN :
            \/ writes' = [writes EXCEPT ![w] =
                    [type |-> "tasks", task |-> Null, own |-> own, pc |-> "committed"]]
            \/ \E k \in Tasks : writes' = [writes EXCEPT ![w] =
                    [type |-> "comments", task |-> k, own |-> own, pc |-> "committed"]]
    BY DEF Commit
  <2>2. [type |-> "tasks", task |-> Null, own |-> own, pc |-> "committed"] \in Write
    BY DEF Write, Types
  <2>3. \A k \in Tasks :
            [type |-> "comments", task |-> k, own |-> own, pc |-> "committed"] \in Write
    BY DEF Write, Types
  <2>. QED BY <2>1, <2>2, <2>3
<1>2. r # Null
  BY LiveAssumption DEF LiveAssumption
<1>3. /\ Committed' = Committed \cup {w} /\ w \notin Committed
      /\ \A x \in Committed : writes'[x] = writes[x]
      /\ writes'[w].pc = "committed"
  BY <1>1, <1>2 DEF Commit, Committed, Typed, TypeOK
<1>4. UNCHANGED <<wire, timers, task, fetch, shown, missed>>
  BY DEF Commit
<1>5. ListInv'
  <2>1. ASSUME NEW x \in Committed', ~missed'["list"], x \notin shown'["list"]
        PROVE  OnItsWay(x)'
    <3>1. CASE x = w
      BY <1>3, <3>1 DEF OnItsWay
    <3>2. CASE x \in Committed
      <4>1. OnItsWay(x)
        BY <1>4, <2>1, <3>2 DEF ListInv
      <4>. QED BY <1>3, <1>4, <3>2, <4>1 DEF OnItsWay
    <3>. QED BY <1>3, <3>1, <3>2
  <2>. QED BY <1>3, <1>4, <2>1 DEF ListInv
<1>6. PanelInv'
  <2>1. ASSUME NEW x \in Stored("comments") PROVE x \in Stored("comments")'
    BY <1>3, <1>4, <2>1 DEF Stored
  <2>. QED BY <1>4, <2>1 DEF PanelInv
<1>. QED BY <1>5, <1>6

(* A request that makes progress leaves what is stored as it is. *)
LEMMA SameStored ==
    ASSUME Typed, NEW w \in Writes, writes[w] # Null, UNCHANGED task,
           NEW pc \in {"committed", "answered", "done"},
           writes' = [writes EXCEPT ![w].pc = pc]
    PROVE  /\ Committed' = Committed
           /\ Stored("comments")' = Stored("comments")
           /\ \A x \in Committed : x # w => writes'[x] = writes[x]
           /\ writes'[w].pc = pc
           /\ writes'[w].own = writes[w].own
<1>. USE DEF Typed
<1>0. \A x \in Writes :
        /\ writes'[x] = Null <=> writes[x] = Null
        /\ x # w => writes'[x] = writes[x]
        /\ writes[x] # Null => /\ writes'[x].own = writes[x].own
                               /\ writes'[x].type = writes[x].type
                               /\ writes'[x].task = writes[x].task
        /\ writes'[w].pc = pc
  BY Kept
<1>1. Committed' = Committed
  BY <1>0 DEF Committed
<1>2. \A x \in Committed : /\ writes'[x].type = writes[x].type
                           /\ writes'[x].task = writes[x].task
  BY <1>0 DEF Committed
<1>3. Stored("comments")' = Stored("comments")
  BY <1>1, <1>2 DEF Stored
<1>. QED BY <1>0, <1>1, <1>3 DEF Committed

LEMMA AnswerStep ==
    ASSUME Typed, ListInv, PanelInv, NEW w \in Writes, Answer(w)
    PROVE  ListInv' /\ PanelInv'
<1>. DEFINE pc == IF writes[w].own THEN "answered" ELSE "done"
<1>1. /\ pc \in {"committed", "answered", "done"}
      /\ writes' = [writes EXCEPT ![w].pc = pc] /\ writes[w] # Null
      /\ UNCHANGED <<timers, task, fetch, shown>>
  BY DEF Answer, Answered
<1>2. /\ writes[w].own => pc = "answered"
      /\ (stream = "open" /\ wire' = Append(wire, w) /\ missed' = missed)
            \/ (wire' = wire /\ missed' = missed /\ writes[w].own)
            \/ (wire' = wire /\ ~writes[w].own /\ missed' = Untold(Concerned(writes[w].type)))
  BY DEF Answer
<1>. HIDE DEF pc
<1>3. /\ Committed' = Committed
      /\ Stored("comments")' = Stored("comments")
      /\ \A x \in Committed : x # w => writes'[x] = writes[x]
      /\ writes'[w].pc = pc
      /\ writes'[w].own = writes[w].own
  BY <1>1, SameStored
<1>4. CASE missed'["list"]
  BY <1>1, <1>3, <1>4 DEF ListInv, PanelInv
<1>5. CASE ~missed'["list"]
  <2>1. missed' = missed
    BY <1>2, <1>5 DEF Untold, Concerned, Views
  <2>2. /\ \A i \in DOMAIN wire : i \in DOMAIN wire' /\ wire'[i] = wire[i]
        /\ writes[w].own \/ \E i \in DOMAIN wire' : wire'[i] = w
    <3>1. CASE wire' = wire /\ writes[w].own
      BY <3>1
    <3>2. CASE wire' = Append(wire, w)
      <4>1. wire \in Seq(Writes)
        BY DEF Typed, TypeOK
      <4>2. /\ DOMAIN wire = 1..Len(wire) /\ Len(wire) \in Nat
            /\ DOMAIN wire' = 1..(Len(wire) + 1)
            /\ \A i \in 1..Len(wire) : wire'[i] = wire[i]
            /\ wire'[Len(wire) + 1] = w
        BY <3>2, <4>1
      <4>. QED BY <4>2
    <3>. QED BY <1>2, <1>5, <3>1, <3>2 DEF Untold, Concerned, Views
  <2>3. ASSUME NEW x \in Committed, x \notin shown["list"]
        PROVE  OnItsWay(x)'
    <3>1. OnItsWay(x)
      BY <1>5, <2>1, <2>3 DEF ListInv
    <3>2. CASE x = w
      BY <1>2, <1>3, <2>2, <3>2 DEF OnItsWay
    <3>3. CASE x # w
      BY <1>1, <1>3, <2>2, <3>1, <3>3 DEF OnItsWay
    <3>. QED BY <3>2, <3>3
  <2>. QED BY <1>1, <1>3, <2>3 DEF ListInv, PanelInv
<1>. QED BY <1>4, <1>5, <1>2

LEMMA FailStep ==
    ASSUME Typed, ListInv, PanelInv, NEW w \in Writes, Fail(w)
    PROVE  ListInv' /\ PanelInv'
<1>1. /\ writes' = [writes EXCEPT ![w].pc = "done"] /\ writes[w] # Null
      /\ UNCHANGED <<wire, timers, task, fetch, shown>>
      /\ missed' = Untold(Concerned(writes[w].type))
  BY DEF Fail, Finished
<1>2. missed'["list"]
  BY <1>1 DEF Untold, Concerned, Views
<1>3. Committed' = Committed /\ Stored("comments")' = Stored("comments")
  BY <1>1, SameStored
<1>. QED BY <1>1, <1>2, <1>3 DEF ListInv, PanelInv

---------------------------------------------------------------------------
(* The steps of the tab, the fetches and the connection *)

LEMMA ReceiveStep ==
    ASSUME Typed, ListInv, PanelInv, NEW w \in Writes, Receive(w)
    PROVE  ListInv' /\ PanelInv'
<1>1. /\ writes' = [writes EXCEPT ![w].pc = "done"] /\ writes[w] # Null
      /\ UNCHANGED <<wire, timers, task, shown, missed>>
      /\ fetch' = Refetched(Concerned(writes[w].type))
  BY DEF Receive, Finished
<1>2. Committed' = Committed /\ Stored("comments")' = Stored("comments")
  BY <1>1, SameStored
<1>3. /\ fetch'["list"] = Asked
      /\ fetch'["comments"] \in {Asked, fetch["comments"]}
  BY <1>1 DEF Refetched, Concerned, Views
<1>4. Asked.pc = "asked" /\ Asked.got = {}
  BY DEF Asked
<1>5. ListInv'
  BY <1>1, <1>2, <1>3, <1>4 DEF ListInv, OnItsWay
<1>6. PanelInv'
  BY <1>1, <1>2, <1>3, <1>4 DEF PanelInv
<1>. QED BY <1>5, <1>6

LEMMA DeliverStep ==
    ASSUME Typed, ListInv, PanelInv, Deliver
    PROVE  ListInv' /\ PanelInv'
<1>1. /\ UNCHANGED <<writes, task, fetch, shown, missed>>
      /\ wire # <<>> /\ wire' = Tail(wire) /\ wire \in Seq(Writes)
  BY DEF Deliver, Typed, TypeOK
<1>2. /\ timers \subseteq timers'
      /\ ~writes[Head(wire)].own => timers' # {}
  BY DEF Deliver
<1>3. \A i \in DOMAIN wire : i = 1 \/ (i - 1 \in DOMAIN wire' /\ wire'[i - 1] = wire[i])
  BY <1>1
<1>4. Head(wire) = wire[1]
  BY <1>1
<1>5. ASSUME NEW x, OnItsWay(x) PROVE OnItsWay(x)'
  <2>1. CASE \E i \in DOMAIN wire : wire[i] = x /\ ~writes[x].own
    BY <1>1, <1>2, <1>3, <1>4, <2>1 DEF OnItsWay
  <2>2. CASE ~\E i \in DOMAIN wire : wire[i] = x /\ ~writes[x].own
    BY <1>1, <1>2, <1>5, <2>2 DEF OnItsWay
  <2>. QED BY <2>1, <2>2
<1>6. Committed' = Committed /\ Stored("comments")' = Stored("comments")
  BY <1>1 DEF Committed, Stored
<1>. QED BY <1>1, <1>5, <1>6 DEF ListInv, PanelInv

LEMMA TimerStep ==
    ASSUME Typed, ListInv, PanelInv, FirePanel \/ \E type \in Types : Fire(type)
    PROVE  ListInv' /\ PanelInv'
<1>1. UNCHANGED <<writes, wire, task, shown, missed>>
  BY DEF Fire, FirePanel
<1>2. /\ fetch'["list"] = Asked \/ (fetch'["list"] = fetch["list"] /\ timers' = timers)
      /\ fetch'["comments"] \in {Asked, fetch["comments"]}
  BY DEF Fire, FirePanel, Refetched, Views
<1>3. Asked.pc = "asked" /\ Asked.got = {}
  BY DEF Asked
<1>4. Committed' = Committed /\ Stored("comments")' = Stored("comments")
  BY <1>1 DEF Committed, Stored
<1>5. ListInv'
  BY <1>1, <1>2, <1>3, <1>4 DEF ListInv, OnItsWay
<1>6. PanelInv'
  BY <1>1, <1>2, <1>3, <1>4 DEF PanelInv
<1>. QED BY <1>5, <1>6

LEMMA OpenTaskStep ==
    ASSUME Typed, ListInv, PanelInv, NEW k \in Tasks \cup {Null}, OpenTask(k)
    PROVE  ListInv' /\ PanelInv'
<1>1. /\ UNCHANGED <<writes, wire, timers, missed>>
      /\ shown'["list"] = shown["list"] /\ fetch'["list"] = fetch["list"]
      /\ \/ k = Null /\ fetch'["comments"] = Idle /\ shown'["comments"] = {}
         \/ fetch'["comments"] = Asked
  BY DEF OpenTask, Until, Typed, TypeOK, Views
<1>2. Idle.got = {} /\ Asked.got = {} /\ Asked.pc = "asked"
  BY DEF Idle, Asked
<1>3. Committed' = Committed
  BY <1>1 DEF Committed
<1>. QED BY <1>1, <1>2, <1>3 DEF ListInv, OnItsWay, PanelInv

LEMMA ReadStep ==
    ASSUME Typed, ListInv, PanelInv, NEW v \in Views, Read(v)
    PROVE  ListInv' /\ PanelInv'
<1>1. /\ UNCHANGED <<writes, wire, timers, task, shown>>
      /\ fetch'[v].pc = "read" /\ fetch'[v].got = Stored(v)
      /\ \A u \in Views : u # v => fetch'[u] = fetch[u] /\ missed'[u] = missed[u]
  BY DEF Read, Typed, TypeOK
<1>2. Committed' = Committed /\ Stored("comments")' = Stored("comments")
  BY <1>1 DEF Committed, Stored
<1>3. Stored("list") = Committed /\ "list" # "comments"
  BY DEF Stored
<1>4. ListInv'
  BY <1>1, <1>2, <1>3 DEF ListInv, OnItsWay, Views
<1>5. PanelInv'
  BY <1>1, <1>2, <1>3 DEF PanelInv, Views
<1>. QED BY <1>4, <1>5

LEMMA ShowStep ==
    ASSUME Typed, ListInv, PanelInv, NEW v \in Views, Show(v)
    PROVE  ListInv' /\ PanelInv'
<1>1. /\ UNCHANGED <<writes, wire, timers, task, missed>>
      /\ fetch[v].pc = "read" /\ fetch'[v] = Idle /\ shown'[v] = fetch[v].got
      /\ \A u \in Views : u # v => fetch'[u] = fetch[u] /\ shown'[u] = shown[u]
  BY DEF Show, Typed, TypeOK
<1>2. Committed' = Committed /\ Stored("comments")' = Stored("comments")
  BY <1>1 DEF Committed, Stored
<1>3. Idle.pc = "idle" /\ Idle.got = {}
  BY DEF Idle
<1>4. ListInv'
  BY <1>1, <1>2, <1>3 DEF ListInv, OnItsWay, Views
<1>5. PanelInv'
  BY <1>1, <1>2, <1>3 DEF PanelInv, Views
<1>. QED BY <1>4, <1>5

LEMMA FetchFailsStep ==
    ASSUME Typed, ListInv, PanelInv, NEW v \in Views, FetchFails(v)
    PROVE  ListInv' /\ PanelInv'
<1>1. /\ UNCHANGED <<writes, wire, timers, task>>
      /\ fetch'[v] = Idle /\ shown'[v] = {} /\ missed'[v]
      /\ \A u \in Views : u # v => /\ fetch'[u] = fetch[u] /\ shown'[u] = shown[u]
                                   /\ missed'[u] = missed[u]
  BY DEF FetchFails, Typed, TypeOK
<1>2. Committed' = Committed /\ Stored("comments")' = Stored("comments")
  BY <1>1 DEF Committed, Stored
<1>3. Idle.pc = "idle" /\ Idle.got = {}
  BY DEF Idle
<1>4. ListInv'
  BY <1>1, <1>2, <1>3 DEF ListInv, OnItsWay, Views
<1>5. PanelInv'
  BY <1>1, <1>2, <1>3 DEF PanelInv, Views
<1>. QED BY <1>4, <1>5

LEMMA BreakStep ==
    ASSUME Typed, ListInv, PanelInv, Break
    PROVE  ListInv' /\ PanelInv'
<1>1. /\ UNCHANGED <<writes, timers, task, fetch, shown>>
      /\ missed["list"] => missed'["list"]
      /\ ~missed'["list"] => \A i \in DOMAIN wire : writes[wire[i]].own
  <2>. DEFINE Lost == UNION {IF writes[wire[i]].own THEN {} ELSE Concerned(writes[wire[i]].type)
                            : i \in DOMAIN wire}
  <2>1. /\ UNCHANGED <<writes, timers, task, fetch, shown>>
        /\ missed' = Untold(Lost)
    BY DEF Break
  <2>2. ASSUME NEW i \in DOMAIN wire, ~writes[wire[i]].own PROVE "list" \in Lost
    BY <2>2 DEF Concerned, Views
  <2>. HIDE DEF Lost
  <2>. QED BY <2>1, <2>2 DEF Untold, Views
<1>2. Committed' = Committed /\ Stored("comments")' = Stored("comments")
  BY <1>1 DEF Committed, Stored
<1>3. ASSUME ~missed'["list"], NEW x, OnItsWay(x) PROVE OnItsWay(x)'
  BY <1>1, <1>3 DEF OnItsWay
<1>. QED BY <1>1, <1>2, <1>3 DEF ListInv, PanelInv

---------------------------------------------------------------------------
(* The invariant and what follows from it *)

LEMMA InvStep == Typed /\ ListInv /\ PanelInv /\ [Next]_vars => (ListInv /\ PanelInv)'
<1>. SUFFICES ASSUME Typed, ListInv, PanelInv, [Next]_vars PROVE ListInv' /\ PanelInv'
  OBVIOUS
<1>1. CASE \E w \in Writes : Commit(w) \/ Answer(w) \/ Fail(w) \/ Receive(w)
  BY <1>1, CommitStep, AnswerStep, FailStep, ReceiveStep
<1>2. CASE Deliver
  BY <1>2, DeliverStep
<1>3. CASE FirePanel \/ \E type \in Types : Fire(type)
  BY <1>3, TimerStep
<1>4. CASE \E k \in Tasks \cup {Null} : OpenTask(k)
  BY <1>4, OpenTaskStep
<1>5. CASE \E v \in Views : Read(v) \/ Show(v) \/ FetchFails(v)
  BY <1>5, ReadStep, ShowStep, FetchFailsStep
<1>6. CASE Break
  BY <1>6, BreakStep
<1>7. CASE UNCHANGED <<writes, wire, timers, task, fetch, shown, missed>>
  BY <1>7 DEF ListInv, PanelInv, OnItsWay, Committed, Stored
<1>. QED BY <1>1, <1>2, <1>3, <1>4, <1>5, <1>6, <1>7 DEF Next, Connect, vars

LEMMA InvAlways == Spec => [](ListInv /\ PanelInv)
<1>1. Init => Typed /\ ListInv /\ PanelInv
  BY TypedInit, InvInit DEF Typed
<1>2. Typed /\ ListInv /\ PanelInv /\ [Next]_vars => (Typed /\ ListInv /\ PanelInv)'
  BY TypedStep, InvStep DEF Typed
<1>. QED BY <1>1, <1>2, PTL DEF Spec

(* When nothing is under way the list shows what is stored, unless the tab   *)
(* was not told of something: the promise of tasks/index.vue, line 103, for  *)
(* every number of writes, tasks and interleaving of events, timers and      *)
(* fetches.                                                                  *)
THEOREM ListCurrentAlways == Spec => []ListCurrent
<1>1. ListInv => ListCurrent
  <2>. SUFFICES ASSUME ListInv, AtRest("list"), ~missed["list"], NEW w \in Committed,
                      w \notin shown["list"]
               PROVE  FALSE
    BY DEF ListInv, ListCurrent, Stored
  <2>1. OnItsWay(w)
    BY DEF ListInv
  <2>2. writes[w].pc = "done" /\ DOMAIN wire = {} /\ timers = {} /\ fetch["list"].pc = "idle"
    BY DEF AtRest
  <2>. QED BY <2>1, <2>2 DEF OnItsWay
<1>. QED BY <1>1, InvAlways, PTL

(* Once its fetch has ended the panel shows no comments of another task:     *)
(* useTaskComments keys its fetches by the task (useComments.ts, lines 3 to  *)
(* 13).                                                                      *)
THEOREM CommentsOfOpenTaskAlways == Spec => []CommentsOfOpenTask
<1>1. PanelInv => CommentsOfOpenTask
  BY DEF PanelInv, CommentsOfOpenTask
<1>. QED BY <1>1, InvAlways, PTL

=============================================================================
