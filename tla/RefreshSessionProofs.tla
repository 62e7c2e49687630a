------------------------ MODULE RefreshSessionProofs ------------------------
(* Proofs about RefreshSession, for any number of tabs and tokens and any    *)
(* Grace, TTL and Delay that satisfy SessionAssumption.                      *)
EXTENDS RefreshSession, TLAPS

---------------------------------------------------------------------------
(* The inductive invariant *)

(* A request is answered within Delay. *)
Timely ==
    \A t \in Tabs :
        ~At(t, "idle") => req[t].sent <= now /\ now <= req[t].sent + Delay

(* What a handler has read or issued by the time it needs it. *)
Fields ==
    \A t \in Tabs :
        /\ req[t].pc \in {"lookup", "rotate"} => req[t].tok # Null
        /\ At(t, "rotate") => req[t].sent <= req[t].stamp /\ req[t].stamp <= now
        /\ req[t].pc \in {"purge", "accepted"} => req[t].new # Null

(* Whoever holds a token holds one that has been issued. *)
OnlyIssued ==
    /\ cookie # Null => cookie <= issued
    /\ \A t \in Tabs :
        /\ req[t].tok # Null => req[t].tok <= issued
        /\ req[t].new # Null => req[t].new <= issued

(* A token disappears only when it has expired. *)
PurgedLate ==
    \A k \in Tokens :
        k <= issued /\ (rows[k] = Null \/ rows[k].expires < TTL) => now > TTL

(* A token on its way to the browser is nobody else's and has not been       *)
(* revoked.                                                                  *)
Fresh ==
    \A t \in Tabs :
        req[t].pc \in {"purge", "accepted"} =>
            /\ cookie # req[t].new
            /\ \A u \in Tabs : /\ req[u].tok # req[t].new
                               /\ u # t => req[u].new # req[t].new
            /\ rows[req[t].new] = Null \/ rows[req[t].new].revoked = Null

Revoked(k) == rows[k] # Null /\ rows[k].revoked # Null

Responding == {"user", "issue", "purge", "accepted", "refused", "loggedOut"}

(* While the browser holds a revoked token, an answer that replaces it is    *)
(* under way, to a request sent before the revocation.                       *)
Replacing(u, k) ==
    /\ req[u].pc \in Responding
    /\ req[u].tok = k
    /\ req[u].sent <= rows[k].revoked

Answered == cookie # Null /\ Revoked(cookie) => \E u \in Tabs : Replacing(u, cookie)

(* So a token is presented no later than Delay after its revocation. *)
Soon ==
    \A t \in Tabs :
        At(t, "lookup") /\ Revoked(req[t].tok) =>
            req[t].sent <= rows[req[t].tok].revoked + Delay

NoAlarm == \A t \in Tabs : ~At(t, "revokeAll")

Trusted == Fresh /\ Answered /\ Soon /\ NoAlarm

Inv == TypeOK /\ Timely /\ Fields /\ OnlyIssued /\ PurgedLate /\ (~lost => Trusted)

---------------------------------------------------------------------------
(* Types *)

LEMMA GotoType ==
    ASSUME TypeOK, NEW t \in Tabs, NEW r \in Request, Goto(t, r)
    PROVE  req' \in [Tabs -> Request]
BY DEF TypeOK, Goto

LEMMA RequestForms ==
    /\ Idle \in Request
    /\ \A r \in Request, pc \in Pcs : [r EXCEPT !.pc = pc] \in Request
    /\ \A r \in Request, pc \in Pcs, stamp \in Nat :
          [r EXCEPT !.pc = pc, !.stamp = stamp] \in Request
    /\ \A r \in Request, pc \in Pcs, new \in Tokens :
          [r EXCEPT !.pc = pc, !.new = new] \in Request
    /\ \A pc \in Pcs, tok \in Tokens \cup {Null}, sent \in Nat :
          /\ [Idle EXCEPT !.pc = pc, !.tok = tok, !.sent = sent] \in Request
          /\ [Idle EXCEPT !.pc = pc, !.sent = sent] \in Request
<1>1. Idle \in Request
  BY DEF Request, Idle, Pcs
<1>. QED BY <1>1 DEF Request, Idle

LEMMA TypeStep ==
    ASSUME TypeOK, [Next]_vars
    PROVE  TypeOK'
<1>. /\ now \in Nat
     /\ cookie \in Tokens \cup {Null}
     /\ \A t \in Tabs : /\ req[t] \in Request
                        /\ req[t].stamp \in Nat
                        /\ req[t].tok \in Tokens \cup {Null}
                        /\ req[t].new \in Tokens \cup {Null}
  BY DEF TypeOK, Request
<1>1. ASSUME NEW t \in Tabs, SendRefresh(t) PROVE TypeOK'
  <2>1. PICK pc \in Pcs : Goto(t, [Idle EXCEPT !.pc = pc, !.tok = cookie, !.sent = now])
    BY <1>1 DEF SendRefresh, Pcs
  <2>2. req' \in [Tabs -> Request]
    BY <2>1, RequestForms, GotoType
  <2>. QED BY <1>1, <2>2 DEF SendRefresh, TypeOK
<1>2. ASSUME NEW t \in Tabs, Lookup(t) PROVE TypeOK'
  <2>1. PICK pc \in Pcs, stamp \in Nat : Goto(t, [req[t] EXCEPT !.pc = pc, !.stamp = stamp])
    BY <1>2 DEF Lookup, Pcs
  <2>2. req' \in [Tabs -> Request]
    BY <2>1, RequestForms, GotoType
  <2>. QED BY <1>2, <2>2 DEF Lookup, TypeOK
<1>3. ASSUME NEW t \in Tabs, Rotate(t) PROVE TypeOK'
  <2>1. req' \in [Tabs -> Request]
    <3>1. "user" \in Pcs
      BY DEF Pcs
    <3>. QED BY <1>3, <3>1, RequestForms, GotoType DEF Rotate
  <2>2. rows' \in [Tokens -> Row \cup {Null}]
    <3>1. CASE rows[req[t].tok] # Null
      BY <1>3, <3>1 DEF Rotate, TypeOK, Row
    <3>2. CASE rows' = rows
      BY <3>2 DEF TypeOK
    <3>3. ASSUME NEW e \in req[t].stamp..now,
                 rows' = [rows EXCEPT ![req[t].tok] =
                                          [expires |-> e, revoked |-> req[t].stamp]]
          PROVE  rows' \in [Tokens -> Row \cup {Null}]
      <4>1. [expires |-> e, revoked |-> req[t].stamp] \in Row
        BY <3>3 DEF Row
      <4>. QED BY <3>3, <4>1 DEF TypeOK
    <3>. QED BY <1>3, <3>1, <3>2, <3>3 DEF Rotate
  <2>. QED BY <1>3, <2>1, <2>2 DEF Rotate, TypeOK
<1>4. ASSUME NEW t \in Tabs, RevokeAll(t) PROVE TypeOK'
  <2>1. rows' \in [Tokens -> Row \cup {Null}]
    BY <1>4 DEF RevokeAll, RevokedAll, Live, TypeOK, Row
  <2>2. req' \in [Tabs -> Request]
    <3>1. "refused" \in Pcs
      BY DEF Pcs
    <3>. QED BY <1>4, <3>1, RequestForms, GotoType DEF RevokeAll
  <2>. QED BY <1>4, <2>1, <2>2 DEF RevokeAll, TypeOK
<1>5. ASSUME NEW t \in Tabs, FindUser(t) PROVE TypeOK'
  <2>1. PICK pc \in Pcs : Goto(t, [req[t] EXCEPT !.pc = pc])
    BY <1>5 DEF FindUser, Pcs
  <2>2. req' \in [Tabs -> Request]
    BY <2>1, RequestForms, GotoType
  <2>. QED BY <1>5, <2>2 DEF FindUser, TypeOK
<1>6. ASSUME NEW t \in Tabs, Issue(t) PROVE TypeOK'
  <2>1. issued + 1 \in Tokens /\ "purge" \in Pcs
    BY <1>6, SessionAssumption DEF SessionAssumption, Issue, Tokens, Pcs, TypeOK
  <2>2. req' \in [Tabs -> Request]
    BY <1>6, <2>1, RequestForms, GotoType DEF Issue
  <2>3. NewRow \in Row
    BY SessionAssumption DEF SessionAssumption, NewRow, Row
  <2>. QED BY <1>6, <2>1, <2>2, <2>3 DEF Issue, TypeOK
<1>7. ASSUME NEW t \in Tabs, Purge(t) PROVE TypeOK'
  <2>1. req' \in [Tabs -> Request]
    <3>1. "accepted" \in Pcs
      BY DEF Pcs
    <3>. QED BY <1>7, <3>1, RequestForms, GotoType DEF Purge
  <2>. QED BY <1>7, <2>1 DEF Purge, PurgedRows, TypeOK
<1>8. ASSUME NEW t \in Tabs, Login(t) PROVE TypeOK'
  <2>1. req' \in [Tabs -> Request]
    <3>1. "issue" \in Pcs
      BY DEF Pcs
    <3>. QED BY <1>8, <3>1, RequestForms, GotoType DEF Login
  <2>. QED BY <1>8, <2>1 DEF Login, TypeOK
<1>9. ASSUME NEW t \in Tabs, SendLogout(t) PROVE TypeOK'
  <2>1. req' \in [Tabs -> Request]
    <3>1. "revoke" \in Pcs
      BY DEF Pcs
    <3>. QED BY <1>9, <3>1, RequestForms, GotoType DEF SendLogout
  <2>. QED BY <1>9, <2>1 DEF SendLogout, TypeOK
<1>10. ASSUME NEW t \in Tabs, Revoke(t) PROVE TypeOK'
  <2>1. req' \in [Tabs -> Request]
    <3>1. "loggedOut" \in Pcs
      BY DEF Pcs
    <3>. QED BY <1>10, <3>1, RequestForms, GotoType DEF Revoke
  <2>2. rows' \in [Tokens -> Row \cup {Null}]
    BY <1>10 DEF Revoke, RevokedOne, Live, TypeOK, Row
  <2>. QED BY <1>10, <2>1, <2>2 DEF Revoke, TypeOK
<1>11. ASSUME NEW t \in Tabs, Deliver(t) PROVE TypeOK'
  <2>1. req' \in [Tabs -> Request]
    <3>1. Idle \in Request
      BY DEF Idle, Request, Pcs
    <3>. QED BY <1>11, <3>1, GotoType DEF Deliver
  <2>. QED BY <1>11, <2>1 DEF Deliver, CookieOf, TypeOK
<1>12. ASSUME NEW t \in Tabs, Fail(t) PROVE TypeOK'
  <2>1. /\ Idle \in Request
        /\ [req[t] EXCEPT !.pc = "refused"] \in Request
    <3>1. "refused" \in Pcs
      BY DEF Pcs
    <3>2. Idle \in Request
      BY DEF Idle, Request, Pcs
    <3>. QED BY <3>1, <3>2 DEF Request
  <2>2. req' \in [Tabs -> Request]
    BY <1>12, <2>1, GotoType DEF Fail
  <2>. QED BY <1>12, <2>2 DEF Fail, TypeOK
<1>13. ASSUME NEW t \in Tabs, Lose(t) PROVE TypeOK'
  <2>1. req' \in [Tabs -> Request]
    <3>1. Idle \in Request
      BY DEF Idle, Request, Pcs
    <3>. QED BY <1>13, <3>1, GotoType DEF Lose
  <2>. QED BY <1>13, <2>1 DEF Lose, TypeOK
<1>14. CASE Tick
  BY <1>14 DEF Tick, TypeOK
<1>15. CASE UNCHANGED vars
  BY <1>15 DEF vars, TypeOK
<1>. QED
  BY <1>1, <1>2, <1>3, <1>4, <1>5, <1>6, <1>7, <1>8, <1>9, <1>10, <1>11, <1>12,
     <1>13, <1>14, <1>15 DEF Next, TabStep

LEMMA InitTypes == Init => TypeOK
<1>. SUFFICES ASSUME Init PROVE TypeOK
  OBVIOUS
<1>1. 1 \in Tokens
  BY SessionAssumption DEF SessionAssumption, Tokens
<1>2. rows \in [Tokens -> Row \cup {Null}]
  <2>1. NewRow \in Row
    BY SessionAssumption DEF SessionAssumption, Init, NewRow, Row
  <2>. QED BY <2>1 DEF Init
<1>3. req \in [Tabs -> Request]
  BY RequestForms DEF Init
<1>. QED BY <1>1, <1>2, <1>3 DEF Init, TypeOK

(* Every variable keeps its type: the types of the table refresh_tokens, the *)
(* cookie and the requests in flight (auth.service.ts, lines 145 to 206).    *)
THEOREM SessionTypeCorrect == Spec => []TypeOK
<1>1. Init => TypeOK
  BY InitTypes
<1>2. TypeOK /\ [Next]_vars => TypeOK'
  BY TypeStep
<1>. QED BY <1>1, <1>2, PTL DEF Spec

---------------------------------------------------------------------------
(* The invariant is inductive *)

LEMMA Typed ==
    ASSUME TypeOK
    PROVE  /\ now \in Nat /\ issued \in Nat
           /\ Grace \in Nat /\ TTL \in Nat /\ Delay \in Nat /\ 2 * Delay <= Grace
           /\ Tokens \subseteq Nat /\ Null \notin Nat
           /\ cookie \in Tokens \cup {Null}
           /\ \A u \in Tabs : /\ req[u].tok \in Tokens \cup {Null}
                              /\ req[u].new \in Tokens \cup {Null}
                              /\ req[u].sent \in Nat
                              /\ req[u].stamp \in Nat
           /\ \A k \in Tokens : rows[k] # Null => /\ rows[k].expires \in Nat
                                                 /\ rows[k].revoked \in Nat \cup {Null}
BY SessionAssumption DEF SessionAssumption, TypeOK, Tokens, Request, Row

(* What a change of the request of one tab does to the others. *)
LEMMA GotoOne ==
    ASSUME TypeOK, NEW t \in Tabs, NEW r, Goto(t, r)
    PROVE  /\ req'[t] = r
           /\ \A u \in Tabs : u # t => req'[u] = req[u]
BY DEF TypeOK, Goto

LEMMA SendRefreshStep ==
    ASSUME Inv, TypeOK', NEW t \in Tabs, SendRefresh(t)
    PROVE  Inv'
<1>. TypeOK /\ Timely /\ Fields /\ OnlyIssued /\ PurgedLate /\ (~lost => Trusted)
  BY DEF Inv
<1>1. /\ UNCHANGED <<now, rows, issued, cookie, lost>>
      /\ \A u \in Tabs : u # t => req'[u] = req[u]
      /\ req[t].pc = "idle"
      /\ req'[t].pc = IF cookie = Null THEN "refused" ELSE "lookup"
      /\ req'[t].tok = cookie /\ req'[t].sent = now /\ req'[t].new = Null
  <2>. DEFINE r == [Idle EXCEPT !.pc = IF cookie = Null THEN "refused" ELSE "lookup",
                               !.tok = cookie, !.sent = now]
  <2>1. Goto(t, r) /\ req[t].pc = "idle" /\ UNCHANGED <<now, rows, issued, cookie, lost>>
    BY DEF SendRefresh, At
  <2>2. /\ req'[t] = r
        /\ \A u \in Tabs : u # t => req'[u] = req[u]
    BY <2>1, GotoOne
  <2>3. /\ r.pc = (IF cookie = Null THEN "refused" ELSE "lookup")
        /\ r.tok = cookie /\ r.sent = now /\ r.new = Null
    BY DEF Idle
  <2>. QED BY <2>1, <2>2, <2>3
<1>2. Timely'
  BY <1>1, Typed DEF Timely, At
<1>3. Fields'
  BY <1>1, Typed DEF Fields, At
<1>4. OnlyIssued'
  BY <1>1, Typed DEF OnlyIssued
<1>5. PurgedLate'
  BY <1>1 DEF PurgedLate
<1>6. ASSUME ~lost' PROVE Trusted'
  <2>. Fresh /\ Answered /\ Soon /\ NoAlarm
    BY <1>1, <1>6 DEF Trusted
  <2>1. Fresh'
    BY <1>1, Typed DEF Fresh, Fields
  <2>2. Answered'
    <3>. SUFFICES ASSUME cookie # Null, Revoked(cookie) PROVE Answered'
      BY <1>1 DEF Answered, Revoked
    <3>1. PICK u \in Tabs : Replacing(u, cookie)
      BY DEF Answered
    <3>2. u # t
      BY <1>1, <3>1 DEF Replacing, Responding
    <3>. QED BY <1>1, <3>1, <3>2 DEF Answered, Replacing, Revoked
  <2>3. Soon'
    <3>1. ASSUME cookie # Null, Revoked(cookie)
          PROVE  now <= rows[cookie].revoked + Delay
      <4>1. PICK u \in Tabs : Replacing(u, cookie)
        BY <3>1 DEF Answered
      <4>2. now <= req[u].sent + Delay
        BY <4>1 DEF Timely, At, Replacing, Responding
      <4>3. req[u].sent <= rows[cookie].revoked
        BY <4>1 DEF Replacing
      <4>. QED BY <3>1, <4>2, <4>3, Typed DEF Revoked
    <3>. QED BY <1>1, <3>1, Typed DEF Soon, Revoked, At
  <2>4. NoAlarm'
    BY <1>1 DEF NoAlarm, At
  <2>. QED BY <2>1, <2>2, <2>3, <2>4 DEF Trusted
<1>. QED BY <1>2, <1>3, <1>4, <1>5, <1>6 DEF Inv

LEMMA LookupStep ==
    ASSUME Inv, TypeOK', NEW t \in Tabs, Lookup(t)
    PROVE  Inv'
<1>. TypeOK /\ Timely /\ Fields /\ OnlyIssued /\ PurgedLate /\ (~lost => Trusted)
  BY DEF Inv
<1>1. /\ UNCHANGED <<now, rows, issued, cookie, lost>>
      /\ \A u \in Tabs : u # t => req'[u] = req[u]
      /\ req[t].pc = "lookup"
      /\ req'[t].tok = req[t].tok /\ req'[t].sent = req[t].sent /\ req'[t].new = req[t].new
      /\ req'[t].pc \in {"refused", "rotate", "revokeAll", "user"}
      /\ req'[t].pc = "rotate" => req'[t].stamp = now
      /\ req'[t].pc = "revokeAll" => Revoked(req[t].tok) /\ now - rows[req[t].tok].revoked > Grace
  <2>. DEFINE row == rows[req[t].tok]
             next == IF row = Null THEN "refused"
                     ELSE IF Expired(row) THEN "refused"
                     ELSE IF row.revoked = Null THEN "rotate"
                     ELSE IF GraceOver(row) THEN "revokeAll"
                     ELSE "user"
             r == [req[t] EXCEPT !.pc = next, !.stamp = IF next = "rotate" THEN now ELSE 0]
  <2>1. /\ Goto(t, r) /\ req[t].pc = "lookup"
        /\ UNCHANGED <<now, rows, issued, cookie, lost>>
    BY DEF Lookup, At
  <2>2. /\ req'[t] = r
        /\ \A u \in Tabs : u # t => req'[u] = req[u]
    BY <2>1, GotoOne
  <2>3. /\ r.pc = next /\ r.stamp = (IF next = "rotate" THEN now ELSE 0)
        /\ r.tok = req[t].tok /\ r.sent = req[t].sent /\ r.new = req[t].new
    BY DEF TypeOK, Request
  <2>. QED BY <2>1, <2>2, <2>3 DEF Revoked, GraceOver
<1>2. Timely'
  BY <1>1, Typed DEF Timely, At
<1>3. Fields'
  BY <1>1, Typed DEF Fields, Timely, At
<1>4. OnlyIssued'
  BY <1>1, Typed DEF OnlyIssued
<1>5. PurgedLate'
  BY <1>1 DEF PurgedLate
<1>6. ASSUME ~lost' PROVE Trusted'
  <2>. Fresh /\ Answered /\ Soon /\ NoAlarm
    BY <1>1, <1>6 DEF Trusted
  <2>1. Fresh'
    BY <1>1, Typed DEF Fresh, Fields
  <2>2. Answered'
    <3>. SUFFICES ASSUME cookie # Null, Revoked(cookie) PROVE Answered'
      BY <1>1 DEF Answered, Revoked
    <3>1. PICK u \in Tabs : Replacing(u, cookie)
      BY DEF Answered
    <3>2. u # t
      BY <1>1, <3>1 DEF Replacing, Responding
    <3>. QED BY <1>1, <3>1, <3>2 DEF Answered, Replacing, Revoked
  <2>3. Soon'
    BY <1>1, Typed DEF Soon, Revoked, At
  <2>4. NoAlarm'
    <3>1. req'[t].pc # "revokeAll"
      <4>. SUFFICES ASSUME req'[t].pc = "revokeAll" PROVE FALSE
        OBVIOUS
      <4>1. req[t].sent <= rows[req[t].tok].revoked + Delay
        BY <1>1 DEF Soon, At
      <4>2. now <= req[t].sent + Delay
        BY <1>1 DEF Timely, At
      <4>3. req[t].tok \in Tokens
        BY <1>1, Typed DEF Fields
      <4>. QED BY <1>1, <4>1, <4>2, <4>3, Typed DEF Revoked
    <3>. QED BY <1>1, <3>1 DEF NoAlarm, At
  <2>. QED BY <2>1, <2>2, <2>3, <2>4 DEF Trusted
<1>. QED BY <1>2, <1>3, <1>4, <1>5, <1>6 DEF Inv

LEMMA RotateStep ==
    ASSUME Inv, TypeOK', NEW t \in Tabs, Rotate(t)
    PROVE  Inv'
<1>. TypeOK /\ Timely /\ Fields /\ OnlyIssued /\ PurgedLate /\ (~lost => Trusted)
  BY DEF Inv
<1>1. /\ UNCHANGED <<now, issued, cookie, lost>>
      /\ \A u \in Tabs : u # t => req'[u] = req[u]
      /\ req[t].pc = "rotate" /\ req[t].tok \in Tokens
      /\ req'[t].tok = req[t].tok /\ req'[t].sent = req[t].sent /\ req'[t].new = req[t].new
      /\ req'[t].pc = "user"
      /\ \A k \in Tokens : k # req[t].tok => rows'[k] = rows[k]
      /\ rows'[req[t].tok] # Null => rows'[req[t].tok].revoked = req[t].stamp
      /\ rows[req[t].tok] # Null =>
            rows'[req[t].tok] # Null /\ rows'[req[t].tok].expires = rows[req[t].tok].expires
  <2>1. /\ UNCHANGED <<now, issued, cookie, lost>>
        /\ Goto(t, [req[t] EXCEPT !.pc = "user", !.stamp = 0]) /\ req[t].pc = "rotate"
    BY DEF Rotate, At
  <2>2. req[t].tok \in Tokens
    BY <2>1, Typed DEF Fields
  <2>3. /\ req'[t] = [req[t] EXCEPT !.pc = "user", !.stamp = 0]
        /\ \A u \in Tabs : u # t => req'[u] = req[u]
    BY <2>1, GotoOne
  <2>4. /\ req'[t].tok = req[t].tok /\ req'[t].sent = req[t].sent
        /\ req'[t].new = req[t].new /\ req'[t].pc = "user"
    BY <2>3 DEF TypeOK, Request
  <2>5. \A k \in Tokens : k # req[t].tok => rows'[k] = rows[k]
    BY DEF Rotate, TypeOK
  <2>6. ASSUME rows[req[t].tok] # Null
        PROVE  /\ rows'[req[t].tok] = [rows[req[t].tok] EXCEPT !.revoked = req[t].stamp]
               /\ rows[req[t].tok] \in Row
    BY <2>2, <2>6 DEF Rotate, TypeOK
  <2>7. ASSUME rows[req[t].tok] # Null
        PROVE  /\ rows'[req[t].tok] # Null
               /\ rows'[req[t].tok].revoked = req[t].stamp
               /\ rows'[req[t].tok].expires = rows[req[t].tok].expires
    <3>1. rows'[req[t].tok] \in Row
      BY <2>6, <2>7, Typed DEF Row
    <3>. QED BY <2>6, <2>7, <3>1, SessionAssumption DEF SessionAssumption, Row
  <2>8. ASSUME rows[req[t].tok] = Null, rows'[req[t].tok] # Null
        PROVE  rows'[req[t].tok].revoked = req[t].stamp
    <3>1. PICK e \in req[t].stamp..now :
              rows' = [rows EXCEPT ![req[t].tok] = [expires |-> e, revoked |-> req[t].stamp]]
      BY <2>8 DEF Rotate
    <3>. QED BY <2>2, <3>1 DEF TypeOK
  <2>. QED BY <2>1, <2>2, <2>3, <2>4, <2>5, <2>7, <2>8
<1>2. Timely'
  BY <1>1, Typed DEF Timely, At
<1>3. Fields'
  BY <1>1, Typed DEF Fields, At
<1>4. OnlyIssued'
  BY <1>1, Typed DEF OnlyIssued
<1>5. PurgedLate'
  <2>. SUFFICES ASSUME NEW k \in Tokens, k <= issued,
                      rows'[k] = Null \/ rows'[k].expires < TTL
               PROVE  now > TTL
    BY <1>1 DEF PurgedLate
  <2>1. CASE k # req[t].tok
    BY <1>1, <2>1 DEF PurgedLate
  <2>2. CASE k = req[t].tok /\ rows[k] = Null
    BY <2>2 DEF PurgedLate
  <2>3. CASE k = req[t].tok /\ rows[k] # Null
    BY <1>1, <2>3 DEF PurgedLate
  <2>. QED BY <2>1, <2>2, <2>3
<1>6. ASSUME ~lost' PROVE Trusted'
  <2>. Fresh /\ Answered /\ Soon /\ NoAlarm
    BY <1>1, <1>6 DEF Trusted
  <2>1. Fresh'
    BY <1>1, Typed DEF Fresh, Fields
  <2>2. Answered'
    <3>. SUFFICES ASSUME cookie # Null, rows'[cookie] # Null, rows'[cookie].revoked # Null
                 PROVE  \E u \in Tabs : /\ req'[u].pc \in Responding
                                         /\ req'[u].tok = cookie
                                         /\ req'[u].sent <= rows'[cookie].revoked
      BY <1>1 DEF Answered, Revoked, Replacing
    <3>1. CASE cookie = req[t].tok
      BY <1>1, <3>1 DEF Fields, At, Responding
    <3>2. CASE cookie # req[t].tok
      <4>1. PICK u \in Tabs : Replacing(u, cookie)
        BY <1>1, <3>2, Typed DEF Answered, Revoked
      <4>2. u # t
        BY <1>1, <4>1 DEF Replacing, Responding
      <4>. QED BY <1>1, <3>2, <4>1, <4>2, Typed DEF Replacing
    <3>. QED BY <3>1, <3>2
  <2>3. Soon'
    <3>. SUFFICES ASSUME NEW u \in Tabs, u # t, req[u].pc = "lookup",
                        rows'[req[u].tok] # Null, rows'[req[u].tok].revoked # Null
                 PROVE  req[u].sent <= rows'[req[u].tok].revoked + Delay
      BY <1>1 DEF Soon, Revoked, At
    <3>1. req[u].tok \in Tokens
      BY Typed DEF Fields
    <3>2. CASE req[u].tok # req[t].tok
      BY <1>1, <3>1, <3>2 DEF Soon, Revoked, At
    <3>3. CASE req[u].tok = req[t].tok
      <4>1. req[u].sent <= now
        BY DEF Timely, At
      <4>2. now <= req[t].sent + Delay /\ req[t].sent <= req[t].stamp
        BY <1>1 DEF Timely, Fields, At
      <4>. QED BY <1>1, <3>3, <4>1, <4>2, Typed
    <3>. QED BY <3>2, <3>3
  <2>4. NoAlarm'
    BY <1>1 DEF NoAlarm, At
  <2>. QED BY <2>1, <2>2, <2>3, <2>4 DEF Trusted
<1>. QED BY <1>2, <1>3, <1>4, <1>5, <1>6 DEF Inv

LEMMA RevokeAllStep ==
    ASSUME Inv, TypeOK', NEW t \in Tabs, RevokeAll(t)
    PROVE  Inv'
<1>. TypeOK /\ Timely /\ Fields /\ OnlyIssued /\ PurgedLate /\ (~lost => Trusted)
  BY DEF Inv
<1>1. /\ UNCHANGED <<now, issued, cookie, lost>>
      /\ \A u \in Tabs : u # t => req'[u] = req[u]
      /\ req[t].pc = "revokeAll"
      /\ req'[t].tok = req[t].tok /\ req'[t].sent = req[t].sent /\ req'[t].new = req[t].new
      /\ req'[t].pc = "refused"
      /\ \A k \in Tokens : /\ rows[k] = Null => rows'[k] = Null
                           /\ rows[k] # Null => /\ rows'[k] # Null
                                                /\ rows'[k].expires = rows[k].expires
  <2>1. /\ UNCHANGED <<now, issued, cookie, lost>>
        /\ Goto(t, [req[t] EXCEPT !.pc = "refused"]) /\ req[t].pc = "revokeAll"
    BY DEF RevokeAll, At
  <2>2. /\ req'[t] = [req[t] EXCEPT !.pc = "refused"]
        /\ \A u \in Tabs : u # t => req'[u] = req[u]
    BY <2>1, GotoOne
  <2>3. ASSUME NEW k \in Tokens
        PROVE  /\ rows[k] = Null => rows'[k] = Null
               /\ rows[k] # Null => rows'[k] # Null /\ rows'[k].expires = rows[k].expires
    <3>1. rows'[k] = IF Live(k) THEN [rows[k] EXCEPT !.revoked = now] ELSE rows[k]
      BY DEF RevokeAll, RevokedAll
    <3>2. CASE Live(k)
      <4>1. rows[k] \in Row /\ [rows[k] EXCEPT !.revoked = now] \in Row
        BY <3>2 DEF Live, TypeOK, Row
      <4>. QED BY <3>1, <3>2, <4>1, SessionAssumption DEF SessionAssumption, Row, Live
    <3>. QED BY <3>1, <3>2
  <2>. QED BY <2>1, <2>2, <2>3 DEF TypeOK, Request
<1>2. Timely'
  BY <1>1, Typed DEF Timely, At
<1>3. Fields'
  BY <1>1, Typed DEF Fields, At
<1>4. OnlyIssued'
  BY <1>1, Typed DEF OnlyIssued
<1>5. PurgedLate'
  <2>. SUFFICES ASSUME NEW k \in Tokens, k <= issued,
                      rows'[k] = Null \/ rows'[k].expires < TTL
               PROVE  now > TTL
    BY <1>1 DEF PurgedLate
  <2>1. rows[k] = Null \/ rows[k].expires < TTL
    BY <1>1
  <2>. QED BY <2>1 DEF PurgedLate
<1>6. ASSUME ~lost' PROVE Trusted'
  BY <1>1, <1>6 DEF Trusted, NoAlarm, At
<1>. QED BY <1>2, <1>3, <1>4, <1>5, <1>6 DEF Inv

LEMMA FindUserStep ==
    ASSUME Inv, TypeOK', NEW t \in Tabs, FindUser(t)
    PROVE  Inv'
<1>. TypeOK /\ Timely /\ Fields /\ OnlyIssued /\ PurgedLate /\ (~lost => Trusted)
  BY DEF Inv
<1>1. /\ UNCHANGED <<now, rows, issued, cookie, lost>>
      /\ \A u \in Tabs : u # t => req'[u] = req[u]
      /\ req[t].pc = "user"
      /\ req'[t].tok = req[t].tok /\ req'[t].sent = req[t].sent /\ req'[t].new = req[t].new
      /\ req'[t].pc \in {"issue", "refused"}
  <2>1. PICK pc \in {"issue", "refused"} : Goto(t, [req[t] EXCEPT !.pc = pc])
    BY DEF FindUser
  <2>2. /\ req'[t] = [req[t] EXCEPT !.pc = pc]
        /\ \A u \in Tabs : u # t => req'[u] = req[u]
    BY <2>1, GotoOne
  <2>. QED BY <2>2 DEF FindUser, At, TypeOK, Request
<1>2. Timely'
  BY <1>1, Typed DEF Timely, At
<1>3. Fields'
  BY <1>1, Typed DEF Fields, At
<1>4. OnlyIssued'
  BY <1>1, Typed DEF OnlyIssued
<1>5. PurgedLate'
  BY <1>1 DEF PurgedLate
<1>6. ASSUME ~lost' PROVE Trusted'
  <2>. Fresh /\ Answered /\ Soon /\ NoAlarm
    BY <1>1, <1>6 DEF Trusted
  <2>1. Fresh'
    BY <1>1, Typed DEF Fresh, Fields
  <2>2. Answered'
    <3>. SUFFICES ASSUME cookie # Null, Revoked(cookie) PROVE Answered'
      BY <1>1 DEF Answered, Revoked
    <3>1. PICK u \in Tabs : Replacing(u, cookie)
      BY DEF Answered
    <3>. QED BY <1>1, <3>1 DEF Answered, Replacing, Revoked, Responding
  <2>3. Soon'
    BY <1>1, Typed DEF Soon, Revoked, At
  <2>4. NoAlarm'
    BY <1>1 DEF NoAlarm, At
  <2>. QED BY <2>1, <2>2, <2>3, <2>4 DEF Trusted
<1>. QED BY <1>2, <1>3, <1>4, <1>5, <1>6 DEF Inv

LEMMA IssueStep ==
    ASSUME Inv, TypeOK', NEW t \in Tabs, Issue(t)
    PROVE  Inv'
<1>. TypeOK /\ Timely /\ Fields /\ OnlyIssued /\ PurgedLate /\ (~lost => Trusted)
  BY DEF Inv
<1>1. /\ UNCHANGED <<now, cookie, lost>>
      /\ \A u \in Tabs : u # t => req'[u] = req[u]
      /\ req[t].pc = "issue"
      /\ issued + 1 \in Tokens /\ issued' = issued + 1
      /\ req'[t].tok = req[t].tok /\ req'[t].sent = req[t].sent
      /\ req'[t].new = issued + 1 /\ req'[t].pc = "purge"
      /\ \A k \in Tokens : k # issued + 1 => rows'[k] = rows[k]
      /\ rows'[issued + 1].expires = now + TTL /\ rows'[issued + 1].revoked = Null
  <2>1. issued + 1 \in Tokens
    BY SessionAssumption DEF SessionAssumption, Issue, Tokens, TypeOK
  <2>2. Goto(t, [req[t] EXCEPT !.pc = "purge", !.new = issued + 1])
    BY DEF Issue
  <2>3. /\ req'[t] = [req[t] EXCEPT !.pc = "purge", !.new = issued + 1]
        /\ \A u \in Tabs : u # t => req'[u] = req[u]
    BY <2>2, GotoOne
  <2>4. /\ req'[t].tok = req[t].tok /\ req'[t].sent = req[t].sent
        /\ req'[t].new = issued + 1 /\ req'[t].pc = "purge"
    BY <2>3 DEF TypeOK, Request
  <2>5. /\ \A k \in Tokens : k # issued + 1 => rows'[k] = rows[k]
        /\ rows'[issued + 1].expires = now + TTL /\ rows'[issued + 1].revoked = Null
    BY <2>1 DEF Issue, TypeOK, NewRow
  <2>. QED BY <2>1, <2>3, <2>4, <2>5 DEF Issue, At
<1>2. Timely'
  BY <1>1, Typed DEF Timely, At
<1>3. Fields'
  BY <1>1, Typed DEF Fields, At
<1>4. OnlyIssued'
  BY <1>1, Typed DEF OnlyIssued
<1>5. PurgedLate'
  <2>. SUFFICES ASSUME NEW k \in Tokens, k <= issued + 1,
                      rows'[k] = Null \/ rows'[k].expires < TTL
               PROVE  now > TTL
    BY <1>1 DEF PurgedLate
  <2>1. CASE k # issued + 1
    BY <1>1, <2>1, Typed DEF PurgedLate
  <2>2. CASE k = issued + 1
    <3>1. rows'[k] # Null
      BY <1>1, <2>2, SessionAssumption DEF SessionAssumption, Issue, NewRow, TypeOK
    <3>. QED BY <1>1, <2>2, <3>1, Typed
  <2>. QED BY <2>1, <2>2
<1>6. ASSUME ~lost' PROVE Trusted'
  <2>. Fresh /\ Answered /\ Soon /\ NoAlarm
    BY <1>1, <1>6 DEF Trusted
  <2>1. Fresh'
    <3>1. ASSUME NEW u \in Tabs
          PROVE  /\ req[u].tok # issued + 1
                 /\ req[u].new # issued + 1
                 /\ cookie # issued + 1
      BY Typed DEF OnlyIssued
    <3>. SUFFICES ASSUME NEW w \in Tabs, req'[w].pc \in {"purge", "accepted"}
                 PROVE  /\ cookie # req'[w].new
                        /\ \A u \in Tabs : /\ req'[u].tok # req'[w].new
                                           /\ u # w => req'[u].new # req'[w].new
                        /\ rows'[req'[w].new] = Null \/ rows'[req'[w].new].revoked = Null
      BY <1>1 DEF Fresh
    <3>2. CASE w = t
      BY <1>1, <3>1, <3>2
    <3>3. CASE w # t
      <4>1. req[w].new \in Tokens
        BY <1>1, <3>3, Typed DEF Fields
      <4>. QED BY <1>1, <3>1, <3>3, <4>1 DEF Fresh
    <3>. QED BY <3>2, <3>3
  <2>2. Answered'
    <3>1. cookie # Null => cookie \in Tokens /\ cookie # issued + 1
      BY Typed DEF OnlyIssued
    <3>. SUFFICES ASSUME cookie # Null, Revoked(cookie) PROVE Answered'
      BY <1>1, <3>1 DEF Answered, Revoked
    <3>2. PICK u \in Tabs : Replacing(u, cookie)
      BY DEF Answered
    <3>. QED BY <1>1, <3>1, <3>2 DEF Answered, Replacing, Revoked, Responding
  <2>3. Soon'
    <3>1. ASSUME NEW u \in Tabs, req[u].pc = "lookup"
          PROVE  rows'[req[u].tok] = rows[req[u].tok]
      <4>1. req[u].tok \in Tokens /\ req[u].tok # issued + 1
        BY <3>1, Typed DEF Fields, OnlyIssued
      <4>. QED BY <1>1, <4>1
    <3>. QED BY <1>1, <3>1, Typed DEF Soon, Revoked, At
  <2>4. NoAlarm'
    BY <1>1 DEF NoAlarm, At
  <2>. QED BY <2>1, <2>2, <2>3, <2>4 DEF Trusted
<1>. QED BY <1>2, <1>3, <1>4, <1>5, <1>6 DEF Inv

LEMMA PurgeStep ==
    ASSUME Inv, TypeOK', NEW t \in Tabs, Purge(t)
    PROVE  Inv'
<1>. TypeOK /\ Timely /\ Fields /\ OnlyIssued /\ PurgedLate /\ (~lost => Trusted)
  BY DEF Inv
<1>1. /\ UNCHANGED <<now, issued, cookie, lost>>
      /\ \A u \in Tabs : u # t => req'[u] = req[u]
      /\ req[t].pc = "purge"
      /\ req'[t].tok = req[t].tok /\ req'[t].sent = req[t].sent /\ req'[t].new = req[t].new
      /\ req'[t].pc = "accepted"
      /\ \A k \in Tokens : \/ rows'[k] = rows[k]
                           \/ rows'[k] = Null /\ rows[k] # Null /\ rows[k].expires < now
  <2>1. Goto(t, [req[t] EXCEPT !.pc = "accepted"])
    BY DEF Purge
  <2>2. /\ req'[t] = [req[t] EXCEPT !.pc = "accepted"]
        /\ \A u \in Tabs : u # t => req'[u] = req[u]
    BY <2>1, GotoOne
  <2>3. /\ req'[t].tok = req[t].tok /\ req'[t].sent = req[t].sent
        /\ req'[t].new = req[t].new /\ req'[t].pc = "accepted"
    BY <2>2 DEF TypeOK, Request
  <2>4. ASSUME NEW k \in Tokens
        PROVE  \/ rows'[k] = rows[k]
               \/ rows'[k] = Null /\ rows[k] # Null /\ rows[k].expires < now
    BY DEF Purge, PurgedRows, Expired
  <2>5. UNCHANGED <<now, issued, cookie, lost>> /\ req[t].pc = "purge"
    BY DEF Purge, At
  <2>. QED BY <2>2, <2>3, <2>4, <2>5
<1>2. Timely'
  BY <1>1, Typed DEF Timely, At
<1>3. Fields'
  BY <1>1, Typed DEF Fields, At
<1>4. OnlyIssued'
  BY <1>1, Typed DEF OnlyIssued
<1>5. PurgedLate'
  BY <1>1, Typed DEF PurgedLate
<1>6. ASSUME ~lost' PROVE Trusted'
  <2>. Fresh /\ Answered /\ Soon /\ NoAlarm
    BY <1>1, <1>6 DEF Trusted
  <2>1. Fresh'
    BY <1>1, Typed DEF Fresh, Fields
  <2>2. Answered'
    <3>. SUFFICES ASSUME cookie # Null, Revoked(cookie), rows'[cookie] = rows[cookie]
                 PROVE  Answered'
      BY <1>1, Typed DEF Answered, Revoked
    <3>1. PICK u \in Tabs : Replacing(u, cookie)
      BY DEF Answered
    <3>. QED BY <1>1, <3>1 DEF Answered, Replacing, Revoked, Responding
  <2>3. Soon'
    BY <1>1, Typed DEF Soon, Revoked, At, Fields
  <2>4. NoAlarm'
    BY <1>1 DEF NoAlarm, At
  <2>. QED BY <2>1, <2>2, <2>3, <2>4 DEF Trusted
<1>. QED BY <1>2, <1>3, <1>4, <1>5, <1>6 DEF Inv

LEMMA LoginStep ==
    ASSUME Inv, TypeOK', NEW t \in Tabs, Login(t)
    PROVE  Inv'
<1>. TypeOK /\ Timely /\ Fields /\ OnlyIssued /\ PurgedLate /\ (~lost => Trusted)
  BY DEF Inv
<1>1. /\ UNCHANGED <<now, rows, issued, cookie, lost>>
      /\ \A u \in Tabs : u # t => req'[u] = req[u]
      /\ req[t].pc = "idle"
      /\ req'[t].tok = Null /\ req'[t].sent = now /\ req'[t].new = Null
      /\ req'[t].pc = "issue"
  <2>. DEFINE r == [Idle EXCEPT !.pc = "issue", !.sent = now]
  <2>1. Goto(t, r) /\ req[t].pc = "idle" /\ UNCHANGED <<now, rows, issued, cookie, lost>>
    BY DEF Login, At
  <2>2. /\ req'[t] = r
        /\ \A u \in Tabs : u # t => req'[u] = req[u]
    BY <2>1, GotoOne
  <2>3. r.pc = "issue" /\ r.tok = Null /\ r.sent = now /\ r.new = Null
    BY DEF Idle
  <2>. QED BY <2>1, <2>2, <2>3
<1>2. Timely'
  BY <1>1, Typed DEF Timely, At
<1>3. Fields'
  BY <1>1, Typed DEF Fields, At
<1>4. OnlyIssued'
  BY <1>1, Typed DEF OnlyIssued
<1>5. PurgedLate'
  BY <1>1 DEF PurgedLate
<1>6. ASSUME ~lost' PROVE Trusted'
  <2>. Fresh /\ Answered /\ Soon /\ NoAlarm
    BY <1>1, <1>6 DEF Trusted
  <2>1. Fresh'
    BY <1>1, Typed DEF Fresh, Fields
  <2>2. Answered'
    <3>. SUFFICES ASSUME cookie # Null, Revoked(cookie) PROVE Answered'
      BY <1>1 DEF Answered, Revoked
    <3>1. PICK u \in Tabs : Replacing(u, cookie)
      BY DEF Answered
    <3>2. u # t
      BY <1>1, <3>1 DEF Replacing, Responding
    <3>. QED BY <1>1, <3>1, <3>2 DEF Answered, Replacing, Revoked
  <2>3. Soon'
    BY <1>1, Typed DEF Soon, Revoked, At
  <2>4. NoAlarm'
    BY <1>1 DEF NoAlarm, At
  <2>. QED BY <2>1, <2>2, <2>3, <2>4 DEF Trusted
<1>. QED BY <1>2, <1>3, <1>4, <1>5, <1>6 DEF Inv

LEMMA SendLogoutStep ==
    ASSUME Inv, TypeOK', NEW t \in Tabs, SendLogout(t)
    PROVE  Inv'
<1>. TypeOK /\ Timely /\ Fields /\ OnlyIssued /\ PurgedLate /\ (~lost => Trusted)
  BY DEF Inv
<1>1. /\ UNCHANGED <<now, rows, issued, cookie, lost>>
      /\ \A u \in Tabs : u # t => req'[u] = req[u]
      /\ req[t].pc = "idle"
      /\ req'[t].tok = cookie /\ req'[t].sent = now /\ req'[t].new = Null
      /\ req'[t].pc = "revoke"
  <2>. DEFINE r == [Idle EXCEPT !.pc = "revoke", !.tok = cookie, !.sent = now]
  <2>1. Goto(t, r) /\ req[t].pc = "idle" /\ UNCHANGED <<now, rows, issued, cookie, lost>>
    BY DEF SendLogout, At
  <2>2. /\ req'[t] = r
        /\ \A u \in Tabs : u # t => req'[u] = req[u]
    BY <2>1, GotoOne
  <2>3. r.pc = "revoke" /\ r.tok = cookie /\ r.sent = now /\ r.new = Null
    BY DEF Idle
  <2>. QED BY <2>1, <2>2, <2>3
<1>2. Timely'
  BY <1>1, Typed DEF Timely, At
<1>3. Fields'
  BY <1>1, Typed DEF Fields, At
<1>4. OnlyIssued'
  BY <1>1, Typed DEF OnlyIssued
<1>5. PurgedLate'
  BY <1>1 DEF PurgedLate
<1>6. ASSUME ~lost' PROVE Trusted'
  <2>. Fresh /\ Answered /\ Soon /\ NoAlarm
    BY <1>1, <1>6 DEF Trusted
  <2>1. Fresh'
    BY <1>1, Typed DEF Fresh, Fields
  <2>2. Answered'
    <3>. SUFFICES ASSUME cookie # Null, Revoked(cookie) PROVE Answered'
      BY <1>1 DEF Answered, Revoked
    <3>1. PICK u \in Tabs : Replacing(u, cookie)
      BY DEF Answered
    <3>2. u # t
      BY <1>1, <3>1 DEF Replacing, Responding
    <3>. QED BY <1>1, <3>1, <3>2 DEF Answered, Replacing, Revoked
  <2>3. Soon'
    BY <1>1, Typed DEF Soon, Revoked, At
  <2>4. NoAlarm'
    BY <1>1 DEF NoAlarm, At
  <2>. QED BY <2>1, <2>2, <2>3, <2>4 DEF Trusted
<1>. QED BY <1>2, <1>3, <1>4, <1>5, <1>6 DEF Inv

LEMMA RevokeStep ==
    ASSUME Inv, TypeOK', NEW t \in Tabs, Revoke(t)
    PROVE  Inv'
<1>. TypeOK /\ Timely /\ Fields /\ OnlyIssued /\ PurgedLate /\ (~lost => Trusted)
  BY DEF Inv
<1>1. /\ UNCHANGED <<now, issued, cookie, lost>>
      /\ \A u \in Tabs : u # t => req'[u] = req[u]
      /\ req[t].pc = "revoke"
      /\ req'[t].tok = req[t].tok /\ req'[t].sent = req[t].sent /\ req'[t].new = req[t].new
      /\ req'[t].pc = "loggedOut"
      /\ \A k \in Tokens : k # req[t].tok => rows'[k] = rows[k]
      /\ \A k \in Tokens : rows[k] = Null => rows'[k] = Null
      /\ \A k \in Tokens : rows[k] # Null =>
            /\ rows'[k] # Null /\ rows'[k].expires = rows[k].expires
            /\ rows'[k].revoked = now \/ rows'[k] = rows[k]
  <2>1. Goto(t, [req[t] EXCEPT !.pc = "loggedOut"])
    BY DEF Revoke
  <2>2. /\ req'[t] = [req[t] EXCEPT !.pc = "loggedOut"]
        /\ \A u \in Tabs : u # t => req'[u] = req[u]
    BY <2>1, GotoOne
  <2>3. /\ req'[t].tok = req[t].tok /\ req'[t].sent = req[t].sent
        /\ req'[t].new = req[t].new /\ req'[t].pc = "loggedOut"
    BY <2>2 DEF TypeOK, Request
  <2>4. CASE rows' = rows
    BY <2>2, <2>3, <2>4 DEF Revoke, At
  <2>5. CASE /\ req[t].tok \in Tokens /\ Live(req[t].tok)
             /\ rows' = [rows EXCEPT ![req[t].tok].revoked = now]
    <3>1. /\ \A k \in Tokens : k # req[t].tok => rows'[k] = rows[k]
          /\ rows'[req[t].tok] = [rows[req[t].tok] EXCEPT !.revoked = now]
          /\ rows[req[t].tok] \in Row
      BY <2>5 DEF Live, TypeOK
    <3>2. rows'[req[t].tok] \in Row
      BY <3>1, Typed DEF Row
    <3>3. /\ rows'[req[t].tok] # Null /\ rows[req[t].tok] # Null
          /\ rows'[req[t].tok].revoked = now
          /\ rows'[req[t].tok].expires = rows[req[t].tok].expires
      BY <3>1, <3>2, SessionAssumption DEF SessionAssumption, Row
    <3>. QED BY <2>2, <2>3, <3>1, <3>3 DEF Revoke, At
  <2>6. req[t].tok # Null => req[t].tok \in Tokens
    BY Typed
  <2>. QED BY <2>4, <2>5, <2>6 DEF Revoke, RevokedOne
<1>2. Timely'
  BY <1>1, Typed DEF Timely, At
<1>3. Fields'
  BY <1>1, Typed DEF Fields, At
<1>4. OnlyIssued'
  BY <1>1, Typed DEF OnlyIssued
<1>5. PurgedLate'
  BY <1>1 DEF PurgedLate
<1>6. ASSUME ~lost' PROVE Trusted'
  <2>. Fresh /\ Answered /\ Soon /\ NoAlarm
    BY <1>1, <1>6 DEF Trusted
  <2>1. Fresh'
    BY <1>1, Typed DEF Fresh, Fields
  <2>2. Answered'
    <3>. SUFFICES ASSUME cookie \in Tokens, rows'[cookie] # Null, rows'[cookie].revoked # Null
                 PROVE  \E u \in Tabs : /\ req'[u].pc \in Responding
                                         /\ req'[u].tok = cookie
                                         /\ req'[u].sent <= rows'[cookie].revoked
      BY <1>1, Typed DEF Answered, Revoked, Replacing
    <3>1. CASE rows'[cookie] = rows[cookie]
      <4>1. PICK u \in Tabs : Replacing(u, cookie)
        BY <3>1, Typed DEF Answered, Revoked
      <4>2. u # t
        BY <1>1, <4>1 DEF Replacing, Responding
      <4>. QED BY <1>1, <3>1, <4>1, <4>2 DEF Replacing
    <3>2. CASE rows'[cookie] # rows[cookie]
      <4>1. req[t].tok = cookie /\ rows'[cookie].revoked = now
        BY <1>1, <3>2
      <4>2. req[t].sent <= now
        BY <1>1 DEF Timely, At
      <4>. QED BY <1>1, <4>1, <4>2 DEF Responding
    <3>. QED BY <3>1, <3>2
  <2>3. Soon'
    <3>. SUFFICES ASSUME NEW u \in Tabs, u # t, req[u].pc = "lookup",
                        rows'[req[u].tok] # Null, rows'[req[u].tok].revoked # Null
                 PROVE  req[u].sent <= rows'[req[u].tok].revoked + Delay
      BY <1>1 DEF Soon, Revoked, At
    <3>1. req[u].tok \in Tokens
      BY Typed DEF Fields
    <3>2. CASE rows'[req[u].tok] = rows[req[u].tok]
      BY <3>1, <3>2 DEF Soon, Revoked, At
    <3>3. CASE rows'[req[u].tok].revoked = now
      BY <3>3, Typed DEF Timely, At
    <3>. QED BY <1>1, <3>1, <3>2, <3>3
  <2>4. NoAlarm'
    BY <1>1 DEF NoAlarm, At
  <2>. QED BY <2>1, <2>2, <2>3, <2>4 DEF Trusted
<1>. QED BY <1>2, <1>3, <1>4, <1>5, <1>6 DEF Inv

LEMMA DeliverStep ==
    ASSUME Inv, TypeOK', NEW t \in Tabs, Deliver(t)
    PROVE  Inv'
<1>. TypeOK /\ Timely /\ Fields /\ OnlyIssued /\ PurgedLate /\ (~lost => Trusted)
  BY DEF Inv
<1>1. /\ UNCHANGED <<now, rows, issued, lost>>
      /\ \A u \in Tabs : u # t => req'[u] = req[u]
      /\ req[t].pc \in {"accepted", "refused", "loggedOut"}
      /\ cookie' = IF req[t].pc = "accepted" THEN req[t].new ELSE Null
      /\ req'[t].tok = Null /\ req'[t].new = Null /\ req'[t].pc = "idle"
  BY GotoOne DEF Deliver, CookieOf, Idle
<1>2. Timely'
  BY <1>1, Typed DEF Timely, At
<1>3. Fields'
  BY <1>1, Typed DEF Fields, At
<1>4. OnlyIssued'
  BY <1>1, Typed DEF OnlyIssued
<1>5. PurgedLate'
  BY <1>1 DEF PurgedLate
<1>6. ASSUME ~lost' PROVE Trusted'
  <2>. Fresh /\ Answered /\ Soon /\ NoAlarm
    BY <1>1, <1>6 DEF Trusted
  <2>1. Fresh'
    <3>1. req[t].pc = "accepted" =>
            \A u \in Tabs : u # t => req[u].new # req[t].new
      BY DEF Fresh
    <3>. QED BY <1>1, <3>1, Typed DEF Fresh, Fields
  <2>2. Answered'
    <3>. SUFFICES ASSUME req[t].pc = "accepted", Revoked(req[t].new) PROVE FALSE
      BY <1>1 DEF Answered, Revoked
    <3>. QED BY DEF Fresh, Revoked
  <2>3. Soon'
    BY <1>1, Typed DEF Soon, Revoked, At
  <2>4. NoAlarm'
    BY <1>1 DEF NoAlarm, At
  <2>. QED BY <2>1, <2>2, <2>3, <2>4 DEF Trusted
<1>. QED BY <1>2, <1>3, <1>4, <1>5, <1>6 DEF Inv

LEMMA FailStep ==
    ASSUME Inv, TypeOK', NEW t \in Tabs, Fail(t)
    PROVE  Inv'
<1>. TypeOK /\ Timely /\ Fields /\ OnlyIssued /\ PurgedLate /\ (~lost => Trusted)
  BY DEF Inv
<1>1. /\ UNCHANGED <<now, rows, issued, cookie, lost>>
      /\ \A u \in Tabs : u # t => req'[u] = req[u]
      /\ req[t].pc \notin {"idle", "refused", "loggedOut", "accepted"}
      /\ \/ /\ req'[t].pc = "idle" /\ req'[t].tok = Null /\ req'[t].new = Null
            /\ req[t].tok = Null \/ req[t].pc = "revoke"
         \/ /\ req'[t].pc = "refused" /\ req'[t].tok = req[t].tok
            /\ req'[t].new = req[t].new /\ req'[t].sent = req[t].sent
  <2>1. CASE Goto(t, Idle) /\ (req[t].tok = Null \/ req[t].pc = "revoke")
    BY <2>1, GotoOne DEF Fail, Idle
  <2>2. CASE Goto(t, [req[t] EXCEPT !.pc = "refused"])
    <3>1. /\ req'[t] = [req[t] EXCEPT !.pc = "refused"]
          /\ \A u \in Tabs : u # t => req'[u] = req[u]
      BY <2>2, GotoOne
    <3>2. /\ req'[t].pc = "refused" /\ req'[t].tok = req[t].tok
          /\ req'[t].new = req[t].new /\ req'[t].sent = req[t].sent
      BY <3>1 DEF TypeOK, Request
    <3>. QED BY <3>1, <3>2 DEF Fail
  <2>. QED BY <2>1, <2>2 DEF Fail, At
<1>2. Timely'
  BY <1>1, Typed DEF Timely, At
<1>3. Fields'
  BY <1>1, Typed DEF Fields, At
<1>4. OnlyIssued'
  BY <1>1, Typed DEF OnlyIssued
<1>5. PurgedLate'
  BY <1>1 DEF PurgedLate
<1>6. ASSUME ~lost' PROVE Trusted'
  <2>. Fresh /\ Answered /\ Soon /\ NoAlarm
    BY <1>1, <1>6 DEF Trusted
  <2>1. Fresh'
    BY <1>1, Typed DEF Fresh, Fields
  <2>2. Answered'
    <3>. SUFFICES ASSUME cookie # Null, Revoked(cookie) PROVE Answered'
      BY <1>1 DEF Answered, Revoked
    <3>1. PICK u \in Tabs : Replacing(u, cookie)
      BY DEF Answered
    <3>. QED BY <1>1, <3>1 DEF Answered, Replacing, Revoked, Responding
  <2>3. Soon'
    BY <1>1, Typed DEF Soon, Revoked, At
  <2>4. NoAlarm'
    BY <1>1 DEF NoAlarm, At
  <2>. QED BY <2>1, <2>2, <2>3, <2>4 DEF Trusted
<1>. QED BY <1>2, <1>3, <1>4, <1>5, <1>6 DEF Inv

LEMMA LoseStep ==
    ASSUME Inv, TypeOK', NEW t \in Tabs, Lose(t)
    PROVE  Inv'
<1>. TypeOK /\ Timely /\ Fields /\ OnlyIssued /\ PurgedLate /\ (~lost => Trusted)
  BY DEF Inv
<1>1. /\ UNCHANGED <<now, rows, issued, cookie>>
      /\ \A u \in Tabs : u # t => req'[u] = req[u]
      /\ lost' = TRUE
      /\ req'[t].tok = Null /\ req'[t].new = Null /\ req'[t].pc = "idle"
  BY GotoOne DEF Lose, Idle
<1>2. Timely'
  BY <1>1, Typed DEF Timely, At
<1>3. Fields'
  BY <1>1, Typed DEF Fields, At
<1>4. OnlyIssued'
  BY <1>1, Typed DEF OnlyIssued
<1>5. PurgedLate'
  BY <1>1 DEF PurgedLate
<1>6. ASSUME ~lost' PROVE Trusted'
  BY <1>1, <1>6
<1>. QED BY <1>2, <1>3, <1>4, <1>5, <1>6 DEF Inv

LEMMA TickStep ==
    ASSUME Inv, TypeOK', Tick
    PROVE  Inv'
<1>. TypeOK /\ Timely /\ Fields /\ OnlyIssued /\ PurgedLate /\ (~lost => Trusted)
  BY DEF Inv
<1>1. now' = now + 1 /\ UNCHANGED <<rows, issued, cookie, req, lost>>
  BY DEF Tick
<1>2. Timely'
  BY <1>1, Typed DEF Timely, At, Tick
<1>3. Fields'
  BY <1>1, Typed DEF Fields, At
<1>4. OnlyIssued'
  BY <1>1 DEF OnlyIssued
<1>5. PurgedLate'
  BY <1>1, Typed DEF PurgedLate
<1>6. (~lost => Trusted)'
  BY <1>1 DEF Trusted, Fresh, Answered, Soon, NoAlarm, Revoked, Replacing, At
<1>. QED BY <1>2, <1>3, <1>4, <1>5, <1>6 DEF Inv

LEMMA InvInit == Init => Inv
<1>. SUFFICES ASSUME Init PROVE Inv
  OBVIOUS
<1>1. TypeOK
  BY InitTypes
<1>2. Timely /\ Fields /\ OnlyIssued
  BY <1>1, Typed DEF Init, Idle, Timely, Fields, OnlyIssued, At
<1>3. PurgedLate
  <2>1. \A k \in Tokens : k <= issued => k = 1
    BY DEF Init, Tokens
  <2>2. 1 \in Tokens
    BY SessionAssumption DEF SessionAssumption, Tokens
  <2>3. rows[1] = NewRow
    BY <2>2 DEF Init
  <2>. QED BY <1>1, <2>1, <2>2, <2>3, Typed, SessionAssumption
            DEF PurgedLate, NewRow, Init, SessionAssumption
<1>4. Trusted
  <2>1. rows[1].revoked = Null
    <3>1. 1 \in Tokens
      BY SessionAssumption DEF SessionAssumption, Tokens
    <3>. QED BY <3>1 DEF Init, NewRow
  <2>. QED BY <2>1 DEF Init, Idle, Trusted, Fresh, Answered, Soon, NoAlarm, Revoked, At
<1>. QED BY <1>1, <1>2, <1>3, <1>4 DEF Inv

LEMMA InvStep ==
    ASSUME Inv, [Next]_vars
    PROVE  Inv'
<1>1. TypeOK /\ TypeOK'
  BY TypeStep DEF Inv
<1>2. ASSUME NEW t \in Tabs, TabStep(t) PROVE Inv'
  BY <1>1, <1>2, SendRefreshStep, LookupStep, RotateStep, RevokeAllStep, FindUserStep,
     IssueStep, PurgeStep, LoginStep, SendLogoutStep, RevokeStep, DeliverStep, FailStep,
     LoseStep DEF TabStep
<1>3. CASE Tick
  BY <1>1, <1>3, TickStep
<1>4. CASE UNCHANGED vars
  BY <1>4 DEF vars, Inv, TypeOK, Timely, Fields, OnlyIssued, PurgedLate, Trusted, Fresh,
              Answered, Soon, NoAlarm, Revoked, Replacing, At
<1>. QED BY <1>2, <1>3, <1>4 DEF Next

LEMMA InvAlways == Spec => []Inv
<1>. QED BY InvInit, InvStep, PTL DEF Spec

---------------------------------------------------------------------------
(* The two properties of the rotation *)

(* The tabs of a browser never look like a theft, as long as no response is  *)
(* lost: the reason REUSE_GRACE_MS exists (auth.service.ts, lines 18 to 24), *)
(* for every grace period of at least twice the delay of a request.          *)
THEOREM NoFalseAlarmAlways == Spec => []NoFalseAlarm
<1>1. Inv => NoFalseAlarm
  BY DEF Inv, Trusted, NoAlarm, NoFalseAlarm
<1>. QED BY <1>1, InvAlways, PTL

(* When all requests have been answered the cookie holds a token that has    *)
(* not been revoked, whatever order the responses came in (refresh,          *)
(* auth.service.ts, lines 165 to 197; auth.controller.ts, lines 71 to 107).  *)
THEOREM AtRestUsableAlways == Spec => []AtRestUsable
<1>1. Inv => AtRestUsable
  <2>. SUFFICES ASSUME Inv, \A t \in Tabs : At(t, "idle"), cookie # Null, ~lost
               PROVE  Live(cookie) \/ (rows[cookie] = Null /\ now > TTL)
    BY DEF AtRestUsable
  <2>1. ~Revoked(cookie)
    BY DEF Inv, Trusted, Answered, Replacing, Responding, At
  <2>2. cookie \in Tokens /\ cookie <= issued
    BY DEF Inv, TypeOK, OnlyIssued
  <2>. QED BY <2>1, <2>2 DEF Inv, PurgedLate, Revoked, Live
<1>. QED BY <1>1, InvAlways, PTL

=============================================================================
