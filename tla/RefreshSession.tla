--------------------------- MODULE RefreshSession ---------------------------
(***************************************************************************)
(* The refresh tokens of one user: the table refresh_tokens, AuthService   *)
(* and AuthController on the server, and one browser whose tabs share the  *)
(* cookie refresh_token.                                                   *)
(*                                                                         *)
(* Each refresh rotates the token: the row presented is revoked and a new  *)
(* one is issued, in separate database calls without a transaction.  Two   *)
(* tabs may present the same token, because the cookie changes only when a *)
(* response arrives; a token revoked less than Grace ago is therefore      *)
(* accepted, and one revoked earlier is taken for a stolen one: all tokens *)
(* of the user are revoked and the browser is logged out.                  *)
(*                                                                         *)
(* useApi keeps at most one refresh of a tab in flight, so a tab is also   *)
(* the handler of its request.  A step is one database call and the code   *)
(* up to the next one.                                                     *)
(***************************************************************************)
EXTENDS Integers

CONSTANTS
    Tabs,
    Grace,      \* REUSE_GRACE_MS
    TTL,        \* REFRESH_TOKEN_EXPIRES_DAYS
    Delay,      \* the longest time from sending a request to its response
    MaxTime,    \* bound: the clock
    MaxTokens,  \* bound: the tokens issued
    Null        \* SQL NULL, a missing row, no cookie

ASSUME SessionAssumption ==
    /\ Grace \in Nat
    /\ TTL \in Nat
    /\ Delay \in Nat
    /\ 2 * Delay <= Grace
    /\ MaxTime \in Nat
    /\ MaxTokens \in Nat \ {0}
    /\ Null \notin Int
    /\ Null \notin [expires : Nat, revoked : Nat \cup {Null}]

VARIABLES
    now,     \* the clock of the server
    rows,    \* table refresh_tokens: [Tokens -> Row or Null]
    issued,  \* the tokens issued so far are 1..issued
    cookie,  \* the token the browser holds
    req,     \* the request each tab has in flight
    out,     \* a logout has been answered, and no login since
    lost     \* a response has got lost

vars == <<now, rows, issued, cookie, req, out, lost>>

Tokens == 1..MaxTokens
Row == [expires : Nat, revoked : Nat \cup {Null}]
Pcs == {"idle", "lookup", "rotate", "revokeAll", "user", "issue", "purge", "revoke",
        "accepted", "refused", "loggedOut"}

(* tok: the cookie sent with the request; sent: when; stamp: new Date() in   *)
(* the handler; new: the token issued.                                       *)
Request == [pc : Pcs, tok : Tokens \cup {Null}, sent : Nat, stamp : Nat,
            new : Tokens \cup {Null}]

Idle == [pc |-> "idle", tok |-> Null, sent |-> 0, stamp |-> 0, new |-> Null]

TypeOK ==
    /\ now \in Nat
    /\ rows \in [Tokens -> Row \cup {Null}]
    /\ issued \in Tokens
    /\ cookie \in Tokens \cup {Null}
    /\ req \in [Tabs -> Request]
    /\ out \in BOOLEAN
    /\ lost \in BOOLEAN

---------------------------------------------------------------------------
(* Helpers *)

At(t, pc) == req[t].pc = pc
Goto(t, r) == req' = [req EXCEPT ![t] = r]

Live(k) == rows[k] # Null /\ rows[k].revoked = Null

Expired(row) == row.expires < now

GraceOver_Always(row) == TRUE
GraceOver(row) == now - row.revoked > Grace

NewRow == [expires |-> now + TTL, revoked |-> Null]

(* UPDATE of one row, if it is there and valid. *)
RevokedOne(k) ==
    IF k # Null /\ Live(k) THEN [rows EXCEPT ![k].revoked = now] ELSE rows

RevokedAll ==
    [k \in Tokens |-> IF Live(k) THEN [rows[k] EXCEPT !.revoked = now] ELSE rows[k]]

(* DELETE of the expired rows of the user. *)
PurgedRows ==
    [k \in Tokens |-> IF rows[k] # Null /\ Expired(rows[k]) THEN Null ELSE rows[k]]

---------------------------------------------------------------------------
(* POST /auth/refresh *)

SendRefresh(t) ==
    /\ At(t, "idle")
    /\ Goto(t, [Idle EXCEPT !.pc = IF cookie = Null THEN "refused" ELSE "lookup",
                            !.tok = cookie, !.sent = now])
    /\ UNCHANGED <<now, rows, issued, cookie, out, lost>>

(* AuthService.refresh up to its second database call. *)
Lookup(t) ==
    LET r == req[t]
        row == rows[r.tok]
        next == IF row = Null THEN "refused"
                ELSE IF Expired(row) THEN "refused"
                ELSE IF row.revoked = Null THEN "rotate"
                ELSE IF GraceOver(row) THEN "revokeAll"
                ELSE "user"
    IN  /\ At(t, "lookup")
        /\ Goto(t, [r EXCEPT !.pc = next, !.stamp = IF next = "rotate" THEN now ELSE 0])
        /\ UNCHANGED <<now, rows, issued, cookie, out, lost>>

(* save of the row with revokedAt set: an UPDATE that does not look at what  *)
(* other requests have done to the row meanwhile.  A row purged meanwhile is *)
(* inserted again or not, as save's own SELECT falls before or after.        *)
Rotate(t) ==
    LET r == req[t]
    IN  /\ At(t, "rotate")
        /\ \/ /\ rows[r.tok] # Null
              /\ rows' = [rows EXCEPT ![r.tok].revoked = r.stamp]
           \/ /\ rows[r.tok] = Null
              /\ \/ UNCHANGED rows
                 \/ \E e \in r.stamp..now :
                        rows' = [rows EXCEPT ![r.tok] = [expires |-> e, revoked |-> r.stamp]]
        /\ Goto(t, [r EXCEPT !.pc = "user", !.stamp = 0])
        /\ UNCHANGED <<now, issued, cookie, out, lost>>

(* A reuse after the grace period. *)
RevokeAll(t) ==
    /\ At(t, "revokeAll")
    /\ rows' = RevokedAll
    /\ Goto(t, [req[t] EXCEPT !.pc = "refused"])
    /\ UNCHANGED <<now, issued, cookie, out, lost>>

(* The user may have been deactivated or deleted meanwhile. *)
FindUser(t) ==
    /\ At(t, "user")
    /\ \E next \in {"issue", "refused"} : Goto(t, [req[t] EXCEPT !.pc = next])
    /\ UNCHANGED <<now, rows, issued, cookie, out, lost>>

---------------------------------------------------------------------------
(* AuthService.issueRefreshToken *)

Issue(t) ==
    /\ At(t, "issue")
    /\ issued < MaxTokens
    /\ issued' = issued + 1
    /\ rows' = [rows EXCEPT ![issued + 1] = NewRow]
    /\ Goto(t, [req[t] EXCEPT !.pc = "purge", !.new = issued + 1])
    /\ UNCHANGED <<now, cookie, out, lost>>

Purge(t) ==
    /\ At(t, "purge")
    /\ rows' = PurgedRows
    /\ Goto(t, [req[t] EXCEPT !.pc = "accepted"])
    /\ UNCHANGED <<now, issued, cookie, out, lost>>

---------------------------------------------------------------------------
(* POST /auth/login and /auth/logout *)

(* The credentials are right and the user is active: other logins change     *)
(* nothing.                                                                  *)
Login(t) ==
    /\ At(t, "idle")
    /\ Goto(t, [Idle EXCEPT !.pc = "issue", !.sent = now])
    /\ UNCHANGED <<now, rows, issued, cookie, out, lost>>

SendLogout(t) ==
    /\ At(t, "idle")
    /\ Goto(t, [Idle EXCEPT !.pc = "revoke", !.tok = cookie, !.sent = now])
    /\ UNCHANGED <<now, rows, issued, cookie, out, lost>>

(* revokeRefreshToken *)
Revoke(t) ==
    /\ At(t, "revoke")
    /\ rows' = RevokedOne(req[t].tok)
    /\ Goto(t, [req[t] EXCEPT !.pc = "loggedOut"])
    /\ UNCHANGED <<now, issued, cookie, out, lost>>

---------------------------------------------------------------------------
(* Responses: the Set-Cookie header of the one that arrives last wins *)

CookieOf_NotReplaced(r) == IF r.pc = "accepted" THEN cookie ELSE Null
CookieOf(r) == IF r.pc = "accepted" THEN r.new ELSE Null

Deliver(t) ==
    /\ req[t].pc \in {"accepted", "refused", "loggedOut"}
    /\ cookie' = CookieOf(req[t])
    /\ out' = IF At(t, "loggedOut") THEN TRUE
              ELSE IF At(t, "accepted") /\ req[t].tok = Null THEN FALSE ELSE out
    /\ Goto(t, Idle)
    /\ UNCHANGED <<now, rows, issued, lost>>

(* A database call rejects.  Only the handler of a refresh clears the cookie *)
(* on an error; a login (no cookie sent along) or a logout just answers 500. *)
Fail(t) ==
    /\ req[t].pc \in {"lookup", "rotate", "revokeAll", "user", "issue", "purge", "revoke"}
    /\ Goto(t, IF At(t, "revoke") \/ req[t].tok = Null
               THEN Idle ELSE [req[t] EXCEPT !.pc = "refused"])
    /\ UNCHANGED <<now, rows, issued, cookie, out, lost>>

(* The connection breaks, or the server stops between two database calls. *)
Lose(t) ==
    /\ ~At(t, "idle")
    /\ lost' = TRUE
    /\ Goto(t, Idle)
    /\ UNCHANGED <<now, rows, issued, cookie, out>>

---------------------------------------------------------------------------
(* The clock *)

(* No request is in flight for longer than Delay. *)
Tick ==
    /\ now < MaxTime
    /\ \A t \in Tabs : At(t, "idle") \/ now < req[t].sent + Delay
    /\ now' = now + 1
    /\ UNCHANGED <<rows, issued, cookie, req, out, lost>>

---------------------------------------------------------------------------
(* Specification *)

Init ==
    /\ now = 0
    /\ rows = [k \in Tokens |-> IF k = 1 THEN NewRow ELSE Null]
    /\ issued = 1
    /\ cookie = 1
    /\ req = [t \in Tabs |-> Idle]
    /\ out = FALSE
    /\ lost = FALSE

TabStep(t) ==
    \/ SendRefresh(t)
    \/ Lookup(t)
    \/ Rotate(t)
    \/ RevokeAll(t)
    \/ FindUser(t)
    \/ Issue(t)
    \/ Purge(t)
    \/ Login(t)
    \/ SendLogout(t)
    \/ Revoke(t)
    \/ Deliver(t)
    \/ Fail(t)
    \/ Lose(t)

Next == (\E t \in Tabs : TabStep(t)) \/ Tick

Spec == Init /\ [][Next]_vars

---------------------------------------------------------------------------
(* Properties *)

(* auth.service.ts, lines 18 to 24: the tabs of one browser, refreshing and  *)
(* logging in and out at the same time with responses in any order, never    *)
(* look like a theft.  Only a lost response can have the browser present a   *)
(* token revoked long ago.                                                   *)
NoFalseAlarm == \A t \in Tabs : At(t, "revokeAll") => lost

(* When no request is in flight the token of the cookie is usable, whatever  *)
(* order the responses came in, until it expires.                            *)
AtRestUsable ==
    /\ \A t \in Tabs : At(t, "idle")
    /\ cookie # Null
    /\ ~lost
    => \/ Live(cookie)
       \/ rows[cookie] = Null /\ now > TTL

(* auth.controller.ts, line 84: a logout revokes the refresh token on the    *)
(* server and clears the cookie, so that the browser is logged out when      *)
(* everything has been answered.                                             *)
LogoutEndsSession ==
    out /\ (\A t \in Tabs : At(t, "idle")) => cookie = Null

=============================================================================
