------------------------------ MODULE Sessions ------------------------------
(***************************************************************************)
(* Staff sessions: the refresh tokens of one user                          *)
(* (apps/api/src/modules/auth/token.service.ts, auth.controller.ts) and    *)
(* the admin application that uses them (apps/admin/src/lib/api.ts,        *)
(* session.tsx). A tab keeps its access token in memory, so that it needs a *)
(* refresh after every load and whenever that token expires, that is at    *)
(* any time, and has at most one under way; the refresh token is a cookie  *)
(* that all tabs of a browser share. Every refresh consumes the token it   *)
(* presents and issues the next one of its family; a consumed or revoked   *)
(* token that is presented again ends the whole family.                    *)
(***************************************************************************)
EXTENDS Integers, Sequences, FiniteSets

CONSTANTS
  Tabs,        \* tabs with the admin application
  Browsers,    \* cookie jars
  BrowserOf,   \* Tabs -> Browsers
  Requests,    \* places for requests in flight, taken in order
  MaxTokens,   \* bound: refresh tokens ever issued
  MaxFamilies  \* bound: families begun

Gone == "gone"   \* no tab: the one that sent a request has stopped waiting for it

\* What is assumed of the constants, wherever they are given values.
SessionsAssumption ==
  /\ Gone \notin Tabs
  /\ BrowserOf \in [Tabs -> Browsers]
  /\ Requests \subseteq Nat
  /\ MaxTokens \in Nat /\ MaxFamilies \in Nat

VARIABLES
  tokens,     \* RefreshToken rows in the order of issue
  cookie,     \* Browsers -> the token in the cookie, or None
  request,    \* Requests -> what the API does for a tab
  reused,     \* families with an audit row auth.refresh_token_reused
  ended,      \* ghost: families revoked with no rotation of theirs under way
  forked,     \* ghost: families of which a token was consumed twice
  disturbed   \* ghost: families with an answer lost or requests that overlapped

vars == <<tokens, cookie, request, reused, ended, forked, disturbed>>

-----------------------------------------------------------------------------
None == 0

Tokens == 1 .. Len(tokens)

\* A family goes by the number of its first token.
Family(t) == tokens[t].family

Families == { Family(t) : t \in Tokens }

\* Presenting the token would rotate it.
Live(t) == ~tokens[t].consumed /\ ~tokens[t].revoked

Idle == [op |-> "none", pc |-> "idle", tab |-> Gone, token |-> None, new |-> None]

InFlight(op) == { r \in Requests : request[r].op = op }

\* refreshPromise of a tab, or a form that waits for its answer.
Waits(tab, op) == \E r \in InFlight(op) : request[r].tab = tab

\* Rotations that have looked at the token and found it good.
Rotating(family) ==
  { r \in InFlight("refresh") :
      request[r].pc \in {"consume", "issue"} /\ Family(request[r].token) = family }

\* Bound: whatever is under way will find room for its token.
Room ==
  Len(tokens) + Cardinality({ r \in Requests : request[r].pc \in {"read", "consume", "issue"} })
    < MaxTokens

Init ==
  /\ tokens = <<>>
  /\ cookie = [b \in Browsers |-> None]
  /\ request = [r \in Requests |-> Idle]
  /\ reused = {} /\ ended = {} /\ forked = {} /\ disturbed = {}

-----------------------------------------------------------------------------
(* What a tab does. *)

\* Two requests with one token in flight disturb its family.
Presented(t) ==
  disturbed' = IF t # None /\ \E r \in Requests : request[r].token = t
               THEN disturbed \cup {Family(t)} ELSE disturbed

Send(r, tab, op, pc, t) ==
  /\ request[r] = Idle
  /\ \A q \in Requests : request[q] = Idle => r <= q
  /\ request' = [request EXCEPT ![r] = [op |-> op, pc |-> pc, tab |-> tab,
                                            token |-> t, new |-> None]]
  /\ Presented(t)
  /\ UNCHANGED <<tokens, cookie, reused, ended, forked>>

\* The login form. Login reads and writes no token before it issues one.
Login(r, tab) ==
  /\ ~Waits(tab, "login")
  /\ Room
  /\ Cardinality(Families) + Cardinality(InFlight("login")) < MaxFamilies
  /\ Send(r, tab, "login", "issue", None)

\* refreshSession: on load, and when an answer is 401. Concurrent callers in one
\* tab share one request. Without a cookie the API refuses and nothing changes.
Refresh(r, tab) ==
  LET t == cookie[BrowserOf[tab]] IN
  /\ ~Waits(tab, "refresh")
  /\ t # None
  /\ Live(t) => Room
  /\ Send(r, tab, "refresh", "read", t)

Logout(r, tab) ==
  /\ ~Waits(tab, "logout")
  /\ Send(r, tab, "logout", IF cookie[BrowserOf[tab]] = None THEN "answer" ELSE "revoke",
          cookie[BrowserOf[tab]])

\* changePassword, after the new hash is stored.
ChangePassword(r, tab) ==
  /\ cookie[BrowserOf[tab]] # None
  /\ ~Waits(tab, "password")
  /\ Send(r, tab, "password", "revoke", None)

\* Families whose browser will miss what request r did to their tokens.
Missed(r) ==
  IF request[r].op \in {"refresh", "logout"} /\ request[r].token # None
  THEN {Family(request[r].token)} ELSE {}

\* The tab is reloaded or closed: its memory is gone and no answer reaches it.
Reload(tab) ==
  LET mine == { r \in Requests : request[r].tab = tab } IN
  /\ mine # {}
  /\ request' = [r \in Requests |->
                   IF r \notin mine THEN request[r]
                   ELSE IF request[r].pc = "answer" THEN Idle
                   ELSE [request[r] EXCEPT !.tab = Gone]]
  /\ disturbed' = disturbed \cup UNION { Missed(r) : r \in mine }
  /\ UNCHANGED <<tokens, cookie, reused, ended, forked>>

-----------------------------------------------------------------------------
(* What the API does. *)

\* The work is done; an answer that nobody waits for is dropped.
Done(r, new) ==
  request' = [request EXCEPT ![r] = IF @.tab = Gone THEN Idle
                                    ELSE [@ EXCEPT !.pc = "answer", !.new = new]]

\* rotate: the look that decides. An expired token is refused, like a request
\* that fails here.
Read(r) ==
  LET t == request[r].token IN
  /\ request[r].op = "refresh" /\ request[r].pc = "read"
  /\ request' = [request EXCEPT ![r] =
       IF tokens[t].consumed \/ tokens[t].revoked THEN [@ EXCEPT !.pc = "reused"]
       ELSE [@ EXCEPT !.pc = "consume"]]
  /\ UNCHANGED <<tokens, cookie, reused, ended, forked, disturbed>>

\* A mistake the checks must catch: only the newest of them is revoked.
RevokedOnly(S) ==
  LET newest == CHOOSE t \in S : \A s \in S : s <= t IN
  [s \in Tokens |-> IF s = newest THEN [tokens[s] EXCEPT !.revoked = TRUE] ELSE tokens[s]]

\* updateMany where revokedAt is null.
Revoked(S) ==
  [s \in Tokens |-> IF s \in S THEN [tokens[s] EXCEPT !.revoked = TRUE] ELSE tokens[s]]

\* Families of S that no rotation is about to extend.
Quiet(S) == { f \in { Family(s) : s \in S } : Rotating(f) = {} }

\* rotate: revokeFamily and the audit row, then the refusal.
EndFamily(r) ==
  LET f == Family(request[r].token)
      family == { s \in Tokens : Family(s) = f } IN
  /\ request[r].pc = "reused"
  /\ tokens' = Revoked(family)
  /\ reused' = reused \cup {f}
  /\ ended' = ended \cup Quiet(family)
  /\ request' = [request EXCEPT ![r] = Idle]
  /\ UNCHANGED <<cookie, forked, disturbed>>

\* A mistake the checks must catch: the presented token stays good.
ConsumeNothing(r) ==
  /\ request[r].op = "refresh" /\ request[r].pc = "consume"
  /\ request' = [request EXCEPT ![r].pc = "issue"]
  /\ UNCHANGED <<tokens, cookie, reused, ended, forked, disturbed>>

\* rotate: consumedAt is written whatever has become of the token since the look.
Consume(r) ==
  LET t == request[r].token IN
  /\ request[r].op = "refresh" /\ request[r].pc = "consume"
  /\ forked' = IF tokens[t].consumed THEN forked \cup {Family(t)} ELSE forked
  /\ tokens' = [tokens EXCEPT ![t].consumed = TRUE]
  /\ request' = [request EXCEPT ![r].pc = "issue"]
  /\ UNCHANGED <<cookie, reused, ended, disturbed>>

\* issueForUser: the next token of the family, or the first of a new one.
Issue(r) ==
  LET new == Len(tokens) + 1
      old == request[r].token IN
  /\ request[r].pc = "issue"
  /\ tokens' = Append(tokens, [family |-> IF old = None THEN new ELSE Family(old),
                               consumed |-> FALSE, revoked |-> FALSE])
  /\ Done(r, new)
  /\ UNCHANGED <<cookie, reused, ended, forked, disturbed>>

\* logout: the token in the cookie, and no other of its family.
RevokeOne(r) ==
  /\ request[r].op = "logout" /\ request[r].pc = "revoke"
  /\ tokens' = Revoked({request[r].token})
  /\ Done(r, None)
  /\ UNCHANGED <<cookie, reused, ended, forked, disturbed>>

\* revokeAllForUser. Browsers that still hold one of these tokens are not told.
RevokeAll(r) ==
  /\ request[r].op = "password" /\ request[r].pc = "revoke"
  /\ tokens' = Revoked(Tokens)
  /\ ended' = ended \cup Quiet(Tokens)
  /\ disturbed' = disturbed \cup { Family(s) : s \in Tokens }
  /\ Done(r, None)
  /\ UNCHANGED <<cookie, reused, forked>>

\* A mistake the checks must catch: refresh forgets setRefreshCookie.
AnswerOnly(r) ==
  LET q == request[r] IN
  /\ q.pc = "answer"
  /\ cookie' = IF q.op = "refresh" THEN cookie
               ELSE [cookie EXCEPT ![BrowserOf[q.tab]] = IF q.op = "login" THEN q.new ELSE None]
  /\ request' = [request EXCEPT ![r] = Idle]
  /\ UNCHANGED <<tokens, reused, ended, forked, disturbed>>

\* The answer arrives: login and refresh set the cookie, the others clear it.
Answer(r) ==
  LET q == request[r] IN
  /\ q.pc = "answer"
  /\ cookie' = [cookie EXCEPT ![BrowserOf[q.tab]] =
                  IF q.op \in {"login", "refresh"} THEN q.new ELSE None]
  /\ request' = [request EXCEPT ![r] = Idle]
  /\ UNCHANGED <<tokens, reused, ended, forked, disturbed>>

\* The process dies, a statement fails, or the answer is lost on its way. The
\* client takes it for a refusal.
Fail(r) ==
  /\ request[r] # Idle
  /\ request' = [request EXCEPT ![r] = Idle]
  /\ disturbed' = IF request[r].pc \in {"issue", "answer"}
                  THEN disturbed \cup Missed(r) ELSE disturbed
  /\ UNCHANGED <<tokens, cookie, reused, ended, forked>>

-----------------------------------------------------------------------------
Next ==
  \/ \E r \in Requests, tab \in Tabs :
       Login(r, tab) \/ Refresh(r, tab) \/ Logout(r, tab) \/ ChangePassword(r, tab)
  \/ \E tab \in Tabs : Reload(tab)
  \/ \E r \in Requests :
       \/ Read(r) \/ EndFamily(r) \/ Consume(r) \/ Issue(r)
       \/ RevokeOne(r) \/ RevokeAll(r) \/ Answer(r) \/ Fail(r)

Spec == Init /\ [][Next]_vars

-----------------------------------------------------------------------------
Rows == [family : Nat, consumed : BOOLEAN, revoked : BOOLEAN]

Rounds == [op : {"none", "login", "refresh", "logout", "password"},
           pc : {"idle", "read", "reused", "consume", "issue", "revoke", "answer"},
           tab : Tabs \cup {Gone}, token : Nat, new : Nat]

\* What a request at each of its steps is about: a token presented, a token issued.
Fits(q) ==
  /\ q.token \in Tokens \cup {None} /\ q.new \in Tokens \cup {None}
  /\ q.pc = "idle" => q = Idle
  /\ q.pc \in {"read", "reused", "consume"} => q.op = "refresh"
  /\ q.pc = "issue" => q.op \in {"login", "refresh"}
  /\ q.op = "refresh" => q.token # None
  /\ q.op \in {"login", "password"} => q.token = None
  /\ q.pc = "revoke" /\ q.op = "logout" => q.token # None
  /\ q.pc = "revoke" => q.op \in {"logout", "password"}
  /\ q.op = "none" => q = Idle
  /\ q.new # None => q.pc = "answer" /\ q.op \in {"login", "refresh"}
  /\ q.new # None /\ q.op = "refresh" => Family(q.new) = Family(q.token)
  /\ q.pc = "answer" => q.tab # Gone /\ (q.op \in {"login", "refresh"} => q.new # None)

TypeOK ==
  /\ tokens \in Seq(Rows)
  /\ \A t \in Tokens : Family(t) \in 1 .. t /\ Family(Family(t)) = Family(t)
  /\ cookie \in [Browsers -> Tokens \cup {None}]
  /\ request \in [Requests -> Rounds]
  /\ \A r \in Requests : Fits(request[r])
  /\ reused \cup ended \cup forked \cup disturbed \subseteq Families

\* A family that reuse detection or a password change ended stays dead: nobody
\* can rotate a token of it any more. The one way out is a rotation that had
\* found its token good before the family was revoked.
EndedStaysDead ==
  \A f \in ended : \A t \in Tokens : Family(t) = f => ~Live(t)

\* A family has one token that can be rotated, so that two holders of a session
\* are told apart at the latest when the second refreshes. The exception is a
\* token consumed twice, by rotations that had both found it good.
OneLiveToken ==
  \A f \in Families \ forked : Cardinality({ t \in Tokens : Family(t) = f /\ Live(t) }) <= 1

\* Tabs that get their answers and do not refresh at once never trip reuse
\* detection: a page reload restores the session instead of ending it.
ReuseOnlyIfDisturbed == reused \subseteq disturbed
=============================================================================
