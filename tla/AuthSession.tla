---------------------------- MODULE AuthSession ----------------------------
(***************************************************************************)
(* The login session of the dashboard: several tabs of one browser, which  *)
(* share the refresh cookie and nothing else, and the server that rotates  *)
(* it (web/src/lib/auth-session.ts, auth-session-sync.ts, http-client.ts,  *)
(* the root route; service/auth_session.go, model/user_session.go,         *)
(* controller/auth_session.go).                                            *)
(*                                                                         *)
(* Abstractions.  One user.  An access token is its session, the two       *)
(* versions it was issued at and whether it has expired.  A refresh secret *)
(* is its age: the number of rotations since it was current, 2 standing    *)
(* for every older one; secrets are derived one from the other, so two     *)
(* rotations of one secret give one successor.  authEpoch is kept as one   *)
(* bit per refresh in flight: no bump since it started.                    *)
(***************************************************************************)
EXTENDS Naturals, FiniteSets, Sequences

CONSTANTS
  Tabs,       \* the open tabs of the browser
  Sids,       \* the login sessions that can come to exist
  FirstSid,   \* the session the browser holds a cookie of at the start
  NoSid,      \* no session
  Calls,      \* bound: API calls of one tab in flight at once
  Kinds,      \* the kinds of API calls each of them can be
  Locks,      \* whether the browser has navigator.locks
  MaxFaults,  \* bound: requests or responses the network may lose
  MaxChanges  \* bound: security changes of the account

Reqs == Tabs \X (1..Calls)
TabOf(r) == r[1]

AllKinds == {"plain", "once", "security", "logout", "login"}

ASSUME ConstantsAssumption ==
  /\ IsFiniteSet(Tabs) /\ Tabs # {}
  /\ NoSid \notin Sids /\ FirstSid \in Sids
  /\ Calls \in Nat
  /\ Kinds \in [Reqs -> SUBSET AllKinds]
  /\ Locks \in BOOLEAN /\ MaxFaults \in Nat /\ MaxChanges \in Nat

VARIABLES
  sess,      \* table user_sessions
  userAuth,  \* users.auth_version
  cookie,    \* the browser's refresh cookie
  tab,       \* the auth store of each tab, and whether its page asked the server
  rf,        \* the refresh in flight of each tab (refreshPromise)
  req,       \* the API calls
  events,    \* the events each tab has still to receive
  orphans,   \* refresh requests whose page is gone
  faults,    \* messages lost so far
  out,       \* history: the sessions each tab has signed out of for good
  lost       \* history: the answer to some refresh never reached the browser

vars == <<sess, userAuth, cookie, tab, rf, req, events, orphans, faults, out, lost>>

NoCookie == [sid |-> NoSid, age |-> 0]
Keep     == [sid |-> NoSid, age |-> 2]   \* a response without Set-Cookie
NoTok    == [sid |-> NoSid, ver |-> 0, auth |-> 0, live |-> FALSE]
ColdPage == [tok |-> NoTok, boot |-> "idle", asked |-> FALSE]
NoRefresh == [pc |-> "none", cur |-> FALSE, retry |-> FALSE, sid |-> NoSid,
              ck |-> Keep, rep |-> "none", tok |-> NoTok]
NoReq == [pc |-> "idle", kind |-> "plain", tok |-> NoTok, ck |-> Keep, rep |-> "none",
          retried |-> FALSE, sent |-> 0, orphan |-> FALSE]

Cookies == [sid : Sids \cup {NoSid}, age : 0..2]
Toks == [sid : Sids \cup {NoSid}, ver : 0..(MaxChanges + 1), auth : 0..(MaxChanges + 1),
         live : BOOLEAN]

\* The state components hold values of the shapes the code gives them.
TypeOK ==
  /\ sess \in [Sids -> [st : {"none", "active", "logout", "reuse", "security", "others"},
                        ver : 0..(MaxChanges + 1), auth : 0..(MaxChanges + 1),
                        grace : BOOLEAN]]
  /\ userAuth \in 1..(MaxChanges + 1)
  /\ cookie \in Cookies
  /\ tab \in [Tabs -> [tok : Toks, boot : {"idle", "checking", "complete"},
                       asked : BOOLEAN]]
  /\ rf \in [Tabs -> [pc : {"none", "queued", "sent", "replied"}, cur : BOOLEAN,
                      retry : BOOLEAN, sid : Sids \cup {NoSid}, ck : Cookies,
                      rep : {"none", "ok", "mismatch", "401", "fail", "odd"}, tok : Toks]]
  /\ req \in [Reqs -> [pc : {"idle", "sent", "changing", "replied", "await"},
                       kind : AllKinds, tok : Toks, ck : Cookies,
                       rep : {"none", "ok", "mismatch", "401", "fail"},
                       retried : BOOLEAN, sent : 0..2, orphan : BOOLEAN]]
  /\ events \in [Tabs -> Seq([kind : {"authenticated", "signed_out"}, sid : Sids])]
  /\ orphans \subseteq [ck : Cookies, sid : Sids \cup {NoSid}]
  /\ faults \in 0..MaxFaults
  /\ out \in [Tabs -> SUBSET Sids] /\ lost \in BOOLEAN

\* The browser starts with the cookie of one session and cold pages.
Init ==
  /\ sess = [s \in Sids |-> IF s = FirstSid
                            THEN [st |-> "active", ver |-> 1, auth |-> 1, grace |-> FALSE]
                            ELSE [st |-> "none", ver |-> 0, auth |-> 0, grace |-> FALSE]]
  /\ userAuth = 1
  /\ cookie = [sid |-> FirstSid, age |-> 0]
  /\ tab = [t \in Tabs |-> ColdPage]
  /\ rf = [t \in Tabs |-> NoRefresh]
  /\ req = [r \in Reqs |-> NoReq]
  /\ events = [t \in Tabs |-> <<>>]
  /\ orphans = {} /\ faults = 0
  /\ out = [t \in Tabs |-> {}] /\ lost = FALSE

-----------------------------------------------------------------------------
(* The server.                                                             *)

Active(s) == s # NoSid /\ sess[s].st = "active"

\* A token passes when it has not expired and the session and the user still
\* have the versions it was issued at (ValidateLoginSession).
Validates(tok) ==
  /\ tok.live /\ Active(tok.sid)
  /\ sess[tok.sid].ver = tok.ver /\ sess[tok.sid].auth = tok.auth
  /\ userAuth = tok.auth

IssueToken(s) == [sid |-> s, ver |-> sess[s].ver, auth |-> sess[s].auth, live |-> TRUE]

\* How a refresh with cookie c and X-Auth-Session e ends.
RefreshVerdict(c, e) ==
  IF c.sid = NoSid THEN "invalid"
  ELSE IF e \notin {NoSid, c.sid} THEN "mismatch"
  ELSE IF ~Active(c.sid) THEN "revoked"
  ELSE IF sess[c.sid].auth # userAuth THEN "security"
  ELSE IF c.age = 0 THEN "rotate"
  ELSE IF c.age = 1 THEN IF sess[c.sid].grace THEN "again" ELSE "reuse"
  ELSE "invalid"

\* What a verdict does to the session: a changed account and a replayed old
\* secret revoke it, a rotation opens the grace window of the old secret.
SessionAfter(v, s) ==
  CASE v \in {"security", "reuse"} -> [sess EXCEPT ![s].st = v]
    [] v = "rotate"                -> [sess EXCEPT ![s].grace = TRUE]
    [] OTHER                       -> sess

\* The answer: a successor cookie, no change, or a cleared cookie.
ReplyCookie(v, s) ==
  CASE v \in {"rotate", "again"} -> [sid |-> s, age |-> 0]
    [] v = "mismatch"            -> Keep
    [] OTHER                     -> NoCookie

\* Mutant: a refresh of a session that is gone is answered like an overload.
ReplyKindTransient(v) ==
  CASE v \in {"rotate", "again"} -> "ok"
    [] v = "mismatch"            -> "mismatch"
    [] OTHER                     -> "fail"
ReplyKind(v) ==
  CASE v \in {"rotate", "again"} -> "ok"
    [] v = "mismatch"            -> "mismatch"
    [] OTHER                     -> "401"

\* A rotation makes every copy of the session's secrets one older.
Older(c, s, v) ==
  IF v = "rotate" /\ c.sid = s /\ c.age < 2 THEN [c EXCEPT !.age = @ + 1] ELSE c

\* The server handles the refresh of tab t.
RefreshAuth(t) ==
  /\ rf[t].pc = "sent"
  /\ LET c == rf[t].ck
         v == RefreshVerdict(c, rf[t].sid)
     IN /\ sess' = SessionAfter(v, c.sid)
        /\ cookie' = Older(cookie, c.sid, v)
        /\ rf' = [u \in Tabs |->
             IF u = t
             THEN [rf[t] EXCEPT !.pc = "replied", !.rep = ReplyKind(v), !.sid = NoSid,
                                !.ck = ReplyCookie(v, c.sid),
                                !.tok = IF ReplyKind(v) = "ok" THEN IssueToken(c.sid) ELSE NoTok]
             ELSE [rf[u] EXCEPT !.ck = Older(@, c.sid, v)]]
        /\ req' = [r \in Reqs |-> [req[r] EXCEPT !.ck = Older(@, c.sid, v)]]
        /\ orphans' = {[o EXCEPT !.ck = Older(@, c.sid, v)] : o \in orphans}
  /\ UNCHANGED <<userAuth, tab, events, faults, out, lost>>

\* The server handles a refresh whose page has gone; nobody reads the answer.
RefreshOrphan ==
  /\ \E o \in orphans :
       LET c == o.ck
           v == RefreshVerdict(c, o.sid)
       IN /\ sess' = SessionAfter(v, c.sid)
          /\ cookie' = Older(cookie, c.sid, v)
          /\ rf' = [u \in Tabs |-> [rf[u] EXCEPT !.ck = Older(@, c.sid, v)]]
          /\ req' = [r \in Reqs |-> [req[r] EXCEPT !.ck = Older(@, c.sid, v)]]
          /\ orphans' = {[p EXCEPT !.ck = Older(@, c.sid, v)] : p \in orphans \ {o}}
  /\ UNCHANGED <<userAuth, tab, events, faults, out, lost>>

\* The grace window of the previous secret closes, which matters while a copy
\* of that secret is left.
Copies == {cookie} \cup {rf[t].ck : t \in Tabs} \cup {req[r].ck : r \in Reqs}
          \cup {o.ck : o \in orphans}
GraceEnds(s) ==
  /\ sess[s].grace /\ [sid |-> s, age |-> 1] \in Copies
  /\ sess' = [sess EXCEPT ![s].grace = FALSE]
  /\ UNCHANGED <<userAuth, cookie, tab, rf, req, events, orphans, faults, out, lost>>

\* The server handles a plain or a single-use call: it only checks the token.
ServeCall(r) ==
  /\ req[r].pc = "sent" /\ req[r].kind \in {"plain", "once"}
  /\ req' = [req EXCEPT ![r] =
       IF @.orphan THEN NoReq
       ELSE [@ EXCEPT !.pc = "replied", !.tok = NoTok,
                      !.rep = IF Validates(req[r].tok) THEN "ok" ELSE "401"]]
  /\ UNCHANGED <<sess, userAuth, cookie, tab, rf, events, orphans, faults, out, lost>>

\* A change of password, second factor or passkey: its transaction commits the
\* change together with a new auth_version of the user.
ChangeSecurity(r) ==
  /\ req[r].pc = "sent" /\ req[r].kind = "security"
  /\ IF Validates(req[r].tok)
     THEN /\ userAuth' = userAuth + 1
          /\ req' = [req EXCEPT ![r].pc = "changing"]
     ELSE /\ req' = [req EXCEPT ![r] =
                       IF @.orphan THEN NoReq
                       ELSE [@ EXCEPT !.pc = "replied", !.rep = "401"]]
          /\ UNCHANGED userAuth
  /\ UNCHANGED <<sess, cookie, tab, rf, events, orphans, faults, out, lost>>

\* Afterwards, in a transaction of its own, the calling session moves to the
\* new versions and the user's other sessions are revoked; a session that is no
\* longer as the caller's token says stays behind.  The code revokes the others in a
\* second transaction, one step here: the versions of older ones no longer validate,
\* and a login between the two is revoked like one before them.
AdvanceCurrentSession(r) ==
  LET tok  == req[r].tok
      kept == /\ Active(tok.sid)
              /\ sess[tok.sid].ver = tok.ver /\ sess[tok.sid].auth = tok.auth
      new  == [tok EXCEPT !.ver = tok.ver + 1, !.auth = userAuth, !.live = TRUE]
  IN
  /\ req[r].pc = "changing"
  /\ sess' = IF ~kept THEN sess
             ELSE [u \in Sids |->
                     IF u = tok.sid THEN [sess[u] EXCEPT !.ver = @ + 1, !.auth = userAuth]
                     ELSE IF sess[u].st = "active" THEN [sess[u] EXCEPT !.st = "others"]
                     ELSE sess[u]]
  /\ req' = [req EXCEPT ![r] =
       IF @.orphan THEN NoReq
       ELSE [@ EXCEPT !.pc = "replied", !.rep = IF kept THEN "ok" ELSE "fail",
                      !.tok = IF kept THEN new ELSE tok]]
  /\ UNCHANGED <<userAuth, cookie, tab, rf, events, orphans, faults, out, lost>>

\* AuthLogout: the cookie must be of the session the tab names; an unexpired
\* token revokes its session, otherwise a usable refresh secret does.
AuthLogout(r) ==
  LET q == req[r]
      mismatch == q.ck.sid \notin {NoSid, q.tok.sid}
      usable == q.ck.age = 0 \/ (q.ck.age = 1 /\ sess[q.ck.sid].grace)
      gone == IF mismatch THEN NoSid
              ELSE IF q.tok.live THEN q.tok.sid
              ELSE IF q.ck.sid # NoSid /\ usable THEN q.ck.sid
              ELSE NoSid
  IN
  /\ q.pc = "sent" /\ q.kind = "logout"
  /\ sess' = IF Active(gone) THEN [sess EXCEPT ![gone].st = "logout"] ELSE sess
  /\ req' = [req EXCEPT ![r] =
       IF @.orphan THEN NoReq
       ELSE [@ EXCEPT !.pc = "replied",
                      !.rep = IF mismatch THEN "mismatch" ELSE "ok",
                      !.ck = IF mismatch \/ (q.tok.live /\ q.ck.sid = NoSid)
                             THEN Keep ELSE NoCookie]]
  /\ UNCHANGED <<userAuth, cookie, tab, rf, events, orphans, faults, out, lost>>

Unused == {s \in Sids : sess[s].st = "none"}

\* A login creates a session and answers with its cookie and its token.
CreateLoginSession(r) ==
  /\ req[r].pc = "sent" /\ req[r].kind = "login"
  /\ \E s \in Unused :
       LET new == [st |-> "active", ver |-> 1, auth |-> userAuth, grace |-> FALSE]
       IN /\ sess' = [sess EXCEPT ![s] = new]
          /\ req' = [req EXCEPT ![r] =
               IF @.orphan THEN NoReq
               ELSE [@ EXCEPT !.pc = "replied", !.rep = "ok", !.ck = [sid |-> s, age |-> 0],
                       !.tok = [sid |-> s, ver |-> 1, auth |-> userAuth, live |-> TRUE]]]
  /\ UNCHANGED <<userAuth, cookie, tab, rf, events, orphans, faults, out, lost>>

-----------------------------------------------------------------------------
(* The browser.                                                            *)

SidOf(t) == tab[t].tok.sid

\* The browser stores the cookie of a response before any script sees it.
StoredCookie(ck) == IF ck = Keep THEN cookie ELSE ck

\* Mutant: an event without a session is published too.
PublishedAlways(kind, sid, t) ==
  [u \in Tabs |-> IF u = t THEN events[u]
                  ELSE Append(events[u], [kind |-> kind, sid |-> sid])]

\* publishAuthSessionEvent: to every other tab, if there is a session to name.
Published(kind, sid, t) ==
  [u \in Tabs |-> IF u = t \/ sid = NoSid THEN events[u]
                  ELSE Append(events[u], [kind |-> kind, sid |-> sid])]

SignedIn(tok)    == [tok |-> tok, boot |-> "complete", asked |-> TRUE]
SignedOut(state) == [tok |-> NoTok, boot |-> state, asked |-> TRUE]

\* authEpoch += 1: the refresh in flight of the tab is superseded.
Bumped(t) == [rf EXCEPT ![t].cur = FALSE]

\* refreshAuthentication: one refresh per tab; with a browser lock it queues.
Started(t) ==
  IF rf[t].pc # "none" THEN rf
  ELSE [rf EXCEPT ![t] =
         [NoRefresh EXCEPT !.pc = IF Locks THEN "queued" ELSE "sent", !.cur = TRUE,
                           !.retry = TRUE, !.sid = IF Locks THEN NoSid ELSE SidOf(t),
                           !.ck = IF Locks THEN Keep ELSE cookie]]

\* The page of tab t is replaced: memory, callers and undelivered events go,
\* requests on their way to the server do not.
Gone(t) ==
  [r \in Reqs |-> IF TabOf(r) # t THEN req[r]
                  ELSE IF req[r].pc \in {"sent", "changing"}
                  THEN [req[r] EXCEPT !.orphan = TRUE]
                  ELSE NoReq]
Reload(t, ev) ==
  /\ tab' = [tab EXCEPT ![t] = ColdPage]
  /\ orphans' = IF rf[t].pc = "sent"
                THEN orphans \cup {[ck |-> rf[t].ck, sid |-> rf[t].sid]} ELSE orphans
  /\ rf' = [rf EXCEPT ![t] = NoRefresh]
  /\ req' = Gone(t)
  /\ events' = [ev EXCEPT ![t] = <<>>]
  /\ lost' = (lost \/ rf[t].pc \in {"sent", "replied"})

\* A call that waited for the refresh goes on with its outcome o, with token
\* tok in the store and cookie ck in the browser: it is sent (again) or fails.
SentWith(q, tok, ck) ==
  [q EXCEPT !.pc = "sent", !.tok = tok, !.sent = @ + 1,
            !.ck = IF q.kind = "logout" THEN ck ELSE Keep]
\* Mutant: a transient failure of the refresh wakes nobody.
ResumedNotWoken(q, o, tok, ck) ==
  IF q.pc # "await" \/ o = "transient" THEN q
  ELSE IF o = "authenticated" \/ (q.kind \in {"once", "security"} /\ tok.live)
  THEN SentWith(q, tok, ck)
  ELSE NoReq
Resumed(q, o, tok, ck) ==
  IF q.pc # "await" THEN q
  ELSE IF o = "authenticated" \/ (q.kind \in {"once", "security"} /\ tok.live)
  THEN SentWith(q, tok, ck)
  ELSE NoReq

\* The refresh of tab t settles with outcome o and leaves the store as st.  A
\* plain call that learns that there is no session any more redirects to the
\* sign-in page, which loads a new page; a tab that is on that page already, which
\* the code leaves as it is, is not told apart from the others.
Settle(t, o, st, ck, ev) ==
  IF /\ o \in {"anonymous", "out_of_sync"}
     /\ \E r \in Reqs : TabOf(r) = t /\ req[r].pc = "await" /\ req[r].kind = "plain"
  THEN Reload(t, ev)
  ELSE /\ tab' = [tab EXCEPT ![t] = [st EXCEPT !.asked = TRUE]]
       /\ rf' = [rf EXCEPT ![t] = NoRefresh]
       /\ req' = [r \in Reqs |-> IF TabOf(r) = t THEN Resumed(req[r], o, st.tok, ck)
                                 ELSE req[r]]
       /\ events' = ev
       /\ UNCHANGED <<orphans, lost>>

\* Mutant: every tab refreshes at once.
NoLock(t) == TRUE
\* The tabs of the browser take turns (navigator.locks).
LockFree(t) == ~ \E u \in Tabs \ {t} : rf[u].pc \in {"sent", "replied"}
\* Mutant: a refresh that was superseded in the queue never returns.
RunRefreshCurrentOnly(t) ==
  /\ rf[t].pc = "queued" /\ LockFree(t) /\ rf[t].cur
  /\ rf' = [rf EXCEPT ![t].pc = "sent", ![t].sid = SidOf(t), ![t].ck = cookie]
  /\ UNCHANGED <<sess, userAuth, cookie, tab, req, events, orphans, faults, out, lost>>

\* The refresh of tab t gets the lock: it sends its request, or finds that it
\* was superseded while it waited.  A rejection of navigator.locks.request itself
\* would escape the catch of performRefreshWithBrowserLock: left out.
RunRefresh(t) ==
  /\ rf[t].pc = "queued" /\ LockFree(t)
  /\ IF rf[t].cur
     THEN /\ rf' = [rf EXCEPT ![t].pc = "sent", ![t].sid = SidOf(t), ![t].ck = cookie]
          /\ UNCHANGED <<tab, req, events, orphans, lost>>
     ELSE Settle(t, "superseded", tab[t], cookie, events)
  /\ UNCHANGED <<sess, userAuth, cookie, faults, out>>

\* Mutant: the epoch is not compared.
CurrentAlways(t) == TRUE
\* isCurrent: nothing has changed the store's session since the refresh started.
Current(t) == rf[t].cur

\* run() of createRefreshRunner, from the answer on.
RefreshReply(t) ==
  LET f  == rf[t]
      ck == StoredCookie(f.ck)
  IN
  /\ f.pc = "replied"
  /\ cookie' = ck
  /\ \/ /\ ~Current(t)
        /\ Settle(t, "superseded", tab[t], ck, events)
     \/ /\ Current(t) /\ f.rep = "ok"
        /\ Settle(t, "authenticated", SignedIn(f.tok), ck, events)
     \/ \* another session is in the cookie: forget ours and ask once more
        /\ Current(t) /\ f.rep = "mismatch" /\ f.retry
        /\ tab' = [tab EXCEPT ![t] = SignedOut("idle")]
        /\ rf' = [rf EXCEPT ![t] = [NoRefresh EXCEPT !.pc = "sent", !.cur = TRUE, !.ck = ck]]
        /\ UNCHANGED <<req, events, orphans, lost>>
     \/ /\ Current(t) /\ f.rep = "401"
        /\ Settle(t, "anonymous", SignedOut("complete"), ck,
                  Published("signed_out", SidOf(t), t))
     \/ /\ Current(t) /\ f.rep = "fail"
        /\ Settle(t, "transient", [tab[t] EXCEPT !.boot = "idle"], ck, events)
     \/ /\ Current(t) /\ f.rep = "odd"
        /\ Settle(t, "out_of_sync", SignedOut("complete"), ck, events)
  /\ UNCHANGED <<sess, userAuth, faults, out>>

\* resolveAuthentication, as the guards of the protected routes and of the
\* sign-in page call it.
Resolve(t) ==
  IF tab[t].tok.live
  THEN /\ tab' = [tab EXCEPT ![t].boot = "complete"] /\ UNCHANGED rf
  ELSE IF tab[t].boot = "complete" /\ SidOf(t) = NoSid
  THEN UNCHANGED <<tab, rf>>
  ELSE /\ tab' = [tab EXCEPT ![t].boot = "checking"] /\ rf' = Started(t)

Guard(t) ==
  /\ Resolve(t)
  /\ UNCHANGED <<sess, userAuth, cookie, req, events, orphans, faults, out, lost>>

\* A page of tab t makes an API call.  A plain call and a logout go out with
\* the token in the store; a call that spends a one-time proof first makes sure
\* that its token is fresh; the login form is shown only after the server was asked
\* and without a session.
InFlight(k) == Cardinality({r \in Reqs : req[r].kind = k /\ req[r].pc \in {"sent", "await"}})
Issue(r, k) ==
  LET t == TabOf(r)
      q == [NoReq EXCEPT !.kind = k]
      waits == k \in {"once", "security"} /\ ~tab[t].tok.live
  IN
  /\ req[r].pc = "idle"
  /\ \/ k \in {"plain", "once", "logout"} /\ SidOf(t) # NoSid
     \/ k = "security" /\ SidOf(t) # NoSid /\ userAuth + InFlight(k) <= MaxChanges
     \/ /\ k = "login" /\ SidOf(t) = NoSid /\ tab[t].asked /\ rf[t].pc = "none"
        /\ InFlight(k) < Cardinality(Unused)
  /\ req' = [req EXCEPT ![r] = IF waits THEN [q EXCEPT !.pc = "await"]
                               ELSE SentWith(q, tab[t].tok, cookie)]
  /\ rf' = IF waits THEN Started(t) ELSE rf
  /\ UNCHANGED <<sess, userAuth, cookie, tab, events, orphans, faults, out, lost>>

Idle(r) == req' = [req EXCEPT ![r] = NoReq]

\* A call that was refused waits for the refresh and will be sent once more.
AwaitRefresh(r) ==
  /\ req' = [req EXCEPT ![r].pc = "await", ![r].retried = TRUE]
  /\ rf' = Started(TabOf(r))
  /\ UNCHANGED <<tab, events, orphans, out, lost>>

\* The response interceptors of the plain calls: refresh and retry after the
\* first 401, sign-in page after the second.
PlainReply(r) ==
  LET q == req[r] IN
  /\ q.kind = "plain"
  /\ \/ /\ q.rep \in {"ok", "fail"}
        /\ Idle(r) /\ UNCHANGED <<tab, rf, events, orphans, out, lost>>
     \/ q.rep = "401" /\ ~q.retried /\ AwaitRefresh(r)
     \/ q.rep = "401" /\ q.retried /\ Reload(TabOf(r), events) /\ UNCHANGED out

\* Mutant: a refused single-use call is retried like any other.
OnceReplyRetries(r) ==
  /\ req[r].kind = "once"
  /\ IF req[r].rep = "401" /\ ~req[r].retried THEN AwaitRefresh(r)
     ELSE Idle(r) /\ UNCHANGED <<tab, rf, events, orphans, out, lost>>

\* A single-use call is never refreshed and retried (skipAuthRefresh).
OnceReply(r) ==
  /\ req[r].kind = "once"
  /\ Idle(r) /\ UNCHANGED <<tab, rf, events, orphans, out, lost>>

\* applyAuthRotation takes the new token only for the session in the store.
SecurityReply(r) ==
  LET q == req[r]
      t == TabOf(r)
  IN
  /\ q.kind = "security" /\ Idle(r)
  /\ IF q.rep = "ok" /\ SidOf(t) = q.tok.sid
     THEN tab' = [tab EXCEPT ![t] = SignedIn(q.tok)] /\ rf' = Bumped(t)
     ELSE UNCHANGED <<tab, rf>>
  /\ UNCHANGED <<events, orphans, out, lost>>

\* The sign-out dialog, once the logout has succeeded: it clears the store and
\* tells the other tabs.
SignOut(r) ==
  LET sid == req[r].tok.sid
      t   == TabOf(r)
  IN
  /\ Idle(r)
  /\ tab' = [tab EXCEPT ![t] = SignedOut("complete")]
  /\ rf' = Bumped(t)
  /\ events' = Published("signed_out", SidOf(t), t)
  /\ out' = [out EXCEPT ![t] = @ \cup ({sid} \ {s \in Sids : Active(s)})]
  /\ UNCHANGED <<orphans, lost>>

\* executeLogout: a mismatch first brings the tab to the cookie's session.
LogoutReply(r) ==
  LET q == req[r] IN
  /\ q.kind = "logout"
  /\ \/ q.rep = "ok" /\ SignOut(r)
     \/ q.rep = "mismatch" /\ ~q.retried /\ AwaitRefresh(r)
     \/ /\ q.rep = "fail" \/ (q.rep = "mismatch" /\ q.retried)
        /\ Idle(r) /\ UNCHANGED <<tab, rf, events, orphans, out, lost>>

\* handleLoginSuccess takes the bundle only if the form's page still has the
\* session it was rendered with: none.
LoginReply(r) ==
  LET q == req[r]
      t == TabOf(r)
  IN
  /\ q.kind = "login" /\ Idle(r)
  /\ IF q.rep = "ok" /\ SidOf(t) = NoSid
     THEN /\ tab' = [tab EXCEPT ![t] = SignedIn(q.tok)]
          /\ rf' = Bumped(t)
          /\ events' = Published("authenticated", q.tok.sid, t)
     ELSE UNCHANGED <<tab, rf, events>>
  /\ UNCHANGED <<orphans, out, lost>>

RequestReply(r) ==
  /\ req[r].pc = "replied"
  /\ cookie' = StoredCookie(req[r].ck)
  /\ \/ PlainReply(r) \/ OnceReply(r) \/ SecurityReply(r) \/ LogoutReply(r) \/ LoginReply(r)
  /\ UNCHANGED <<sess, userAuth, faults>>

\* The listener of the root route, on the oldest event for the tab; an event
\* older than a minute is ignored.
SyncEvent(t) ==
  LET e    == Head(events[t])
      rest == [events EXCEPT ![t] = Tail(@)]
  IN
  /\ events[t] # <<>>
  /\ \/ /\ events' = rest /\ UNCHANGED <<tab, rf, req, orphans, lost>>
     \/ e.kind = "authenticated" /\ e.sid # SidOf(t) /\ Reload(t, rest)
     \/ /\ e.kind = "signed_out" /\ e.sid = SidOf(t)
        /\ tab' = [tab EXCEPT ![t] = SignedOut("complete")]
        /\ rf' = Bumped(t)
        /\ events' = rest
        /\ UNCHANGED <<req, orphans, lost>>
  /\ UNCHANGED <<sess, userAuth, cookie, faults, out>>

-----------------------------------------------------------------------------
(* Time and the network.                                                   *)

\* The access token of a tab reaches its expiry.
Expire(t) ==
  /\ tab[t].tok.live
  /\ tab' = [tab EXCEPT ![t].tok.live = FALSE]
  /\ UNCHANGED <<sess, userAuth, cookie, rf, req, events, orphans, faults, out, lost>>

\* A refresh request or its answer is lost, or the server is overloaded; or a
\* proxy answers with something the client does not expect.
LoseRefresh(t) ==
  /\ faults < MaxFaults /\ faults' = faults + 1
  /\ \E answer \in {"fail", "odd"} :
       /\ rf[t].pc = "sent" \/ (rf[t].pc = "replied" /\ answer = "fail")
       /\ rf' = [rf EXCEPT ![t].pc = "replied", ![t].rep = answer, ![t].ck = Keep,
                           ![t].tok = NoTok]
  /\ lost' = TRUE
  /\ UNCHANGED <<sess, userAuth, cookie, tab, req, events, orphans, out>>

\* A call or its answer is lost.
LoseRequest(r) ==
  /\ faults < MaxFaults /\ faults' = faults + 1
  /\ req[r].pc \in {"sent", "replied"} /\ ~req[r].orphan
  /\ req' = [req EXCEPT ![r].pc = "replied", ![r].rep = "fail", ![r].ck = Keep,
                         ![r].tok = NoTok]
  /\ UNCHANGED <<sess, userAuth, cookie, tab, rf, events, orphans, out, lost>>

-----------------------------------------------------------------------------

Server(r) == ServeCall(r) \/ ChangeSecurity(r) \/ AdvanceCurrentSession(r)
             \/ AuthLogout(r) \/ CreateLoginSession(r)

Next ==
  \/ \E t \in Tabs : RefreshAuth(t) \/ RunRefresh(t) \/ RefreshReply(t) \/ SyncEvent(t)
                     \/ Guard(t) \/ Expire(t) \/ LoseRefresh(t)
  \/ \E r \in Reqs : Server(r) \/ RequestReply(r) \/ LoseRequest(r)
                     \/ \E k \in Kinds[r] : Issue(r, k)
  \/ \E s \in Sids : GraceEnds(s)
  \/ RefreshOrphan

Spec == Init /\ [][Next]_vars

\* The server answers, the browser delivers and grants the lock, time passes.
Fairness ==
  /\ \A t \in Tabs : WF_vars(RefreshAuth(t)) /\ WF_vars(RefreshReply(t))
                     /\ SF_vars(RunRefresh(t)) /\ WF_vars(SyncEvent(t))
  /\ \A r \in Reqs : WF_vars(Server(r)) /\ WF_vars(RequestReply(r))

FairSpec == Spec /\ Fairness

\* A tab in use: its token expires in the end, and its page goes on calling.
Used == \A t \in Tabs :
  /\ WF_vars(Expire(t))
  /\ \A i \in 1..Calls : WF_vars("plain" \in Kinds[<<t, i>>] /\ Issue(<<t, i>>, "plain"))
UsedSpec == FairSpec /\ Used

-----------------------------------------------------------------------------

\* A tab that has signed out of a session which the server has revoked never
\* holds that session again: no refresh, rotation or login that was in flight
\* restores it (auth-session.ts isCurrent, applyAuthRotation).
SignedOutStaysOut == \A t \in Tabs : SidOf(t) \notin out[t]

\* A call that spends a one-time proof reaches the network once, whatever it is
\* answered and whatever refreshes run around it; a plain call at most twice
\* (http-client.ts interceptors).
ProofSpentOnce ==
  \A r \in Reqs : req[r].sent <= IF req[r].kind \in {"once", "security"} THEN 1 ELSE 2

\* The tabs of one browser never make the server take one of their refreshes
\* for a replay of an old secret, unless an answer was lost or a page was
\* replaced while its refresh was on the way (the browser lock around the
\* refresh; model/user_session.go grace window).
ReplayNeedsLoss ==
  \A s \in Sids : sess[s].st = "reuse" => lost

\* Every refresh settles, so that nobody waits for refreshPromise for ever, and
\* the browser lock is given back (auth-session.ts createRefreshRunner).
EveryRefreshSettles == \A t \in Tabs : (rf[t].pc # "none") ~> (rf[t].pc = "none")

\* Every API call ends, retries and waits for a refresh included (http-client.ts).
EveryCallEnds == \A r \in Reqs : (req[r].pc # "idle") ~> (req[r].pc = "idle")

\* When a tab stays in use it ends up with the session of the shared cookie or
\* with none, whatever the other tabs have done to the cookie (auth-session.ts
\* AUTH_SESSION_MISMATCH).
TabsConverge ==
  <>[](\A r \in Reqs : "plain" \in Kinds[r] => SidOf(TabOf(r)) \in {NoSid, cookie.sid})
=============================================================================
