------------------------ MODULE AuthSessionProofs ------------------------
(***************************************************************************)
(* What is proved of AuthSession for every number of tabs, sessions and    *)
(* calls: its type invariant, that a one-time proof is spent once, that a  *)
(* session a tab has signed out of stays out, and that tabs which take     *)
(* turns never look like a replay.                                         *)
(*                                                                         *)
(* None of the four is inductive.  The strengthening (Inv) follows the     *)
(* session names: the browser names only sessions that exist on the server *)
(* (Fits(Known)), except that the answer to a login holds a session nobody *)
(* else can name yet (Secret).  The counters need one more fact, that a    *)
(* security change still on its way finds room below the bound (Room), and *)
(* signing out needs that neither the tab nor the refresh it awaits holds  *)
(* the session (OutOK).  The replay needs what the browser lock guards: at *)
(* most one refresh is on its way, with the newest secret (Turns).         *)
(***************************************************************************)
EXTENDS AuthSession, FiniteSetTheorems, TLAPS

Versions == 0..(MaxChanges + 1)
Names    == Sids \cup {NoSid}

SessRec  == [st : {"none", "active", "logout", "reuse", "security", "others"},
             ver : Versions, auth : Versions, grace : BOOLEAN]
TabRec   == [tok : Toks, boot : {"idle", "checking", "complete"}, asked : BOOLEAN]
RfRec    == [pc : {"none", "queued", "sent", "replied"}, cur : BOOLEAN, retry : BOOLEAN,
             sid : Names, ck : Cookies,
             rep : {"none", "ok", "mismatch", "401", "fail", "odd"}, tok : Toks]
ReqRec   == [pc : {"idle", "sent", "changing", "replied", "await"}, kind : AllKinds,
             tok : Toks, ck : Cookies, rep : {"none", "ok", "mismatch", "401", "fail"},
             retried : BOOLEAN, sent : 0..2, orphan : BOOLEAN]
EventRec == [kind : {"authenticated", "signed_out"}, sid : Sids]

Proof(k) == k \in {"once", "security"}

\* The answer to a login that the browser has not seen yet.
FreshCall(q) == q.pc = "replied" /\ q.kind = "login" /\ q.rep = "ok"

\* One API call: how often it was sent, and what its answer carries.
CallOK(q) ==
  /\ q.pc = "idle" => q.sent = 0
  /\ q.pc = "await" => IF Proof(q.kind) THEN q.sent = 0 ELSE q.sent = 1 /\ q.retried
  /\ q.pc \in {"sent", "changing", "replied"} => q.sent = IF q.retried THEN 2 ELSE 1
  /\ Proof(q.kind) => ~q.retried
  /\ q.pc = "changing" => q.kind = "security"
  /\ q.pc \in {"sent", "changing"} /\ q.kind # "logout" => q.ck = Keep
  /\ q.pc = "replied" => FreshCall(q) \/ q.ck \in {Keep, NoCookie}
  /\ q.kind = "logout" /\ (q.pc = "sent" \/ (q.pc = "replied" /\ q.rep = "ok")) =>
       q.tok.sid # NoSid

\* One refresh: what its answer carries.
RefreshOK(f) ==
  /\ f.pc = "replied" /\ f.rep = "ok" => f.tok.sid # NoSid
  /\ f.pc = "replied" /\ f.rep # "ok" => f.ck \in {Keep, NoCookie}

\* The values that name only the sessions in G (or none); the answer to a
\* login is the one place where other sessions are named.
CookiesOf(G) == {c \in Cookies : c.sid \in G}
ToksOf(G)    == {k \in Toks : k.sid \in G}
TabsOf(G)    == {x \in TabRec : x.tok \in ToksOf(G)}
RefreshesOf(G) == {f \in RfRec : RefreshOK(f) /\ f.ck \in CookiesOf(G) /\ f.tok \in ToksOf(G)}
CallsOf(G)   == {q \in ReqRec : /\ CallOK(q)
                                /\ ~FreshCall(q) => q.ck \in CookiesOf(G) /\ q.tok \in ToksOf(G)}

\* The browser names only the sessions in G.
Fits(G) ==
  /\ cookie \in CookiesOf(G)
  /\ tab \in [Tabs -> TabsOf(G)] /\ rf \in [Tabs -> RefreshesOf(G)]
  /\ req \in [Reqs -> CallsOf(G)]
  /\ events \in [Tabs -> Seq(EventRec)]
  /\ orphans \subseteq [ck : CookiesOf(G), sid : Names]
  /\ faults \in 0..MaxFaults /\ lost \in BOOLEAN
  /\ out \in [Tabs -> SUBSET (G \ {NoSid})]

\* The sessions that exist and that are not still the secret of a login's
\* answer.
Fresh(r) == FreshCall(req[r])
Known ==
  {NoSid} \cup {s \in Sids : sess[s].st # "none" /\ \A r \in Reqs : Fresh(r) => req[r].tok.sid # s}

\* The session in a login's answer exists, its cookie was never rotated, and
\* no two answers hold the same one.
Secret(r) ==
  Fresh(r) =>
    /\ req[r].tok.sid \in Sids /\ sess[req[r].tok.sid].st # "none"
    /\ req[r].ck = [sid |-> req[r].tok.sid, age |-> 0]
    /\ \A q \in Reqs \ {r} : Fresh(q) => req[q].tok.sid # req[r].tok.sid

\* The versions of a session are behind the user's.
SessionOK(s) == sess[s].ver <= sess[s].auth /\ sess[s].auth <= userAuth

\* A security change that is on its way still has a version to move to.
ChangeOnWay(q) == q.kind = "security" /\ q.pc \in {"sent", "await"}
Changes == {r \in Reqs : ChangeOnWay(req[r])}
Room ==
  /\ \A r \in Reqs : req[r].pc = "changing" => req[r].tok.auth < userAuth
  /\ userAuth + Cardinality(Changes) <= MaxChanges + 1

\* A session that was signed out of is revoked, and neither the tab nor the
\* refresh it would still listen to holds it.
Answered(t) == rf[t].pc = "replied" /\ rf[t].rep = "ok"
OutOK(t) ==
  /\ \A s \in out[t] : sess[s].st \notin {"none", "active"}
  /\ SidOf(t) \notin out[t]
  /\ Answered(t) /\ rf[t].cur => rf[t].tok.sid \notin out[t]

Inv ==
  /\ sess \in [Sids -> SessRec] /\ userAuth \in 1..(MaxChanges + 1)
  /\ Fits(Known)
  /\ \A s \in Sids : SessionOK(s)
  /\ \A r \in Reqs : Secret(r)
  /\ Room
  /\ \A t \in Tabs : OutOK(t)

\* Under the browser lock, as long as no answer was lost: one refresh at a
\* time, it carries the current secret, and the cookie is an old secret only
\* while the answer with the new one is on its way.
Busy(t) == rf[t].pc \in {"sent", "replied"}
Newest(c) == c.sid = NoSid \/ c.age = 0
Turns ==
  /\ orphans = {}
  /\ \A t, u \in Tabs : Busy(t) /\ Busy(u) => t = u
  /\ \A t \in Tabs : rf[t].pc = "sent" => Newest(rf[t].ck)
  /\ \A t \in Tabs : Answered(t) => rf[t].ck.age = 0
  /\ Newest(cookie) \/ \E t \in Tabs : Answered(t)
NoReuse == \A s \in Sids : sess[s].st # "reuse"
NoReplay == ~lost => Turns /\ NoReuse

-----------------------------------------------------------------------------
(* Values.                                                                 *)

LEMMA NamesFacts == NoSid \in Names /\ NoSid \notin Sids /\ FirstSid \in Sids /\ Sids \subseteq Names
  BY ConstantsAssumption DEF Names

LEMMA VersionFacts == MaxChanges \in Nat /\ 0 \in Versions /\ 1 \in Versions
  BY ConstantsAssumption DEF Versions

LEMMA EmptyValues ==
    ASSUME NEW G, NoSid \in G
    PROVE  /\ NoTok \in ToksOf(G) /\ NoTok.sid = NoSid
           /\ Keep \in CookiesOf(G) /\ Keep.sid = NoSid
           /\ NoCookie \in CookiesOf(G) /\ NoCookie.sid = NoSid
  <1>1. NoTok \in Toks /\ NoTok.sid = NoSid
    BY VersionFacts, NamesFacts DEF NoTok, Toks, Names, Versions
  <1>2. Keep \in Cookies /\ Keep.sid = NoSid /\ NoCookie \in Cookies /\ NoCookie.sid = NoSid
    BY NamesFacts DEF Keep, NoCookie, Cookies, Names
  <1> QED BY <1>1, <1>2 DEF ToksOf, CookiesOf

LEMMA EmptyPage ==
    ASSUME NEW G, NoSid \in G
    PROVE  ColdPage \in TabsOf(G) /\ ColdPage.tok = NoTok
  <1>1. NoTok \in Toks
    BY EmptyValues DEF ToksOf
  <1>2. ColdPage \in TabRec /\ ColdPage.tok = NoTok
    BY <1>1 DEF ColdPage, TabRec
  <1> QED BY <1>2, EmptyValues DEF TabsOf

LEMMA EmptyRefresh ==
    ASSUME NEW G, NoSid \in G
    PROVE  NoRefresh \in RefreshesOf(G) /\ NoRefresh.pc = "none"
  <1>1. NoTok \in Toks /\ Keep \in Cookies
    BY EmptyValues DEF ToksOf, CookiesOf
  <1>2. /\ NoRefresh \in RfRec /\ NoRefresh.pc = "none"
        /\ NoRefresh.ck = Keep /\ NoRefresh.tok = NoTok
    BY <1>1, NamesFacts DEF NoRefresh, RfRec
  <1> QED BY <1>2, EmptyValues DEF RefreshesOf, RefreshOK

LEMMA EmptyCall ==
    ASSUME NEW G, NoSid \in G
    PROVE  /\ NoReq \in CallsOf(G) /\ NoReq.pc = "idle"
           /\ ~FreshCall(NoReq) /\ ~ChangeOnWay(NoReq)
  <1>1. NoTok \in Toks /\ Keep \in Cookies
    BY EmptyValues DEF ToksOf, CookiesOf
  <1>2. NoReq \in ReqRec
    BY <1>1 DEF NoReq, ReqRec, AllKinds
  <1>3. /\ NoReq.pc = "idle" /\ NoReq.kind = "plain" /\ NoReq.sent = 0
        /\ NoReq.ck = Keep /\ NoReq.tok = NoTok
    BY DEF NoReq
  <1> QED BY <1>2, <1>3, EmptyValues DEF CallsOf, CallOK, FreshCall, ChangeOnWay, Proof

\* The state is of the type the invariant says.
LEMMA RecordFacts ==
    /\ \A c \in Cookies : c.sid \in Names /\ c.age \in 0..2
    /\ \A k \in Toks : k.sid \in Names /\ k.ver \in Versions /\ k.auth \in Versions
                       /\ k.live \in BOOLEAN
  BY DEF Cookies, Toks, Names, Versions

LEMMA CallFacts ==
    ASSUME NEW q \in ReqRec
    PROVE  /\ q.pc \in {"idle", "sent", "changing", "replied", "await"} /\ q.kind \in AllKinds
           /\ q.tok \in Toks /\ q.ck \in Cookies /\ q.sent \in 0..2
           /\ q.rep \in {"none", "ok", "mismatch", "401", "fail"}
           /\ q.retried \in BOOLEAN /\ q.orphan \in BOOLEAN
  BY DEF ReqRec

LEMMA RefreshFacts ==
    ASSUME NEW f \in RfRec
    PROVE  /\ f.pc \in {"none", "queued", "sent", "replied"} /\ f.tok \in Toks
           /\ f.ck \in Cookies /\ f.sid \in Names
           /\ f.rep \in {"none", "ok", "mismatch", "401", "fail", "odd"}
           /\ f.cur \in BOOLEAN /\ f.retry \in BOOLEAN
  BY DEF RfRec

\* What a step that neither logs in nor changes security does to a call.
Calm(q, q2) ==
  /\ FreshCall(q2) => FreshCall(q) /\ q2.tok = q.tok /\ q2.ck = q.ck
  /\ ChangeOnWay(q2) => ChangeOnWay(q)
  /\ q2.pc = "changing" => q.pc = "changing" /\ q2.tok = q.tok

LEMMA SameCall == \A q : Calm(q, q)
  BY DEF Calm

LEMMA DroppedCall == \A q : Calm(q, NoReq)
  BY EmptyCall, NamesFacts DEF Calm

\* A rotation changes the age of a cookie, never whose it is.
LEMMA OlderFacts ==
    ASSUME NEW G, NEW c \in CookiesOf(G), NEW s, NEW v
    PROVE  /\ Older(c, s, v) \in CookiesOf(G) /\ Older(c, s, v).sid = c.sid
           /\ v # "rotate" \/ c.sid # s => Older(c, s, v) = c
  <1>1. c \in Cookies /\ c.sid \in Names /\ c.age \in 0..2 /\ c.sid \in G
    BY RecordFacts DEF CookiesOf
  <1>2. CASE v = "rotate" /\ c.sid = s /\ c.age < 2
    <2> DEFINE d == [c EXCEPT !.age = @ + 1]
    <2>1. Older(c, s, v) = d
      BY <1>2 DEF Older
    <2>2. d \in Cookies /\ d.sid = c.sid
      BY <1>1, <1>2 DEF Cookies, Names
    <2> HIDE DEF d
    <2> QED BY <1>1, <1>2, <2>1, <2>2 DEF CookiesOf
  <1>3. CASE ~(v = "rotate" /\ c.sid = s /\ c.age < 2)
    BY <1>3 DEF Older
  <1> QED BY <1>2, <1>3

LEMMA OlderEmpty ==
    ASSUME NEW s, NEW v, v = "rotate" => s # NoSid
    PROVE  Older(Keep, s, v) = Keep /\ Older(NoCookie, s, v) = NoCookie
  BY EmptyValues, NamesFacts, OlderFacts

LEMMA OlderCall ==
    ASSUME NEW G, NoSid \in G, NEW q \in CallsOf(G), NEW s, NEW v, v = "rotate" => s # NoSid,
           FreshCall(q) => q.ck.sid # s
    PROVE  /\ [q EXCEPT !.ck = Older(@, s, v)] \in CallsOf(G)
           /\ Calm(q, [q EXCEPT !.ck = Older(@, s, v)])
  <1> DEFINE q2 == [q EXCEPT !.ck = Older(@, s, v)]
  <1>1. q \in ReqRec /\ CallOK(q) /\ q.ck \in CookiesOf(Names)
    BY CallFacts, RecordFacts DEF CallsOf, CookiesOf
  <1>2. Older(q.ck, s, v) \in Cookies
    BY <1>1, OlderFacts DEF CookiesOf
  <1>3. /\ q2 \in ReqRec /\ q2.pc = q.pc /\ q2.kind = q.kind /\ q2.tok = q.tok
        /\ q2.rep = q.rep /\ q2.retried = q.retried /\ q2.sent = q.sent
        /\ q2.ck = Older(q.ck, s, v)
    BY <1>1, <1>2 DEF ReqRec
  <1> HIDE DEF q2
  <1>4. FreshCall(q) => q2.ck = q.ck
    BY <1>1, <1>3, OlderFacts
  <1>5. q.ck \in {Keep, NoCookie} => q2.ck = q.ck
    BY <1>3, OlderEmpty
  <1>6. (FreshCall(q2) <=> FreshCall(q)) /\ (ChangeOnWay(q2) <=> ChangeOnWay(q))
    BY <1>3 DEF FreshCall, ChangeOnWay
  <1>7. CallOK(q2)
    BY <1>1, <1>3, <1>5, <1>6 DEF CallOK
  <1>8. ~FreshCall(q2) => q2.ck \in CookiesOf(G) /\ q2.tok \in ToksOf(G)
    BY <1>3, <1>6, OlderFacts DEF CallsOf
  <1>9. q2 \in CallsOf(G) /\ Calm(q, q2)
    BY <1>3, <1>4, <1>6, <1>7, <1>8 DEF CallsOf, Calm
  <1> QED BY <1>9 DEF q2

LEMMA OlderRefresh ==
    ASSUME NEW G, NEW f \in RefreshesOf(G), NEW s, NEW v, v = "rotate" => s # NoSid
    PROVE  LET f2 == [f EXCEPT !.ck = Older(@, s, v)]
           IN  /\ f2 \in RefreshesOf(G) /\ f2.pc = f.pc /\ f2.rep = f.rep /\ f2.cur = f.cur
               /\ f2.tok = f.tok /\ f2.ck = Older(f.ck, s, v)
  <1> DEFINE f2 == [f EXCEPT !.ck = Older(@, s, v)]
  <1>1. f \in RfRec /\ RefreshOK(f) /\ f.ck \in CookiesOf(G) /\ f.tok \in ToksOf(G)
    BY DEF RefreshesOf
  <1>2. Older(f.ck, s, v) \in Cookies /\ Older(f.ck, s, v) \in CookiesOf(G)
    BY <1>1, OlderFacts DEF CookiesOf
  <1>3. /\ f2 \in RfRec /\ f2.pc = f.pc /\ f2.rep = f.rep /\ f2.cur = f.cur
        /\ f2.tok = f.tok /\ f2.ck = Older(f.ck, s, v)
    BY <1>1, <1>2 DEF RfRec
  <1> HIDE DEF f2
  <1>4. f.ck \in {Keep, NoCookie} => f2.ck = f.ck
    BY <1>3, OlderEmpty
  <1>5. RefreshOK(f2)
    BY <1>1, <1>3, <1>4 DEF RefreshOK
  <1>6. f2 \in RefreshesOf(G)
    BY <1>1, <1>2, <1>3, <1>5 DEF RefreshesOf
  <1> QED BY <1>3, <1>6 DEF f2

\* A call goes out, for the first time or again.
LEMMA SentCall ==
    ASSUME NEW G, NoSid \in G, NEW q \in CallsOf(G), NEW tok \in ToksOf(G), NEW ck \in CookiesOf(G),
           q.kind = "logout" => tok.sid # NoSid,
           \/ q.pc = "await"
           \/ q.pc = "idle" /\ ~q.retried
    PROVE  /\ SentWith(q, tok, ck) \in CallsOf(G)
           /\ ~FreshCall(SentWith(q, tok, ck)) /\ SentWith(q, tok, ck).pc = "sent"
           /\ SentWith(q, tok, ck).kind = q.kind
  <1> DEFINE c2 == IF q.kind = "logout" THEN ck ELSE Keep
             q2 == [q EXCEPT !.pc = "sent", !.tok = tok, !.sent = @ + 1, !.ck = c2]
  <1>1. /\ q \in ReqRec /\ CallOK(q) /\ tok \in Toks /\ c2 \in CookiesOf(G) /\ c2 \in Cookies
        /\ q.kind # "logout" => c2 = Keep
    BY EmptyValues DEF CallsOf, ToksOf, CookiesOf
  <1>2. q.retried \in BOOLEAN /\ q.sent \in 0..2
    BY <1>1, CallFacts
  <1>3. q.sent + 1 = IF q.retried THEN 2 ELSE 1
    BY <1>1, <1>2 DEF CallOK
  <1> HIDE DEF c2
  <1>4. /\ q2.pc = "sent" /\ q2.tok = tok /\ q2.ck = c2 /\ q2.kind = q.kind
        /\ q2.retried = q.retried /\ q2.rep = q.rep /\ q2.sent = q.sent + 1
    BY <1>1 DEF ReqRec
  <1>5. q.sent + 1 \in 0..2
    BY <1>2, <1>3
  <1>6. q2 \in ReqRec
    BY <1>1, <1>5 DEF ReqRec
  <1>7. SentWith(q, tok, ck) = q2
    BY DEF SentWith, c2
  <1> HIDE DEF q2
  <1>8. CallOK(q2)
    BY <1>1, <1>3, <1>4 DEF CallOK
  <1>9. ~FreshCall(q2)
    BY <1>4 DEF FreshCall
  <1> QED BY <1>1, <1>4, <1>6, <1>7, <1>8, <1>9 DEF CallsOf

\* A call that waited for the refresh goes on.
LEMMA ResumedCall ==
    ASSUME NEW G, NoSid \in G, NEW q \in CallsOf(G), NEW tok \in ToksOf(G), NEW ck \in CookiesOf(G),
           NEW o, o = "authenticated" => tok.sid # NoSid
    PROVE  Resumed(q, o, tok, ck) \in CallsOf(G) /\ Calm(q, Resumed(q, o, tok, ck))
  <1>1. CASE q.pc # "await"
    BY <1>1, SameCall DEF Resumed
  <1>2. CASE /\ q.pc = "await"
             /\ o = "authenticated" \/ (q.kind \in {"once", "security"} /\ tok.live)
    <2>1. Resumed(q, o, tok, ck) = SentWith(q, tok, ck)
      BY <1>2 DEF Resumed
    <2>2. q.kind = "logout" => tok.sid # NoSid
      BY <1>2
    <2> QED BY <1>2, <2>1, <2>2, SentCall DEF Calm, ChangeOnWay
  <1>3. CASE /\ q.pc = "await"
             /\ ~(o = "authenticated" \/ (q.kind \in {"once", "security"} /\ tok.live))
    BY <1>3, EmptyCall, DroppedCall DEF Resumed
  <1> QED BY <1>1, <1>2, <1>3

-----------------------------------------------------------------------------
(* Pages.                                                                  *)

\* The browser names the sessions in G and no others.
On(G) == NoSid \in G /\ G \subseteq Names /\ Fits(G)

\* What a step does to a tab that does not sign out of a session: it can come
\* to hold, now or by the answer it waits for, what it held or waited for
\* before, or what it has not signed out of.
TabCalm(t) ==
  /\ out'[t] = out[t]
  /\ SidOf(t)' \in {NoSid, SidOf(t)} \/ SidOf(t)' \notin out[t]
  /\ Answered(t)' /\ rf'[t].cur => \/ Answered(t) /\ rf[t].cur /\ rf'[t].tok = rf[t].tok
                                   \/ rf'[t].tok.sid \notin out[t]

LEMMA Parts ==
    ASSUME NEW G, On(G)
    PROVE  /\ NoSid \in G /\ G \subseteq Names
           /\ cookie \in CookiesOf(G)
           /\ tab \in [Tabs -> TabsOf(G)] /\ rf \in [Tabs -> RefreshesOf(G)]
           /\ req \in [Reqs -> CallsOf(G)] /\ events \in [Tabs -> Seq(EventRec)]
           /\ orphans \subseteq [ck : CookiesOf(G), sid : Names]
  BY DEF On, Fits

LEMMA TabParts ==
    ASSUME NEW G, On(G), NEW t \in Tabs
    PROVE  /\ tab[t] \in TabsOf(G) /\ tab[t] \in TabRec /\ tab[t].tok \in ToksOf(G) /\ tab[t].tok \in Toks
           /\ SidOf(t) \in G /\ SidOf(t) \in Names
           /\ rf[t] \in RefreshesOf(G) /\ rf[t] \in RfRec /\ RefreshOK(rf[t])
           /\ rf[t].ck \in CookiesOf(G) /\ rf[t].tok \in ToksOf(G) /\ rf[t].ck.sid \in G
           /\ rf[t].tok.sid \in G
           /\ out[t] \subseteq G /\ out[t] \subseteq Sids /\ NoSid \notin out[t]
  <1>1. tab[t] \in TabsOf(G) /\ rf[t] \in RefreshesOf(G) /\ out[t] \subseteq G \ {NoSid}
    BY DEF On, Fits
  <1>2. G \ {NoSid} \subseteq Sids
    BY DEF On, Names
  <1>3. tab[t] \in TabRec /\ tab[t].tok \in ToksOf(G) /\ tab[t].tok \in Toks /\ tab[t].tok.sid \in G
    BY <1>1 DEF TabsOf, ToksOf
  <1>4. /\ rf[t] \in RfRec /\ RefreshOK(rf[t]) /\ rf[t].ck \in CookiesOf(G) /\ rf[t].ck.sid \in G
        /\ rf[t].tok \in ToksOf(G) /\ rf[t].tok.sid \in G
    BY <1>1 DEF RefreshesOf, CookiesOf, ToksOf
  <1> QED BY <1>1, <1>2, <1>3, <1>4 DEF On, SidOf

LEMMA CallParts ==
    ASSUME NEW G, On(G), NEW r \in Reqs
    PROVE  /\ req[r] \in CallsOf(G) /\ req[r] \in ReqRec /\ CallOK(req[r])
           /\ TabOf(r) \in Tabs
           /\ ~Fresh(r) => req[r].ck \in CookiesOf(G) /\ req[r].tok \in ToksOf(G)
  BY DEF On, Fits, CallsOf, Reqs, TabOf, Fresh

LEMMA SignedInTab ==
    ASSUME NEW G, NEW tok \in ToksOf(G)
    PROVE  SignedIn(tok) \in TabsOf(G) /\ SignedIn(tok).tok = tok
  <1>1. tok \in Toks
    BY DEF ToksOf
  <1>2. SignedIn(tok) \in TabRec /\ SignedIn(tok).tok = tok
    BY <1>1 DEF SignedIn, TabRec
  <1> QED BY <1>2 DEF TabsOf

LEMMA SignedOutTab ==
    ASSUME NEW G, NoSid \in G, NEW b \in {"idle", "checking", "complete"}
    PROVE  SignedOut(b) \in TabsOf(G) /\ SignedOut(b).tok = NoTok
  <1>1. NoTok \in Toks
    BY EmptyValues DEF ToksOf
  <1>2. SignedOut(b) \in TabRec /\ SignedOut(b).tok = NoTok
    BY <1>1 DEF SignedOut, TabRec
  <1> QED BY <1>2, EmptyValues DEF TabsOf

LEMMA AskedTab ==
    ASSUME NEW G, NEW x \in TabsOf(G)
    PROVE  [x EXCEPT !.asked = TRUE] \in TabsOf(G) /\ [x EXCEPT !.asked = TRUE].tok = x.tok
  <1> DEFINE y == [x EXCEPT !.asked = TRUE]
  <1>1. x \in TabRec /\ x.tok \in ToksOf(G)
    BY DEF TabsOf
  <1>2. y \in TabRec /\ y.tok = x.tok
    BY <1>1 DEF TabRec
  <1> HIDE DEF y
  <1>3. y \in TabsOf(G) /\ y.tok = x.tok
    BY <1>1, <1>2 DEF TabsOf
  <1> QED BY <1>3 DEF y

LEMMA BootTab ==
    ASSUME NEW G, NEW x \in TabsOf(G), NEW b \in {"idle", "checking", "complete"}
    PROVE  [x EXCEPT !.boot = b] \in TabsOf(G) /\ [x EXCEPT !.boot = b].tok = x.tok
  <1> DEFINE y == [x EXCEPT !.boot = b]
  <1>1. x \in TabRec /\ x.tok \in ToksOf(G)
    BY DEF TabsOf
  <1>2. y \in TabRec /\ y.tok = x.tok
    BY <1>1 DEF TabRec
  <1> HIDE DEF y
  <1>3. y \in TabsOf(G) /\ y.tok = x.tok
    BY <1>1, <1>2 DEF TabsOf
  <1> QED BY <1>3 DEF y

LEMMA PublishedEvents ==
    ASSUME NEW G, On(G), NEW t \in Tabs, NEW k \in {"authenticated", "signed_out"}, NEW s \in Names
    PROVE  Published(k, s, t) \in [Tabs -> Seq(EventRec)]
  <1> SUFFICES ASSUME NEW u \in Tabs
               PROVE  (IF u = t \/ s = NoSid THEN events[u]
                       ELSE Append(events[u], [kind |-> k, sid |-> s])) \in Seq(EventRec)
    BY DEF Published
  <1>1. events[u] \in Seq(EventRec)
    BY Parts
  <1>2. s # NoSid => [kind |-> k, sid |-> s] \in EventRec
    BY DEF EventRec, Names
  <1> QED BY <1>1, <1>2

\* A superseded refresh differs in one bit.
LEMMA BumpedRefresh ==
    ASSUME NEW G, On(G), NEW t \in Tabs
    PROVE  /\ Bumped(t) \in [Tabs -> RefreshesOf(G)]
           /\ \A u \in Tabs : /\ Bumped(t)[u].pc = rf[u].pc /\ Bumped(t)[u].rep = rf[u].rep
                              /\ Bumped(t)[u].ck = rf[u].ck /\ Bumped(t)[u].tok = rf[u].tok
                              /\ u # t => Bumped(t)[u] = rf[u]
           /\ ~Bumped(t)[t].cur
  <1>1. rf[t] \in RfRec /\ RefreshOK(rf[t]) /\ rf[t].ck \in CookiesOf(G) /\ rf[t].tok \in ToksOf(G)
    BY TabParts
  <1> DEFINE f == [rf[t] EXCEPT !.cur = FALSE]
  <1>2. /\ f.pc = rf[t].pc /\ f.rep = rf[t].rep /\ f.ck = rf[t].ck /\ f.tok = rf[t].tok
        /\ f.cur = FALSE
    BY <1>1 DEF RfRec
  <1>3. f \in RfRec
    BY <1>1 DEF RfRec
  <1>4. rf \in [Tabs -> RefreshesOf(G)] /\ Bumped(t) = [rf EXCEPT ![t] = f]
    BY Parts DEF Bumped
  <1> HIDE DEF f
  <1>5. f \in RefreshesOf(G)
    BY <1>1, <1>2, <1>3 DEF RefreshesOf, RefreshOK
  <1>6. Bumped(t)[t] = f /\ \A u \in Tabs : u # t => Bumped(t)[u] = rf[u]
    BY <1>4
  <1> QED BY <1>2, <1>4, <1>5, <1>6

\* A refresh starts, unless the tab has one.
LEMMA StartedRefresh ==
    ASSUME NEW G, On(G), NEW t \in Tabs
    PROVE  /\ Started(t) \in [Tabs -> RefreshesOf(G)]
           /\ \A u \in Tabs : u # t => Started(t)[u] = rf[u]
           /\ \/ Started(t) = rf
              \/ /\ rf[t].pc = "none" /\ Started(t)[t].pc = IF Locks THEN "queued" ELSE "sent"
  <1>1. CASE rf[t].pc # "none"
    BY <1>1, Parts DEF Started
  <1>2. CASE rf[t].pc = "none"
    <2> DEFINE s == IF Locks THEN NoSid ELSE SidOf(t)
               c == IF Locks THEN Keep ELSE cookie
               p == IF Locks THEN "queued" ELSE "sent"
               f == [NoRefresh EXCEPT !.pc = p, !.cur = TRUE, !.retry = TRUE, !.sid = s, !.ck = c]
    <2>1. NoRefresh \in RfRec /\ NoRefresh.tok \in ToksOf(G)
      BY EmptyRefresh, Parts DEF RefreshesOf
    <2>2. s \in Names /\ c \in CookiesOf(G) /\ c \in Cookies /\ p \in {"queued", "sent"}
      BY TabParts, Parts, EmptyValues, NamesFacts DEF CookiesOf
    <2>3. Started(t) = [rf EXCEPT ![t] = f] /\ p = IF Locks THEN "queued" ELSE "sent"
      BY <1>2 DEF Started
    <2> HIDE DEF s, c, p
    <2>4. f \in RfRec /\ f.pc = p /\ f.ck = c /\ f.tok = NoRefresh.tok
      BY <2>1, <2>2 DEF RfRec
    <2> HIDE DEF f
    <2>5. f \in RefreshesOf(G)
      BY <2>1, <2>2, <2>4 DEF RefreshesOf, RefreshOK
    <2> QED BY <1>2, <2>3, <2>4, <2>5, Parts
  <1> QED BY <1>1, <1>2

\* The calls of a replaced page go, or go on without it.
LEMMA GoneCalls ==
    ASSUME NEW G, On(G), NEW t \in Tabs
    PROVE  Gone(t) \in [Reqs -> CallsOf(G)] /\ \A r \in Reqs : Calm(req[r], Gone(t)[r])
  <1> SUFFICES ASSUME NEW r \in Reqs
               PROVE  Gone(t)[r] \in CallsOf(G) /\ Calm(req[r], Gone(t)[r])
    BY DEF Gone
  <1>1. req[r] \in CallsOf(G) /\ req[r] \in ReqRec /\ CallOK(req[r])
    BY CallParts
  <1>2. CASE TabOf(r) # t
    BY <1>1, <1>2, SameCall DEF Gone
  <1>3. CASE TabOf(r) = t /\ req[r].pc \in {"sent", "changing"}
    <2> DEFINE q2 == [req[r] EXCEPT !.orphan = TRUE]
    <2>1. /\ q2.pc = req[r].pc /\ q2.kind = req[r].kind /\ q2.tok = req[r].tok
          /\ q2.ck = req[r].ck /\ q2.rep = req[r].rep /\ q2.retried = req[r].retried
          /\ q2.sent = req[r].sent
      BY <1>1 DEF ReqRec
    <2>2. q2 \in ReqRec
      BY <1>1 DEF ReqRec
    <2>3. Gone(t)[r] = q2
      BY <1>3 DEF Gone
    <2> HIDE DEF q2
    <2>4. CallOK(q2) /\ (FreshCall(q2) <=> FreshCall(req[r]))
            /\ (ChangeOnWay(q2) <=> ChangeOnWay(req[r]))
      BY <1>1, <2>1 DEF CallOK, FreshCall, ChangeOnWay
    <2> QED BY <1>1, <2>1, <2>2, <2>3, <2>4 DEF CallsOf, Calm
  <1>4. CASE TabOf(r) = t /\ req[r].pc \notin {"sent", "changing"}
    BY <1>4, EmptyCall, DroppedCall, Parts DEF Gone
  <1> QED BY <1>2, <1>3, <1>4

LEMMA Reloaded ==
    ASSUME NEW G, On(G), NEW t \in Tabs, NEW ev \in [Tabs -> Seq(EventRec)], Reload(t, ev),
           cookie' \in CookiesOf(G), faults' = faults, out' = out
    PROVE  /\ Fits(G)' /\ (\A r \in Reqs : Calm(req[r], req'[r]))
           /\ \A u \in Tabs : TabCalm(u)
  <1>1. req' \in [Reqs -> CallsOf(G)] /\ \A r \in Reqs : Calm(req[r], req'[r])
    BY GoneCalls DEF Reload
  <1>2. tab' \in [Tabs -> TabsOf(G)] /\ tab'[t].tok = NoTok /\ \A u \in Tabs : u # t => tab'[u] = tab[u]
    BY Parts, EmptyPage DEF Reload
  <1>3. rf' \in [Tabs -> RefreshesOf(G)] /\ rf'[t].pc = "none" /\ \A u \in Tabs : u # t => rf'[u] = rf[u]
    BY Parts, EmptyRefresh DEF Reload
  <1>4. events' \in [Tabs -> Seq(EventRec)]
    BY DEF Reload
  <1>5. orphans' \subseteq [ck : CookiesOf(G), sid : Names]
    <2>1. rf[t].ck \in CookiesOf(G) /\ rf[t].sid \in Names
      BY TabParts, RefreshFacts
    <2> QED BY <2>1, Parts DEF Reload
  <1>6. lost' \in BOOLEAN /\ faults' \in 0..MaxFaults /\ out' \in [Tabs -> SUBSET (G \ {NoSid})]
    BY DEF Reload, On, Fits
  <1>7. Fits(G)'
    BY <1>1, <1>2, <1>3, <1>4, <1>5, <1>6 DEF Fits
  <1>8. ASSUME NEW u \in Tabs PROVE TabCalm(u)
    BY <1>2, <1>3, EmptyValues, Parts DEF TabCalm, SidOf, Answered
  <1> QED BY <1>1, <1>7, <1>8

LEMMA Settled ==
    ASSUME NEW G, On(G), NEW t \in Tabs, NEW ev \in [Tabs -> Seq(EventRec)], NEW o,
           NEW st \in TabsOf(G), NEW ck \in CookiesOf(G), Settle(t, o, st, ck, ev),
           o = "authenticated" => st.tok.sid # NoSid,
           st.tok.sid \in {NoSid, SidOf(t)} \/ st.tok.sid \notin out[t],
           cookie' \in CookiesOf(G), faults' = faults, out' = out
    PROVE  /\ Fits(G)' /\ (\A r \in Reqs : Calm(req[r], req'[r]))
           /\ \A u \in Tabs : TabCalm(u)
  <1>1. CASE Reload(t, ev)
    BY <1>1, Reloaded
  <1>2. CASE ~Reload(t, ev)
    <2>1. /\ tab' = [tab EXCEPT ![t] = [st EXCEPT !.asked = TRUE]]
          /\ rf' = [rf EXCEPT ![t] = NoRefresh]
          /\ req' = [r \in Reqs |-> IF TabOf(r) = t THEN Resumed(req[r], o, st.tok, ck) ELSE req[r]]
          /\ events' = ev /\ orphans' = orphans /\ lost' = lost
      BY <1>2 DEF Settle
    <2>2. st.tok \in ToksOf(G)
      BY DEF TabsOf
    <2>3. ASSUME NEW r \in Reqs
          PROVE  req'[r] \in CallsOf(G) /\ Calm(req[r], req'[r])
      BY <2>1, <2>2, CallParts, Parts, ResumedCall, SameCall
    <2>4. req' \in [Reqs -> CallsOf(G)]
      BY <2>1, <2>3
    <2> DEFINE y == [st EXCEPT !.asked = TRUE]
    <2>5. y \in TabsOf(G) /\ y.tok = st.tok /\ tab' = [tab EXCEPT ![t] = y]
      BY <2>1, AskedTab
    <2> HIDE DEF y
    <2>6. /\ tab' \in [Tabs -> TabsOf(G)] /\ tab'[t].tok = st.tok
          /\ \A u \in Tabs : u # t => tab'[u] = tab[u]
      BY <2>5, Parts
    <2>7. /\ rf' \in [Tabs -> RefreshesOf(G)] /\ rf'[t].pc = "none"
          /\ \A u \in Tabs : u # t => rf'[u] = rf[u]
      BY <2>1, Parts, EmptyRefresh
    <2>8. Fits(G)'
      BY <2>1, <2>4, <2>6, <2>7 DEF Fits, On
    <2>9. ASSUME NEW u \in Tabs PROVE TabCalm(u)
      BY <2>6, <2>7 DEF TabCalm, SidOf, Answered
    <2> QED BY <2>3, <2>8, <2>9
  <1> QED BY <1>1, <1>2

-----------------------------------------------------------------------------
(* Steps.                                                                  *)

LEMMA KnownFits == ASSUME Inv PROVE On(Known)
  BY DEF Inv, On, Known, Names

\* The more names, the more values; after a step and before it.
LEMMA FitsMore ==
    ASSUME NEW G, NEW H, G \subseteq H, Fits(G)' PROVE Fits(H)'
  <1>1. CookiesOf(G) \subseteq CookiesOf(H) /\ ToksOf(G) \subseteq ToksOf(H)
    BY DEF CookiesOf, ToksOf
  <1>2. /\ TabsOf(G) \subseteq TabsOf(H) /\ RefreshesOf(G) \subseteq RefreshesOf(H)
        /\ CallsOf(G) \subseteq CallsOf(H)
    BY <1>1 DEF TabsOf, RefreshesOf, CallsOf
  <1>3. /\ cookie' \in CookiesOf(H) /\ tab' \in [Tabs -> TabsOf(H)]
        /\ rf' \in [Tabs -> RefreshesOf(H)] /\ req' \in [Reqs -> CallsOf(H)]
    BY <1>1, <1>2 DEF Fits
  <1>4. orphans' \subseteq [ck : CookiesOf(H), sid : Names]
    BY <1>1 DEF Fits
  <1>5. out' \in [Tabs -> SUBSET (H \ {NoSid})]
    BY DEF Fits
  <1> QED BY <1>3, <1>4, <1>5 DEF Fits

LEMMA FitsGrow ==
    ASSUME NEW G, NEW H, G \subseteq H, Fits(G) PROVE Fits(H)
  <1>1. CookiesOf(G) \subseteq CookiesOf(H) /\ ToksOf(G) \subseteq ToksOf(H)
    BY DEF CookiesOf, ToksOf
  <1>2. /\ TabsOf(G) \subseteq TabsOf(H) /\ RefreshesOf(G) \subseteq RefreshesOf(H)
        /\ CallsOf(G) \subseteq CallsOf(H)
    BY <1>1 DEF TabsOf, RefreshesOf, CallsOf
  <1>3. /\ cookie \in CookiesOf(H) /\ tab \in [Tabs -> TabsOf(H)]
        /\ rf \in [Tabs -> RefreshesOf(H)] /\ req \in [Reqs -> CallsOf(H)]
    BY <1>1, <1>2 DEF Fits
  <1>4. orphans \subseteq [ck : CookiesOf(H), sid : Names]
    BY <1>1 DEF Fits
  <1>5. out \in [Tabs -> SUBSET (H \ {NoSid})]
    BY DEF Fits
  <1> QED BY <1>3, <1>4, <1>5 DEF Fits

Revoked(s) == sess[s].st \notin {"none", "active"}
\* What a step may do to the sessions.
SessionCalm(s) ==
  /\ sess[s].st # "none" => sess'[s].st # "none"
  /\ Revoked(s) => Revoked(s)'

LEMMA OutKept ==
    ASSUME NEW G, On(G), NEW t \in Tabs, OutOK(t), TabCalm(t), \A s \in Sids : SessionCalm(s)
    PROVE  OutOK(t)'
  <1>1. out[t] \subseteq Sids /\ NoSid \notin out[t]
    BY TabParts
  <1>2. \A s \in out'[t] : sess'[s].st \notin {"none", "active"}
    BY <1>1 DEF OutOK, TabCalm, SessionCalm, Revoked
  <1>3. SidOf(t)' \notin out'[t]
    BY <1>1 DEF OutOK, TabCalm
  <1>4. Answered(t)' /\ rf'[t].cur => rf'[t].tok.sid \notin out'[t]
    BY DEF OutOK, TabCalm
  <1> QED BY <1>2, <1>3, <1>4 DEF OutOK

LEMMA ReqsFinite == IsFiniteSet(Reqs)
  <1>1. IsFiniteSet(Tabs) /\ Calls \in Nat
    BY ConstantsAssumption
  <1>2. IsFiniteSet(1..Calls)
    BY <1>1, FS_Interval
  <1> QED BY <1>1, <1>2, FS_Product DEF Reqs

LEMMA ChangesFinite ==
    IsFiniteSet(Changes) /\ Cardinality(Changes) \in Nat
  <1>1. Changes \subseteq Reqs
    BY DEF Changes
  <1> QED BY <1>1, ReqsFinite, FS_Subset, FS_CardinalityType

\* The invariant after a step, from its parts.
LEMMA Assemble ==
    ASSUME NEW G, G \subseteq Known', Fits(G)',
           sess' \in [Sids -> SessRec], userAuth' \in 1..(MaxChanges + 1),
           \A s \in Sids : SessionOK(s)', \A r \in Reqs : Secret(r)', Room',
           \A t \in Tabs : OutOK(t)'
    PROVE  Inv'
  <1>1. Fits(Known)'
    <2>1. PICK H : H = Known'
      OBVIOUS
    <2>2. Fits(H)'
      BY <2>1, FitsMore
    <2> QED BY <2>1, <2>2 DEF Fits
  <1> QED BY <1>1 DEF Inv

\* A step that neither starts a login's session nor a security change, and
\* that names only sessions known after it.
LEMMA CalmStepWith ==
    ASSUME Inv, NEW G, G \subseteq Known', Fits(G)',
           \A r \in Reqs : Calm(req[r], req'[r]),
           sess' \in [Sids -> SessRec], userAuth' = userAuth,
           \A s \in Sids : SessionCalm(s) /\ SessionOK(s)',
           \A t \in Tabs : OutOK(t)'
    PROVE  Inv'
  <1>1. \A r \in Reqs : Fresh(r)' => Fresh(r) /\ req'[r].tok = req[r].tok /\ req'[r].ck = req[r].ck
    BY DEF Calm, Fresh
  <1>4. ASSUME NEW r \in Reqs PROVE Secret(r)'
    <2>1. Secret(r)
      BY DEF Inv
    <2> QED BY <1>1, <2>1 DEF Secret, SessionCalm
  <1>5. Room'
    <2>1. Changes' \subseteq Changes
      BY DEF Changes, Calm
    <2>2. Cardinality(Changes') <= Cardinality(Changes) /\ Cardinality(Changes') \in Nat
      BY <2>1, ChangesFinite, FS_Subset, FS_CardinalityType
    <2>3. userAuth + Cardinality(Changes') <= MaxChanges + 1
      BY <2>2, ChangesFinite, VersionFacts DEF Inv, Room
    <2>4. \A r \in Reqs : req'[r].pc = "changing" => req'[r].tok.auth < userAuth
      BY DEF Calm, Inv, Room
    <2> QED BY <2>3, <2>4 DEF Room
  <1> QED BY <1>4, <1>5, Assemble DEF Inv

LEMMA CalmStep ==
    ASSUME Inv, NEW G, G = Known, Fits(G)',
           \A r \in Reqs : Calm(req[r], req'[r]),
           sess' \in [Sids -> SessRec], userAuth' = userAuth,
           \A s \in Sids : SessionCalm(s) /\ SessionOK(s)',
           \A t \in Tabs : OutOK(t)'
    PROVE  Inv'
  <1>1. \A r \in Reqs : Fresh(r)' => Fresh(r) /\ req'[r].tok = req[r].tok
    BY DEF Calm, Fresh
  <1>2. G \subseteq Known'
    BY <1>1 DEF Known, SessionCalm
  <1> QED BY <1>2, CalmStepWith

\* A step of the browser.
LEMMA BrowserStep ==
    ASSUME Inv, NEW G, G = Known, Fits(G)',
           \A r \in Reqs : Calm(req[r], req'[r]),
           sess' = sess, userAuth' = userAuth, \A t \in Tabs : TabCalm(t)
    PROVE  Inv'
  <1>1. \A s \in Sids : SessionCalm(s) /\ SessionOK(s)'
    BY DEF SessionCalm, Revoked, SessionOK, Inv
  <1>2. \A t \in Tabs : OutOK(t)'
    BY <1>1, KnownFits, OutKept DEF Inv
  <1> QED BY <1>1, <1>2, CalmStep DEF Inv

LEMMA StoredFits ==
    ASSUME NEW G, On(G), NEW c \in CookiesOf(G) PROVE StoredCookie(c) \in CookiesOf(G)
  BY Parts DEF StoredCookie

\* A tab whose session and refresh stay as they are.
LEMMA SameTab ==
    ASSUME NEW t \in Tabs, tab'[t].tok.sid \in {NoSid, SidOf(t)}, out' = out,
           \/ rf'[t] = rf[t]
           \/ rf'[t].pc # "replied" \/ ~rf'[t].cur \/ rf'[t].rep # "ok"
    PROVE  TabCalm(t)
  BY DEF TabCalm, SidOf, Answered

\* The lock is granted.
LEMMA RunRefreshKeeps ==
    ASSUME Inv, NEW t \in Tabs, RunRefresh(t) PROVE Inv'
  <1>1. PICK G : G = Known
    OBVIOUS
  <1>2. On(G) /\ sess' = sess /\ userAuth' = userAuth /\ cookie' = cookie /\ out' = out /\ faults' = faults
    BY <1>1, KnownFits DEF RunRefresh
  <1>3. CASE rf[t].cur
    <2>1. /\ rf' = [rf EXCEPT ![t].pc = "sent", ![t].sid = SidOf(t), ![t].ck = cookie]
          /\ tab' = tab /\ req' = req /\ events' = events /\ orphans' = orphans /\ lost' = lost
      BY <1>3 DEF RunRefresh
    <2>2. /\ rf \in [Tabs -> RefreshesOf(G)] /\ rf[t] \in RfRec /\ SidOf(t) \in Names
          /\ cookie \in CookiesOf(G) /\ cookie \in Cookies /\ rf[t].tok \in ToksOf(G)
      BY <1>2, Parts, TabParts DEF CookiesOf
    <2> DEFINE f == [rf[t] EXCEPT !.pc = "sent", !.sid = SidOf(t), !.ck = cookie]
    <2>3. rf' = [rf EXCEPT ![t] = f]
      BY <2>1, <2>2
    <2>4. f \in RfRec /\ f.pc = "sent" /\ f.ck = cookie /\ f.tok = rf[t].tok
      BY <2>2 DEF RfRec
    <2> HIDE DEF f
    <2>5. f \in RefreshesOf(G)
      BY <2>2, <2>4 DEF RefreshesOf, RefreshOK
    <2>6. /\ rf' \in [Tabs -> RefreshesOf(G)] /\ rf'[t].pc = "sent"
          /\ \A u \in Tabs : u # t => rf'[u] = rf[u]
      BY <2>2, <2>3, <2>4, <2>5
    <2>7. Fits(G)'
      BY <1>2, <2>1, <2>6 DEF Fits, On
    <2>8. \A u \in Tabs : TabCalm(u)
      BY <1>2, <2>1, <2>6, SameTab DEF SidOf
    <2> QED BY <1>1, <1>2, <2>1, <2>7, <2>8, SameCall, BrowserStep
  <1>4. CASE ~rf[t].cur
    <2>1. Settle(t, "superseded", tab[t], cookie, events)
      BY <1>4 DEF RunRefresh
    <2>2. /\ tab[t] \in TabsOf(G) /\ events \in [Tabs -> Seq(EventRec)] /\ cookie \in CookiesOf(G)
          /\ tab[t].tok.sid = SidOf(t)
      BY <1>2, TabParts, Parts DEF SidOf
    <2>3. /\ Fits(G)' /\ (\A r \in Reqs : Calm(req[r], req'[r]))
          /\ \A u \in Tabs : TabCalm(u)
      BY <1>2, <2>1, <2>2, Settled
    <2> QED BY <1>1, <1>2, <2>3, BrowserStep
  <1> QED BY <1>3, <1>4

\* The answer to a refresh.
LEMMA RefreshReplyKeeps ==
    ASSUME Inv, NEW t \in Tabs, RefreshReply(t) PROVE Inv'
  <1>1. PICK G : G = Known
    OBVIOUS
  <1>2. On(G) /\ sess' = sess /\ userAuth' = userAuth /\ out' = out /\ faults' = faults
    BY <1>1, KnownFits DEF RefreshReply
  <1>3. PICK ck \in CookiesOf(G) : cookie' = ck /\ ck = StoredCookie(rf[t].ck)
    BY <1>2, TabParts, StoredFits DEF RefreshReply
  <1>4. /\ tab[t] \in TabsOf(G) /\ events \in [Tabs -> Seq(EventRec)]
        /\ tab[t].tok.sid = SidOf(t) /\ SidOf(t) \in Names
        /\ rf[t].pc = "replied" /\ RefreshOK(rf[t]) /\ rf[t].tok \in ToksOf(G) /\ NoSid \in G
    BY <1>2, TabParts, Parts DEF SidOf, RefreshReply
  <1>5. ASSUME NEW o, NEW st \in TabsOf(G), NEW ev \in [Tabs -> Seq(EventRec)],
               Settle(t, o, st, ck, ev),
               o = "authenticated" => st.tok.sid # NoSid,
               st.tok.sid \in {NoSid, SidOf(t)} \/ st.tok.sid \notin out[t]
        PROVE  Inv'
    <2>1. /\ Fits(G)' /\ (\A r \in Reqs : Calm(req[r], req'[r]))
          /\ \A u \in Tabs : TabCalm(u)
      BY <1>2, <1>3, <1>5, Settled
    <2> QED BY <1>1, <1>2, <2>1, BrowserStep
  <1>6. CASE ~Current(t) /\ Settle(t, "superseded", tab[t], ck, events)
    BY <1>4, <1>5, <1>6
  <1>7. CASE Current(t) /\ rf[t].rep = "ok" /\ Settle(t, "authenticated", SignedIn(rf[t].tok), ck, events)
    <2>1. SignedIn(rf[t].tok) \in TabsOf(G) /\ SignedIn(rf[t].tok).tok = rf[t].tok
      BY <1>4, SignedInTab
    <2>2. rf[t].tok.sid # NoSid /\ rf[t].tok.sid \notin out[t]
      BY <1>4, <1>7 DEF RefreshOK, Inv, OutOK, Answered, Current
    <2> QED BY <1>4, <1>5, <1>7, <2>1, <2>2
  <1>8. CASE /\ tab' = [tab EXCEPT ![t] = SignedOut("idle")]
             /\ rf' = [rf EXCEPT ![t] = [NoRefresh EXCEPT !.pc = "sent", !.cur = TRUE, !.ck = ck]]
             /\ UNCHANGED <<req, events, orphans, lost>>
    <2> DEFINE f == [NoRefresh EXCEPT !.pc = "sent", !.cur = TRUE, !.ck = ck]
    <2>1. NoRefresh \in RfRec /\ NoRefresh.tok \in ToksOf(G) /\ ck \in Cookies
      BY <1>4, EmptyRefresh DEF RefreshesOf, CookiesOf
    <2>2. f \in RfRec /\ f.pc = "sent" /\ f.ck = ck /\ f.tok = NoRefresh.tok
      BY <2>1 DEF RfRec
    <2>3. rf' = [rf EXCEPT ![t] = f]
      BY <1>8
    <2> HIDE DEF f
    <2>4. f \in RefreshesOf(G)
      BY <2>1, <2>2 DEF RefreshesOf, RefreshOK
    <2>5. /\ rf' \in [Tabs -> RefreshesOf(G)] /\ rf'[t].pc = "sent"
          /\ \A u \in Tabs : u # t => rf'[u] = rf[u]
      BY <1>2, <2>2, <2>3, <2>4, Parts
    <2>6. /\ tab' \in [Tabs -> TabsOf(G)] /\ tab'[t].tok.sid = NoSid
          /\ \A u \in Tabs : u # t => tab'[u] = tab[u]
      BY <1>2, <1>4, <1>8, SignedOutTab, EmptyValues, Parts
    <2>7. Fits(G)'
      BY <1>2, <1>3, <1>8, <2>5, <2>6 DEF Fits, On
    <2>8. \A u \in Tabs : TabCalm(u)
      BY <1>2, <2>5, <2>6, SameTab DEF SidOf
    <2> QED BY <1>1, <1>2, <1>8, <2>7, <2>8, SameCall, BrowserStep
  <1>9. CASE Settle(t, "anonymous", SignedOut("complete"), ck, Published("signed_out", SidOf(t), t))
    BY <1>2, <1>4, <1>5, <1>9, SignedOutTab, EmptyValues, PublishedEvents
  <1>10. CASE Settle(t, "transient", [tab[t] EXCEPT !.boot = "idle"], ck, events)
    BY <1>4, <1>5, <1>10, BootTab
  <1>11. CASE Settle(t, "out_of_sync", SignedOut("complete"), ck, events)
    BY <1>4, <1>5, <1>11, SignedOutTab, EmptyValues
  <1> QED BY <1>3, <1>6, <1>7, <1>8, <1>9, <1>10, <1>11 DEF RefreshReply

\* An event of another tab.
LEMMA SyncEventKeeps ==
    ASSUME Inv, NEW t \in Tabs, SyncEvent(t) PROVE Inv'
  <1>1. PICK G : G = Known
    OBVIOUS
  <1>2. /\ On(G) /\ sess' = sess /\ userAuth' = userAuth /\ cookie' = cookie /\ out' = out
        /\ faults' = faults /\ cookie \in CookiesOf(G) /\ NoSid \in G
    BY <1>1, KnownFits, Parts DEF SyncEvent
  <1> DEFINE rest == [events EXCEPT ![t] = Tail(@)]
  <1>3. rest \in [Tabs -> Seq(EventRec)]
    BY <1>2, Parts DEF SyncEvent
  <1>4. CASE events' = rest /\ UNCHANGED <<tab, rf, req, orphans, lost>>
    <2>1. Fits(G)'
      BY <1>2, <1>3, <1>4 DEF Fits, On
    <2> QED BY <1>1, <1>2, <1>4, <2>1, SameCall, SameTab, BrowserStep DEF SidOf
  <1>5. CASE Reload(t, rest)
    <2>1. /\ Fits(G)' /\ (\A r \in Reqs : Calm(req[r], req'[r]))
          /\ \A u \in Tabs : TabCalm(u)
      BY <1>2, <1>3, <1>5, Reloaded
    <2> QED BY <1>1, <1>2, <2>1, BrowserStep
  <1>6. CASE /\ tab' = [tab EXCEPT ![t] = SignedOut("complete")] /\ rf' = Bumped(t)
             /\ events' = rest /\ UNCHANGED <<req, orphans, lost>>
    <2>1. /\ tab' \in [Tabs -> TabsOf(G)] /\ tab'[t].tok.sid = NoSid
          /\ \A u \in Tabs : u # t => tab'[u] = tab[u]
      BY <1>2, <1>6, SignedOutTab, EmptyValues, Parts
    <2>2. /\ rf' \in [Tabs -> RefreshesOf(G)] /\ ~rf'[t].cur
          /\ \A u \in Tabs : u # t => rf'[u] = rf[u]
      BY <1>2, <1>6, BumpedRefresh
    <2>3. Fits(G)'
      BY <1>2, <1>3, <1>6, <2>1, <2>2 DEF Fits, On
    <2>4. \A u \in Tabs : TabCalm(u)
      BY <1>2, <2>1, <2>2, SameTab DEF SidOf
    <2> QED BY <1>1, <1>2, <1>6, <2>3, <2>4, SameCall, BrowserStep
  <1> QED BY <1>4, <1>5, <1>6 DEF SyncEvent

\* The route guards, and the expiry of a token.
LEMMA GuardKeeps ==
    ASSUME Inv, NEW t \in Tabs, Guard(t) \/ Expire(t) PROVE Inv'
  <1>1. PICK G : G = Known
    OBVIOUS
  <1>2. /\ On(G) /\ sess' = sess /\ userAuth' = userAuth /\ cookie' = cookie /\ out' = out
        /\ req' = req /\ events' = events /\ orphans' = orphans /\ faults' = faults /\ lost' = lost
    BY <1>1, KnownFits DEF Guard, Expire
  <1>3. /\ tab \in [Tabs -> TabsOf(G)] /\ rf \in [Tabs -> RefreshesOf(G)]
        /\ tab[t] \in TabsOf(G) /\ tab[t] \in TabRec /\ tab[t].tok \in Toks
        /\ SidOf(t) \in G /\ SidOf(t) = tab[t].tok.sid
    BY <1>2, Parts, TabParts DEF SidOf
  <1>4. PICK x \in TabsOf(G) : x.tok.sid = SidOf(t) /\ tab' = [tab EXCEPT ![t] = x]
    <2>1. CASE tab' = [tab EXCEPT ![t].boot = "complete"] \/ tab' = [tab EXCEPT ![t].boot = "checking"]
      <3>1. PICK b \in {"complete", "checking"} : tab' = [tab EXCEPT ![t] = [tab[t] EXCEPT !.boot = b]]
        BY <1>3, <2>1
      <3> QED BY <1>3, <3>1, BootTab
    <2>2. CASE tab' = tab
      BY <1>3, <2>2
    <2>3. CASE tab' = [tab EXCEPT ![t].tok.live = FALSE]
      <3> DEFINE k == [tab[t].tok EXCEPT !.live = FALSE]
                 x == [tab[t] EXCEPT !.tok = k]
      <3>1. k \in Toks /\ k.sid = SidOf(t)
        BY <1>3 DEF Toks
      <3>2. tab' = [tab EXCEPT ![t] = x]
        BY <1>3, <2>3 DEF TabRec
      <3> HIDE DEF k
      <3>3. x \in TabRec /\ x.tok = k
        BY <1>3, <3>1 DEF TabRec
      <3> HIDE DEF x
      <3> QED BY <1>3, <3>1, <3>2, <3>3 DEF TabsOf, ToksOf
    <2> QED BY <2>1, <2>2, <2>3 DEF Guard, Resolve, Expire
  <1>5. /\ tab' \in [Tabs -> TabsOf(G)] /\ tab'[t].tok.sid = SidOf(t)
        /\ \A u \in Tabs : u # t => tab'[u] = tab[u]
    BY <1>3, <1>4
  <1>6. /\ rf' \in [Tabs -> RefreshesOf(G)] /\ (\A u \in Tabs : u # t => rf'[u] = rf[u])
        /\ rf'[t] = rf[t] \/ rf'[t].pc # "replied"
    <2>1. rf' = rf \/ rf' = Started(t)
      BY DEF Guard, Resolve, Expire
    <2>2. CASE rf' = rf
      BY <1>3, <2>2
    <2>3. CASE rf' = Started(t)
      BY <1>2, <2>3, StartedRefresh
    <2> QED BY <2>1, <2>2, <2>3
  <1>7. Fits(G)'
    BY <1>2, <1>5, <1>6 DEF Fits, On
  <1>8. \A u \in Tabs : TabCalm(u)
    BY <1>2, <1>5, <1>6, SameTab DEF SidOf
  <1> QED BY <1>1, <1>2, <1>7, <1>8, SameCall, BrowserStep

\* A refresh or its answer is lost.
LEMMA LoseRefreshKeeps ==
    ASSUME Inv, NEW t \in Tabs, LoseRefresh(t) PROVE Inv'
  <1>1. PICK G : G = Known
    OBVIOUS
  <1>2. /\ On(G) /\ sess' = sess /\ userAuth' = userAuth /\ cookie' = cookie /\ out' = out
        /\ req' = req /\ events' = events /\ orphans' = orphans /\ tab' = tab /\ lost' = TRUE
    BY <1>1, KnownFits DEF LoseRefresh
  <1>3. PICK a \in {"fail", "odd"} :
          rf' = [rf EXCEPT ![t].pc = "replied", ![t].rep = a, ![t].ck = Keep, ![t].tok = NoTok]
    BY DEF LoseRefresh
  <1>4. /\ rf \in [Tabs -> RefreshesOf(G)] /\ rf[t] \in RfRec /\ Keep \in CookiesOf(G)
        /\ Keep \in Cookies /\ NoTok \in ToksOf(G) /\ NoTok \in Toks
    BY <1>2, Parts, TabParts, EmptyValues DEF CookiesOf, ToksOf
  <1> DEFINE f == [rf[t] EXCEPT !.pc = "replied", !.rep = a, !.ck = Keep, !.tok = NoTok]
  <1>5. f \in RfRec /\ f.pc = "replied" /\ f.rep = a /\ f.ck = Keep /\ f.tok = NoTok
    BY <1>4 DEF RfRec
  <1>6. rf' = [rf EXCEPT ![t] = f]
    BY <1>3, <1>4
  <1> HIDE DEF f
  <1>7. f \in RefreshesOf(G)
    BY <1>4, <1>5 DEF RefreshesOf, RefreshOK
  <1>8. /\ rf' \in [Tabs -> RefreshesOf(G)] /\ rf'[t].rep # "ok"
        /\ \A u \in Tabs : u # t => rf'[u] = rf[u]
    BY <1>4, <1>5, <1>6, <1>7
  <1>9. faults' \in 0..MaxFaults
    <2>1. faults \in 0..MaxFaults /\ MaxFaults \in Nat
      BY <1>2, ConstantsAssumption DEF On, Fits
    <2> QED BY <2>1 DEF LoseRefresh
  <1>10. Fits(G)'
    BY <1>2, <1>8, <1>9 DEF Fits, On
  <1>11. \A u \in Tabs : TabCalm(u)
    BY <1>2, <1>8, SameTab DEF SidOf
  <1> QED BY <1>1, <1>2, <1>10, <1>11, SameCall, BrowserStep

\* The browser's side when only calls change.
LEMMA CallStep ==
    ASSUME Inv, NEW G, G = Known, NEW r \in Reqs, NEW q2 \in CallsOf(G), Calm(req[r], q2),
           req' = [req EXCEPT ![r] = q2],
           UNCHANGED <<sess, userAuth, cookie, tab, rf, events, orphans, out, lost>>,
           faults' \in 0..MaxFaults
    PROVE  Inv'
  <1>1. On(G)
    BY KnownFits
  <1>2. req' \in [Reqs -> CallsOf(G)] /\ \A c \in Reqs : Calm(req[c], req'[c])
    BY <1>1, Parts, SameCall
  <1>3. Fits(G)'
    BY <1>1, <1>2 DEF Fits, On
  <1>4. \A t \in Tabs : TabCalm(t)
    BY SameTab DEF SidOf
  <1> QED BY <1>2, <1>3, <1>4, BrowserStep

\* A call is answered without a session in the answer.
LEMMA AnsweredCall ==
    ASSUME NEW G, NoSid \in G, NEW q \in CallsOf(G), q.pc \in {"sent", "changing", "replied"},
           NEW rep \in {"ok", "mismatch", "401", "fail"}, NEW ck \in {Keep, NoCookie},
           NEW tok \in ToksOf(G), q.kind = "logout" /\ rep = "ok" => tok.sid # NoSid,
           ~(q.kind = "login" /\ rep = "ok"),
           NEW q2, q2 = [q EXCEPT !.pc = "replied", !.rep = rep, !.ck = ck, !.tok = tok]
    PROVE  q2 \in CallsOf(G) /\ Calm(q, q2)
  <1>1. q \in ReqRec /\ CallOK(q) /\ ck \in Cookies /\ ck \in CookiesOf(G) /\ tok \in Toks
    BY EmptyValues DEF CallsOf, CookiesOf, ToksOf
  <1>2. /\ q2.pc = "replied" /\ q2.rep = rep /\ q2.ck = ck /\ q2.tok = tok
        /\ q2.kind = q.kind /\ q2.retried = q.retried /\ q2.sent = q.sent
    BY <1>1 DEF ReqRec
  <1>3. q2 \in ReqRec
    BY <1>1 DEF ReqRec
  <1>4. ~FreshCall(q2)
    BY <1>2 DEF FreshCall
  <1>5. CallOK(q2)
    BY <1>1, <1>2 DEF CallOK
  <1> QED BY <1>1, <1>2, <1>3, <1>4, <1>5 DEF CallsOf, Calm, ChangeOnWay

\* A call or its answer is lost.
LEMMA LoseRequestKeeps ==
    ASSUME Inv, NEW r \in Reqs, LoseRequest(r) PROVE Inv'
  <1>1. PICK G : G = Known
    OBVIOUS
  <1>2. On(G) /\ NoSid \in G /\ req[r] \in CallsOf(G) /\ req[r] \in ReqRec /\ req \in [Reqs -> CallsOf(G)]
    BY <1>1, KnownFits, Parts, CallParts
  <1>3. PICK q2 : q2 = [req[r] EXCEPT !.pc = "replied", !.rep = "fail", !.ck = Keep, !.tok = NoTok]
    OBVIOUS
  <1>4. req' = [req EXCEPT ![r] = q2] /\ req[r].pc \in {"sent", "replied"}
    BY <1>2, <1>3 DEF LoseRequest
  <1>5. NoTok \in ToksOf(G)
    BY <1>2, EmptyValues
  <1>6. q2 \in CallsOf(G) /\ Calm(req[r], q2)
    BY <1>2, <1>3, <1>4, <1>5, AnsweredCall
  <1>7. faults' \in 0..MaxFaults
    <2>1. faults \in 0..MaxFaults /\ MaxFaults \in Nat
      BY <1>2, ConstantsAssumption DEF On, Fits
    <2> QED BY <2>1 DEF LoseRequest
  <1> QED BY <1>1, <1>4, <1>6, <1>7, CallStep DEF LoseRequest

\* A call whose page has gone ends with its answer.
LEMMA AnswerDropped ==
    ASSUME Inv, NEW r \in Reqs, req' = [req EXCEPT ![r] = NoReq],
           UNCHANGED <<sess, userAuth, cookie, tab, rf, events, orphans, faults, out, lost>>
    PROVE  Inv'
  <1>1. PICK G : G = Known
    OBVIOUS
  <1>2. On(G) /\ NoSid \in G
    BY <1>1, KnownFits, Parts
  <1>3. NoReq \in CallsOf(G) /\ Calm(req[r], NoReq) /\ faults' \in 0..MaxFaults
    BY <1>2, EmptyCall, DroppedCall DEF On, Fits
  <1> QED BY <1>1, <1>3, CallStep

\* Calls that only check the token, and a change of security that is refused.
LEMMA ServeCallKeeps ==
    ASSUME Inv, NEW r \in Reqs,
           ServeCall(r) \/ (ChangeSecurity(r) /\ ~Validates(req[r].tok))
    PROVE  Inv'
  <1>1. PICK G : G = Known
    OBVIOUS
  <1>2. /\ On(G) /\ NoSid \in G /\ req[r] \in CallsOf(G) /\ req[r] \in ReqRec
        /\ CallOK(req[r]) /\ req \in [Reqs -> CallsOf(G)]
    BY <1>1, KnownFits, Parts, CallParts
  <1>3. /\ req[r].pc = "sent" /\ req[r].kind \in {"plain", "once", "security"}
        /\ UNCHANGED <<sess, userAuth, cookie, tab, rf, events, orphans, faults, out, lost>>
    BY DEF ServeCall, ChangeSecurity
  <1>4. req[r].ck = Keep /\ ~Fresh(r)
    BY <1>2, <1>3 DEF CallOK, Fresh, FreshCall
  <1>5. req[r].tok \in ToksOf(G) /\ NoTok \in ToksOf(G)
    BY <1>2, <1>4, CallParts, EmptyValues
  <1>6. CASE req[r].orphan
    BY <1>3, <1>6, AnswerDropped DEF ServeCall, ChangeSecurity
  <1>7. CASE ~req[r].orphan
    <2>0. PICK tok \in ToksOf(G), rep \in {"ok", "401"} :
            req' = [req EXCEPT ![r] = [req[r] EXCEPT !.pc = "replied", !.rep = rep, !.ck = Keep,
                                                     !.tok = tok]]
      <3>1. CASE ServeCall(r)
        <4>1. PICK rep \in {"ok", "401"} :
                req' = [req EXCEPT ![r] = [req[r] EXCEPT !.pc = "replied", !.tok = NoTok, !.rep = rep]]
          BY <1>2, <1>7, <3>1 DEF ServeCall
        <4>2. [req[r] EXCEPT !.pc = "replied", !.tok = NoTok, !.rep = rep]
                = [req[r] EXCEPT !.pc = "replied", !.rep = rep, !.ck = Keep, !.tok = NoTok]
          BY <1>2, <1>4 DEF ReqRec
        <4> QED BY <1>5, <4>1, <4>2
      <3>2. CASE ChangeSecurity(r) /\ ~Validates(req[r].tok)
        <4>1. req' = [req EXCEPT ![r] = [req[r] EXCEPT !.pc = "replied", !.rep = "401"]]
          BY <1>2, <1>7, <3>2 DEF ChangeSecurity
        <4>2. [req[r] EXCEPT !.pc = "replied", !.rep = "401"]
                = [req[r] EXCEPT !.pc = "replied", !.rep = "401", !.ck = Keep, !.tok = req[r].tok]
          BY <1>2, <1>4 DEF ReqRec
        <4> QED BY <1>5, <4>1, <4>2
      <3> QED BY <3>1, <3>2
    <2>1. PICK q2 : q2 = [req[r] EXCEPT !.pc = "replied", !.rep = rep, !.ck = Keep, !.tok = tok]
      OBVIOUS
    <2>2. q2 \in CallsOf(G) /\ Calm(req[r], q2) /\ req' = [req EXCEPT ![r] = q2]
      BY <1>2, <1>3, <2>0, <2>1, AnsweredCall
    <2>3. faults' \in 0..MaxFaults
      BY <1>2, <1>3 DEF On, Fits
    <2> QED BY <1>1, <1>3, <2>2, <2>3, CallStep
  <1> QED BY <1>6, <1>7

\* A refused call waits for the refresh of its tab.
LEMMA AwaitKeeps ==
    ASSUME Inv, NEW r \in Reqs, AwaitRefresh(r), ~Fresh(r), req[r].pc = "replied",
           req[r].kind \in {"plain", "logout"}, ~req[r].retried,
           cookie' = StoredCookie(req[r].ck), UNCHANGED <<sess, userAuth, faults>>
    PROVE  Inv'
  <1>1. PICK G : G = Known
    OBVIOUS
  <1>2. /\ On(G) /\ NoSid \in G /\ req[r] \in CallsOf(G) /\ req[r] \in ReqRec /\ CallOK(req[r])
        /\ req \in [Reqs -> CallsOf(G)] /\ req[r].ck \in CookiesOf(G) /\ req[r].tok \in ToksOf(G)
        /\ TabOf(r) \in Tabs
    BY <1>1, KnownFits, Parts, CallParts
  <1> DEFINE q2 == [req[r] EXCEPT !.pc = "await", !.retried = TRUE]
  <1>3. req' = [req EXCEPT ![r] = q2]
    BY <1>2 DEF AwaitRefresh
  <1>4. /\ q2.pc = "await" /\ q2.retried = TRUE /\ q2.kind = req[r].kind /\ q2.tok = req[r].tok
        /\ q2.ck = req[r].ck /\ q2.sent = req[r].sent
    BY <1>2 DEF ReqRec
  <1>5. q2 \in ReqRec
    BY <1>2 DEF ReqRec
  <1> HIDE DEF q2
  <1>6. ~FreshCall(q2) /\ ~ChangeOnWay(q2)
    BY <1>4 DEF FreshCall, ChangeOnWay
  <1>7. CallOK(q2)
    BY <1>2, <1>4 DEF CallOK, Proof
  <1>8. q2 \in CallsOf(G) /\ Calm(req[r], q2)
    BY <1>2, <1>4, <1>5, <1>6, <1>7 DEF CallsOf, Calm
  <1>9. req' \in [Reqs -> CallsOf(G)] /\ \A c \in Reqs : Calm(req[c], req'[c])
    BY <1>2, <1>3, <1>8, SameCall
  <1>10. /\ rf' \in [Tabs -> RefreshesOf(G)]
         /\ \A u \in Tabs : rf'[u] = rf[u] \/ rf'[u].pc # "replied"
    BY <1>2, StartedRefresh DEF AwaitRefresh
  <1>11. cookie' \in CookiesOf(G) /\ UNCHANGED <<tab, events, orphans, out, lost>>
    BY <1>2, StoredFits DEF AwaitRefresh
  <1>12. Fits(G)'
    BY <1>2, <1>9, <1>10, <1>11 DEF Fits, On
  <1>13. \A u \in Tabs : TabCalm(u)
    BY <1>10, <1>11, SameTab DEF SidOf
  <1> QED BY <1>1, <1>9, <1>12, <1>13, BrowserStep

\* A call ends, and its tab holds what it held before, or nothing, or the new
\* token of the session it held.
LEMMA EndedCall ==
    ASSUME Inv, NEW r \in Reqs, Idle(r), ~Fresh(r), cookie' = StoredCookie(req[r].ck),
           UNCHANGED <<sess, userAuth, faults, orphans, lost, out>>,
           NEW G, G = Known, events' \in [Tabs -> Seq(EventRec)],
           \/ tab' = tab
           \/ \E x \in TabsOf(G) : /\ tab' = [tab EXCEPT ![TabOf(r)] = x]
                                   /\ x.tok.sid \in {NoSid, SidOf(TabOf(r))},
           rf' = rf \/ rf' = Bumped(TabOf(r))
    PROVE  Inv'
  <1>1. /\ On(G) /\ NoSid \in G /\ req[r].ck \in CookiesOf(G) /\ TabOf(r) \in Tabs
        /\ req \in [Reqs -> CallsOf(G)] /\ tab \in [Tabs -> TabsOf(G)] /\ rf \in [Tabs -> RefreshesOf(G)]
    BY KnownFits, Parts, CallParts
  <1>2. req' \in [Reqs -> CallsOf(G)] /\ \A c \in Reqs : Calm(req[c], req'[c])
    BY <1>1, EmptyCall, DroppedCall, SameCall DEF Idle
  <1>3. tab' \in [Tabs -> TabsOf(G)] /\ \A u \in Tabs : tab'[u].tok.sid \in {NoSid, SidOf(u)}
    BY <1>1 DEF SidOf
  <1>4. /\ rf' \in [Tabs -> RefreshesOf(G)]
        /\ \A u \in Tabs : rf'[u] = rf[u] \/ ~rf'[u].cur
    BY <1>1, BumpedRefresh
  <1>5. cookie' \in CookiesOf(G)
    BY <1>1, StoredFits
  <1>6. Fits(G)'
    BY <1>1, <1>2, <1>3, <1>4, <1>5 DEF Fits, On
  <1>7. \A u \in Tabs : TabCalm(u)
    BY <1>3, <1>4, SameTab
  <1> QED BY <1>2, <1>6, <1>7, BrowserStep

\* The sign-out: the tab forgets every session, and no answer brings one back.
LEMMA SignOutKeeps ==
    ASSUME Inv, NEW r \in Reqs, SignOut(r), ~Fresh(r), req[r].pc = "replied",
           req[r].kind = "logout", req[r].rep = "ok",
           cookie' = StoredCookie(req[r].ck), UNCHANGED <<sess, userAuth, faults>>
    PROVE  Inv'
  <1>1. PICK G : G = Known
    OBVIOUS
  <1>2. PICK t \in Tabs : TabOf(r) = t
    BY <1>1, KnownFits, CallParts
  <1>3. /\ On(G) /\ NoSid \in G /\ G \subseteq Names /\ req[r].ck \in CookiesOf(G)
        /\ req[r].tok.sid \in G /\ CallOK(req[r])
        /\ req \in [Reqs -> CallsOf(G)] /\ tab \in [Tabs -> TabsOf(G)] /\ rf \in [Tabs -> RefreshesOf(G)]
        /\ out \in [Tabs -> SUBSET (G \ {NoSid})] /\ faults \in 0..MaxFaults
    BY <1>1, KnownFits, Parts, CallParts DEF ToksOf, On, Fits
  <1>4. req' \in [Reqs -> CallsOf(G)] /\ \A c \in Reqs : Calm(req[c], req'[c])
    BY <1>3, EmptyCall, DroppedCall, SameCall DEF Idle, SignOut
  <1>5. /\ tab' \in [Tabs -> TabsOf(G)] /\ tab'[t].tok.sid = NoSid
        /\ \A u \in Tabs : u # t => tab'[u] = tab[u]
    BY <1>2, <1>3, SignedOutTab, EmptyValues DEF SignOut
  <1>6. /\ rf' \in [Tabs -> RefreshesOf(G)] /\ ~rf'[t].cur
        /\ \A u \in Tabs : u # t => rf'[u] = rf[u]
    BY <1>2, <1>3, BumpedRefresh DEF SignOut
  <1>7. events' \in [Tabs -> Seq(EventRec)] /\ cookie' \in CookiesOf(G)
    BY <1>2, <1>3, PublishedEvents, TabParts, StoredFits DEF SignOut
  <1>8. PICK new : /\ new = {req[r].tok.sid} \ {s \in Sids : Active(s)}
                   /\ out' = [out EXCEPT ![t] = @ \cup new]
    BY <1>2 DEF SignOut
  <1>9. new \subseteq Sids /\ new \subseteq G
        /\ \A s \in new : s # NoSid /\ sess[s].st \notin {"none", "active"}
    <2>1. req[r].tok.sid # NoSid
      BY <1>3 DEF CallOK
    <2>2. req[r].tok.sid \in Sids /\ sess[req[r].tok.sid].st # "none"
      BY <1>1, <1>3, <2>1 DEF Known
    <2> QED BY <1>3, <1>8, <2>1, <2>2 DEF Active
  <1>10. /\ out' \in [Tabs -> SUBSET (G \ {NoSid})]
         /\ out'[t] = out[t] \cup new /\ \A u \in Tabs : u # t => out'[u] = out[u]
    BY <1>3, <1>8, <1>9
  <1>11. Fits(G)'
    BY <1>3, <1>4, <1>5, <1>6, <1>7, <1>10 DEF Fits, On, SignOut
  <1>12. \A s \in Sids : SessionCalm(s) /\ SessionOK(s)'
    BY DEF SessionCalm, Revoked, SessionOK, Inv
  <1>13. ASSUME NEW u \in Tabs PROVE OutOK(u)'
    <2>1. OutOK(u)
      BY DEF Inv
    <2>2. CASE u = t
      <3>1. NoSid \notin out'[t]
        BY <1>10
      <3> QED BY <1>5, <1>6, <1>9, <1>10, <2>1, <2>2, <3>1 DEF OutOK, SidOf
    <2>3. CASE u # t
      BY <1>5, <1>6, <1>10, <2>1, <2>3 DEF OutOK, SidOf, Answered
    <2> QED BY <2>2, <2>3
  <1> QED BY <1>1, <1>4, <1>11, <1>12, <1>13, CalmStep DEF Inv

\* The answer to a login: its session is known from now on.
LEMMA LoginKeeps ==
    ASSUME Inv, NEW r \in Reqs, Fresh(r), LoginReply(r),
           cookie' = StoredCookie(req[r].ck), UNCHANGED <<sess, userAuth, faults>>
    PROVE  Inv'
  <1>1. PICK G : G = Known
    OBVIOUS
  <1>2. PICK t \in Tabs : TabOf(r) = t
    BY <1>1, KnownFits, CallParts
  <1>3. PICK x : x = req[r].tok.sid
    OBVIOUS
  <1>4. /\ x \in Sids /\ sess[x].st # "none" /\ req[r].ck = [sid |-> x, age |-> 0] /\ x \notin G
        /\ \A q \in Reqs \ {r} : Fresh(q) => req[q].tok.sid # x
    BY <1>1, <1>3, NamesFacts DEF Inv, Secret, Known
  <1>5. PICK H : H = G \cup {x}
    OBVIOUS
  <1>6. On(G) /\ NoSid \in G /\ NoSid \in H
    BY <1>1, <1>5, KnownFits, Parts
  <1>7. On(H)
    <2>1. H \subseteq Names
      BY <1>4, <1>5, <1>6 DEF On, Names
    <2>2. Fits(H)
      BY <1>5, <1>6, FitsGrow DEF On
    <2> QED BY <1>6, <2>1, <2>2 DEF On
  <1>8. req[r] \in ReqRec /\ req[r].tok \in ToksOf(H) /\ req[r].ck \in CookiesOf(H)
    BY <1>3, <1>4, <1>5, <1>7, CallParts, CallFacts DEF ToksOf, CookiesOf
  <1>9. req' \in [Reqs -> CallsOf(H)] /\ (\A c \in Reqs : Calm(req[c], req'[c])) /\ ~Fresh(r)'
    BY <1>6, <1>7, Parts, EmptyCall, DroppedCall, SameCall DEF Idle, LoginReply, Fresh
  <1>10. /\ tab' \in [Tabs -> TabsOf(H)] /\ tab'[t].tok.sid \in {SidOf(t), x}
         /\ \A u \in Tabs : u # t => tab'[u] = tab[u]
    <2>1. tab' = tab \/ tab' = [tab EXCEPT ![t] = SignedIn(req[r].tok)]
      BY <1>2 DEF LoginReply
    <2>2. SignedIn(req[r].tok) \in TabsOf(H) /\ SignedIn(req[r].tok).tok.sid = x
      BY <1>3, <1>8, SignedInTab
    <2>3. tab \in [Tabs -> TabsOf(H)]
      BY <1>7, Parts
    <2> QED BY <2>1, <2>2, <2>3 DEF SidOf
  <1>11. /\ rf' \in [Tabs -> RefreshesOf(H)]
         /\ \A u \in Tabs : rf'[u] = rf[u] \/ ~rf'[u].cur
    <2>1. rf' = rf \/ rf' = Bumped(t)
      BY <1>2 DEF LoginReply
    <2> QED BY <1>7, <2>1, BumpedRefresh, Parts
  <1>12. events' \in [Tabs -> Seq(EventRec)] /\ cookie' \in CookiesOf(H)
    BY <1>2, <1>3, <1>4, <1>7, <1>8, PublishedEvents, Parts, StoredFits, NamesFacts DEF LoginReply
  <1>13. Fits(H)' /\ out' = out
    BY <1>7, <1>9, <1>10, <1>11, <1>12 DEF Fits, On, LoginReply
  <1>14. ASSUME NEW u \in Tabs PROVE OutOK(u)'
    <2>1. x \notin out[u] /\ OutOK(u)
      BY <1>4, <1>6, TabParts DEF Inv
    <2>2. SidOf(u)' \in {SidOf(u), x}
      BY <1>10 DEF SidOf
    <2> QED BY <1>11, <1>13, <2>1, <2>2 DEF OutOK, Answered
  <1>15. \A s \in Sids : SessionCalm(s) /\ SessionOK(s)'
    BY DEF SessionCalm, Revoked, SessionOK, Inv
  <1>16. H \subseteq Known'
    BY <1>1, <1>3, <1>4, <1>5, <1>9 DEF Known, Calm, Fresh
  <1> QED BY <1>1, <1>9, <1>13, <1>14, <1>15, <1>16, CalmStepWith DEF Inv

\* The answer to a call.
LEMMA RequestReplyKeeps ==
    ASSUME Inv, NEW r \in Reqs, RequestReply(r) PROVE Inv'
  <1>1. PICK G : G = Known
    OBVIOUS
  <1>2. PICK t \in Tabs : TabOf(r) = t
    BY <1>1, KnownFits, CallParts
  <1>3. /\ On(G) /\ NoSid \in G /\ tab \in [Tabs -> TabsOf(G)] /\ req[r].pc = "replied"
        /\ events \in [Tabs -> Seq(EventRec)] /\ req[r] \in ReqRec /\ SidOf(t) \in Names
        /\ req[r].retried \in BOOLEAN
    BY <1>1, KnownFits, Parts, CallParts, TabParts, CallFacts DEF RequestReply
  <1>4. cookie' = StoredCookie(req[r].ck) /\ UNCHANGED <<sess, userAuth, faults>>
    BY DEF RequestReply
  <1>5. CASE ~Fresh(r) /\ Idle(r) /\ UNCHANGED <<tab, rf, events, orphans, out, lost>>
    BY <1>1, <1>3, <1>4, <1>5, EndedCall
  <1>6. CASE PlainReply(r)
    <2>1. ~Fresh(r) /\ req[r].kind = "plain"
      BY <1>6 DEF PlainReply, Fresh, FreshCall
    <2>2. CASE ~req[r].retried /\ AwaitRefresh(r)
      BY <1>3, <1>4, <2>1, <2>2, AwaitKeeps
    <2>3. CASE Reload(TabOf(r), events) /\ UNCHANGED out
      <3>1. cookie' \in CookiesOf(G)
        BY <1>3, <1>4, <2>1, CallParts, StoredFits
      <3>2. /\ Fits(G)' /\ (\A c \in Reqs : Calm(req[c], req'[c]))
            /\ \A u \in Tabs : TabCalm(u)
        BY <1>2, <1>3, <1>4, <2>3, <3>1, Reloaded
      <3> QED BY <1>1, <1>4, <3>2, BrowserStep
    <2> QED BY <1>5, <1>6, <2>1, <2>2, <2>3 DEF PlainReply
  <1>7. CASE OnceReply(r)
    <2>1. ~Fresh(r)
      BY <1>7 DEF OnceReply, Fresh, FreshCall
    <2> QED BY <1>5, <1>7, <2>1 DEF OnceReply
  <1>8. CASE SecurityReply(r)
    <2>1. /\ ~Fresh(r) /\ Idle(r) /\ UNCHANGED <<events, orphans, out, lost>>
      BY <1>8 DEF SecurityReply, Fresh, FreshCall
    <2>2. CASE UNCHANGED <<tab, rf>>
      BY <1>5, <2>1, <2>2
    <2>3. CASE /\ SidOf(t) = req[r].tok.sid
               /\ tab' = [tab EXCEPT ![t] = SignedIn(req[r].tok)] /\ rf' = Bumped(t)
      <3>1. SignedIn(req[r].tok) \in TabsOf(G) /\ SignedIn(req[r].tok).tok.sid = SidOf(t)
        BY <1>3, <2>1, <2>3, CallParts, SignedInTab
      <3> QED BY <1>1, <1>2, <1>3, <1>4, <2>1, <2>3, <3>1, EndedCall
    <2> QED BY <1>2, <1>8, <2>2, <2>3 DEF SecurityReply
  <1>9. CASE LogoutReply(r)
    <2>1. ~Fresh(r) /\ req[r].kind = "logout"
      BY <1>9 DEF LogoutReply, Fresh, FreshCall
    <2>2. CASE req[r].rep = "ok" /\ SignOut(r)
      BY <1>3, <1>4, <2>1, <2>2, SignOutKeeps
    <2>3. CASE ~req[r].retried /\ AwaitRefresh(r)
      BY <1>3, <1>4, <2>1, <2>3, AwaitKeeps
    <2> QED BY <1>5, <1>9, <2>1, <2>2, <2>3 DEF LogoutReply
  <1>10. CASE LoginReply(r)
    <2>1. CASE Fresh(r)
      BY <1>4, <1>10, <2>1, LoginKeeps
    <2>2. CASE ~Fresh(r)
      <3>1. req[r].rep # "ok"
        BY <1>3, <1>10, <2>2 DEF LoginReply, Fresh, FreshCall
      <3> QED BY <1>5, <1>10, <2>2, <3>1 DEF LoginReply
    <2> QED BY <2>1, <2>2
  <1> QED BY <1>6, <1>7, <1>8, <1>9, <1>10 DEF RequestReply

\* A page makes a call.
LEMMA IssueKeeps ==
    ASSUME Inv, NEW r \in Reqs, NEW k \in Kinds[r], Issue(r, k) PROVE Inv'
  <1>1. PICK G : G = Known
    OBVIOUS
  <1>2. PICK t \in Tabs : TabOf(r) = t
    BY <1>1, KnownFits, CallParts
  <1>3. /\ On(G) /\ NoSid \in G /\ tab[t].tok \in ToksOf(G) /\ cookie \in CookiesOf(G)
        /\ req \in [Reqs -> CallsOf(G)] /\ SidOf(t) = tab[t].tok.sid
    BY <1>1, KnownFits, Parts, TabParts DEF SidOf
  <1>4. UNCHANGED <<sess, userAuth, cookie, tab, events, orphans, faults, out, lost>>
    BY DEF Issue
  <1>5. k \in AllKinds
    BY ConstantsAssumption
  <1> DEFINE q == [NoReq EXCEPT !.kind = k]
             waits == k \in {"once", "security"} /\ ~tab[t].tok.live
             q1 == [q EXCEPT !.pc = "await"]
  <1>6. NoReq \in ReqRec /\ NoReq.ck \in CookiesOf(G) /\ NoReq.tok \in ToksOf(G) /\ NoReq.pc = "idle"
          /\ NoReq.retried = FALSE /\ NoReq.sent = 0 /\ NoReq.rep = "none"
    <2>1. ~FreshCall(NoReq) /\ NoReq \in CallsOf(G) /\ NoReq.pc = "idle"
      BY <1>3, EmptyCall
    <2>2. NoReq.retried = FALSE /\ NoReq.sent = 0 /\ NoReq.rep = "none"
      BY DEF NoReq
    <2> QED BY <2>1, <2>2 DEF CallsOf
  <1>7. /\ q \in ReqRec /\ q.kind = k /\ q.pc = "idle" /\ q.ck = NoReq.ck /\ q.tok = NoReq.tok
        /\ q.retried = FALSE /\ q.sent = 0 /\ q.rep = "none"
    BY <1>5, <1>6 DEF ReqRec
  <1>8. req' = [req EXCEPT ![r] = IF waits THEN q1 ELSE SentWith(q, tab[t].tok, cookie)]
          /\ rf' = IF waits THEN Started(t) ELSE rf
    BY <1>2 DEF Issue
  <1>9. k = "logout" => tab[t].tok.sid # NoSid
    BY <1>2, <1>3 DEF Issue
  <1>10. k = "security" => userAuth + Cardinality(Changes) <= MaxChanges
    BY DEF Issue, InFlight, Changes, ChangeOnWay
  <1> HIDE DEF q
  <1>11. q \in CallsOf(G)
    <2>1. ~FreshCall(q)
      BY <1>7 DEF FreshCall
    <2>2. CallOK(q)
      BY <1>7 DEF CallOK
    <2> QED BY <1>6, <1>7, <2>1, <2>2 DEF CallsOf
  <1>12. /\ q1 \in ReqRec /\ q1.kind = k /\ q1.pc = "await" /\ q1.ck = NoReq.ck /\ q1.tok = NoReq.tok
         /\ q1.retried = FALSE /\ q1.sent = 0 /\ q1.rep = "none"
    BY <1>7 DEF ReqRec
  <1> HIDE DEF q1
  <1>13. waits => q1 \in CallsOf(G) /\ ~FreshCall(q1)
    <2>1. ~FreshCall(q1)
      BY <1>12 DEF FreshCall
    <2>2. waits => CallOK(q1)
      BY <1>12 DEF CallOK, Proof
    <2> QED BY <1>6, <1>12, <2>1, <2>2 DEF CallsOf
  <1>14. PICK q2 \in CallsOf(G) :
           /\ req' = [req EXCEPT ![r] = q2] /\ ~FreshCall(q2) /\ q2.kind = k
           /\ q2.pc \in {"await", "sent"}
    <2>1. CASE waits
      BY <1>8, <1>12, <1>13, <2>1
    <2>2. CASE ~waits
      <3>1. /\ SentWith(q, tab[t].tok, cookie) \in CallsOf(G)
            /\ ~FreshCall(SentWith(q, tab[t].tok, cookie)) /\ SentWith(q, tab[t].tok, cookie).pc = "sent"
            /\ SentWith(q, tab[t].tok, cookie).kind = k
        BY <1>3, <1>7, <1>9, <1>11, SentCall
      <3> QED BY <1>8, <2>2, <3>1
    <2> QED BY <2>1, <2>2
  <1> HIDE DEF waits
  <1>15. req' \in [Reqs -> CallsOf(G)] /\ \A c \in Reqs : c # r => req'[c] = req[c]
    BY <1>3, <1>14
  <1>16. req'[r] = q2
    BY <1>3, <1>14
  <1>17. /\ rf' \in [Tabs -> RefreshesOf(G)]
         /\ \A u \in Tabs : rf'[u] = rf[u] \/ rf'[u].pc # "replied"
    <2>1. rf' = rf \/ rf' = Started(t)
      BY <1>8
    <2>2. CASE rf' = rf
      BY <1>3, <2>2, Parts
    <2>3. CASE rf' = Started(t)
      BY <1>3, <2>3, StartedRefresh
    <2> QED BY <2>1, <2>2, <2>3
  <1>18. Fits(G)'
    BY <1>3, <1>4, <1>15, <1>17 DEF Fits, On
  <1>19. \A u \in Tabs : TabCalm(u)
    BY <1>4, <1>17, SameTab DEF SidOf
  <1>20. \A s \in Sids : SessionCalm(s) /\ SessionOK(s)'
    BY <1>4 DEF SessionCalm, Revoked, SessionOK, Inv
  <1>21. \A u \in Tabs : OutOK(u)'
    BY <1>3, <1>19, <1>20, OutKept DEF Inv
  <1>22. CASE k # "security"
    <2>1. \A c \in Reqs : Calm(req[c], req'[c])
      BY <1>14, <1>15, <1>16, <1>22, SameCall DEF Calm, ChangeOnWay
    <2> QED BY <1>1, <1>4, <1>18, <1>20, <1>21, <2>1, CalmStep DEF Inv
  <1>23. CASE k = "security"
    <2>1. \A c \in Reqs : Fresh(c)' => Fresh(c) /\ req'[c] = req[c]
      BY <1>14, <1>15, <1>16 DEF Fresh
    <2>2. G \subseteq Known'
      BY <1>1, <1>4, <2>1 DEF Known
    <2>3. \A c \in Reqs : Secret(c)'
      BY <1>4, <2>1 DEF Secret, Inv
    <2>4. Room'
      <3>1. Changes' \subseteq Changes \cup {r}
        BY <1>15 DEF Changes
      <3>2. PICK C : C = Changes
        OBVIOUS
      <3>3. PICK D : D = Changes'
        OBVIOUS
      <3>4. IsFiniteSet(C) /\ Cardinality(C) \in Nat
        BY <3>2, ChangesFinite
      <3>5. IsFiniteSet(C \cup {r}) /\ Cardinality(C \cup {r}) \in {Cardinality(C), Cardinality(C) + 1}
        BY <3>4, FS_AddElement
      <3>6. Cardinality(D) <= Cardinality(C) + 1 /\ Cardinality(D) \in Nat
        BY <3>1, <3>2, <3>3, <3>4, <3>5, FS_Subset, FS_CardinalityType
      <3>7. userAuth \in Nat /\ userAuth' = userAuth
        BY <1>4 DEF Inv
      <3>8. userAuth' + Cardinality(Changes') <= MaxChanges + 1
        BY <1>10, <1>23, <3>2, <3>3, <3>4, <3>6, <3>7, VersionFacts
      <3>9. \A c \in Reqs : req'[c].pc = "changing" => req'[c].tok.auth < userAuth'
        BY <1>4, <1>14, <1>15, <1>16 DEF Inv, Room
      <3> QED BY <3>8, <3>9 DEF Room
    <2> QED BY <1>4, <1>18, <1>20, <1>21, <2>2, <2>3, <2>4, Assemble DEF Inv
  <1> QED BY <1>22, <1>23

-----------------------------------------------------------------------------
(* The server.                                                             *)

LEMMA SessionFacts ==
    ASSUME Inv, NEW s \in Sids
    PROVE  /\ sess[s] \in SessRec /\ sess[s].ver \in Versions /\ sess[s].auth \in Versions
           /\ sess[s].grace \in BOOLEAN
           /\ sess[s].st \in {"none", "active", "logout", "reuse", "security", "others"}
           /\ userAuth \in Versions /\ userAuth \in Nat /\ SessionOK(s)
  <1>1. sess[s] \in SessRec /\ userAuth \in 1..(MaxChanges + 1) /\ SessionOK(s)
    BY DEF Inv
  <1>2. userAuth \in Versions /\ userAuth \in Nat
    BY <1>1, VersionFacts DEF Versions
  <1> QED BY <1>1, <1>2 DEF SessRec

LEMMA VersionNat == \A n \in Versions : n \in Nat /\ n <= MaxChanges + 1
  BY VersionFacts DEF Versions

\* One session gets a new record.
LEMMA OneSession ==
    ASSUME Inv, NEW s \in Sids, NEW x \in SessRec, sess' = [sess EXCEPT ![s] = x],
           x.ver <= x.auth, x.auth <= userAuth, userAuth' = userAuth,
           x.st # "none", x.st = "active" => sess[s].st \in {"none", "active"}
    PROVE  /\ sess' \in [Sids -> SessRec] /\ sess'[s] = x
           /\ \A u \in Sids : u # s => sess'[u] = sess[u]
           /\ \A u \in Sids : SessionCalm(u) /\ SessionOK(u)'
  <1>1. sess \in [Sids -> SessRec] /\ \A u \in Sids : SessionOK(u)
    BY DEF Inv
  <1>2. sess' \in [Sids -> SessRec] /\ sess'[s] = x /\ \A u \in Sids : u # s => sess'[u] = sess[u]
    BY <1>1
  <1>3. ASSUME NEW u \in Sids PROVE SessionCalm(u) /\ SessionOK(u)'
    <2>1. CASE u = s
      BY <1>2, <2>1 DEF SessionCalm, Revoked, SessionOK
    <2>2. CASE u # s
      BY <1>1, <1>2, <2>2 DEF SessionCalm, Revoked, SessionOK
    <2> QED BY <2>1, <2>2
  <1> QED BY <1>2, <1>3

Verdicts == {"invalid", "mismatch", "revoked", "security", "rotate", "again", "reuse"}

LEMMA VerdictFacts ==
    ASSUME NEW c \in Cookies, NEW e, NEW v, v = RefreshVerdict(c, e)
    PROVE  /\ v \in Verdicts
           /\ v \in {"rotate", "again", "security", "reuse"} => c.sid \in Sids /\ Active(c.sid)
           /\ v \in {"again", "reuse"} => c.age = 1
           /\ v \in {"again", "rotate"} => sess[c.sid].auth = userAuth
  BY RecordFacts DEF RefreshVerdict, Verdicts, Active, Names

\* What the server's answer to a refresh does to the session it is about.
LEMMA ServedSession ==
    ASSUME Inv, NEW c \in Cookies, NEW e, NEW v, v = RefreshVerdict(c, e),
           sess' = SessionAfter(v, c.sid), userAuth' = userAuth
    PROVE  /\ sess' \in [Sids -> SessRec] /\ (\A s \in Sids : SessionCalm(s) /\ SessionOK(s)')
           /\ \A s \in Sids : sess'[s].st = "reuse" => sess[s].st = "reuse" \/ v = "reuse"
  <1>1. CASE v \in {"security", "reuse"}
    <2>1. c.sid \in Sids /\ sess' = [sess EXCEPT ![c.sid].st = v]
      BY <1>1, VerdictFacts DEF SessionAfter
    <2>2. /\ sess[c.sid] \in SessRec /\ sess[c.sid].ver <= sess[c.sid].auth
          /\ sess[c.sid].auth <= userAuth
      BY <2>1, SessionFacts DEF SessionOK
    <2>3. PICK x : x = [sess[c.sid] EXCEPT !.st = v]
      OBVIOUS
    <2>4. x \in SessRec /\ x.st = v /\ x.ver = sess[c.sid].ver /\ x.auth = sess[c.sid].auth
      BY <1>1, <2>2, <2>3 DEF SessRec
    <2>5. sess' = [sess EXCEPT ![c.sid] = x]
      BY <2>1, <2>3
    <2>6. /\ sess' \in [Sids -> SessRec] /\ sess'[c.sid] = x
          /\ (\A u \in Sids : u # c.sid => sess'[u] = sess[u])
          /\ \A u \in Sids : SessionCalm(u) /\ SessionOK(u)'
      BY <1>1, <2>1, <2>2, <2>4, <2>5, OneSession
    <2> QED BY <2>4, <2>6
  <1>2. CASE v = "rotate"
    <2>1. c.sid \in Sids /\ sess' = [sess EXCEPT ![c.sid].grace = TRUE] /\ sess[c.sid].st = "active"
      BY <1>2, VerdictFacts DEF SessionAfter, Active
    <2>2. /\ sess[c.sid] \in SessRec /\ sess[c.sid].ver <= sess[c.sid].auth
          /\ sess[c.sid].auth <= userAuth
      BY <2>1, SessionFacts DEF SessionOK
    <2>3. PICK x : x = [sess[c.sid] EXCEPT !.grace = TRUE]
      OBVIOUS
    <2>4. x \in SessRec /\ x.st = sess[c.sid].st /\ x.ver = sess[c.sid].ver /\ x.auth = sess[c.sid].auth
      BY <2>2, <2>3 DEF SessRec
    <2>5. sess' = [sess EXCEPT ![c.sid] = x]
      BY <2>1, <2>3
    <2>6. /\ sess' \in [Sids -> SessRec] /\ sess'[c.sid] = x
          /\ (\A u \in Sids : u # c.sid => sess'[u] = sess[u])
          /\ \A u \in Sids : SessionCalm(u) /\ SessionOK(u)'
      BY <2>1, <2>2, <2>4, <2>5, OneSession
    <2> QED BY <2>1, <2>4, <2>6
  <1>3. CASE v \notin {"security", "reuse", "rotate"}
    <2>1. sess' = sess
      BY <1>3 DEF SessionAfter
    <2> QED BY <2>1 DEF Inv, SessionCalm, Revoked, SessionOK
  <1> QED BY <1>1, <1>2, <1>3

LEMMA ReplyFacts ==
    ASSUME NEW G, NoSid \in G, G \subseteq Names, NEW s \in G, NEW v \in Verdicts
    PROVE  /\ ReplyCookie(v, s) \in CookiesOf(G) /\ ReplyKind(v) \in {"ok", "mismatch", "401"}
           /\ ReplyKind(v) = "ok" <=> v \in {"rotate", "again"}
           /\ ReplyKind(v) # "ok" => ReplyCookie(v, s) \in {Keep, NoCookie}
           /\ ReplyKind(v) = "ok" => ReplyCookie(v, s) = [sid |-> s, age |-> 0]
  <1>1. [sid |-> s, age |-> 0] \in CookiesOf(G)
    BY DEF CookiesOf, Cookies, Names
  <1> QED BY <1>1, EmptyValues DEF ReplyCookie, ReplyKind, Verdicts

\* A known session is not the secret of a login.
LEMMA KnownNotSecret ==
    ASSUME Inv, NEW s \in Known, NEW r \in Reqs, Fresh(r)
    PROVE  req[r].ck.sid # s
  <1>1. req[r].tok.sid \in Sids /\ req[r].ck = [sid |-> req[r].tok.sid, age |-> 0]
    BY DEF Inv, Secret
  <1>2. req[r].ck.sid = req[r].tok.sid
    BY <1>1
  <1>3. s = NoSid \/ req[r].tok.sid # s
    BY DEF Known
  <1> QED BY <1>1, <1>2, <1>3, NamesFacts

\* The rotation of a known session makes its secrets older everywhere.
LEMMA OlderEverywhere ==
    ASSUME Inv, NEW G, G = Known, NEW s \in G, NEW v, v = "rotate" => s # NoSid
    PROVE  /\ Older(cookie, s, v) \in CookiesOf(G)
           /\ \A u \in Tabs : [rf[u] EXCEPT !.ck = Older(@, s, v)] \in RefreshesOf(G)
           /\ \A r \in Reqs : /\ [req[r] EXCEPT !.ck = Older(@, s, v)] \in CallsOf(G)
                              /\ Calm(req[r], [req[r] EXCEPT !.ck = Older(@, s, v)])
           /\ \A o \in orphans : /\ [o EXCEPT !.ck = Older(@, s, v)] \in [ck : CookiesOf(G), sid : Names]
                                 /\ o.ck \in CookiesOf(G) /\ o.sid \in Names
  <1>1. On(G) /\ NoSid \in G
    BY KnownFits, Parts
  <1>2. Older(cookie, s, v) \in CookiesOf(G)
    BY <1>1, Parts, OlderFacts
  <1>3. ASSUME NEW u \in Tabs PROVE [rf[u] EXCEPT !.ck = Older(@, s, v)] \in RefreshesOf(G)
    BY <1>1, TabParts, OlderRefresh
  <1>4. ASSUME NEW r \in Reqs
        PROVE  /\ [req[r] EXCEPT !.ck = Older(@, s, v)] \in CallsOf(G)
               /\ Calm(req[r], [req[r] EXCEPT !.ck = Older(@, s, v)])
    BY <1>1, CallParts, KnownNotSecret, OlderCall DEF Fresh
  <1>5. ASSUME NEW o \in orphans
        PROVE  /\ [o EXCEPT !.ck = Older(@, s, v)] \in [ck : CookiesOf(G), sid : Names]
               /\ o.ck \in CookiesOf(G) /\ o.sid \in Names
    <2>1. o \in [ck : CookiesOf(G), sid : Names]
      BY <1>1, Parts
    <2>2. o.ck \in CookiesOf(G) /\ o.sid \in Names
      BY <2>1
    <2>3. Older(o.ck, s, v) \in CookiesOf(G)
      BY <2>2, OlderFacts
    <2> QED BY <2>1, <2>2, <2>3
  <1> QED BY <1>2, <1>3, <1>4, <1>5

\* The server answers the refresh of a tab.
LEMMA RefreshAuthKeeps ==
    ASSUME Inv, NEW t \in Tabs, RefreshAuth(t) PROVE Inv'
  <1>1. PICK G : G = Known
    OBVIOUS
  <1>2. On(G) /\ NoSid \in G /\ G \subseteq Names
    BY <1>1, KnownFits, Parts
  <1>3. PICK c, v : c = rf[t].ck /\ v = RefreshVerdict(c, rf[t].sid)
    OBVIOUS
  <1>4. c \in Cookies /\ c.sid \in G /\ rf[t] \in RfRec
    BY <1>2, <1>3, TabParts, RefreshFacts
  <1>5. /\ sess' = SessionAfter(v, c.sid) /\ cookie' = Older(cookie, c.sid, v)
        /\ rf' = [u \in Tabs |->
             IF u = t
             THEN [rf[t] EXCEPT !.pc = "replied", !.rep = ReplyKind(v), !.sid = NoSid,
                                !.ck = ReplyCookie(v, c.sid),
                                !.tok = IF ReplyKind(v) = "ok" THEN IssueToken(c.sid) ELSE NoTok]
             ELSE [rf[u] EXCEPT !.ck = Older(@, c.sid, v)]]
        /\ req' = [r \in Reqs |-> [req[r] EXCEPT !.ck = Older(@, c.sid, v)]]
        /\ orphans' = {[o EXCEPT !.ck = Older(@, c.sid, v)] : o \in orphans}
        /\ UNCHANGED <<userAuth, tab, events, faults, out, lost>>
    BY <1>3 DEF RefreshAuth
  <1>6. /\ v \in Verdicts /\ (v = "rotate" => c.sid # NoSid)
        /\ v \in {"rotate", "again"} => c.sid \in Sids /\ Active(c.sid)
    BY <1>3, <1>4, VerdictFacts, NamesFacts
  <1>7. /\ sess' \in [Sids -> SessRec] /\ \A s \in Sids : SessionCalm(s) /\ SessionOK(s)'
    BY <1>3, <1>4, <1>5, ServedSession
  <1>8. PICK k : k = IF ReplyKind(v) = "ok" THEN IssueToken(c.sid) ELSE NoTok
    OBVIOUS
  <1>9. k \in ToksOf(G) /\ k \in Toks
        /\ (ReplyKind(v) = "ok" => k.sid = c.sid /\ Active(c.sid) /\ c.sid # NoSid)
    <2>1. CASE ReplyKind(v) = "ok"
      <3>1. c.sid \in Sids /\ Active(c.sid)
        BY <1>2, <1>4, <1>6, <2>1, ReplyFacts
      <3>2. sess[c.sid].ver \in Versions /\ sess[c.sid].auth \in Versions
        BY <3>1, SessionFacts
      <3>3. k = [sid |-> c.sid, ver |-> sess[c.sid].ver, auth |-> sess[c.sid].auth, live |-> TRUE]
        BY <1>8, <2>1 DEF IssueToken
      <3>4. k \in Toks /\ k.sid = c.sid
        BY <3>1, <3>2, <3>3 DEF Toks, Versions
      <3> QED BY <1>4, <3>1, <3>4, NamesFacts DEF ToksOf
    <2>2. CASE ReplyKind(v) # "ok"
      BY <1>2, <1>8, <2>2, EmptyValues DEF ToksOf
    <2> QED BY <2>1, <2>2
  <1>10. PICK f : f = [rf[t] EXCEPT !.pc = "replied", !.rep = ReplyKind(v), !.sid = NoSid,
                                    !.ck = ReplyCookie(v, c.sid), !.tok = k]
    OBVIOUS
  <1>11. rf'[t] = f
    BY <1>5, <1>8, <1>10
  <1>12. PICK d, y : d = ReplyCookie(v, c.sid) /\ y = ReplyKind(v)
    OBVIOUS
  <1>13. /\ d \in CookiesOf(G) /\ d \in Cookies /\ y \in {"ok", "mismatch", "401"}
         /\ y # "ok" => d \in {Keep, NoCookie}
    BY <1>2, <1>4, <1>6, <1>12, ReplyFacts DEF CookiesOf
  <1>14. f.pc = "replied" /\ f.rep = y /\ f.ck = d /\ f.tok = k
    BY <1>4, <1>10, <1>12 DEF RfRec
  <1>15. f \in RfRec
    BY <1>4, <1>9, <1>10, <1>12, <1>13, NamesFacts DEF RfRec
  <1>16. f \in RefreshesOf(G)
    BY <1>9, <1>12, <1>13, <1>14, <1>15 DEF RefreshesOf, RefreshOK
  <1>17. /\ Older(cookie, c.sid, v) \in CookiesOf(G)
         /\ \A u \in Tabs : [rf[u] EXCEPT !.ck = Older(@, c.sid, v)] \in RefreshesOf(G)
         /\ \A r \in Reqs : /\ [req[r] EXCEPT !.ck = Older(@, c.sid, v)] \in CallsOf(G)
                            /\ Calm(req[r], [req[r] EXCEPT !.ck = Older(@, c.sid, v)])
         /\ \A o \in orphans : [o EXCEPT !.ck = Older(@, c.sid, v)] \in [ck : CookiesOf(G), sid : Names]
    BY <1>1, <1>4, <1>6, OlderEverywhere
  <1>18. rf' \in [Tabs -> RefreshesOf(G)]
    BY <1>5, <1>11, <1>16, <1>17
  <1>19. req' \in [Reqs -> CallsOf(G)] /\ \A r \in Reqs : Calm(req[r], req'[r])
    BY <1>5, <1>17
  <1>20. cookie' \in CookiesOf(G) /\ orphans' \subseteq [ck : CookiesOf(G), sid : Names]
    BY <1>5, <1>17
  <1>21. Fits(G)'
    BY <1>2, <1>5, <1>18, <1>19, <1>20 DEF Fits, On
  <1>22. ASSUME NEW u \in Tabs PROVE OutOK(u)'
    <2>1. TabCalm(u)
      <3>1. CASE u = t
        <4>1. y = "ok" => k.sid \notin out[t]
          BY <1>9, <1>12 DEF Inv, OutOK, Active
        <4> QED BY <1>5, <1>11, <1>14, <3>1, <4>1 DEF TabCalm, SidOf, Answered
      <3>2. CASE u # t
        <4>1. rf'[u] = [rf[u] EXCEPT !.ck = Older(@, c.sid, v)]
          BY <1>5, <3>2
        <4>2. rf'[u].pc = rf[u].pc /\ rf'[u].rep = rf[u].rep
              /\ rf'[u].cur = rf[u].cur /\ rf'[u].tok = rf[u].tok
          BY <1>2, <1>6, <4>1, TabParts, OlderRefresh
        <4> QED BY <1>5, <4>2 DEF TabCalm, SidOf, Answered
      <3> QED BY <3>1, <3>2
    <2> QED BY <1>2, <1>7, <2>1, OutKept DEF Inv
  <1> QED BY <1>1, <1>5, <1>7, <1>19, <1>21, <1>22, CalmStep

\* The server answers a refresh whose page has gone.
LEMMA RefreshOrphanKeeps ==
    ASSUME Inv, RefreshOrphan PROVE Inv'
  <1>1. PICK G : G = Known
    OBVIOUS
  <1>2. On(G) /\ NoSid \in G
    BY <1>1, KnownFits, Parts
  <1>3. PICK o \in orphans :
          LET v == RefreshVerdict(o.ck, o.sid)
          IN  /\ sess' = SessionAfter(v, o.ck.sid) /\ cookie' = Older(cookie, o.ck.sid, v)
              /\ rf' = [u \in Tabs |-> [rf[u] EXCEPT !.ck = Older(@, o.ck.sid, v)]]
              /\ req' = [r \in Reqs |-> [req[r] EXCEPT !.ck = Older(@, o.ck.sid, v)]]
              /\ orphans' = {[p EXCEPT !.ck = Older(@, o.ck.sid, v)] : p \in orphans \ {o}}
    BY DEF RefreshOrphan
  <1>4. PICK c, v : c = o.ck /\ v = RefreshVerdict(c, o.sid)
    OBVIOUS
  <1>5. /\ sess' = SessionAfter(v, c.sid) /\ cookie' = Older(cookie, c.sid, v)
        /\ rf' = [u \in Tabs |-> [rf[u] EXCEPT !.ck = Older(@, c.sid, v)]]
        /\ req' = [r \in Reqs |-> [req[r] EXCEPT !.ck = Older(@, c.sid, v)]]
        /\ orphans' = {[p EXCEPT !.ck = Older(@, c.sid, v)] : p \in orphans \ {o}}
        /\ UNCHANGED <<userAuth, tab, events, faults, out, lost>>
    BY <1>3, <1>4 DEF RefreshOrphan
  <1>6. c \in CookiesOf(G) /\ c \in Cookies /\ c.sid \in G
    <2>1. o \in [ck : CookiesOf(G), sid : Names]
      BY <1>2, Parts
    <2> QED BY <1>4, <2>1 DEF CookiesOf
  <1>7. v = "rotate" => c.sid # NoSid
    BY <1>4, <1>6, VerdictFacts, NamesFacts
  <1>8. /\ sess' \in [Sids -> SessRec] /\ \A s \in Sids : SessionCalm(s) /\ SessionOK(s)'
    BY <1>4, <1>5, <1>6, ServedSession
  <1>9. /\ Older(cookie, c.sid, v) \in CookiesOf(G)
        /\ \A u \in Tabs : [rf[u] EXCEPT !.ck = Older(@, c.sid, v)] \in RefreshesOf(G)
        /\ \A r \in Reqs : /\ [req[r] EXCEPT !.ck = Older(@, c.sid, v)] \in CallsOf(G)
                           /\ Calm(req[r], [req[r] EXCEPT !.ck = Older(@, c.sid, v)])
        /\ \A p \in orphans : [p EXCEPT !.ck = Older(@, c.sid, v)] \in [ck : CookiesOf(G), sid : Names]
    BY <1>1, <1>6, <1>7, OlderEverywhere
  <1>10. rf' \in [Tabs -> RefreshesOf(G)]
    BY <1>5, <1>9
  <1>11. req' \in [Reqs -> CallsOf(G)] /\ \A r \in Reqs : Calm(req[r], req'[r])
    BY <1>5, <1>9
  <1>12. cookie' \in CookiesOf(G) /\ orphans' \subseteq [ck : CookiesOf(G), sid : Names]
    BY <1>5, <1>9
  <1>13. Fits(G)'
    BY <1>2, <1>5, <1>10, <1>11, <1>12 DEF Fits, On
  <1>14. ASSUME NEW u \in Tabs PROVE OutOK(u)'
    <2>1. rf'[u] = [rf[u] EXCEPT !.ck = Older(@, c.sid, v)]
      BY <1>5
    <2>2. rf'[u].pc = rf[u].pc /\ rf'[u].rep = rf[u].rep
              /\ rf'[u].cur = rf[u].cur /\ rf'[u].tok = rf[u].tok
      BY <1>2, <1>7, <2>1, TabParts, OlderRefresh
    <2>3. TabCalm(u)
      BY <1>5, <2>2 DEF TabCalm, SidOf, Answered
    <2> QED BY <1>2, <1>8, <2>3, OutKept DEF Inv
  <1> QED BY <1>1, <1>5, <1>8, <1>11, <1>13, <1>14, CalmStep

\* A step of the server that answers one call.
LEMMA ServerStep ==
    ASSUME Inv, NEW G, G = Known, NEW r \in Reqs, NEW q2 \in CallsOf(G), Calm(req[r], q2),
           req' = [req EXCEPT ![r] = q2],
           sess' \in [Sids -> SessRec], \A s \in Sids : SessionCalm(s) /\ SessionOK(s)',
           UNCHANGED <<userAuth, cookie, tab, rf, events, orphans, faults, out, lost>>
    PROVE  Inv'
  <1>1. On(G)
    BY KnownFits
  <1>2. req' \in [Reqs -> CallsOf(G)] /\ \A c \in Reqs : Calm(req[c], req'[c])
    BY <1>1, Parts, SameCall
  <1>3. Fits(G)'
    BY <1>1, <1>2 DEF Fits, On
  <1>4. \A t \in Tabs : TabCalm(t)
    BY SameTab DEF SidOf
  <1>5. \A t \in Tabs : OutOK(t)'
    BY <1>1, <1>4, OutKept DEF Inv
  <1> QED BY <1>2, <1>3, <1>5, CalmStep

LEMMA GraceKeeps ==
    ASSUME Inv, NEW s \in Sids, GraceEnds(s) PROVE Inv'
  <1>1. PICK G : G = Known
    OBVIOUS
  <1>2. On(G)
    BY <1>1, KnownFits
  <1>3. PICK x : x = [sess[s] EXCEPT !.grace = FALSE]
    OBVIOUS
  <1>4. sess[s] \in SessRec /\ sess[s].ver <= sess[s].auth /\ sess[s].auth <= userAuth
    BY SessionFacts DEF SessionOK
  <1>5. x \in SessRec /\ x.st = sess[s].st /\ x.ver = sess[s].ver /\ x.auth = sess[s].auth
    BY <1>3, <1>4 DEF SessRec
  <1>6. sess' = [sess EXCEPT ![s] = x]
        /\ UNCHANGED <<userAuth, cookie, tab, rf, req, events, orphans, faults, out, lost>>
    BY <1>3 DEF GraceEnds
  <1>7. sess[s].st # "none"
    <2>1. PICK c \in Copies : c = [sid |-> s, age |-> 1]
      BY DEF GraceEnds
    <2>2. c.sid = s /\ c.age # 0
      BY <2>1
    <2>3. ASSUME NEW d \in CookiesOf(G), c = d PROVE s \in G
      BY <2>2, <2>3 DEF CookiesOf
    <2>4. s \in G
      <3>1. CASE c = cookie
        BY <1>2, <2>3, <3>1, Parts
      <3>2. CASE \E t \in Tabs : c = rf[t].ck
        BY <1>2, <2>3, <3>2, TabParts
      <3>3. CASE \E r \in Reqs : c = req[r].ck
        <4>1. PICK r \in Reqs : c = req[r].ck
          BY <3>3
        <4>2. CASE Fresh(r)
          <5>1. req[r].ck = [sid |-> req[r].tok.sid, age |-> 0]
            BY <4>2 DEF Inv, Secret
          <5> QED BY <2>2, <4>1, <5>1
        <4>3. CASE ~Fresh(r)
          BY <1>2, <2>3, <4>1, <4>3, CallParts
        <4> QED BY <4>2, <4>3
      <3>4. CASE \E o \in orphans : c = o.ck
        <4>1. PICK o \in orphans : c = o.ck
          BY <3>4
        <4>2. o \in [ck : CookiesOf(G), sid : Names]
          BY <1>2, Parts
        <4> QED BY <2>3, <4>1, <4>2
      <3> QED BY <2>1, <3>1, <3>2, <3>3, <3>4 DEF Copies
    <2> QED BY <1>1, <2>4, NamesFacts DEF Known
  <1>8. sess' \in [Sids -> SessRec] /\ \A u \in Sids : SessionCalm(u) /\ SessionOK(u)'
    <2>1. x.st = "active" => sess[s].st \in {"none", "active"}
      BY <1>5
    <2> QED BY <1>4, <1>5, <1>6, <1>7, <2>1, OneSession
  <1>9. Fits(G)' /\ \A t \in Tabs : TabCalm(t)
    BY <1>2, <1>6, SameTab DEF Fits, On, SidOf
  <1>10. \A t \in Tabs : OutOK(t)'
    BY <1>2, <1>8, <1>9, OutKept DEF Inv
  <1> QED BY <1>1, <1>6, <1>8, <1>9, <1>10, SameCall, CalmStep

\* A change of security commits.
LEMMA ChangeKeeps ==
    ASSUME Inv, NEW r \in Reqs, ChangeSecurity(r), Validates(req[r].tok) PROVE Inv'
  <1>1. PICK G : G = Known
    OBVIOUS
  <1>2. /\ On(G) /\ req \in [Reqs -> CallsOf(G)] /\ req[r] \in CallsOf(G) /\ req[r] \in ReqRec
        /\ CallOK(req[r])
    BY <1>1, KnownFits, Parts, CallParts
  <1>3. /\ req[r].pc = "sent" /\ req[r].kind = "security" /\ userAuth' = userAuth + 1
        /\ req[r].tok.auth = userAuth
        /\ UNCHANGED <<sess, cookie, tab, rf, events, orphans, faults, out, lost>>
    BY DEF ChangeSecurity, Validates
  <1>4. PICK q2 : q2 = [req[r] EXCEPT !.pc = "changing"]
    OBVIOUS
  <1>5. req' = [req EXCEPT ![r] = q2]
    BY <1>2, <1>4 DEF ChangeSecurity
  <1>6. /\ q2.pc = "changing" /\ q2.kind = "security" /\ q2.tok = req[r].tok /\ q2.ck = req[r].ck
        /\ q2.rep = req[r].rep /\ q2.retried = req[r].retried /\ q2.sent = req[r].sent
    BY <1>2, <1>3, <1>4 DEF ReqRec
  <1>7. q2 \in ReqRec
    BY <1>2, <1>4 DEF ReqRec
  <1>8. CallOK(q2)
    BY <1>2, <1>3, <1>6 DEF CallOK
  <1>9. ~FreshCall(q2) /\ ~FreshCall(req[r])
    BY <1>3, <1>6 DEF FreshCall
  <1>10. q2 \in CallsOf(G)
    BY <1>2, <1>6, <1>7, <1>8, <1>9 DEF CallsOf
  <1>11. req' \in [Reqs -> CallsOf(G)] /\ req'[r] = q2 /\ \A c \in Reqs : c # r => req'[c] = req[c]
    BY <1>2, <1>5, <1>10
  <1>12. Fits(G)'
    BY <1>2, <1>3, <1>11 DEF Fits, On
  <1>13. \A c \in Reqs : Fresh(c)' => Fresh(c) /\ req'[c] = req[c]
    BY <1>9, <1>11 DEF Fresh
  <1>14. G \subseteq Known'
    BY <1>1, <1>3, <1>13 DEF Known
  <1>15. \A c \in Reqs : Secret(c)'
    BY <1>3, <1>13 DEF Secret, Inv
  <1>16. userAuth \in 1..(MaxChanges + 1) /\ userAuth \in Nat
    BY VersionFacts DEF Inv
  <1>17. \A s \in Sids : SessionOK(s)' /\ SessionCalm(s)
    <2> SUFFICES ASSUME NEW s \in Sids PROVE SessionOK(s)' /\ SessionCalm(s)
      OBVIOUS
    <2>1. sess[s].auth \in Nat /\ sess[s].ver \in Nat /\ SessionOK(s)
      BY SessionFacts, VersionNat
    <2> QED BY <1>3, <1>16, <2>1 DEF SessionOK, SessionCalm, Revoked
  <1>18. Room' /\ userAuth' \in 1..(MaxChanges + 1)
    <2>1. PICK C : C = Changes
      OBVIOUS
    <2>2. PICK D : D = Changes'
      OBVIOUS
    <2>3. r \in C /\ D = C \ {r}
      <3>1. r \in C
        BY <1>3, <2>1 DEF Changes, ChangeOnWay
      <3>2. ~ChangeOnWay(q2)
        BY <1>6 DEF ChangeOnWay
      <3> QED BY <1>11, <2>1, <2>2, <3>1, <3>2 DEF Changes
    <2>4. IsFiniteSet(C) /\ Cardinality(C) \in Nat
      BY <2>1, ChangesFinite
    <2>5. IsFiniteSet(D) /\ Cardinality(D) = Cardinality(C) - 1
      BY <2>3, <2>4, FS_RemoveElement
    <2>6. Cardinality(D) \in Nat
      BY <2>5, FS_CardinalityType
    <2>7. userAuth + Cardinality(C) <= MaxChanges + 1
      BY <2>1 DEF Inv, Room
    <2>8. /\ userAuth' + Cardinality(Changes') <= MaxChanges + 1
          /\ userAuth' \in 1..(MaxChanges + 1)
      BY <1>3, <1>16, <2>2, <2>4, <2>5, <2>6, <2>7, VersionFacts
    <2>9. ASSUME NEW c \in Reqs, req'[c].pc = "changing" PROVE req'[c].tok.auth < userAuth'
      <3>1. CASE c = r
        BY <1>3, <1>6, <1>11, <1>16, <3>1
      <3>2. CASE c # r
        <4>1. req'[c] = req[c] /\ req[c].tok.auth < userAuth
          BY <1>11, <2>9, <3>2 DEF Inv, Room
        <4>2. req[c].tok.auth \in Nat
          BY <1>2, CallParts, CallFacts, RecordFacts, VersionNat
        <4> QED BY <1>3, <1>16, <4>1, <4>2
      <3> QED BY <3>1, <3>2
    <2> QED BY <2>8, <2>9 DEF Room
  <1>19. \A t \in Tabs : OutOK(t)'
    <2>1. \A t \in Tabs : TabCalm(t)
      BY <1>3, SameTab DEF SidOf
    <2> QED BY <1>2, <1>17, <2>1, OutKept DEF Inv
  <1>20. sess' \in [Sids -> SessRec]
    BY <1>3 DEF Inv
  <1> QED BY <1>12, <1>14, <1>15, <1>17, <1>18, <1>19, <1>20, Assemble

\* The calling session moves to the new versions.
LEMMA AdvanceKeeps ==
    ASSUME Inv, NEW r \in Reqs, AdvanceCurrentSession(r) PROVE Inv'
  <1>1. PICK G : G = Known
    OBVIOUS
  <1>2. /\ On(G) /\ NoSid \in G /\ req \in [Reqs -> CallsOf(G)] /\ req[r] \in CallsOf(G) /\ req[r] \in ReqRec
        /\ CallOK(req[r])
    BY <1>1, KnownFits, Parts, CallParts
  <1>3. /\ req[r].pc = "changing" /\ req[r].kind = "security" /\ req[r].ck = Keep
        /\ UNCHANGED <<userAuth, cookie, tab, rf, events, orphans, faults, out, lost>>
    BY <1>2 DEF AdvanceCurrentSession, CallOK
  <1>4. ~Fresh(r) /\ req[r].tok \in ToksOf(G) /\ req[r].tok \in Toks
    <2>1. ~Fresh(r)
      BY <1>3 DEF Fresh, FreshCall
    <2> QED BY <1>2, <2>1, CallParts DEF ToksOf
  <1> DEFINE s == req[r].tok.sid
             kept == Active(s) /\ sess[s].ver = req[r].tok.ver /\ sess[s].auth = req[r].tok.auth
  <1>6. sess' = IF ~kept THEN sess
                ELSE [u \in Sids |->
                        IF u = s THEN [sess[u] EXCEPT !.ver = @ + 1, !.auth = userAuth]
                        ELSE IF sess[u].st = "active" THEN [sess[u] EXCEPT !.st = "others"]
                        ELSE sess[u]]
    BY DEF AdvanceCurrentSession
  <1> DEFINE k == IF kept THEN [req[r].tok EXCEPT !.ver = req[r].tok.ver + 1, !.auth = userAuth,
                                                  !.live = TRUE]
                  ELSE req[r].tok
             rep == IF kept THEN "ok" ELSE "fail"
  <1>7. req' = [req EXCEPT ![r] = IF req[r].orphan THEN NoReq
                                  ELSE [req[r] EXCEPT !.pc = "replied", !.rep = rep, !.tok = k]]
    BY DEF AdvanceCurrentSession
  <1>8. kept => /\ s \in Sids /\ sess[s].st = "active" /\ sess[s].ver + 1 <= userAuth
                /\ sess[s].ver + 1 \in Versions /\ userAuth \in Versions
                /\ req[r].tok.ver = sess[s].ver
    <2> SUFFICES ASSUME kept PROVE /\ s \in Sids /\ sess[s].st = "active" /\ sess[s].ver + 1 <= userAuth
                                   /\ sess[s].ver + 1 \in Versions /\ userAuth \in Versions
                                   /\ req[r].tok.ver = sess[s].ver
      OBVIOUS
    <2>1. Active(s) /\ sess[s].ver = req[r].tok.ver /\ sess[s].auth = req[r].tok.auth
      OBVIOUS
    <2>2. s \in Sids
      BY <1>4, <2>1, RecordFacts DEF Active, Names
    <2>3. req[r].tok.auth < userAuth
      BY <1>3 DEF Inv, Room
    <2>4. /\ sess[s].ver \in Nat /\ sess[s].auth \in Nat /\ userAuth \in Nat /\ userAuth <= MaxChanges + 1
          /\ sess[s].ver <= sess[s].auth /\ userAuth \in Versions
      BY <2>2, SessionFacts, VersionNat DEF SessionOK
    <2>5. sess[s].ver + 1 <= userAuth /\ sess[s].ver + 1 \in Versions
      BY <2>1, <2>3, <2>4, VersionFacts DEF Versions
    <2> QED BY <2>1, <2>2, <2>4, <2>5 DEF Active
  <1> HIDE DEF kept
  <1>9. sess' \in [Sids -> SessRec] /\ \A u \in Sids : SessionCalm(u) /\ SessionOK(u)'
    <2>1. CASE ~kept
      BY <1>3, <1>6, <2>1 DEF Inv, SessionCalm, Revoked, SessionOK
    <2>2. CASE kept
      <3>1. ASSUME NEW u \in Sids
            PROVE  sess'[u] \in SessRec /\ SessionCalm(u) /\ SessionOK(u)'
        <4>1. /\ sess[u] \in SessRec /\ sess[u].ver <= sess[u].auth /\ sess[u].auth <= userAuth
          BY SessionFacts DEF SessionOK
        <4>2. CASE u = s
          <5>1. PICK x : x = [sess[s] EXCEPT !.ver = @ + 1, !.auth = userAuth]
            OBVIOUS
          <5>2. sess'[u] = x
            BY <1>6, <2>2, <4>2, <5>1
          <5>3. x \in SessRec /\ x.st = "active" /\ x.ver = sess[s].ver + 1 /\ x.auth = userAuth
            BY <1>8, <2>2, <4>1, <4>2, <5>1 DEF SessRec
          <5>4. x.ver <= x.auth /\ x.auth <= userAuth /\ sess[u].st = "active"
            BY <1>8, <2>2, <4>2, <5>3, SessionFacts
          <5> QED BY <1>3, <5>2, <5>3, <5>4 DEF SessionCalm, Revoked, SessionOK
        <4>3. CASE u # s /\ sess[u].st = "active"
          <5>1. PICK x : x = [sess[u] EXCEPT !.st = "others"]
            OBVIOUS
          <5>2. sess'[u] = x
            BY <1>6, <2>2, <4>3, <5>1
          <5>3. x \in SessRec /\ x.st = "others" /\ x.ver = sess[u].ver /\ x.auth = sess[u].auth
            BY <4>1, <5>1 DEF SessRec
          <5> QED BY <1>3, <4>1, <4>3, <5>2, <5>3 DEF SessionCalm, Revoked, SessionOK
        <4>4. CASE u # s /\ sess[u].st # "active"
          <5>1. sess'[u] = sess[u]
            BY <1>6, <2>2, <4>4
          <5> QED BY <1>3, <4>1, <5>1 DEF SessionCalm, Revoked, SessionOK
        <4> QED BY <4>2, <4>3, <4>4
      <3> QED BY <1>6, <2>2, <3>1
    <2> QED BY <2>1, <2>2
  <1>10. CASE req[r].orphan
    <2>1. req' = [req EXCEPT ![r] = NoReq] /\ NoReq \in CallsOf(G) /\ Calm(req[r], NoReq)
      BY <1>2, <1>7, <1>10, EmptyCall, DroppedCall
    <2> QED BY <1>1, <1>3, <1>9, <2>1, ServerStep
  <1>11. CASE ~req[r].orphan
    <2>2. k \in ToksOf(G)
      <3>1. CASE kept
        <4>1. k = [req[r].tok EXCEPT !.ver = req[r].tok.ver + 1, !.auth = userAuth, !.live = TRUE]
          BY <3>1
        <4>2. k \in Toks /\ k.sid = req[r].tok.sid
          BY <1>4, <1>8, <3>1, <4>1 DEF Toks, Versions
        <4> QED BY <1>4, <4>2 DEF ToksOf
      <3>2. CASE ~kept
        BY <1>4, <3>2
      <3> QED BY <3>1, <3>2
    <2>3. rep \in {"ok", "fail"}
      OBVIOUS
    <2> HIDE DEF rep, k
    <2>4. PICK q2 : q2 = [req[r] EXCEPT !.pc = "replied", !.rep = rep, !.ck = Keep, !.tok = k]
      OBVIOUS
    <2>5. q2 = [req[r] EXCEPT !.pc = "replied", !.rep = rep, !.tok = k]
      BY <1>2, <1>3, <2>4 DEF ReqRec
    <2>6. req' = [req EXCEPT ![r] = q2]
      BY <1>7, <1>11, <2>5
    <2>7. q2 \in CallsOf(G) /\ Calm(req[r], q2)
      BY <1>2, <1>3, <2>2, <2>3, <2>4, AnsweredCall
    <2> QED BY <1>1, <1>3, <1>9, <2>6, <2>7, ServerStep
  <1> QED BY <1>10, <1>11

\* A logout revokes the session it names.
LEMMA LogoutKeeps ==
    ASSUME Inv, NEW r \in Reqs, AuthLogout(r) PROVE Inv'
  <1>1. PICK G : G = Known
    OBVIOUS
  <1>2. /\ On(G) /\ NoSid \in G /\ req \in [Reqs -> CallsOf(G)] /\ req[r] \in CallsOf(G) /\ req[r] \in ReqRec
        /\ CallOK(req[r])
    BY <1>1, KnownFits, Parts, CallParts
  <1>3. /\ req[r].pc = "sent" /\ req[r].kind = "logout"
        /\ UNCHANGED <<userAuth, cookie, tab, rf, events, orphans, faults, out, lost>>
    BY DEF AuthLogout
  <1>4. /\ ~Fresh(r) /\ req[r].tok \in ToksOf(G) /\ req[r].tok.sid \in Names /\ req[r].ck.sid \in Names
        /\ req[r].tok.sid # NoSid
    <2>1. ~Fresh(r)
      BY <1>3 DEF Fresh, FreshCall
    <2>2. req[r].tok \in ToksOf(G) /\ req[r].tok \in Toks /\ req[r].ck \in Cookies
      BY <1>2, <2>1, CallParts, CallFacts
    <2> QED BY <1>2, <1>3, <2>1, <2>2, RecordFacts DEF CallOK
  <1>5. PICK gone \in Names : sess' = IF Active(gone) THEN [sess EXCEPT ![gone].st = "logout"] ELSE sess
    <2>1. NoSid \in Names
      BY NamesFacts
    <2> QED BY <1>4, <2>1 DEF AuthLogout
  <1>6. sess' \in [Sids -> SessRec] /\ \A u \in Sids : SessionCalm(u) /\ SessionOK(u)'
    <2>1. CASE ~Active(gone)
      BY <1>3, <1>5, <2>1 DEF Inv, SessionCalm, Revoked, SessionOK
    <2>2. CASE Active(gone)
      <3>1. gone \in Sids
        BY <2>2 DEF Active, Names
      <3>2. PICK x : x = [sess[gone] EXCEPT !.st = "logout"]
        OBVIOUS
      <3>3. /\ sess[gone] \in SessRec /\ sess[gone].ver <= sess[gone].auth
            /\ sess[gone].auth <= userAuth
        BY <3>1, SessionFacts DEF SessionOK
      <3>4. x \in SessRec /\ x.st = "logout" /\ x.ver = sess[gone].ver /\ x.auth = sess[gone].auth
        BY <3>2, <3>3 DEF SessRec
      <3>5. sess' = [sess EXCEPT ![gone] = x]
        BY <1>5, <2>2, <3>2
      <3> QED BY <1>3, <3>1, <3>3, <3>4, <3>5, OneSession
    <2> QED BY <2>1, <2>2
  <1>7. CASE req[r].orphan
    <2>1. req' = [req EXCEPT ![r] = NoReq] /\ NoReq \in CallsOf(G) /\ Calm(req[r], NoReq)
      BY <1>2, <1>7, EmptyCall, DroppedCall DEF AuthLogout
    <2> QED BY <1>1, <1>3, <1>6, <2>1, ServerStep
  <1>8. CASE ~req[r].orphan
    <2>1. PICK rep \in {"ok", "mismatch"}, ck \in {Keep, NoCookie} :
            req' = [req EXCEPT ![r] = [req[r] EXCEPT !.pc = "replied", !.rep = rep, !.ck = ck]]
      BY <1>2, <1>8 DEF AuthLogout
    <2>2. PICK q2 : q2 = [req[r] EXCEPT !.pc = "replied", !.rep = rep, !.ck = ck, !.tok = req[r].tok]
      OBVIOUS
    <2>3. q2 = [req[r] EXCEPT !.pc = "replied", !.rep = rep, !.ck = ck]
      BY <1>2, <2>2 DEF ReqRec
    <2>4. q2 \in CallsOf(G) /\ Calm(req[r], q2)
      BY <1>2, <1>3, <1>4, <2>2, AnsweredCall
    <2>5. req' = [req EXCEPT ![r] = q2]
      BY <2>1, <2>3
    <2> QED BY <1>1, <1>3, <1>6, <2>4, <2>5, ServerStep
  <1> QED BY <1>7, <1>8

\* A login: the new session is a secret of the answer.
LEMMA CreateKeeps ==
    ASSUME Inv, NEW r \in Reqs, CreateLoginSession(r) PROVE Inv'
  <1>1. PICK G : G = Known
    OBVIOUS
  <1>2. /\ On(G) /\ NoSid \in G /\ req \in [Reqs -> CallsOf(G)] /\ req[r] \in CallsOf(G) /\ req[r] \in ReqRec
        /\ CallOK(req[r])
    BY <1>1, KnownFits, Parts, CallParts
  <1>3. /\ req[r].pc = "sent" /\ req[r].kind = "login"
        /\ UNCHANGED <<userAuth, cookie, tab, rf, events, orphans, faults, out, lost>>
    BY DEF CreateLoginSession
  <1>4. PICK s \in Sids :
          /\ sess[s].st = "none"
          /\ sess' = [sess EXCEPT ![s] = [st |-> "active", ver |-> 1, auth |-> userAuth, grace |-> FALSE]]
          /\ req' = [req EXCEPT ![r] =
               IF req[r].orphan THEN NoReq
               ELSE [req[r] EXCEPT !.pc = "replied", !.rep = "ok", !.ck = [sid |-> s, age |-> 0],
                       !.tok = [sid |-> s, ver |-> 1, auth |-> userAuth, live |-> TRUE]]]
    BY <1>2 DEF CreateLoginSession, Unused
  <1>5. userAuth \in Versions /\ userAuth \in Nat /\ 1 <= userAuth
    BY SessionFacts, NamesFacts DEF Inv
  <1>6. /\ sess' \in [Sids -> SessRec] /\ sess'[s].st # "none"
        /\ (\A u \in Sids : u # s => sess'[u] = sess[u])
        /\ \A u \in Sids : SessionCalm(u) /\ SessionOK(u)'
    <2>1. PICK x : x = [st |-> "active", ver |-> 1, auth |-> userAuth, grace |-> FALSE]
      OBVIOUS
    <2>2. x \in SessRec /\ x.st = "active" /\ x.ver = 1 /\ x.auth = userAuth
      BY <1>5, <2>1, VersionFacts DEF SessRec
    <2>3. x.ver <= x.auth /\ x.auth <= userAuth /\ sess' = [sess EXCEPT ![s] = x]
      BY <1>4, <1>5, <2>1, <2>2
    <2> QED BY <1>3, <1>4, <2>2, <2>3, OneSession
  <1>7. CASE req[r].orphan
    <2>1. req' = [req EXCEPT ![r] = NoReq] /\ NoReq \in CallsOf(G) /\ Calm(req[r], NoReq)
      BY <1>2, <1>4, <1>7, EmptyCall, DroppedCall
    <2> QED BY <1>1, <1>3, <1>6, <2>1, ServerStep
  <1>8. CASE ~req[r].orphan
    <2>1. PICK d, k : /\ d = [sid |-> s, age |-> 0]
                      /\ k = [sid |-> s, ver |-> 1, auth |-> userAuth, live |-> TRUE]
      OBVIOUS
    <2>2. d \in Cookies /\ k \in Toks /\ k.sid = s
      BY <1>5, <2>1, VersionFacts DEF Cookies, Toks, Versions
    <2>3. PICK q2 : q2 = [req[r] EXCEPT !.pc = "replied", !.rep = "ok", !.ck = d, !.tok = k]
      OBVIOUS
    <2>4. req' = [req EXCEPT ![r] = q2]
      BY <1>4, <1>8, <2>1, <2>3
    <2>5. /\ q2.pc = "replied" /\ q2.rep = "ok" /\ q2.ck = d /\ q2.tok = k /\ q2.kind = "login"
          /\ q2.retried = req[r].retried /\ q2.sent = req[r].sent
      BY <1>2, <1>3, <2>3 DEF ReqRec
    <2>6. q2 \in ReqRec
      BY <1>2, <2>2, <2>3 DEF ReqRec
    <2>7. FreshCall(q2) /\ ~ChangeOnWay(q2)
      BY <2>5 DEF FreshCall, ChangeOnWay
    <2>8. CallOK(q2)
      BY <1>2, <1>3, <2>5, <2>7 DEF CallOK
    <2>9. q2 \in CallsOf(G)
      BY <2>6, <2>7, <2>8 DEF CallsOf
    <2>10. req' \in [Reqs -> CallsOf(G)] /\ req'[r] = q2 /\ \A c \in Reqs : c # r => req'[c] = req[c]
      BY <1>2, <2>4, <2>9
    <2>11. Fits(G)'
      BY <1>2, <1>3, <2>10 DEF Fits, On
    <2>12. s \notin G
      BY <1>1, <1>4, NamesFacts DEF Known
    <2>13. \A c \in Reqs : c # r => (Fresh(c)' <=> Fresh(c))
      BY <2>10 DEF Fresh
    <2>14. G \subseteq Known'
      BY <1>1, <1>6, <2>2, <2>5, <2>10, <2>12, <2>13 DEF Known, SessionCalm
    <2>15. ASSUME NEW c \in Reqs PROVE Secret(c)'
      <3>1. \A e \in Reqs : Fresh(e) => req[e].tok.sid # s
        BY <1>4 DEF Inv, Secret
      <3>2. CASE c = r
        BY <1>6, <2>1, <2>2, <2>5, <2>10, <2>13, <3>1, <3>2 DEF Secret
      <3>3. CASE c # r
        <4>1. Secret(c)
          BY DEF Inv
        <4> QED BY <1>6, <2>2, <2>5, <2>10, <2>13, <3>1, <3>3, <4>1 DEF Secret, SessionCalm
      <3> QED BY <3>2, <3>3
    <2>16. Room'
      <3>1. Changes' \subseteq Changes
        BY <2>7, <2>10 DEF Changes
      <3>2. Cardinality(Changes') <= Cardinality(Changes) /\ Cardinality(Changes') \in Nat
        BY <3>1, ChangesFinite, FS_Subset, FS_CardinalityType
      <3>3. userAuth' + Cardinality(Changes') <= MaxChanges + 1
        BY <1>3, <1>5, <3>2, ChangesFinite, VersionFacts DEF Inv, Room
      <3>4. \A c \in Reqs : req'[c].pc = "changing" => req'[c].tok.auth < userAuth'
        BY <1>3, <2>5, <2>10 DEF Inv, Room
      <3> QED BY <3>3, <3>4 DEF Room
    <2>17. \A t \in Tabs : OutOK(t)'
      <3>1. \A t \in Tabs : TabCalm(t)
        BY <1>3, SameTab DEF SidOf
      <3> QED BY <1>2, <1>6, <3>1, OutKept DEF Inv
    <2>18. userAuth' \in 1..(MaxChanges + 1)
      BY <1>3 DEF Inv
    <2> QED BY <1>6, <2>11, <2>14, <2>15, <2>16, <2>17, <2>18, Assemble
  <1> QED BY <1>7, <1>8

-----------------------------------------------------------------------------
(* The invariant.                                                          *)

LEMMA InvInit == Init => Inv
  <1> SUFFICES ASSUME Init PROVE Inv
    OBVIOUS
  <1>1. FirstSid \in Sids /\ NoSid \notin Sids /\ 1 \in Versions /\ 0 \in Versions /\ MaxChanges \in Nat
    BY NamesFacts, VersionFacts
  <1>2. \A r \in Reqs : req[r] = NoReq
    BY DEF Init
  <1>3. \A r \in Reqs : ~Fresh(r) /\ req[r].pc = "idle" /\ ~ChangeOnWay(req[r])
    BY <1>1, <1>2, EmptyCall DEF Fresh
  <1>4. sess \in [Sids -> SessRec]
    <2>1. [st |-> "active", ver |-> 1, auth |-> 1, grace |-> FALSE] \in SessRec
      BY <1>1 DEF SessRec
    <2>2. [st |-> "none", ver |-> 0, auth |-> 0, grace |-> FALSE] \in SessRec
      BY <1>1 DEF SessRec
    <2> QED BY <2>1, <2>2 DEF Init
  <1>5. userAuth = 1 /\ userAuth \in 1..(MaxChanges + 1) /\ \A s \in Sids : SessionOK(s)
    BY <1>1 DEF Init, SessionOK
  <1>6. NoSid \in Known /\ FirstSid \in Known
    BY <1>1, <1>3 DEF Known, Init
  <1>7. Fits(Known)
    <2>1. PICK G : G = Known
      OBVIOUS
    <2>2. NoSid \in G /\ FirstSid \in G
      BY <1>6, <2>1
    <2>3. cookie \in CookiesOf(G)
      <3>1. [sid |-> FirstSid, age |-> 0] \in Cookies
        BY <1>1 DEF Cookies
      <3> QED BY <2>2, <3>1 DEF Init, CookiesOf
    <2>4. tab \in [Tabs -> TabsOf(G)] /\ rf \in [Tabs -> RefreshesOf(G)] /\ req \in [Reqs -> CallsOf(G)]
      BY <2>2, EmptyPage, EmptyRefresh, EmptyCall DEF Init
    <2>5. events \in [Tabs -> Seq(EventRec)] /\ orphans = {} /\ faults = 0 /\ lost = FALSE
            /\ out \in [Tabs -> SUBSET (G \ {NoSid})]
      BY DEF Init
    <2>6. 0 \in 0..MaxFaults
      BY ConstantsAssumption
    <2>7. Fits(G)
      BY <2>3, <2>4, <2>5, <2>6 DEF Fits
    <2> QED BY <2>1, <2>7
  <1>8. \A r \in Reqs : Secret(r)
    BY <1>3 DEF Secret
  <1>9. Room
    <2>1. Changes = {}
      BY <1>3 DEF Changes
    <2>2. Cardinality(Changes) = 0
      BY <2>1, FS_EmptySet
    <2>3. userAuth + Cardinality(Changes) <= MaxChanges + 1
      BY <1>1, <1>5, <2>2
    <2> QED BY <1>3, <2>3 DEF Room
  <1>10. \A t \in Tabs : OutOK(t)
    BY DEF Init, OutOK
  <1> QED BY <1>4, <1>5, <1>7, <1>8, <1>9, <1>10 DEF Inv

LEMMA ServerKeeps ==
    ASSUME Inv, NEW r \in Reqs, Server(r) PROVE Inv'
  <1>1. CASE ServeCall(r)
    BY <1>1, ServeCallKeeps
  <1>2. CASE ChangeSecurity(r)
    BY <1>2, ServeCallKeeps, ChangeKeeps
  <1>3. CASE AdvanceCurrentSession(r)
    BY <1>3, AdvanceKeeps
  <1>4. CASE AuthLogout(r)
    BY <1>4, LogoutKeeps
  <1>5. CASE CreateLoginSession(r)
    BY <1>5, CreateKeeps
  <1> QED BY <1>1, <1>2, <1>3, <1>4, <1>5 DEF Server

LEMMA InvStutter == ASSUME Inv, UNCHANGED vars PROVE Inv'
  <1>1. PICK G : G = Known
    OBVIOUS
  <1>2. On(G) /\ UNCHANGED <<sess, userAuth, cookie, tab, rf, req, events, orphans, faults, out, lost>>
    BY <1>1, KnownFits DEF vars
  <1>3. Fits(G)'
    BY <1>2 DEF On, Fits
  <1>4. \A t \in Tabs : TabCalm(t)
    BY <1>2, SameTab DEF SidOf
  <1> QED BY <1>1, <1>2, <1>3, <1>4, SameCall, BrowserStep

LEMMA InvStep == Inv /\ [Next]_vars => Inv'
  <1> SUFFICES ASSUME Inv, [Next]_vars PROVE Inv'
    OBVIOUS
  <1>1. ASSUME NEW t \in Tabs,
               \/ RefreshAuth(t) \/ RunRefresh(t) \/ RefreshReply(t) \/ SyncEvent(t)
               \/ Guard(t) \/ Expire(t) \/ LoseRefresh(t)
        PROVE  Inv'
    BY <1>1, RefreshAuthKeeps, RunRefreshKeeps, RefreshReplyKeeps, SyncEventKeeps, GuardKeeps,
       LoseRefreshKeeps
  <1>2. ASSUME NEW r \in Reqs,
               \/ Server(r) \/ RequestReply(r) \/ LoseRequest(r)
               \/ \E k \in Kinds[r] : Issue(r, k)
        PROVE  Inv'
    BY <1>2, ServerKeeps, RequestReplyKeeps, LoseRequestKeeps, IssueKeeps
  <1>3. CASE \E s \in Sids : GraceEnds(s)
    BY <1>3, GraceKeeps
  <1>4. CASE RefreshOrphan
    BY <1>4, RefreshOrphanKeeps
  <1>5. CASE UNCHANGED vars
    BY <1>5, InvStutter
  <1> QED BY <1>1, <1>2, <1>3, <1>4, <1>5 DEF Next

\* The invariant holds of every behaviour.
LEMMA InvHolds == Spec => []Inv
  BY InvInit, InvStep, PTL DEF Spec

LEMMA InvTypes == Inv => TypeOK
  <1> SUFFICES ASSUME Inv PROVE TypeOK
    OBVIOUS
  <1>1. PICK G : G = Known
    OBVIOUS
  <1>2. On(G)
    BY <1>1, KnownFits
  <1>3. cookie \in Cookies /\ orphans \subseteq [ck : Cookies, sid : Names]
    <2>1. CookiesOf(G) \subseteq Cookies
      BY DEF CookiesOf
    <2> QED BY <1>2, <2>1, Parts
  <1>4. tab \in [Tabs -> TabRec] /\ rf \in [Tabs -> RfRec] /\ req \in [Reqs -> ReqRec]
    <2>1. TabsOf(G) \subseteq TabRec /\ RefreshesOf(G) \subseteq RfRec /\ CallsOf(G) \subseteq ReqRec
      BY DEF TabsOf, RefreshesOf, CallsOf
    <2> QED BY <1>2, <2>1, Parts
  <1>5. out \in [Tabs -> SUBSET Sids]
    <2>1. G \ {NoSid} \subseteq Sids
      BY <1>1 DEF Known
    <2> QED BY <1>2, <2>1 DEF On, Fits
  <1>6. events \in [Tabs -> Seq(EventRec)] /\ faults \in 0..MaxFaults /\ lost \in BOOLEAN
    BY <1>2 DEF On, Fits
  <1>7. sess \in [Sids -> SessRec] /\ userAuth \in 1..(MaxChanges + 1)
    BY DEF Inv
  <1> QED BY <1>3, <1>4, <1>5, <1>6, <1>7
          DEF TypeOK, SessRec, TabRec, RfRec, ReqRec, EventRec, Names, Versions

\* The state keeps the shapes the code gives it: versions stay within the
\* security changes of the account, no call goes out more than twice, and every
\* event between tabs names a session (model/user_session.go, http-client.ts,
\* auth-session-sync.ts).
THEOREM AuthTypeCorrect == Spec => []TypeOK
  BY InvHolds, InvTypes, PTL

\* A call that spends a one-time proof reaches the network once, with any number
\* of tabs, calls and refreshes around it, any loss and any reload
\* (http-client.ts interceptors).
THEOREM ProofSpentOnceHolds == Spec => []ProofSpentOnce
  <1>1. Inv => ProofSpentOnce
    <2> SUFFICES ASSUME Inv, NEW r \in Reqs
                 PROVE  req[r].sent <= IF req[r].kind \in {"once", "security"} THEN 1 ELSE 2
      BY DEF ProofSpentOnce
    <2>1. On(Known)
      BY KnownFits
    <2>2. req[r] \in ReqRec /\ CallOK(req[r])
      BY <2>1, CallParts
    <2>3. /\ req[r].sent \in 0..2 /\ req[r].pc \in {"idle", "sent", "changing", "replied", "await"}
      BY <2>2, CallFacts
    <2> QED BY <2>2, <2>3 DEF CallOK, Proof
  <1> QED BY <1>1, InvHolds, PTL

\* A tab that has signed out of a revoked session never holds it again, whatever
\* refreshes, rotations and logins were on their way, in however many tabs, with
\* or without the browser lock (auth-session.ts isCurrent, applyAuthRotation).
THEOREM SignedOutStaysOutHolds == Spec => []SignedOutStaysOut
  <1>1. Inv => SignedOutStaysOut
    BY DEF Inv, OutOK, SignedOutStaysOut
  <1> QED BY <1>1, InvHolds, PTL

-----------------------------------------------------------------------------
(* Taking turns.                                                           *)

\* The refresh of tab u is not touched, or is none that the lock guards.
SameTurn(u) ==
  \/ rf'[u].pc = rf[u].pc /\ rf'[u].rep = rf[u].rep /\ rf'[u].ck = rf[u].ck
  \/ ~Busy(u) /\ ~Busy(u)'

LEMMA TurnsKept ==
    ASSUME Turns, NoReuse, orphans' = orphans, \A u \in Tabs : SameTurn(u),
           Newest(cookie') \/ cookie' = cookie,
           \A s \in Sids : sess'[s].st = "reuse" => sess[s].st = "reuse"
    PROVE  Turns' /\ NoReuse'
  <1>1. \A u \in Tabs : Busy(u)' => Busy(u)
    BY DEF SameTurn, Busy
  <1>2. \A u \in Tabs : Answered(u)' => Answered(u) /\ rf'[u].ck = rf[u].ck
    BY DEF SameTurn, Answered, Busy
  <1>3. \A u \in Tabs : Answered(u) => Answered(u)'
    BY DEF SameTurn, Answered, Busy
  <1>4. \A u \in Tabs : rf'[u].pc = "sent" => rf[u].pc = "sent" /\ rf'[u].ck = rf[u].ck
    BY DEF SameTurn, Busy
  <1>5. \A t, u \in Tabs : Busy(t)' /\ Busy(u)' => t = u
    BY <1>1 DEF Turns
  <1>6. \A t \in Tabs : rf'[t].pc = "sent" => Newest(rf'[t].ck)
    BY <1>4 DEF Turns
  <1>7. \A t \in Tabs : Answered(t)' => rf'[t].ck.age = 0
    BY <1>2 DEF Turns
  <1>8. Newest(cookie') \/ \E t \in Tabs : Answered(t)'
    BY <1>3 DEF Turns
  <1>9. orphans' = {} /\ NoReuse'
    BY DEF Turns, NoReuse
  <1> QED BY <1>5, <1>6, <1>7, <1>8, <1>9 DEF Turns, Newest

\* Only tab t holds the lock.
LEMMA OneBusy ==
    ASSUME NEW t \in Tabs, Turns, Busy(t) PROVE \A u \in Tabs : u # t => ~Busy(u)
  BY DEF Turns

\* A page that is replaced although nothing is lost has no refresh on the way.
LEMMA ReloadTurn ==
    ASSUME NEW G, On(G), NEW t \in Tabs, NEW ev, Reload(t, ev), ~lost'
    PROVE  orphans' = orphans /\ ~Busy(t) /\ \A u \in Tabs : SameTurn(u)
  <1>1. ~Busy(t) /\ orphans' = orphans
    BY DEF Reload, Busy
  <1>2. rf' = [rf EXCEPT ![t] = NoRefresh] /\ rf \in [Tabs -> RefreshesOf(G)] /\ NoRefresh.pc = "none"
    BY Parts, EmptyRefresh DEF Reload
  <1> QED BY <1>1, <1>2 DEF SameTurn, Busy

LEMMA SettleTurn ==
    ASSUME NEW G, On(G), NEW t \in Tabs, NEW o, NEW st, NEW ck, NEW ev, Settle(t, o, st, ck, ev), ~lost'
    PROVE  /\ orphans' = orphans /\ rf'[t].pc = "none"
           /\ \A u \in Tabs : u # t => rf'[u] = rf[u]
  <1>1. rf \in [Tabs -> RefreshesOf(G)] /\ NoRefresh.pc = "none"
    BY Parts, EmptyRefresh
  <1>2. rf' = [rf EXCEPT ![t] = NoRefresh]
    BY DEF Settle, Reload
  <1>3. orphans' = orphans
    <2>1. CASE Reload(t, ev)
      BY <2>1, ReloadTurn
    <2>2. CASE ~Reload(t, ev)
      BY <2>2 DEF Settle
    <2> QED BY <2>1, <2>2
  <1> QED BY <1>1, <1>2, <1>3

\* Under the lock a refresh starts in the queue.
LEMMA StartTurn ==
    ASSUME NEW G, On(G), Locks, NEW t \in Tabs, rf' = rf \/ rf' = Started(t) \/ rf' = Bumped(t)
    PROVE  \A u \in Tabs : SameTurn(u)
  <1>1. CASE rf' = rf
    BY <1>1 DEF SameTurn
  <1>2. CASE rf' = Started(t)
    <2>1. \A u \in Tabs : u # t => rf'[u] = rf[u]
      BY <1>2, StartedRefresh
    <2>2. rf'[t] = rf[t] \/ (rf[t].pc = "none" /\ rf'[t].pc = "queued")
      BY <1>2, StartedRefresh
    <2> QED BY <2>1, <2>2 DEF SameTurn, Busy
  <1>3. CASE rf' = Bumped(t)
    BY <1>3, BumpedRefresh DEF SameTurn
  <1> QED BY <1>1, <1>2, <1>3

LEMMA RunTurn ==
    ASSUME Inv, Locks, Turns, NoReuse, NEW t \in Tabs, RunRefresh(t), ~lost'
    PROVE  Turns' /\ NoReuse'
  <1>1. PICK G : G = Known
    OBVIOUS
  <1>2. On(G) /\ rf \in [Tabs -> RefreshesOf(G)] /\ rf[t] \in RfRec
    BY <1>1, KnownFits, Parts, TabParts
  <1>3. sess' = sess /\ cookie' = cookie /\ rf[t].pc = "queued" /\ ~Busy(t)
    BY DEF RunRefresh, Busy
  <1>4. CASE rf[t].cur
    <2>1. /\ rf' = [rf EXCEPT ![t].pc = "sent", ![t].sid = SidOf(t), ![t].ck = cookie]
          /\ orphans' = orphans
      BY <1>4 DEF RunRefresh
    <2>2. /\ rf'[t].pc = "sent" /\ rf'[t].ck = cookie
          /\ \A u \in Tabs : u # t => rf'[u] = rf[u]
      BY <1>2, <2>1 DEF RfRec
    <2>3. \A u \in Tabs : u # t => ~Busy(u) /\ ~Busy(u)'
      BY <2>2 DEF RunRefresh, LockFree, Busy
    <2>4. Newest(cookie)
      BY <1>3, <2>3 DEF Turns, Answered, Busy
    <2>5. \A u \in Tabs : ~Answered(u)'
      BY <2>2, <2>3 DEF Answered, Busy
    <2>6. \A u \in Tabs : rf'[u].pc = "sent" => Newest(rf'[u].ck)
      BY <2>2, <2>3, <2>4 DEF Busy
    <2>7. \A u, w \in Tabs : Busy(u)' /\ Busy(w)' => u = w
      BY <2>3
    <2> QED BY <1>3, <2>1, <2>4, <2>5, <2>6, <2>7 DEF Turns, NoReuse, Newest
  <1>5. CASE ~rf[t].cur
    <2>1. Settle(t, "superseded", tab[t], cookie, events)
      BY <1>5 DEF RunRefresh
    <2>2. /\ orphans' = orphans /\ rf'[t].pc = "none"
          /\ \A u \in Tabs : u # t => rf'[u] = rf[u]
      BY <1>2, <2>1, SettleTurn
    <2>3. \A u \in Tabs : SameTurn(u)
      BY <1>3, <2>2 DEF SameTurn, Busy
    <2> QED BY <1>3, <2>2, <2>3, TurnsKept
  <1> QED BY <1>4, <1>5

\* The browser stores the new secret before it lets the next refresh go.
LEMMA ReplyTurn ==
    ASSUME Inv, Locks, Turns, NoReuse, NEW t \in Tabs, RefreshReply(t), ~lost'
    PROVE  Turns' /\ NoReuse'
  <1>1. PICK G : G = Known
    OBVIOUS
  <1>2. /\ On(G) /\ NoSid \in G /\ rf \in [Tabs -> RefreshesOf(G)] /\ RefreshOK(rf[t])
    BY <1>1, KnownFits, Parts, TabParts
  <1>3. PICK ck : cookie' = ck /\ ck = StoredCookie(rf[t].ck)
    BY DEF RefreshReply
  <1>4. sess' = sess /\ rf[t].pc = "replied" /\ Busy(t)
    BY DEF RefreshReply, Busy
  <1>5. \A u \in Tabs : u # t => ~Busy(u)
    BY <1>4, OneBusy
  <1>6. Newest(ck)
    <2>1. CASE Answered(t)
      <3>1. rf[t].ck.age = 0 /\ Keep.age = 2
        BY <2>1 DEF Turns, Keep
      <3>2. ck = rf[t].ck
        BY <1>3, <3>1 DEF StoredCookie
      <3> QED BY <3>1, <3>2 DEF Newest
    <2>2. CASE ~Answered(t)
      <3>1. Newest(cookie)
        BY <1>5, <2>2 DEF Turns, Answered, Busy
      <3>2. rf[t].ck \in {Keep, NoCookie}
        BY <1>2, <1>4, <2>2 DEF RefreshOK, Answered
      <3>3. Newest(NoCookie)
        BY DEF Newest, NoCookie
      <3> QED BY <1>3, <3>1, <3>2, <3>3 DEF StoredCookie
    <2> QED BY <2>1, <2>2
  <1>7. /\ orphans' = orphans /\ (\A u \in Tabs : u # t => rf'[u] = rf[u])
        /\ rf'[t].pc = "none" \/ (rf'[t].pc = "sent" /\ rf'[t].ck = ck)
    <2>1. ASSUME NEW o, NEW st, NEW ev, Settle(t, o, st, ck, ev)
          PROVE  /\ orphans' = orphans /\ rf'[t].pc = "none"
                 /\ \A u \in Tabs : u # t => rf'[u] = rf[u]
      BY <1>2, <2>1, SettleTurn
    <2>2. CASE /\ rf' = [rf EXCEPT ![t] = [NoRefresh EXCEPT !.pc = "sent", !.cur = TRUE, !.ck = ck]]
               /\ orphans' = orphans
      BY <1>2, <2>2 DEF NoRefresh
    <2>3. \/ /\ rf' = [rf EXCEPT ![t] = [NoRefresh EXCEPT !.pc = "sent", !.cur = TRUE, !.ck = ck]]
             /\ orphans' = orphans
          \/ \E o, st, ev : Settle(t, o, st, ck, ev)
      BY <1>3 DEF RefreshReply
    <2> QED BY <2>1, <2>2, <2>3
  <1>8. \A u \in Tabs : u # t => ~Busy(u)'
    BY <1>5, <1>7 DEF Busy
  <1>9. \A u \in Tabs : ~Answered(u)'
    BY <1>7, <1>8 DEF Answered, Busy
  <1>10. \A u \in Tabs : rf'[u].pc = "sent" => Newest(rf'[u].ck)
    BY <1>6, <1>7, <1>8 DEF Busy
  <1>11. \A u, w \in Tabs : Busy(u)' /\ Busy(w)' => u = w
    BY <1>8
  <1>12. orphans' = {} /\ NoReuse'
    BY <1>4, <1>7 DEF Turns, NoReuse
  <1> QED BY <1>3, <1>6, <1>9, <1>10, <1>11, <1>12 DEF Turns, Newest

\* The server sees the current secret, so that it takes nothing for a replay.
LEMMA AuthTurn ==
    ASSUME Inv, Locks, Turns, NoReuse, NEW t \in Tabs, RefreshAuth(t), ~lost'
    PROVE  Turns' /\ NoReuse'
  <1>1. PICK G : G = Known
    OBVIOUS
  <1>2. /\ On(G) /\ NoSid \in G /\ G \subseteq Names /\ rf[t] \in RfRec /\ rf[t].ck.sid \in G
    BY <1>1, KnownFits, Parts, TabParts
  <1>3. PICK c, v : c = rf[t].ck /\ v = RefreshVerdict(c, rf[t].sid)
    OBVIOUS
  <1>4. c \in Cookies /\ c.sid \in G /\ Newest(c) /\ rf[t].pc = "sent" /\ Busy(t)
    BY <1>2, <1>3, RefreshFacts DEF Turns, Busy, RefreshAuth
  <1>5. /\ sess' = SessionAfter(v, c.sid) /\ cookie' = Older(cookie, c.sid, v) /\ userAuth' = userAuth
        /\ rf' = [u \in Tabs |->
             IF u = t
             THEN [rf[t] EXCEPT !.pc = "replied", !.rep = ReplyKind(v), !.sid = NoSid,
                                !.ck = ReplyCookie(v, c.sid),
                                !.tok = IF ReplyKind(v) = "ok" THEN IssueToken(c.sid) ELSE NoTok]
             ELSE [rf[u] EXCEPT !.ck = Older(@, c.sid, v)]]
        /\ orphans' = {[o EXCEPT !.ck = Older(@, c.sid, v)] : o \in orphans}
    BY <1>3 DEF RefreshAuth
  <1>6. v \in Verdicts /\ v \notin {"again", "reuse"} /\ (v = "rotate" => c.sid # NoSid)
    BY <1>3, <1>4, VerdictFacts, NamesFacts DEF Newest
  <1>7. NoReuse'
    BY <1>3, <1>4, <1>5, <1>6, ServedSession DEF NoReuse
  <1>8. orphans' = {}
    BY <1>5 DEF Turns
  <1>9. PICK k : k = IF ReplyKind(v) = "ok" THEN IssueToken(c.sid) ELSE NoTok
    OBVIOUS
  <1>10. /\ rf'[t].pc = "replied" /\ rf'[t].rep = ReplyKind(v) /\ rf'[t].ck = ReplyCookie(v, c.sid)
    <2>1. rf'[t] = [rf[t] EXCEPT !.pc = "replied", !.rep = ReplyKind(v), !.sid = NoSid,
                                 !.ck = ReplyCookie(v, c.sid), !.tok = k]
      BY <1>5, <1>9
    <2> QED BY <1>2, <2>1 DEF RfRec
  <1>11. ASSUME NEW u \in Tabs, u # t PROVE ~Busy(u) /\ ~Busy(u)'
    <2>1. ~Busy(u)
      BY <1>4, <1>11, OneBusy
    <2>2. rf'[u] = [rf[u] EXCEPT !.ck = Older(@, c.sid, v)]
      BY <1>5, <1>11
    <2>3. rf'[u].pc = rf[u].pc
      BY <1>2, <1>6, <2>2, TabParts, OlderRefresh
    <2> QED BY <2>1, <2>3 DEF Busy
  <1>12. /\ ReplyKind(v) = "ok" <=> v \in {"rotate", "again"}
         /\ ReplyKind(v) = "ok" => ReplyCookie(v, c.sid) = [sid |-> c.sid, age |-> 0]
    BY <1>2, <1>4, <1>6, ReplyFacts
  <1>13. Newest(cookie') \/ Answered(t)'
    <2>1. CASE v = "rotate"
      BY <1>10, <1>12, <2>1 DEF Answered
    <2>2. CASE v # "rotate"
      <3>1. Newest(cookie)
        BY <1>4, <1>11 DEF Turns, Answered, Busy
      <3>2. cookie' = cookie
        BY <1>2, <1>5, <2>2, Parts, OlderFacts
      <3> QED BY <3>1, <3>2
    <2> QED BY <2>1, <2>2
  <1>14. \A u \in Tabs : Answered(u)' => rf'[u].ck.age = 0
    <2>1. Answered(t)' => rf'[t].ck.age = 0
      <3>1. [sid |-> c.sid, age |-> 0].age = 0
        OBVIOUS
      <3> QED BY <1>10, <1>12, <3>1 DEF Answered
    <2> QED BY <1>11, <2>1 DEF Answered, Busy
  <1>15. \A u \in Tabs : rf'[u].pc # "sent"
    BY <1>10, <1>11 DEF Busy
  <1>16. \A u, w \in Tabs : Busy(u)' /\ Busy(w)' => u = w
    BY <1>11
  <1> QED BY <1>7, <1>8, <1>13, <1>14, <1>15, <1>16 DEF Turns, Newest

\* The cookie in an answer to a call is the current secret of its session.
LEMMA CallCookie ==
    ASSUME Inv, NEW r \in Reqs, req[r].pc = "replied", cookie' = StoredCookie(req[r].ck)
    PROVE  Newest(cookie') \/ cookie' = cookie
  <1>1. CallOK(req[r])
    BY KnownFits, CallParts
  <1>2. CASE Fresh(r)
    <2>1. req[r].ck = [sid |-> req[r].tok.sid, age |-> 0]
      BY <1>2 DEF Inv, Secret
    <2>2. Newest(req[r].ck)
      BY <2>1 DEF Newest
    <2> QED BY <2>2 DEF StoredCookie
  <1>3. CASE ~Fresh(r)
    <2>1. req[r].ck \in {Keep, NoCookie} /\ Newest(NoCookie)
      BY <1>1, <1>3 DEF CallOK, Fresh, Newest, NoCookie
    <2> QED BY <2>1 DEF StoredCookie
  <1> QED BY <1>2, <1>3

LEMMA RequestTurn ==
    ASSUME Inv, Locks, Turns, NoReuse, NEW r \in Reqs, RequestReply(r), ~lost'
    PROVE  Turns' /\ NoReuse'
  <1>1. PICK G : G = Known
    OBVIOUS
  <1>2. PICK t \in Tabs : TabOf(r) = t
    BY <1>1, KnownFits, CallParts
  <1>3. On(G) /\ sess' = sess /\ (Newest(cookie') \/ cookie' = cookie)
    BY <1>1, KnownFits, CallCookie DEF RequestReply
  <1>4. orphans' = orphans /\ \A u \in Tabs : SameTurn(u)
    <2>1. CASE Reload(t, events)
      BY <1>3, <2>1, ReloadTurn
    <2>2. CASE orphans' = orphans /\ (rf' = rf \/ rf' = Started(t) \/ rf' = Bumped(t))
      BY <1>3, <2>2, StartTurn
    <2>3. CASE PlainReply(r)
      BY <1>2, <2>1, <2>2, <2>3 DEF PlainReply, AwaitRefresh
    <2>4. CASE OnceReply(r) \/ SecurityReply(r) \/ LoginReply(r)
      BY <1>2, <2>2, <2>4 DEF OnceReply, SecurityReply, LoginReply
    <2>5. CASE LogoutReply(r)
      BY <1>2, <2>2, <2>5 DEF LogoutReply, SignOut, AwaitRefresh
    <2> QED BY <2>3, <2>4, <2>5 DEF RequestReply
  <1> QED BY <1>3, <1>4, TurnsKept

LEMMA TabTurn ==
    ASSUME Inv, Locks, Turns, NoReuse, NEW t \in Tabs, SyncEvent(t) \/ Guard(t) \/ Expire(t), ~lost'
    PROVE  Turns' /\ NoReuse'
  <1>1. PICK G : G = Known
    OBVIOUS
  <1>2. On(G) /\ sess' = sess /\ cookie' = cookie
    BY <1>1, KnownFits DEF SyncEvent, Guard, Expire
  <1>3. orphans' = orphans /\ \A u \in Tabs : SameTurn(u)
    <2>1. CASE \E ev : Reload(t, ev)
      BY <1>2, <2>1, ReloadTurn
    <2>2. CASE orphans' = orphans /\ (rf' = rf \/ rf' = Started(t) \/ rf' = Bumped(t))
      BY <1>2, <2>2, StartTurn
    <2>3. CASE SyncEvent(t)
      BY <2>1, <2>2, <2>3 DEF SyncEvent
    <2>4. CASE Guard(t) \/ Expire(t)
      BY <2>2, <2>4 DEF Guard, Resolve, Expire
    <2> QED BY <2>3, <2>4
  <1> QED BY <1>2, <1>3, TurnsKept

\* Nothing but a refresh makes the server think of a replay.
LEMMA ServerTurn ==
    ASSUME Inv, Locks, Turns, NoReuse, ~lost',
           \/ \E r \in Reqs : Server(r) \/ LoseRequest(r) \/ \E k \in Kinds[r] : Issue(r, k)
           \/ \E s \in Sids : GraceEnds(s)
           \/ UNCHANGED vars
    PROVE  Turns' /\ NoReuse'
  <1>1. PICK G : G = Known
    OBVIOUS
  <1>2. On(G) /\ sess \in [Sids -> SessRec]
    BY <1>1, KnownFits DEF Inv
  <1>3. orphans' = orphans /\ cookie' = cookie /\ \A u \in Tabs : SameTurn(u)
    <2>1. CASE \E r \in Reqs : \E k \in Kinds[r] : Issue(r, k)
      <3>0. PICK r \in Reqs : \E k \in Kinds[r] : Issue(r, k)
        BY <2>1
      <3>1. PICK k \in Kinds[r] : Issue(r, k)
        BY <3>0
      <3>2. PICK t \in Tabs : TabOf(r) = t
        BY <1>2, CallParts
      <3> QED BY <1>2, <3>1, <3>2, StartTurn DEF Issue
    <2>2. CASE orphans' = orphans /\ cookie' = cookie /\ rf' = rf
      BY <2>2 DEF SameTurn
    <2> QED BY <2>1, <2>2
            DEF Server, ServeCall, ChangeSecurity, AdvanceCurrentSession, AuthLogout,
                CreateLoginSession, LoseRequest, GraceEnds, vars
  <1>4. ASSUME NEW u \in Sids PROVE sess'[u].st = "reuse" => sess[u].st = "reuse"
    <2>1. sess[u] \in SessRec
      BY <1>2
    <2>2. CASE sess' = sess
      BY <2>2
    <2>3. CASE \E r \in Reqs : AdvanceCurrentSession(r)
      <3>1. PICK r \in Reqs : AdvanceCurrentSession(r)
        BY <2>3
      <3>2. sess' = sess \/ sess'[u] \in {[sess[u] EXCEPT !.ver = @ + 1, !.auth = userAuth],
                                          [sess[u] EXCEPT !.st = "others"], sess[u]}
        BY <3>1 DEF AdvanceCurrentSession
      <3>3. /\ [sess[u] EXCEPT !.ver = @ + 1, !.auth = userAuth].st = sess[u].st
            /\ [sess[u] EXCEPT !.st = "others"].st = "others"
        BY <2>1 DEF SessRec
      <3> QED BY <3>2, <3>3
    <2>4. CASE \E s : sess' = [sess EXCEPT ![s].st = "logout"]
      <3>1. PICK s : sess' = [sess EXCEPT ![s].st = "logout"]
        BY <2>4
      <3> QED BY <1>2, <2>1, <3>1 DEF SessRec
    <2>5. CASE \E s, x : sess' = [sess EXCEPT ![s] = x] /\ x.st = "active"
      BY <1>2, <2>5
    <2>6. CASE \E s \in Sids : GraceEnds(s)
      <3>1. PICK s \in Sids : sess' = [sess EXCEPT ![s].grace = FALSE]
        BY <2>6 DEF GraceEnds
      <3> QED BY <1>2, <2>1, <3>1 DEF SessRec
    <2>7. ASSUME NEW r \in Reqs, Server(r)
          PROVE  \/ sess' = sess
                 \/ \E c \in Reqs : AdvanceCurrentSession(c)
                 \/ \E s : sess' = [sess EXCEPT ![s].st = "logout"]
                 \/ \E s, x : sess' = [sess EXCEPT ![s] = x] /\ x.st = "active"
      <3>1. CASE AuthLogout(r)
        BY <3>1 DEF AuthLogout
      <3>2. CASE CreateLoginSession(r)
        <4>1. PICK s \in Sids : sess' = [sess EXCEPT ![s] = [st |-> "active", ver |-> 1,
                                                              auth |-> userAuth, grace |-> FALSE]]
          BY <3>2 DEF CreateLoginSession, Unused
        <4>2. [st |-> "active", ver |-> 1, auth |-> userAuth, grace |-> FALSE].st = "active"
          OBVIOUS
        <4> QED BY <4>1, <4>2
      <3> QED BY <2>7, <3>1, <3>2 DEF Server, ServeCall, ChangeSecurity
    <2> QED BY <2>2, <2>3, <2>4, <2>5, <2>6, <2>7 DEF LoseRequest, Issue, vars
  <1> QED BY <1>3, <1>4, TurnsKept

LEMMA NoReplayStep == ASSUME Locks, Inv, NoReplay, [Next]_vars PROVE NoReplay'
  <1> SUFFICES ASSUME ~lost' PROVE Turns' /\ NoReuse'
    BY DEF NoReplay
  <1>1. ~lost
    <2>1. ASSUME NEW t \in Tabs, RefreshAuth(t) \/ RunRefresh(t) \/ Guard(t) \/ Expire(t)
          PROVE  lost' = lost
      <3>1. CASE RefreshAuth(t)
        BY <3>1 DEF RefreshAuth
      <3>2. CASE RunRefresh(t)
        BY <3>2 DEF RunRefresh, Settle
      <3>3. CASE Guard(t) \/ Expire(t)
        BY <3>3 DEF Guard, Expire
      <3> QED BY <2>1, <3>1, <3>2, <3>3
    <2>2. ASSUME NEW t, NEW ev, Reload(t, ev) PROVE lost => lost'
      BY <2>2 DEF Reload
    <2>8. ASSUME NEW t \in Tabs PROVE ~LoseRefresh(t)
      BY DEF LoseRefresh
    <2>3. ASSUME NEW t \in Tabs, RefreshReply(t) PROVE lost' = lost \/ \E ev : Reload(t, ev)
      BY <2>3 DEF RefreshReply, Settle
    <2>4. ASSUME NEW t \in Tabs, SyncEvent(t) PROVE lost' = lost \/ \E ev : Reload(t, ev)
      BY <2>4 DEF SyncEvent
    <2>5. ASSUME NEW r \in Reqs, RequestReply(r)
          PROVE  lost' = lost \/ \E t, ev : Reload(t, ev)
      BY <2>5 DEF RequestReply, PlainReply, OnceReply, SecurityReply, LogoutReply, LoginReply,
                  SignOut, AwaitRefresh
    <2>6. ASSUME NEW r \in Reqs, Server(r) \/ LoseRequest(r) \/ \E k \in Kinds[r] : Issue(r, k)
          PROVE  lost' = lost
      BY <2>6 DEF Server, ServeCall, ChangeSecurity, AdvanceCurrentSession, AuthLogout,
                  CreateLoginSession, LoseRequest, Issue
    <2>7. (RefreshOrphan \/ \E s \in Sids : GraceEnds(s)) => lost' = lost
      BY DEF RefreshOrphan, GraceEnds
    <2> QED BY <2>1, <2>2, <2>3, <2>4, <2>5, <2>6, <2>7, <2>8 DEF Next, vars
  <1>2. Turns /\ NoReuse
    BY <1>1 DEF NoReplay
  <1>3. ASSUME NEW t \in Tabs,
               \/ RefreshAuth(t) \/ RunRefresh(t) \/ RefreshReply(t) \/ SyncEvent(t)
               \/ Guard(t) \/ Expire(t) \/ LoseRefresh(t)
        PROVE  Turns' /\ NoReuse'
    <2>1. ~LoseRefresh(t)
      BY DEF LoseRefresh
    <2> QED BY <1>2, <1>3, <2>1, AuthTurn, RunTurn, ReplyTurn, TabTurn
  <1>4. ASSUME NEW r \in Reqs, RequestReply(r) PROVE Turns' /\ NoReuse'
    BY <1>2, <1>4, RequestTurn
  <1>5. ~RefreshOrphan
    BY <1>2 DEF Turns, RefreshOrphan
  <1> QED BY <1>2, <1>3, <1>4, <1>5, ServerTurn DEF Next

\* Tabs that take turns under the browser lock never make the server take one of
\* their refreshes for a replay, unless an answer was lost or a page was replaced
\* while its refresh was on the way; with any number of tabs, calls, logins,
\* logouts and security changes (auth-session.ts createRefreshRunner,
\* model/user_session.go grace window).
THEOREM ReplayNeedsLossHolds == ASSUME Locks PROVE Spec => []ReplayNeedsLoss
  <1>1. Init => NoReplay
    BY EmptyRefresh, NamesFacts DEF Init, NoReplay, Turns, NoReuse, Busy, Answered, Newest
  <1>2. Inv /\ NoReplay /\ [Next]_vars => NoReplay'
    BY NoReplayStep
  <1>3. Inv /\ NoReplay => ReplayNeedsLoss
    BY DEF NoReplay, NoReuse, ReplayNeedsLoss
  <1> QED BY <1>1, <1>2, <1>3, InvHolds, PTL DEF Spec

=============================================================================
