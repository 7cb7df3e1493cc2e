-------------------------- MODULE PlaygroundProofs --------------------------
(***************************************************************************)
(* What is proved of Playground for every list of deltas, every number of  *)
(* conversations and generations, and any size of localStorage.            *)
(*                                                                         *)
(* BusyHasCause, for a user as hasty as can be: a page that waits for an   *)
(* answer has a request whose end will unblock it.  It is not inductive: a *)
(* request that fails while the other flag is up would leave the page      *)
(* waiting for nothing.  NetInv says which request each flag stands for,   *)
(* and that the controller's stream is always one of the current           *)
(* generation.                                                             *)
(*                                                                         *)
(* NoOrphanPending, HistoriesSeparate, OnlyOwnText and CompleteAnswer, from*)
(* one invariant PInv and on the condition that the user does not act on a *)
(* list that is about to be replaced (~Hasty).  The last two speak of the  *)
(* texts, and need that no delta repeats the one before it or the first    *)
(* (NoRepeat) as well.  TLC refutes all four without the one, and these two*)
(* without the other.  PInv adds to NetInv                                 *)
(*   NetMore : a request of the current generation keeps its flag up;      *)
(*   Shows   : what the list will be once the waiting updates are rendered:*)
(*             while an answer is asked for it is the last message, and its*)
(*             text followed by the pending one is what was received; else *)
(*             nothing is pending and the last answer is whole;            *)
(*   Stores  : the conversations, in memory and on the disk, have names and*)
(*             messages of their own, and all but the open one are at rest;*)
(*   Secrets : no conversation but the open one has a message of the list, *)
(*             of any list that rendering can make of it, or of the list a *)
(*             prompt with images was submitted on.                        *)
(* Shows is about a fold over the queue, which SequenceFolds unfolds one   *)
(* update at a time.                                                       *)
(*                                                                         *)
(* TypeOK, without any condition, from TInv: besides NetInv and NetMore,   *)
(* the waiting updates and both stores have their shape, and the order of  *)
(* the last updates names each conversation of a store once.               *)
(*                                                                         *)
(* OnlyUnsavedIsLost, if ~Hasty, from QInv: TInv, the messages to save are *)
(* the ones shown (Current), the disk holds all the conversations there is *)
(* room for, and while no save is due the open one is among them as shown  *)
(* (Written).                                                              *)
(***************************************************************************)
EXTENDS Playground, SequenceTheorems, FiniteSetTheorems, TLAPS

NetRec == [cur : 0..MaxGen, src : 0..MaxGen, hdrs : SUBSET Gens, live : SUBSET Gens,
           calls : SUBSET [g : Gens, aborted : BOOLEAN], ab : 0..MaxGen]

PageOK ==
  /\ page = [msgs |-> page.msgs, busy |-> page.busy, isReq |-> page.isReq, isStr |-> page.isStr]
  /\ {page.isReq, page.isStr} \subseteq BOOLEAN
ChatOK ==
  /\ chat = [gen |-> chat.gen, pgen |-> chat.pgen, ptxt |-> chat.ptxt, ftimer |-> chat.ftimer]
  /\ chat.gen \in 0..MaxGen

\* Requests are of this generation or of one before it, each waits for its
\* headers or streams, and the controller's stream is the current one.
NetInv ==
  /\ PageOK /\ ChatOK /\ net \in NetRec
  /\ net.cur \in {0, chat.gen}
  /\ \A g \in net.hdrs \cup net.live : g <= chat.gen
  /\ net.hdrs \cap net.live = {}
  /\ page.isStr => net.cur = chat.gen /\ chat.gen \in net.live
  /\ BusyHasCause

\* The flags of the page after a step that shows or queues updates.
LEMMA ShownFlags ==
    ASSUME NEW us, NEW g, NEW m, NEW isReq \in BOOLEAN, NEW isStr \in BOOLEAN,
           Shown(us, g, m, isReq, isStr)
    PROVE  PageOK' /\ page'.isReq = isReq /\ page'.isStr = isStr
  BY DEF Shown, PageOK

LEMMA QueuedFlags ==
    ASSUME PageOK, NEW us, NEW isReq \in BOOLEAN, NEW isStr \in BOOLEAN, Queued(us, isReq, isStr)
    PROVE  PageOK' /\ page'.isReq = isReq /\ page'.isStr = isStr
  BY DEF Queued, PageOK

\* A step that lowers both flags, keeps the generation or begins a new one, and
\* leaves no stream.
LEMMA Quiet ==
    ASSUME NetInv, PageOK', ChatOK', net' \in NetRec, ~page'.isReq, ~page'.isStr,
           chat.gen <= chat'.gen, net'.cur \in {0, chat'.gen},
           net'.hdrs \subseteq net.hdrs, net'.live \subseteq net.live
    PROVE  NetInv'
  BY DEF NetInv, BusyHasCause, NetRec, ChatOK, Gens

\* A step that touches neither the flags nor the network.
LEMMA Aside ==
    ASSUME NetInv, PageOK', ChatOK', chat'.gen = chat.gen, net' = net,
           page'.isReq = page.isReq, page'.isStr = page.isStr
    PROVE  NetInv'
  BY DEF NetInv, BusyHasCause

LEMMA AbortedCalls ==
    ASSUME NEW calls \in SUBSET [g : Gens, aborted : BOOLEAN], NEW g
    PROVE  Aborted(calls, g) \in SUBSET [g : Gens, aborted : BOOLEAN]
  BY DEF Aborted

\* The stream closed and the call aborted, as a stop and a new request do.
LEMMA Closed ==
    ASSUME net \in NetRec, NEW c, c = [StreamClosed EXCEPT !.calls = Aborted(@, net.ab)]
    PROVE  /\ c \in NetRec /\ c.cur = 0 /\ c.hdrs = net.hdrs /\ c.live = net.live \ {net.src}
  <1>0. 0 \in 0..MaxGen
    BY ConstantsAssumption
  <1>1. PICK d : d = StreamClosed
    OBVIOUS
  <1>2. /\ d \in NetRec /\ d.cur = 0 /\ d.hdrs = net.hdrs /\ d.live = net.live \ {net.src}
        /\ d.calls = net.calls
    BY <1>1, <1>0 DEF NetRec, StreamClosed
  <1>3. PICK a : a = Aborted(d.calls, net.ab)
    OBVIOUS
  <1>4. a \in SUBSET [g : Gens, aborted : BOOLEAN]
    BY <1>2, <1>3, AbortedCalls DEF NetRec
  <1>5. c = [d EXCEPT !.calls = a]
    BY <1>1, <1>3
  <1> QED BY <1>2, <1>4, <1>5 DEF NetRec

\* A new request is the cause of the page's waiting.
LEMMA Requested ==
    ASSUME NetInv, NEW stream \in BOOLEAN, sendChat(stream),
           PageOK', page'.isReq, ~page'.isStr
    PROVE  NetInv'
  <1>1. PICK g : g = chat.gen + 1
    OBVIOUS
  <1>2. g \in Gens /\ {0, g} \subseteq 0..MaxGen /\ g = chat'.gen /\ chat.gen < g /\ ChatOK'
    BY <1>1, ConstantsAssumption DEF NetInv, ChatOK, sendChat, Fresh, Gens
  <1>3. PICK c : c = [StreamClosed EXCEPT !.calls = Aborted(@, net.ab)]
    OBVIOUS
  <1>4. c \in NetRec /\ c.cur = 0 /\ c.hdrs = net.hdrs /\ c.live = net.live \ {net.src}
    BY <1>3, Closed DEF NetInv
  <1>5. net' = Launched(g, stream)
    BY <1>1 DEF sendChat
  <1>6. \A h \in net.hdrs \cup net.live : h < g
    BY <1>1, <1>2 DEF NetInv, NetRec, ChatOK, Gens
  <1>7. CASE stream
    <2>1. net' = [c EXCEPT !.cur = g, !.ab = 0, !.hdrs = @ \cup {g}]
      BY <1>3, <1>5, <1>7 DEF Launched
    <2>2. /\ net' \in NetRec /\ net'.cur = g
          /\ net'.hdrs = net.hdrs \cup {g} /\ net'.live \subseteq net.live
      BY <1>2, <1>4, <2>1 DEF NetRec
    <2>3. g \notin net.live
      BY <1>2, <1>6 DEF Gens
    <2>4. BusyHasCause'
      BY <1>2, <2>2 DEF BusyHasCause
    <2>5. \A h \in net'.hdrs \cup net'.live : h <= chat'.gen
      BY <1>2, <1>6, <2>2 DEF Gens, NetInv, NetRec
    <2> QED BY <1>2, <2>2, <2>3, <2>4, <2>5 DEF NetInv
  <1>8. CASE ~stream
    <2>1. net' = [c EXCEPT !.ab = g, !.calls = @ \cup {[g |-> g, aborted |-> FALSE]}]
      BY <1>3, <1>5, <1>8 DEF Launched
    <2>2. /\ net' \in NetRec /\ net'.cur = 0
          /\ net'.hdrs = net.hdrs /\ net'.live \subseteq net.live
          /\ [g |-> g, aborted |-> FALSE] \in net'.calls
      <3>1. PICK x : x = [g |-> g, aborted |-> FALSE]
        OBVIOUS
      <3>2. x \in [g : Gens, aborted : BOOLEAN]
        BY <1>2, <3>1
      <3>3. net' = [c EXCEPT !.ab = g, !.calls = @ \cup {x}]
        BY <2>1, <3>1
      <3>4. /\ net' \in NetRec /\ net'.cur = 0 /\ x \in net'.calls
            /\ net'.hdrs = net.hdrs /\ net'.live \subseteq net.live
        BY <1>2, <1>4, <3>2, <3>3 DEF NetRec
      <3> QED BY <3>1, <3>4
    <2>3. BusyHasCause'
      BY <1>2, <2>2 DEF BusyHasCause
    <2>4. \A h \in net'.hdrs \cup net'.live : h <= chat'.gen
      BY <1>2, <1>6, <2>2 DEF Gens, NetInv, NetRec
    <2> QED BY <1>2, <2>2, <2>3, <2>4 DEF NetInv
  <1> QED BY <1>7, <1>8

\* The end of a request of the current generation lowers the flag of the
\* request; the caller says what becomes of the other.
LEMMA EndedFlags ==
    ASSUME NetInv, NEW g, NEW op, NEW isStr \in BOOLEAN, Ended(g, op, isStr)
    PROVE  /\ PageOK' /\ ChatOK' /\ chat'.gen = chat.gen /\ page'.isStr = isStr
           /\ g = chat.gen => ~page'.isReq
  <1>1. CASE g = chat.gen
    <2>1. Queued(FlushUpdate(g) \o Update(op, g), FALSE, isStr) /\ chat' = Flushed
      BY <1>1 DEF Ended, IsCurrentGen
    <2>2. ChatOK' /\ chat'.gen = chat.gen
      BY <2>1 DEF NetInv, ChatOK, Flushed
    <2> QED BY <1>1, <2>1, <2>2, QueuedFlags DEF NetInv
  <1>2. CASE g # chat.gen
    <2>1. Queued(<<>>, page.isReq, isStr) /\ chat' = chat
      BY <1>2 DEF Ended, IsCurrentGen
    <2>2. page.isReq \in BOOLEAN
      BY DEF NetInv, PageOK
    <2> QED BY <1>2, <2>1, <2>2, QueuedFlags DEF NetInv, ChatOK
  <1> QED BY <1>1, <1>2

LEMMA HeadersStep == ASSUME NetInv, NEW g \in Gens, HeadersReady(g) PROVE NetInv'
  <1>1. PICK rest : rest = [net EXCEPT !.hdrs = @ \ {g}]
    OBVIOUS
  <1>2. /\ rest \in NetRec /\ rest.cur = net.cur /\ rest.live = net.live
        /\ rest.hdrs = net.hdrs \ {g} /\ rest.calls = net.calls
    BY <1>1 DEF NetInv, NetRec
  <1>3. g \in net.hdrs /\ g \notin net.live /\ g # 0
    BY DEF HeadersReady, NetInv, Gens
  <1>4. CASE g # net.cur /\ net' = rest /\ UNCHANGED <<page, queue, mem, chat>>
    BY <1>2, <1>4 DEF NetInv, PageOK, ChatOK, BusyHasCause
  <1>5. CASE /\ g = net.cur /\ net' = [rest EXCEPT !.src = g, !.live = @ \cup {g}]
             /\ Queued(<<>>, page.isReq, TRUE) /\ UNCHANGED chat
    <2>1. /\ net' \in NetRec /\ net'.cur = net.cur /\ net'.live = net.live \cup {g}
          /\ net'.hdrs = net.hdrs \ {g}
      BY <1>2, <1>5 DEF NetRec, Gens
    <2>2. PageOK' /\ page'.isStr
      BY <1>5, QueuedFlags DEF NetInv, PageOK
    <2>3. g = chat.gen
      BY <1>3, <1>5 DEF NetInv
    <2>4. ChatOK' /\ chat'.gen = chat.gen
      BY <1>5 DEF NetInv, ChatOK
    <2> QED BY <1>3, <1>5, <2>1, <2>2, <2>3, <2>4 DEF NetInv, BusyHasCause
  <1>6. CASE g = net.cur /\ net' = rest /\ Ended(g, "error", page.isStr)
    <2>1. g = chat.gen
      BY <1>3, <1>6 DEF NetInv
    <2>2. ~page.isStr /\ page.isStr \in BOOLEAN
      BY <1>3, <2>1 DEF NetInv, PageOK
    <2>3. PageOK' /\ ChatOK' /\ chat'.gen = chat.gen /\ ~page'.isReq /\ ~page'.isStr
      BY <1>6, <2>1, <2>2, EndedFlags
    <2> QED BY <1>2, <1>6, <2>3, Quiet DEF NetInv, ChatOK
  <1> QED BY <1>1, <1>4, <1>5, <1>6 DEF HeadersReady

LEMMA StreamEndStep == ASSUME NetInv, NEW g \in Gens, StreamEnd(g) PROVE NetInv'
  <1>1. CASE ~IsCurrentSource(g)
    BY <1>1 DEF StreamEnd, NetInv, PageOK, ChatOK, BusyHasCause
  <1>2. CASE IsCurrentSource(g)
    <2>1. g = chat.gen
      BY <1>2 DEF IsCurrentSource, NetInv, Gens
    <2>2. net' = [net EXCEPT !.src = 0, !.live = @ \ {g}]
      BY <1>2 DEF StreamEnd
    <2>3. net' \in NetRec /\ net'.cur = net.cur /\ net'.hdrs = net.hdrs /\ net'.live \subseteq net.live
      <3>1. 0 \in 0..MaxGen /\ net \in NetRec
        BY ConstantsAssumption DEF NetInv
      <3> QED BY <2>2, <3>1 DEF NetRec
    <2>4. Ended(g, "complete", FALSE) \/ Ended(g, "error", FALSE)
      BY <1>2 DEF StreamEnd
    <2>5. PageOK' /\ ChatOK' /\ chat'.gen = chat.gen /\ ~page'.isReq /\ ~page'.isStr
      BY <2>1, <2>4, EndedFlags
    <2> QED BY <2>3, <2>5, Quiet DEF NetInv, ChatOK
  <1> QED BY <1>1, <1>2


LEMMA CallStep == ASSUME NetInv, NEW c \in net.calls, CallReply(c) PROVE NetInv'
  <1>1. c \in [g : Gens, aborted : BOOLEAN]
    BY DEF NetInv, NetRec
  <1>2. CASE c.aborted \/ c.g # chat.gen
    <2>1. net' = [net EXCEPT !.calls = @ \ {c}] /\ UNCHANGED <<page, chat>>
      BY <1>2 DEF CallReply, IsCurrentGen
    <2>2. /\ net' \in NetRec /\ net'.cur = net.cur /\ net'.hdrs = net.hdrs /\ net'.live = net.live
          /\ net'.calls = net.calls \ {c}
      BY <2>1 DEF NetInv, NetRec
    <2>3. c # [g |-> chat.gen, aborted |-> FALSE]
      BY <1>1, <1>2
    <2> QED BY <2>1, <2>2, <2>3 DEF NetInv, PageOK, ChatOK, BusyHasCause
  <1>3. CASE ~c.aborted /\ c.g = chat.gen
    <2>1. net' = [net EXCEPT !.calls = @ \ {c}, !.ab = 0]
      BY <1>3 DEF CallReply, IsCurrentGen
    <2>2. net' \in NetRec /\ net'.cur = net.cur /\ net'.hdrs = net.hdrs /\ net'.live = net.live
      <3>1. 0 \in 0..MaxGen /\ net \in NetRec
        BY ConstantsAssumption DEF NetInv
      <3> QED BY <2>1, <3>1 DEF NetRec
    <2>3. PageOK' /\ ChatOK' /\ chat'.gen = chat.gen /\ ~page'.isReq /\ page'.isStr = page.isStr
      <3>1. page.isStr \in BOOLEAN
        BY DEF NetInv, PageOK
      <3>2. CASE Ended(c.g, "error", page.isStr)
        BY <1>3, <3>1, <3>2, EndedFlags
      <3>3. CASE \E us : Queued(us, FALSE, page.isStr) /\ chat' = chat
        BY <3>1, <3>3, QueuedFlags DEF NetInv, ChatOK
      <3> QED BY <1>3, <3>2, <3>3 DEF CallReply, IsCurrentGen
    <2> QED BY <2>2, <2>3 DEF NetInv, BusyHasCause
  <1> QED BY <1>2, <1>3

LEMMA StopStep == ASSUME NetInv, StopGeneration PROVE NetInv'
  <1>1. PICK c : c = [StreamClosed EXCEPT !.calls = Aborted(@, net.ab)]
    OBVIOUS
  <1>2. c \in NetRec /\ c.cur = 0 /\ c.hdrs = net.hdrs /\ c.live = net.live \ {net.src}
    BY <1>1, Closed DEF NetInv
  <1>3. net' = [c EXCEPT !.ab = 0]
    BY <1>1 DEF StopGeneration, StreamClosed
  <1>4. 0 \in 0..MaxGen
    BY ConstantsAssumption
  <1>5. /\ net' \in NetRec /\ net'.cur = 0 /\ net'.hdrs = net.hdrs /\ net'.live \subseteq net.live
    BY <1>2, <1>3, <1>4 DEF NetRec
  <1>6. ChatOK' /\ chat'.gen = chat.gen + 1
    BY ConstantsAssumption DEF StopGeneration, Fresh, NetInv, ChatOK
  <1>7. PageOK' /\ ~page'.isReq /\ ~page'.isStr
    BY ShownFlags DEF StopGeneration
  <1> QED BY <1>5, <1>6, <1>7, Quiet DEF NetInv, ChatOK

\* The steps of the user that ask for an answer.
LEMMA AskStep ==
    ASSUME NetInv, NEW stream \in BOOLEAN,
           \/ SendMessage(stream) \/ ImagesReady(stream)
           \/ \E i \in DOMAIN page.msgs : Regenerate(i, stream) \/ SubmitEdit(i, stream)
    PROVE  NetInv'
  <1>1. CASE sendChat(stream) /\ \E us, g, m : Shown(us, g, m, TRUE, FALSE)
    BY <1>1, ShownFlags, Requested
  <1>2. CASE sendChat(stream) /\ \E us : Queued(us, TRUE, FALSE)
    BY <1>2, QueuedFlags, Requested DEF NetInv
  <1>3. CASE UNCHANGED <<page, chat, net>>
    BY <1>3, Aside DEF NetInv, PageOK, ChatOK
  <1> QED BY <1>1, <1>2, <1>3 DEF SendMessage, ImagesReady, Regenerate, SubmitEdit

\* The steps that change the list of messages or the conversation only.
ListOnly ==
  \/ Render \/ FlushTimer \/ SaveTimer \/ SubmitImages \/ ClearMessages
  \/ CreateNewConversation
  \/ \E g \in Gens : StreamDelta(g)
  \/ \E i \in DOMAIN page.msgs : SaveEdit(i) \/ DeleteMessage(i)
  \/ \E id \in Ids : SwitchConversation(id) \/ DeleteConversation(id)
  \/ UNCHANGED vars

\* They show something with the flags as they are, queue text, or do neither.
LEMMA ListOnlyShows ==
    ASSUME ListOnly
    PROVE  \/ \E us, g, m : Shown(us, g, m, page.isReq, page.isStr)
           \/ FlushTimer
           \/ page' = page /\ queue' = queue
  <1>1. CASE Render \/ ClearMessages \/ \E i \in DOMAIN page.msgs : SaveEdit(i) \/ DeleteMessage(i)
    BY <1>1 DEF Render, ClearMessages, SaveEdit, DeleteMessage
  <1>2. CASE SaveTimer \/ SubmitImages
    BY <1>2 DEF SaveTimer, SubmitImages
  <1>3. CASE \E m : Show(m)
    BY <1>3 DEF Show
  <1>4. CASE CreateNewConversation
    <2>1. \E m : Show(m)
      BY <1>4, ZenonT(30) DEF CreateNewConversation
    <2> QED BY <1>3, <2>1
  <1>5. CASE \E id \in Ids : SwitchConversation(id)
    <2>1. \E m : Show(m)
      BY <1>5, ZenonT(30) DEF SwitchConversation
    <2> QED BY <1>3, <2>1
  <1>6. CASE \E id \in Ids : DeleteConversation(id)
    <2>1. (\E m : Show(m)) \/ UNCHANGED <<page, queue>>
      BY <1>6, ZenonT(30) DEF DeleteConversation
    <2> QED BY <1>3, <2>1
  <1>7. CASE UNCHANGED vars
    BY <1>7 DEF vars
  <1>8. ASSUME NEW g \in Gens, StreamDelta(g) PROVE page' = page /\ queue' = queue
    BY <1>8 DEF StreamDelta
  <1> QED BY <1>1, <1>2, <1>4, <1>5, <1>6, <1>7, <1>8 DEF ListOnly

\* They leave the requests alone, and the chat handler but for the text.
LEMMA ListOnlyKeeps ==
    ASSUME ListOnly
    PROVE  net' = net /\ (chat' = chat \/ FlushTimer \/ \E g \in Gens : StreamDelta(g))
  <1>1. CASE \/ Render \/ SaveTimer \/ SubmitImages \/ ClearMessages
             \/ \E i \in DOMAIN page.msgs : SaveEdit(i) \/ DeleteMessage(i)
    BY <1>1 DEF Render, SaveTimer, SubmitImages, ClearMessages, SaveEdit, DeleteMessage
  <1>2. CASE FlushTimer
    BY <1>2 DEF FlushTimer
  <1>3. ASSUME NEW g \in Gens, StreamDelta(g) PROVE net' = net
    BY <1>3 DEF StreamDelta
  <1>4. CASE CreateNewConversation
    BY <1>4 DEF CreateNewConversation
  <1>5. ASSUME NEW id \in Ids, SwitchConversation(id) PROVE net' = net /\ chat' = chat
    BY <1>5 DEF SwitchConversation
  <1>6. ASSUME NEW id \in Ids, DeleteConversation(id) PROVE net' = net /\ chat' = chat
    BY <1>6 DEF DeleteConversation
  <1>7. CASE UNCHANGED vars
    BY <1>7 DEF vars
  <1> QED BY <1>1, <1>2, <1>3, <1>4, <1>5, <1>6, <1>7 DEF ListOnly

LEMMA ListStep ==
    ASSUME NetInv, ListOnly
    PROVE  NetInv'
  <1>1. net' = net
    BY ListOnlyKeeps
  <1>2. ChatOK' /\ chat'.gen = chat.gen
    <2>1. CASE chat' = chat
      BY <2>1 DEF NetInv, ChatOK
    <2>2. CASE FlushTimer
      BY <2>2 DEF FlushTimer, Flushed, NetInv, ChatOK
    <2>3. CASE \E g \in Gens : StreamDelta(g)
      BY <2>3 DEF StreamDelta, NetInv, ChatOK
    <2> QED BY <2>1, <2>2, <2>3, ListOnlyKeeps
  <1>3. PageOK' /\ page'.isReq = page.isReq /\ page'.isStr = page.isStr
    <2>1. page.isReq \in BOOLEAN /\ page.isStr \in BOOLEAN /\ PageOK
      BY DEF NetInv, PageOK
    <2>2. CASE \E us, g, m : Shown(us, g, m, page.isReq, page.isStr)
      BY <2>1, <2>2, ShownFlags
    <2>3. CASE \E us : Queued(us, page.isReq, page.isStr)
      BY <2>1, <2>3, QueuedFlags
    <2>4. CASE page' = page
      BY <2>1, <2>4 DEF PageOK
    <2> QED BY <2>2, <2>3, <2>4, ListOnlyShows DEF FlushTimer
  <1> QED BY <1>1, <1>2, <1>3, Aside

\* A page that was left shows nothing to wait for.
LEMMA LeaveShows ==
    ASSUME LeavePage
    PROVE  page'.busy = FALSE /\ page'.isReq = FALSE /\ page'.isStr = FALSE /\ PageOK'
  <1>1. \E ms : page' = [msgs |-> ms, busy |-> FALSE, isReq |-> FALSE, isStr |-> FALSE]
    BY DEF LeavePage
  <1> QED BY <1>1 DEF PageOK

LEMMA LeaveStep == ASSUME NetInv, LeavePage PROVE NetInv'
  <1>1. net' = Offline /\ chat' = [chat EXCEPT !.ptxt = <<>>, !.ftimer = FALSE]
    BY DEF LeavePage
  <1>2. net' \in NetRec /\ net'.cur = 0 /\ net'.hdrs = {} /\ net'.live = {}
    BY <1>1, ConstantsAssumption DEF Offline, NetRec
  <1>3. ChatOK' /\ chat'.gen = chat.gen
    BY <1>1 DEF NetInv, ChatOK
  <1>4. PageOK' /\ ~page'.isReq /\ ~page'.isStr
    BY LeaveShows
  <1> QED BY <1>2, <1>3, <1>4, Quiet DEF NetInv, ChatOK

LEMMA NetInit == Init => NetInv
  BY ConstantsAssumption DEF Init, NetInv, PageOK, ChatOK, NetRec, Offline, BusyHasCause

LEMMA NetStep == NetInv /\ [Next]_vars => NetInv'
  BY HeadersStep, StreamEndStep, CallStep, StopStep, AskStep, ListStep, LeaveStep DEF Next, ListOnly

\* A page that waits for an answer has a request of its current generation that
\* was not aborted and whose end unblocks the composer, whatever was stopped,
\* replaced, edited or switched meanwhile (use-chat-handler.ts sendChat and
\* stopGeneration, use-stream-request.ts).
THEOREM BusyHasCauseHolds == Spec => []BusyHasCause
  <1>1. NetInv => BusyHasCause
    BY DEF NetInv
  <1> QED BY <1>1, NetInit, NetStep, PTL DEF Spec

-----------------------------------------------------------------------------
(* Lists and folds.                                                        *)

RenderStep(acc, u, h) ==
  LET ms == Effect(acc.ms, u, h) IN
  [ms |-> ms, dirty |-> acc.dirty \/ u.op # "set",
   latest |-> IF u.op = "set" THEN acc.latest ELSE ms]
R == INSTANCE SequenceFolds WITH op <- RenderStep

AmongStep(kept, x, S) == IF x \in S THEN Append(kept, x) ELSE kept
A == INSTANCE SequenceFolds WITH op <- AmongStep

Unrendered(ms) == [ms |-> ms, dirty |-> FALSE, latest |-> <<>>]

\* The list that updates q make of ms while h is the generation.
After(ms, q, h) == R!Folded(Unrendered(ms), q, h).ms

LEMMA RenderedIsFold == ASSUME NEW q, NEW h PROVE Rendered(q, h) = R!Folded(Unrendered(page.msgs), q, h)
  BY DEF Rendered, R!Folded, Unrendered, RenderStep, FoldLeft, MapThenFoldSet, Max,
         R!FoldLeft, R!MapThenFoldSet, R!Max

\* What the recursive function of Among is: a function equal to this one.
Keeps(g, s, S) ==
  g = [n \in 0..Len(s) |-> IF n = 0 THEN <<>>
                           ELSE IF s[n] \in S THEN Append(g[n - 1], s[n]) ELSE g[n - 1]]

LEMMA AmongIsChoice == ASSUME NEW s, NEW S PROVE Among(s, S) = (CHOOSE g : Keeps(g, s, S))[Len(s)]
  BY DEF Among, Keeps

\* The folds of the beginnings of s are such a function, and the only one.
LEMMA AmongIsFold == ASSUME NEW X, NEW s \in Seq(X), NEW S PROVE Among(s, S) = A!Folded(<<>>, s, S)
  <1> DEFINE f == [n \in 0..Len(s) |-> A!Folded(<<>>, SubSeq(s, 1, n), S)]
  <1>1. Len(s) \in Nat /\ SubSeq(s, 1, 0) = <<>> /\ SubSeq(s, 1, Len(s)) = s
    OBVIOUS
  <1>2. f[0] = <<>>
    <2>1. PICK r : r = SubSeq(s, 1, 0)
      OBVIOUS
    <2>2. 0 \in 0..Len(s) /\ r = <<>>
      BY <1>1, <2>1
    <2>3. f[0] = A!Folded(<<>>, r, S)
      BY <2>1, <2>2
    <2> QED BY <2>2, <2>3, A!FoldEmpty
  <1>3. ASSUME NEW n \in 1..Len(s)
        PROVE  f[n] = IF s[n] \in S THEN Append(f[n - 1], s[n]) ELSE f[n - 1]
    <2>1. PICK r, x : r = SubSeq(s, 1, n - 1) /\ x = s[n]
      OBVIOUS
    <2>2. r \in Seq(X) /\ x \in X /\ SubSeq(s, 1, n) = Append(r, x)
      BY <2>1
    <2>3. A!Folded(<<>>, Append(r, x), S) = AmongStep(A!Folded(<<>>, r, S), x, S)
      BY <2>2, A!FoldAppend
    <2>4. n \in 0..Len(s) /\ n - 1 \in 0..Len(s)
      BY <1>1
    <2>5. f[n] = A!Folded(<<>>, Append(r, x), S) /\ f[n - 1] = A!Folded(<<>>, r, S)
      BY <2>1, <2>2, <2>4
    <2> QED BY <2>1, <2>3, <2>5 DEF AmongStep
  <1>4. f[Len(s)] = A!Folded(<<>>, s, S) /\ DOMAIN f = 0..Len(s) /\ f = [n \in 0..Len(s) |-> f[n]]
    <2>1. PICK r : r = SubSeq(s, 1, Len(s))
      OBVIOUS
    <2>2. Len(s) \in 0..Len(s) /\ r = s
      BY <1>1, <2>1
    <2>3. f[Len(s)] = A!Folded(<<>>, r, S)
      BY <2>1, <2>2
    <2> QED BY <2>2, <2>3
  <1> HIDE DEF f
  <1>5. Keeps(f, s, S)
    <2>1. ASSUME NEW n \in 0..Len(s)
          PROVE  f[n] = IF n = 0 THEN <<>>
                        ELSE IF s[n] \in S THEN Append(f[n - 1], s[n]) ELSE f[n - 1]
      <3>1. n = 0 \/ n \in 1..Len(s)
        BY <1>1
      <3> QED BY <1>2, <1>3, <3>1
    <2> QED BY <1>4, <2>1 DEF Keeps
  <1>6. ASSUME NEW g, Keeps(g, s, S) PROVE g[Len(s)] = f[Len(s)]
    <2> DEFINE T == {k \in 0..Len(s) : g[k] = f[k]}
    <2>1. 0 \in T
      BY <1>1, <1>2, <1>6 DEF Keeps
    <2>2. ASSUME NEW k \in 0..(Len(s) - 1), k \in T PROVE k + 1 \in T
      <3>1. k + 1 \in 1..Len(s) /\ k + 1 \in 0..Len(s) /\ (k + 1) - 1 = k /\ k + 1 # 0
        BY <1>1
      <3>2. g[k + 1] = IF s[k + 1] \in S THEN Append(g[k], s[k + 1]) ELSE g[k]
        BY <1>6, <3>1 DEF Keeps
      <3>3. f[k + 1] = IF s[k + 1] \in S THEN Append(f[k], s[k + 1]) ELSE f[k]
        BY <1>3, <3>1
      <3> QED BY <2>2, <3>1, <3>2, <3>3
    <2> HIDE DEF T
    <2>3. Len(s) \in T
      BY <1>1, <2>1, <2>2, A!UpTo
    <2> QED BY <2>3 DEF T
  <1>7. Keeps(CHOOSE g : Keeps(g, s, S), s, S)
    BY <1>5
  <1> QED BY <1>4, <1>6, <1>7, AmongIsChoice

LEMMA AfterNone == ASSUME NEW ms, NEW h PROVE After(ms, <<>>, h) = ms
  BY R!FoldEmpty DEF After, Unrendered

LEMMA AfterOne ==
    ASSUME NEW X, NEW q \in Seq(X), NEW u \in X, NEW ms, NEW h
    PROVE  After(ms, Append(q, u), h) = Effect(After(ms, q, h), u, h)
  <1>1. R!Folded(Unrendered(ms), Append(q, u), h) = RenderStep(R!Folded(Unrendered(ms), q, h), u, h)
    BY R!FoldAppend
  <1> QED BY <1>1 DEF After, RenderStep

\* The elements of r are elements of s at indices of their own.
Embeds(r, s) ==
  \E f \in [DOMAIN r -> DOMAIN s] :
    /\ \A i \in DOMAIN r : r[i] = s[f[i]]
    /\ \A i, j \in DOMAIN r : f[i] = f[j] => i = j

LEMMA EmbedsTrans ==
    ASSUME NEW r, NEW s, NEW t, Embeds(r, s), Embeds(s, t)
    PROVE  Embeds(r, t)
  <1>1. PICK f \in [DOMAIN r -> DOMAIN s] :
          (\A i \in DOMAIN r : r[i] = s[f[i]]) /\ \A i, j \in DOMAIN r : f[i] = f[j] => i = j
    BY DEF Embeds
  <1>2. PICK g \in [DOMAIN s -> DOMAIN t] :
          (\A i \in DOMAIN s : s[i] = t[g[i]]) /\ \A i, j \in DOMAIN s : g[i] = g[j] => i = j
    BY DEF Embeds
  <1>3. PICK e : e = [i \in DOMAIN r |-> g[f[i]]]
    OBVIOUS
  <1>4. e \in [DOMAIN r -> DOMAIN t]
    BY <1>1, <1>2, <1>3
  <1>5. \A i \in DOMAIN r : r[i] = t[e[i]]
    BY <1>1, <1>2, <1>3
  <1>6. \A i, j \in DOMAIN r : e[i] = e[j] => i = j
    BY <1>1, <1>2, <1>3
  <1> QED BY <1>4, <1>5, <1>6 DEF Embeds

\* The first elements of a sequence, or the last.
LEMMA SubSeqEmbeds ==
    ASSUME NEW X, NEW s \in Seq(X), NEW m \in 1..(Len(s) + 1), NEW n \in 0..Len(s)
    PROVE  SubSeq(s, m, n) \in Seq(X) /\ Embeds(SubSeq(s, m, n), s)
  <1>1. PICK r : r = SubSeq(s, m, n)
    OBVIOUS
  <1>2. /\ r \in Seq(X) /\ \A i \in DOMAIN r : m + i - 1 \in DOMAIN s /\ r[i] = s[m + i - 1]
        /\ DOMAIN r \subseteq Nat
    BY <1>1
  <1>3. PICK f : f = [i \in DOMAIN r |-> m + i - 1]
    OBVIOUS
  <1>4. f \in [DOMAIN r -> DOMAIN s] /\ \A i \in DOMAIN r : r[i] = s[f[i]]
    BY <1>2, <1>3
  <1>5. \A i, j \in DOMAIN r : f[i] = f[j] => i = j
    <2>1. \A i \in DOMAIN r : f[i] = m + i - 1 /\ i \in Nat
      BY <1>2, <1>3
    <2>2. \A i, j \in Nat : m + i - 1 = m + j - 1 => i = j
      OBVIOUS
    <2> QED BY <2>1, <2>2
  <1> QED BY <1>1, <1>2, <1>4, <1>5 DEF Embeds

LEMMA AmongNone == ASSUME NEW S PROVE Among(<<>>, S) = <<>>
  <1>1. <<>> \in Seq({})
    OBVIOUS
  <1> QED BY <1>1, AmongIsFold, A!FoldEmpty

LEMMA AmongOne ==
    ASSUME NEW X, NEW s \in Seq(X), NEW x \in X, NEW S
    PROVE  Among(Append(s, x), S) = IF x \in S THEN Append(Among(s, S), x) ELSE Among(s, S)
  <1>1. A!Folded(<<>>, Append(s, x), S) = AmongStep(A!Folded(<<>>, s, S), x, S)
    BY A!FoldAppend
  <1>2. Append(s, x) \in Seq(X)
    OBVIOUS
  <1> QED BY <1>1, <1>2, AmongIsFold DEF AmongStep

\* What Among returns: elements of s, each at most as often as in s, and
\* exactly those in S.
AmongRight(s, S, X) ==
  /\ Among(s, S) \in Seq(X) /\ Embeds(Among(s, S), s)
  /\ \A i \in DOMAIN Among(s, S) : Among(s, S)[i] \in S
  /\ \A i \in DOMAIN s : s[i] \in S => \E j \in DOMAIN Among(s, S) : Among(s, S)[j] = s[i]

LEMMA AmongStepRight ==
    ASSUME NEW X, NEW s \in Seq(X), NEW x \in X, NEW S, AmongRight(s, S, X)
    PROVE  AmongRight(Append(s, x), S, X)
  <1>1. PICK r : r = Among(s, S)
    OBVIOUS
  <1>2. PICK t : t = Append(s, x)
    OBVIOUS
  <1>3. PICK n \in Nat, m \in Nat : n = Len(s) /\ m = Len(r) /\ r \in Seq(X)
    BY <1>1 DEF AmongRight
  <1>4. /\ DOMAIN s = 1..n /\ DOMAIN t = 1..(n + 1) /\ t[n + 1] = x /\ \A i \in 1..n : t[i] = s[i]
        /\ DOMAIN r = 1..m
    BY <1>2, <1>3
  <1>5. PICK f \in [1..m -> 1..n] :
          (\A i \in 1..m : r[i] = s[f[i]]) /\ \A i, j \in 1..m : f[i] = f[j] => i = j
    BY <1>1, <1>4 DEF AmongRight, Embeds
  <1>6. \A i \in 1..n : s[i] \in S => \E j \in 1..m : r[j] = s[i]
    BY <1>1, <1>4 DEF AmongRight
  <1>7. CASE x \notin S
    <2>1. Among(t, S) = r
      BY <1>1, <1>2, <1>7, AmongOne
    <2>2. f \in [DOMAIN r -> DOMAIN t] /\ \A i \in DOMAIN r : r[i] = t[f[i]]
      BY <1>4, <1>5
    <2>3. Embeds(r, t)
      <3>1. \A i, j \in DOMAIN r : f[i] = f[j] => i = j
        BY <1>4, <1>5
      <3> QED BY <2>2, <3>1 DEF Embeds
    <2>4. \A i \in DOMAIN t : t[i] \in S => \E j \in DOMAIN r : r[j] = t[i]
      <3>1. ASSUME NEW i \in 1..(n + 1), t[i] \in S PROVE i \in 1..n
        BY <1>4, <1>7, <3>1
      <3>2. ASSUME NEW i \in 1..n, t[i] \in S PROVE \E j \in 1..m : r[j] = t[i]
        BY <1>4, <1>6, <3>2
      <3> QED BY <1>4, <3>1, <3>2
    <2>5. \A i \in DOMAIN r : r[i] \in S
      BY <1>1 DEF AmongRight
    <2> QED BY <1>2, <1>3, <2>1, <2>3, <2>4, <2>5 DEF AmongRight
  <1>8. CASE x \in S
    <2>1. PICK w : w = Append(r, x)
      OBVIOUS
    <2>2. Among(t, S) = w
      BY <1>1, <1>2, <1>8, <2>1, AmongOne
    <2>3. /\ w \in Seq(X) /\ DOMAIN w = 1..(m + 1) /\ w[m + 1] = x
          /\ \A i \in 1..m : w[i] = r[i]
      BY <1>3, <2>1
    <2>4. PICK e : e = [i \in 1..(m + 1) |-> IF i = m + 1 THEN n + 1 ELSE f[i]]
      OBVIOUS
    <2>5. e \in [DOMAIN w -> DOMAIN t] /\ \A i \in DOMAIN w : w[i] = t[e[i]]
      BY <1>4, <1>5, <2>3, <2>4
    <2>6. \A i, j \in DOMAIN w : e[i] = e[j] => i = j
      BY <1>5, <2>3, <2>4
    <2>7. Embeds(w, t)
      BY <2>5, <2>6 DEF Embeds
    <2>8. \A i \in DOMAIN t : t[i] \in S => \E j \in DOMAIN w : w[j] = t[i]
      <3>1. ASSUME NEW i \in 1..n, t[i] \in S PROVE \E j \in DOMAIN w : w[j] = t[i]
        <4>1. PICK j \in 1..m : r[j] = s[i]
          BY <1>4, <1>6, <3>1
        <4>2. j \in DOMAIN w /\ w[j] = t[i]
          BY <1>4, <2>3, <4>1
        <4> QED BY <4>2
      <3>2. m + 1 \in DOMAIN w /\ w[m + 1] = t[n + 1]
        BY <1>4, <2>3
      <3> QED BY <1>4, <3>1, <3>2
    <2>9. \A i \in DOMAIN w : w[i] \in S
      BY <1>1, <1>4, <1>8, <2>3 DEF AmongRight
    <2> QED BY <1>2, <2>2, <2>3, <2>7, <2>8, <2>9 DEF AmongRight
  <1> QED BY <1>7, <1>8

LEMMA AmongIsRight ==
    ASSUME NEW X, NEW s \in Seq(X), NEW S
    PROVE  AmongRight(s, S, X)
  <1> DEFINE T == {k \in 0..Len(s) : AmongRight(SubSeq(s, 1, k), S, X)}
  <1>1. Len(s) \in Nat /\ SubSeq(s, 1, Len(s)) = s
    OBVIOUS
  <1>2. 0 \in T
    <2>1. SubSeq(s, 1, 0) = <<>> /\ <<>> \in Seq(X) /\ DOMAIN <<>> = {}
      OBVIOUS
    <2>2. [i \in {} |-> i] \in [{} -> {}]
      OBVIOUS
    <2>3. Embeds(<<>>, <<>>)
      BY <2>1, <2>2 DEF Embeds
    <2>4. AmongRight(<<>>, S, X)
      BY <2>1, <2>3, AmongNone DEF AmongRight
    <2>5. AmongRight(SubSeq(s, 1, 0), S, X)
      BY <2>1, <2>4
    <2> QED BY <1>1, <2>5
  <1>3. ASSUME NEW k \in 0..(Len(s) - 1), k \in T PROVE k + 1 \in T
    <2>1. k \in 0..Len(s) /\ k + 1 \in 1..Len(s)
      BY <1>1
    <2>2. PICK r \in Seq(X), x \in X : r = SubSeq(s, 1, k) /\ x = s[k + 1]
      <3>1. SubSeq(s, 1, k) \in Seq(X)
        BY <2>1
      <3>2. s[k + 1] \in X
        BY <2>1
      <3> QED BY <3>1, <3>2
    <2>3. SubSeq(s, 1, k + 1) = Append(r, x)
      BY <2>1, <2>2
    <2>4. AmongRight(Append(r, x), S, X)
      BY <1>3, <2>2, AmongStepRight
    <2>5. AmongRight(SubSeq(s, 1, k + 1), S, X)
      BY <2>3, <2>4
    <2> QED BY <2>1, <2>5
  <1>4. Len(s) \in T
    <2> HIDE DEF T
    <2> QED BY <1>1, <1>2, <1>3, A!UpTo
  <1> QED BY <1>1, <1>4

-----------------------------------------------------------------------------
(* Messages and their texts.                                               *)

\* No delta equals the one before it or the first one.  The code takes a text
\* that begins with the whole text so far for a snapshot of it, so that of
\* equal deltas one may be lost.
NoRepeat ==
  \A n \in 1..(Len(Letters) - 1) : Letters[n + 1] # Letters[n] /\ Letters[n + 1] # Letters[1]

\* The deltas i + 1 to j of generation g.
Piece(g, i, j) == [n \in 1..(j - i) |-> Delta(g, i + n)]
Full(g, k) == Piece(g, 0, k)

\* The messages of the generations up to G, with a text of their own.  What is
\* said of the texts is said for deltas that do not repeat.
OwnText(m) == NoRepeat => \E k \in 0..Len(Letters) : m.txt = Full(m.own, k)
MessagesOf(G) == {m \in Message : m.own <= G /\ OwnText(m) /\ (m.from = "user" => m.st = "none")}
ListsOf(G) == Seq(MessagesOf(G))

Updates ==
  [op : {"replace"}, val : Seq(Message)]
    \cup [op : {"chunk", "answer"}, gen : Gens, txt : Texts]
    \cup [op : {"complete", "error"}, gen : Gens]

LEMMA LettersFacts == Len(Letters) \in Nat /\ \A n \in 1..Len(Letters) : Letters[n] \in Range(Letters)
  <1>1. Letters \in Seq(Range(Letters))
    BY ConstantsAssumption
  <1> QED BY <1>1

\* The text s consists of the deltas i + 1 to j of generation g.
IsPiece(s, g, i, j) ==
  /\ s \in Texts /\ Len(s) = j - i /\ DOMAIN s = 1..(j - i)
  /\ \A n \in 1..(j - i) : s[n] = <<g, Letters[i + n]>>

LEMMA PieceType ==
    ASSUME NEW g \in Gens, NEW i \in Nat, NEW j \in Nat, i <= j, j <= Len(Letters)
    PROVE  IsPiece(Piece(g, i, j), g, i, j)
  <1>1. j - i \in Nat
    OBVIOUS
  <1>2. \A n \in 1..(j - i) : Delta(g, i + n) \in Gens \X Range(Letters)
    <2>1. \A n \in 1..(j - i) : i + n \in 1..Len(Letters)
      BY LettersFacts
    <2> QED BY <2>1, LettersFacts DEF Delta
  <1>3. Piece(g, i, j) \in [1..(j - i) -> Gens \X Range(Letters)]
    BY <1>2 DEF Piece
  <1>4. DOMAIN Piece(g, i, j) = 1..(j - i)
    BY DEF Piece
  <1>5. Piece(g, i, j) \in Texts
    BY <1>1, <1>3 DEF Texts
  <1>6. Len(Piece(g, i, j)) = j - i
    BY <1>1, <1>4, <1>5 DEF Texts
  <1>7. \A n \in 1..(j - i) : Piece(g, i, j)[n] = <<g, Letters[i + n]>>
    BY DEF Piece, Delta
  <1> QED BY <1>4, <1>5, <1>6, <1>7 DEF IsPiece

\* A text is determined by what it consists of.
LEMMA PieceUnique ==
    ASSUME NEW g, NEW i \in Nat, NEW j \in Nat, NEW s, NEW t, IsPiece(s, g, i, j), IsPiece(t, g, i, j)
    PROVE  s = t
  <1>1. s \in Seq(Gens \X Range(Letters)) /\ t \in Seq(Gens \X Range(Letters)) /\ Len(s) = Len(t)
    BY DEF IsPiece, Texts
  <1>2. \A n \in 1..Len(s) : s[n] = t[n]
    BY DEF IsPiece
  <1> QED BY <1>1, <1>2, SeqEqual

\* Two pieces that meet are one.
LEMMA PiecesJoin ==
    ASSUME NEW g \in Gens, NEW i \in Nat, NEW j \in Nat, NEW k \in Nat, i <= j, j <= k,
           NEW s, NEW t, IsPiece(s, g, i, j), IsPiece(t, g, j, k)
    PROVE  IsPiece(s \o t, g, i, k)
  <1>1. PICK X : X = Gens \X Range(Letters)
    OBVIOUS
  <1>2. s \in Seq(X) /\ t \in Seq(X) /\ Len(s) = j - i /\ Len(t) = k - j
    BY <1>1 DEF IsPiece, Texts
  <1>3. PICK w : w = s \o t
    OBVIOUS
  <1>4. /\ w \in Seq(X) /\ Len(w) = k - i /\ DOMAIN w = 1..(k - i)
        /\ \A n \in 1..(k - i) : w[n] = IF n <= j - i THEN s[n] ELSE t[n - (j - i)]
    <2>1. w \in Seq(X) /\ Len(w) = (j - i) + (k - j)
      BY <1>2, <1>3
    <2>2. (j - i) + (k - j) = k - i
      OBVIOUS
    <2>3. \A n \in 1..(Len(s) + Len(t)) : w[n] = IF n <= Len(s) THEN s[n] ELSE t[n - Len(s)]
      BY <1>2, <1>3, ConcatProperties
    <2>4. DOMAIN w = 1..Len(w)
      BY <2>1
    <2> QED BY <1>2, <2>1, <2>2, <2>3, <2>4
  <1>5. ASSUME NEW n \in 1..(k - i) PROVE w[n] = <<g, Letters[i + n]>>
    <2>1. CASE n <= j - i
      <3>1. n \in 1..(j - i) /\ w[n] = s[n]
        BY <1>4, <2>1
      <3> QED BY <3>1 DEF IsPiece
    <2>2. CASE n > j - i
      <3>1. PICK p : p = n - (j - i)
        OBVIOUS
      <3>2. p \in 1..(k - j) /\ j + p = i + n /\ w[n] = t[p]
        BY <1>4, <2>2, <3>1
      <3>3. t[p] = <<g, Letters[j + p]>>
        BY <3>2 DEF IsPiece
      <3> QED BY <3>2, <3>3
    <2> QED BY <2>1, <2>2
  <1>6. w \in Texts
    BY <1>1, <1>4 DEF Texts
  <1> QED BY <1>3, <1>4, <1>5, <1>6 DEF IsPiece

LEMMA PieceJoin ==
    ASSUME NEW g \in Gens, NEW i \in Nat, NEW j \in Nat, NEW k \in Nat,
           i <= j, j <= k, k <= Len(Letters)
    PROVE  Piece(g, i, j) \o Piece(g, j, k) = Piece(g, i, k)
  <1>1. i <= k /\ j <= Len(Letters)
    BY LettersFacts
  <1>2. IsPiece(Piece(g, i, j), g, i, j)
    BY <1>1, PieceType
  <1>3. IsPiece(Piece(g, j, k), g, j, k)
    BY PieceType
  <1>4. IsPiece(Piece(g, i, k), g, i, k)
    BY <1>1, PieceType
  <1>5. IsPiece(Piece(g, i, j) \o Piece(g, j, k), g, i, k)
    BY <1>2, <1>3, PiecesJoin
  <1> QED BY <1>4, <1>5, PieceUnique

\* A nonempty text is no prefix of one that begins otherwise.
LEMMA NotPrefix ==
    ASSUME NEW X, NEW s \in Seq(X), NEW t \in Seq(X), s # <<>>, t = <<>> \/ s[1] # t[1]
    PROVE  ~IsPrefix(s, t)
  <1> SUFFICES ASSUME IsPrefix(s, t) PROVE FALSE
    OBVIOUS
  <1>1. Len(s) >= 1 /\ Len(s) <= Len(t) /\ SubSeq(s, 1, Len(s)) = SubSeq(t, 1, Len(s))
    BY DEF IsPrefix
  <1>2. SubSeq(s, 1, Len(s))[1] = s[1] /\ SubSeq(t, 1, Len(s))[1] = t[1]
    BY <1>1
  <1> QED BY <1>1, <1>2

LEMMA PieceEmpty ==
    ASSUME NEW g \in Gens, NEW i \in Nat, i <= Len(Letters)
    PROVE  Piece(g, i, i) = <<>>
  <1>1. IsPiece(Piece(g, i, i), g, i, i)
    BY PieceType
  <1> QED BY <1>1 DEF IsPiece, Texts

\* A text shown in part takes the part that was pending.
LEMMA ChunkJoins ==
    ASSUME NoRepeat, NEW g \in Gens, NEW k \in Nat, NEW j \in Nat, k <= j, j <= Len(Letters)
    PROVE  Full(g, k) \o getAppendableChunk(Full(g, k), Piece(g, k, j)) = Full(g, j)
  <1>0. 0 \in Nat /\ 0 <= k /\ k <= Len(Letters)
    BY LettersFacts
  <1>1. PICK s, t : s = Full(g, k) /\ t = Piece(g, k, j)
    OBVIOUS
  <1>2. IsPiece(s, g, 0, k)
    BY <1>0, <1>1, PieceType DEF Full
  <1>3. IsPiece(t, g, k, j)
    BY <1>1, PieceType
  <1>4. PICK X : X = Gens \X Range(Letters)
    OBVIOUS
  <1>5. s \in Seq(X) /\ t \in Seq(X) /\ Len(s) = k /\ Len(t) = j - k
    BY <1>2, <1>3, <1>4 DEF IsPiece, Texts
  <1>6. s # <<>> => ~IsPrefix(s, t)
    <2> SUFFICES ASSUME s # <<>> PROVE ~IsPrefix(s, t)
      OBVIOUS
    <2>1. k >= 1
      BY <1>5
    <2>2. s[1] = <<g, Letters[1]>>
      <3>1. 1 \in 1..(k - 0) /\ 0 + 1 = 1
        BY <2>1
      <3> QED BY <1>2, <3>1 DEF IsPiece
    <2>3. CASE k = j
      <3>1. t = <<>>
        BY <1>5, <2>3
      <3> QED BY <1>5, <3>1, NotPrefix
    <2>4. CASE k < j
      <3>0. 1 \in 1..(j - k)
        BY <2>4
      <3>1. t[1] = <<g, Letters[k + 1]>>
        BY <1>3, <3>0 DEF IsPiece
      <3>2. k \in 1..(Len(Letters) - 1)
        BY <2>1, <2>4, LettersFacts
      <3>3. Letters[k + 1] # Letters[1]
        BY <3>2 DEF NoRepeat
      <3> QED BY <1>5, <2>2, <3>1, <3>3, NotPrefix
    <2> QED BY <2>3, <2>4
  <1>7. getAppendableChunk(s, t) = t
    BY <1>6 DEF getAppendableChunk
  <1>8. s \o t = Full(g, j)
    BY <1>0, <1>1, PieceJoin DEF Full
  <1> QED BY <1>1, <1>7, <1>8

\* The pending part takes the next delta.
LEMMA DeltaJoins ==
    ASSUME NoRepeat, NEW g \in Gens, NEW k \in Nat, NEW j \in Nat, k <= j, j < Len(Letters)
    PROVE  mergePendingStreamChunk(Piece(g, k, j), <<Delta(g, j + 1)>>) = Piece(g, k, j + 1)
  <1>0. j + 1 \in Nat /\ j <= j + 1 /\ j + 1 <= Len(Letters) /\ j <= Len(Letters) /\ j \in 0..Len(Letters)
    BY LettersFacts
  <1>1. PICK s, t : s = Piece(g, k, j) /\ t = Piece(g, j, j + 1)
    OBVIOUS
  <1>2. IsPiece(s, g, k, j)
    BY <1>0, <1>1, PieceType
  <1>3. IsPiece(t, g, j, j + 1)
    BY <1>0, <1>1, PieceType
  <1>4. PICK X : X = Gens \X Range(Letters)
    OBVIOUS
  <1>5. s \in Seq(X) /\ t \in Seq(X) /\ Len(s) = j - k /\ Len(t) = 1
    BY <1>2, <1>3, <1>4 DEF IsPiece, Texts
  <1>6. t[1] = <<g, Letters[j + 1]>>
    <2>1. 1 \in 1..((j + 1) - j)
      OBVIOUS
    <2> QED BY <1>3, <2>1 DEF IsPiece
  <1>7. t = <<Delta(g, j + 1)>>
    <2>1. PICK x : x = Delta(g, j + 1)
      OBVIOUS
    <2>2. t[1] = x /\ x \in X
      <3>1. t[1] = x
        BY <1>6, <2>1 DEF Delta
      <3>2. t[1] \in X
        <4>1. 1 \in 1..Len(t)
          BY <1>5
        <4> QED BY <1>5, <4>1, ElementOfSeq
      <3> QED BY <3>1, <3>2
    <2>3. <<x>> \in Seq(X) /\ Len(<<x>>) = 1 /\ <<x>>[1] = x
      BY <2>2
    <2>4. t = <<x>>
      BY <1>5, <2>2, <2>3, SeqEqual
    <2> QED BY <2>1, <2>4
  <1>8. s # <<>> => ~IsPrefix(s, t)
    <2> SUFFICES ASSUME s # <<>>, IsPrefix(s, t) PROVE FALSE
      OBVIOUS
    <2>1. Len(s) <= Len(t)
      BY DEF IsPrefix
    <2>2. j = k + 1
      BY <1>5, <2>1
    <2>3. 1 \in 1..(j - k) /\ k + 1 = j /\ j \in 1..(Len(Letters) - 1)
      BY <1>0, <2>2, LettersFacts
    <2>4. s[1] = <<g, Letters[j]>>
      BY <1>2, <2>3 DEF IsPiece
    <2>5. Letters[j + 1] # Letters[j]
      BY <2>3 DEF NoRepeat
    <2> QED BY <1>5, <1>6, <2>4, <2>5, NotPrefix
  <1>9. s \o t = Piece(g, k, j + 1)
    BY <1>0, <1>1, PieceJoin
  <1> QED BY <1>1, <1>7, <1>8, <1>9 DEF mergePendingStreamChunk

\* Of whatever deltas, the texts are joined to texts.
LEMMA ChunkTyped ==
    ASSUME NEW s \in Texts, NEW t \in Texts
    PROVE  s \o getAppendableChunk(s, t) \in Texts /\ mergePendingStreamChunk(s, t) \in Texts
  <1>1. PICK X : X = Gens \X Range(Letters)
    OBVIOUS
  <1>2. s \in Seq(X) /\ t \in Seq(X)
    BY <1>1 DEF Texts
  <1>3. SubSeq(t, Len(s) + 1, Len(t)) \in Seq(X)
    BY <1>2
  <1>4. getAppendableChunk(s, t) \in Seq(X)
    BY <1>2, <1>3 DEF getAppendableChunk
  <1>5. s \o getAppendableChunk(s, t) \in Seq(X)
    BY <1>2, <1>4
  <1>6. mergePendingStreamChunk(s, t) \in Seq(X)
    BY <1>2 DEF mergePendingStreamChunk
  <1> QED BY <1>1, <1>5, <1>6 DEF Texts

-----------------------------------------------------------------------------
(* The list of messages and the answer in it.                              *)

\* Nothing is pending but what was asked for on an earlier visit, up to
\* generation B.
Settled(m, B) == IsPending(m) => m.own <= B
\* The answer of generation G has ended well and is whole.
Whole(m, G, got, done) ==
  done /\ Key(m) = <<G, "assistant">> => m.st = "complete" /\ (NoRepeat => m.txt = Full(G, got))

Good(ms, G, B) ==
  /\ ms \in ListsOf(G)
  /\ \A i \in DOMAIN ms : i # Len(ms) => Settled(ms[i], B)
Calm(ms, G, B, got, done) ==
  \A i \in DOMAIN ms : Settled(ms[i], B) /\ Whole(ms[i], G, got, done)

\* The answer of generation G is the last message; what it lacks of the deltas
\* received is pending.
Asked(ms, G, got, done, ptxt) ==
  /\ ms # <<>> /\ ~done
  /\ ms[Len(ms)].own = G /\ ms[Len(ms)].from = "assistant" /\ IsPending(ms[Len(ms)])
  /\ ptxt \in Texts
  /\ NoRepeat => \E k \in 0..got : ms[Len(ms)].txt = Full(G, k) /\ ptxt = Piece(G, k, got)
  /\ \A i \in DOMAIN ms : i # Len(ms) => Key(ms[i]) # <<G, "assistant">>

At(ms, G, B, got, done, asking, ptxt) ==
  /\ Good(ms, G, B)
  /\ asking => Asked(ms, G, got, done, ptxt)
  /\ ~asking => ptxt = <<>> /\ Calm(ms, G, B, got, done)

States == {"none", "loading", "streaming", "complete", "error"}

LEMMA FullOwn ==
    ASSUME NEW g \in Gens, NEW k \in 0..Len(Letters)
    PROVE  Full(g, k) \in Texts
  <1>1. k \in Nat /\ 0 \in Nat /\ 0 <= k /\ k <= Len(Letters)
    BY LettersFacts
  <1> QED BY <1>1, PieceType DEF IsPiece, Full

LEMMA MessageIn ==
    ASSUME NEW G, NEW m \in MessagesOf(G), m.from = "assistant", NEW st \in States,
           NEW r, r = [m EXCEPT !.st = st]
    PROVE  r \in MessagesOf(G) /\ r.own = m.own /\ r.from = m.from /\ r.st = st /\ r.txt = m.txt
  <1>1. m \in Message /\ m.own \in Gens /\ m.own <= G
    BY DEF MessagesOf, Message
  <1>2. r \in Message /\ r.own = m.own /\ r.from = m.from /\ r.st = st /\ r.txt = m.txt
    BY <1>1 DEF Message, States
  <1>3. OwnText(r)
    BY <1>2 DEF OwnText, MessagesOf
  <1> QED BY <1>1, <1>2, <1>3 DEF MessagesOf

\* A message with another state and text, and a list with another last message.
With(m, st, t) == [m EXCEPT !.st = st, !.txt = t]
PutLast(ms, m) == [ms EXCEPT ![Len(ms)] = m]

LEMMA MessageText ==
    ASSUME NEW G, NEW m \in MessagesOf(G), m.from = "assistant", NEW st \in States, NEW t \in Texts,
           NoRepeat => \E k \in 0..Len(Letters) : t = Full(m.own, k), NEW r, r = With(m, st, t)
    PROVE  r \in MessagesOf(G) /\ r.own = m.own /\ r.from = m.from /\ r.st = st /\ r.txt = t
  <1>1. m \in Message /\ m.own \in Gens /\ m.own <= G
    BY DEF MessagesOf, Message
  <1>2. r \in Message /\ r.own = m.own /\ r.from = m.from /\ r.st = st /\ r.txt = t
    BY <1>1 DEF Message, States, With
  <1>3. OwnText(r)
    BY <1>2 DEF OwnText
  <1> QED BY <1>1, <1>2, <1>3 DEF MessagesOf

LEMMA MessageWith ==
    ASSUME NEW G, NEW m \in MessagesOf(G), m.from = "assistant", NEW st \in States,
           NEW k \in 0..Len(Letters), NEW r, r = With(m, st, Full(m.own, k))
    PROVE  /\ r \in MessagesOf(G) /\ r.own = m.own /\ r.from = m.from /\ r.st = st
           /\ r.txt = Full(m.own, k)
  <1>1. m.own \in Gens
    BY DEF MessagesOf, Message
  <1>2. PICK t \in Texts : t = Full(m.own, k)
    BY <1>1, FullOwn
  <1> QED BY <1>2, MessageText

\* A list with another last element.
LEMMA LastReplaced ==
    ASSUME NEW X, NEW ms \in Seq(X), ms # <<>>, NEW m \in X, NEW r, r = PutLast(ms, m)
    PROVE  /\ r \in Seq(X) /\ r # <<>> /\ Len(r) = Len(ms) /\ DOMAIN r = DOMAIN ms
           /\ Len(ms) \in DOMAIN ms /\ ms[Len(ms)] \in X /\ r[Len(ms)] = m
           /\ \A i \in DOMAIN ms : i # Len(ms) => r[i] = ms[i]
  <1>1. Len(ms) \in Nat \ {0} /\ DOMAIN ms = 1..Len(ms)
    OBVIOUS
  <1>2. Len(ms) \in DOMAIN ms /\ ms[Len(ms)] \in X
    BY <1>1
  <1>3. r \in Seq(X) /\ Len(r) = Len(ms)
    BY <1>2, ExceptSeq DEF PutLast
  <1>4. DOMAIN r = DOMAIN ms /\ r[Len(ms)] = m /\ \A i \in DOMAIN ms : i # Len(ms) => r[i] = ms[i]
    BY <1>2 DEF PutLast
  <1> QED BY <1>1, <1>2, <1>3, <1>4

\* The last message, if it is an answer, is revised by an update of the
\* current generation; an update of another one does nothing.
Revisions == {"chunk", "complete", "stop", "error", "answer"}

LEMMA EffectOnLast ==
    ASSUME NEW ms, NEW u, NEW h, u.op \in Revisions
    PROVE  /\ u.gen # h => Effect(ms, u, h) = ms
           /\ u.gen = h /\ (ms = <<>> \/ ms[Len(ms)].from # "assistant") => Effect(ms, u, h) = ms
           /\ u.gen = h /\ ms # <<>> /\ ms[Len(ms)].from = "assistant" =>
                Effect(ms, u, h) = PutLast(ms, Revised(ms[Len(ms)], u))
  <1>1. u.op \notin {"replace", "set"} /\ u.op # "remove"
    BY DEF Revisions
  <1>2. Effect(ms, u, h) = IF u.gen = h THEN updateLastAssistantMessage(ms, u) ELSE ms
    BY <1>1 DEF Effect, StillCurrent
  <1> QED BY <1>2 DEF updateLastAssistantMessage, PutLast

\* The pending text becomes part of the answer.
LEMMA ChunkEffect ==
    ASSUME NEW G \in Gens, NEW B, NEW got \in 0..Len(Letters), NEW done, NEW ptxt, NEW ms,
           At(ms, G, B, got, done, TRUE, ptxt), NEW h, NEW u, u = [op |-> "chunk", gen |-> h, txt |-> ptxt]
    PROVE  At(Effect(ms, u, h), G, B, got, done, TRUE, <<>>)
  <1>1. PICK m : m = ms[Len(ms)]
    OBVIOUS
  <1>2. /\ ms \in Seq(MessagesOf(G)) /\ ms # <<>> /\ ~done /\ m.own = G /\ m.from = "assistant"
        /\ IsPending(m)
    BY <1>1 DEF At, Good, Asked, ListsOf
  <1>3. ptxt \in Texts /\ (NoRepeat => \E k \in 0..got : m.txt = Full(G, k) /\ ptxt = Piece(G, k, got))
    BY <1>1 DEF At, Asked
  <1>4. m \in MessagesOf(G) /\ m.txt \in Texts
    BY <1>1, <1>2 DEF MessagesOf, Message
  <1>5. m.st # "error"
    BY <1>2 DEF IsPending
  <1>6. PICK r : r = Revised(m, u)
    OBVIOUS
  <1>7. u.op = "chunk" /\ u.gen = h /\ u.txt = ptxt
    OBVIOUS
  <1>8. r = applyStreamingChunk(m, ptxt)
    BY <1>6, <1>7 DEF Revised
  <1>9. PICK t : t = m.txt \o getAppendableChunk(m.txt, ptxt)
    OBVIOUS
  <1>10. t \in Texts /\ (NoRepeat => t = Full(G, got))
    <2>1. t \in Texts
      BY <1>3, <1>4, <1>9, ChunkTyped
    <2>2. ASSUME NoRepeat PROVE t = Full(G, got)
      <3>1. PICK k \in 0..got : m.txt = Full(G, k) /\ ptxt = Piece(G, k, got)
        BY <1>3, <2>2
      <3>2. k \in Nat /\ got \in Nat /\ k <= got /\ got <= Len(Letters)
        BY LettersFacts
      <3> QED BY <1>9, <2>2, <3>1, <3>2, ChunkJoins
    <2> QED BY <2>1, <2>2
  <1>11. r \in MessagesOf(G) /\ r.own = G /\ r.from = "assistant" /\ r.st = "streaming" /\ r.txt = t
    <2>1. "streaming" \in States
      BY DEF States
    <2>2. r = With(m, "streaming", t)
      BY <1>5, <1>8, <1>9 DEF applyStreamingChunk, With
    <2>3. NoRepeat => \E k \in 0..Len(Letters) : t = Full(m.own, k)
      BY <1>2, <1>10
    <2>4. r \in MessagesOf(G) /\ r.own = m.own /\ r.from = m.from /\ r.st = "streaming" /\ r.txt = t
      BY <1>2, <1>4, <1>10, <2>1, <2>2, <2>3, MessageText
    <2> QED BY <1>2, <2>4
  <1>12. PICK rs : rs = PutLast(ms, r)
    OBVIOUS
  <1>13. Effect(ms, u, h) = rs
    <2>1. u.op \in Revisions
      BY <1>7 DEF Revisions
    <2>2. Effect(ms, u, h) = PutLast(ms, Revised(ms[Len(ms)], u))
      BY <1>1, <1>2, <1>7, <2>1, EffectOnLast
    <2> QED BY <1>1, <1>6, <1>12, <2>2
  <1>14. /\ rs \in Seq(MessagesOf(G)) /\ rs # <<>> /\ Len(rs) = Len(ms) /\ DOMAIN rs = DOMAIN ms
         /\ rs[Len(ms)] = r /\ \A i \in DOMAIN ms : i # Len(ms) => rs[i] = ms[i]
    BY <1>2, <1>11, <1>12, LastReplaced
  <1>15. Piece(G, got, got) = <<>> /\ got \in 0..got /\ <<>> \in Texts
    BY PieceEmpty, LettersFacts DEF Texts
  <1>16. Good(rs, G, B)
    BY <1>14 DEF At, Good, ListsOf
  <1>17. Asked(rs, G, got, done, <<>>)
    BY <1>2, <1>10, <1>11, <1>14, <1>15 DEF At, Asked, IsPending
  <1> QED BY <1>13, <1>16, <1>17 DEF At

\* An answer whose last message becomes r, which is pending no more.
LEMMA LastSettled ==
    ASSUME NEW G \in Gens, NEW B, NEW got, NEW done, NEW ptxt, NEW ms, At(ms, G, B, got, done, TRUE, ptxt),
           NEW r \in MessagesOf(G), ~IsPending(r), NEW got2, NEW done2, Whole(r, G, got2, done2)
    PROVE  At(PutLast(ms, r), G, B, got2, done2, FALSE, <<>>)
  <1>1. PICK rs : rs = PutLast(ms, r)
    OBVIOUS
  <1>2. ms \in Seq(MessagesOf(G)) /\ ms # <<>>
    BY DEF At, Good, Asked, ListsOf
  <1>3. /\ rs \in Seq(MessagesOf(G)) /\ rs # <<>> /\ Len(rs) = Len(ms) /\ DOMAIN rs = DOMAIN ms
        /\ rs[Len(ms)] = r /\ \A i \in DOMAIN ms : i # Len(ms) => rs[i] = ms[i]
    BY <1>1, <1>2, LastReplaced
  <1>4. Good(rs, G, B)
    BY <1>3 DEF At, Good, ListsOf
  <1>5. Settled(r, B)
    BY DEF Settled
  <1>6. ASSUME NEW i \in DOMAIN rs, i # Len(ms) PROVE Settled(rs[i], B) /\ Whole(rs[i], G, got2, done2)
    <2>1. rs[i] = ms[i] /\ Settled(ms[i], B) /\ Key(ms[i]) # <<G, "assistant">>
      BY <1>3, <1>6 DEF At, Good, Asked
    <2> QED BY <2>1 DEF Whole
  <1>7. Calm(rs, G, B, got2, done2)
    BY <1>3, <1>5, <1>6 DEF Calm
  <1> QED BY <1>1, <1>4, <1>7 DEF At

\* The answer ends: well, with an error, or as a whole.
LEMMA EndEffect ==
    ASSUME NEW G \in Gens, NEW B, NEW got \in 0..Len(Letters), NEW done, NEW ms,
           At(ms, G, B, got, done, TRUE, <<>>)
    PROVE  /\ At(Effect(ms, [op |-> "complete", gen |-> G], G), G, B, got, TRUE, FALSE, <<>>)
           /\ At(Effect(ms, [op |-> "error", gen |-> G], G), G, B, got, done, FALSE, <<>>)
           /\ At(Effect(ms, [op |-> "answer", gen |-> G, txt |-> Full(G, Len(Letters))], G),
                 G, B, Len(Letters), TRUE, FALSE, <<>>)
  <1>1. PICK m : m = ms[Len(ms)]
    OBVIOUS
  <1>2. /\ ms \in Seq(MessagesOf(G)) /\ ms # <<>> /\ ~done /\ m.own = G /\ m.from = "assistant"
        /\ IsPending(m)
    BY <1>1 DEF At, Good, Asked, ListsOf
  <1>3. NoRepeat => \E k \in 0..got : m.txt = Full(G, k) /\ <<>> = Piece(G, k, got)
    BY <1>1 DEF At, Asked
  <1>4. ASSUME NoRepeat PROVE m.txt = Full(G, got)
    <2>0. PICK k \in 0..got : m.txt = Full(G, k) /\ <<>> = Piece(G, k, got)
      BY <1>3, <1>4
    <2>1. k \in Nat /\ got \in Nat /\ k <= got /\ got <= Len(Letters)
      BY LettersFacts
    <2>2. IsPiece(<<>>, G, k, got)
      BY <2>0, <2>1, PieceType
    <2>3. Len(<<>>) = got - k
      BY <2>2 DEF IsPiece
    <2>4. k = got
      BY <2>1, <2>3
    <2> QED BY <2>0, <2>4
  <1>5. m \in MessagesOf(G) /\ ~IsFinal(m)
    BY <1>1, <1>2 DEF IsPending, IsFinal
  <1>6. "complete" \in States /\ "error" \in States /\ Len(Letters) \in 0..Len(Letters) /\ 0 \in 0..Len(Letters)
    BY LettersFacts DEF States
  <1>7. At(Effect(ms, [op |-> "complete", gen |-> G], G), G, B, got, TRUE, FALSE, <<>>)
    <2>1. PICK u : u = [op |-> "complete", gen |-> G]
      OBVIOUS
    <2>2. u.op = "complete" /\ u.gen = G
      BY <2>1
    <2>3. PICK r : r = Revised(m, u)
      OBVIOUS
    <2>4. r = [m EXCEPT !.st = "complete"]
      BY <1>5, <2>2, <2>3 DEF Revised, completeAssistantMessage
    <2>5. r \in MessagesOf(G) /\ r.st = "complete" /\ (NoRepeat => r.txt = Full(G, got))
      <3>1. r \in MessagesOf(G) /\ r.st = "complete" /\ r.txt = m.txt
        BY <1>2, <1>5, <1>6, <2>4, MessageIn
      <3> QED BY <1>4, <3>1
    <2>6. ~IsPending(r) /\ Whole(r, G, got, TRUE)
      BY <2>5 DEF IsPending, Whole
    <2>7. Effect(ms, u, G) = PutLast(ms, r)
      <3>1. u.op \in Revisions
        BY <2>2 DEF Revisions
      <3> QED BY <1>1, <1>2, <2>2, <2>3, <3>1, EffectOnLast
    <2> QED BY <2>1, <2>5, <2>6, <2>7, LastSettled
  <1>8. At(Effect(ms, [op |-> "error", gen |-> G], G), G, B, got, done, FALSE, <<>>)
    <2>1. PICK u : u = [op |-> "error", gen |-> G]
      OBVIOUS
    <2>2. u.op = "error" /\ u.gen = G
      BY <2>1
    <2>3. PICK r : r = Revised(m, u)
      OBVIOUS
    <2>4. <<>> = Full(m.own, 0)
      BY <1>2, <1>6, PieceEmpty DEF Full
    <2>5. r = With(m, "error", Full(m.own, 0))
      BY <2>2, <2>3, <2>4 DEF Revised, With
    <2>6. r \in MessagesOf(G) /\ r.st = "error"
      BY <1>2, <1>5, <1>6, <2>5, MessageWith
    <2>7. ~IsPending(r) /\ Whole(r, G, got, done)
      BY <1>2, <2>6 DEF IsPending, Whole
    <2>8. Effect(ms, u, G) = PutLast(ms, r)
      <3>1. u.op \in Revisions
        BY <2>2 DEF Revisions
      <3> QED BY <1>1, <1>2, <2>2, <2>3, <3>1, EffectOnLast
    <2> QED BY <2>1, <2>6, <2>7, <2>8, LastSettled
  <1>9. At(Effect(ms, [op |-> "answer", gen |-> G, txt |-> Full(G, Len(Letters))], G),
           G, B, Len(Letters), TRUE, FALSE, <<>>)
    <2>1. PICK u : u = [op |-> "answer", gen |-> G, txt |-> Full(G, Len(Letters))]
      OBVIOUS
    <2>2. u.op = "answer" /\ u.gen = G /\ u.txt = Full(m.own, Len(Letters))
      BY <1>2, <2>1
    <2>3. PICK r : r = Revised(m, u)
      OBVIOUS
    <2>4. r = With(m, "complete", Full(m.own, Len(Letters)))
      BY <2>2, <2>3 DEF Revised, With
    <2>5. r \in MessagesOf(G) /\ r.st = "complete" /\ r.txt = Full(G, Len(Letters))
      <3>1. /\ r \in MessagesOf(G) /\ r.own = m.own /\ r.from = m.from /\ r.st = "complete"
            /\ r.txt = Full(m.own, Len(Letters))
        BY <1>2, <1>5, <1>6, <2>4, MessageWith
      <3> QED BY <1>2, <3>1
    <2>6. ~IsPending(r) /\ Whole(r, G, Len(Letters), TRUE)
      BY <2>5 DEF IsPending, Whole
    <2>7. Effect(ms, u, G) = PutLast(ms, r)
      <3>1. u.op \in Revisions
        BY <2>2 DEF Revisions
      <3> QED BY <1>1, <1>2, <2>2, <2>3, <3>1, EffectOnLast
    <2> QED BY <2>1, <2>5, <2>6, <2>7, LastSettled
  <1> QED BY <1>7, <1>8, <1>9

\* A stop ends whatever the list has pending.
LEMMA MoreMessages ==
    ASSUME NEW G \in Nat, NEW H \in Nat, G <= H
    PROVE  MessagesOf(G) \subseteq MessagesOf(H) /\ ListsOf(G) \subseteq ListsOf(H)
  <1>1. MessagesOf(G) \subseteq MessagesOf(H)
    BY DEF MessagesOf, Message, Gens
  <1> QED BY <1>1, SeqMonotonic DEF ListsOf

LEMMA StopEffect ==
    ASSUME NEW G \in Nat, NEW B, NEW got, NEW ms, Good(ms, G, B),
           NEW u, u = [op |-> "stop", gen |-> G + 1]
    PROVE  At(Effect(ms, u, G + 1), G + 1, B, got, FALSE, FALSE, <<>>)
  <1>1. u.op = "stop" /\ u.gen = G + 1 /\ u.op \in Revisions
    BY DEF Revisions
  <1>2. ms \in Seq(MessagesOf(G + 1))
    BY MoreMessages DEF Good, ListsOf
  <1>3. PICK rs : rs = Effect(ms, u, G + 1)
    OBVIOUS
  <1>4. SUFFICES rs \in Seq(MessagesOf(G + 1)) /\ \A i \in DOMAIN rs : Settled(rs[i], B)
    BY <1>3, <1>4 DEF At, Good, Calm, Whole, ListsOf
  <1>5. CASE ms = <<>>
    <2>1. rs = <<>>
      BY <1>1, <1>3, <1>5, EffectOnLast
    <2> QED BY <1>2, <1>5, <2>1
  <1>6. CASE ms # <<>>
    <2>1. PICK m : m = ms[Len(ms)]
      OBVIOUS
    <2>2. m \in MessagesOf(G + 1) /\ Len(ms) \in DOMAIN ms
      BY <1>2, <1>6, <2>1
    <2>3. CASE m.from # "assistant"
      <3>1. m.st = "none"
        BY <2>2, <2>3 DEF MessagesOf, Message
      <3>2. Settled(m, B)
        BY <3>1 DEF Settled, IsPending
      <3>3. rs = ms
        BY <1>1, <1>3, <2>1, <2>3, EffectOnLast
      <3> QED BY <1>2, <2>1, <3>2, <3>3 DEF Good
    <2>4. CASE m.from = "assistant"
      <3>1. PICK r : r = Revised(m, u)
        OBVIOUS
      <3>2. r \in MessagesOf(G + 1) /\ ~IsPending(r)
        <4>1. CASE IsPending(m)
          <5>1. r = [m EXCEPT !.st = "complete"]
            BY <1>1, <3>1, <4>1 DEF Revised, completeAssistantMessage
          <5>2. "complete" \in States
            BY DEF States
          <5>3. r \in MessagesOf(G + 1) /\ r.st = "complete"
            BY <2>2, <2>4, <5>1, <5>2, MessageIn
          <5> QED BY <5>3 DEF IsPending
        <4>2. CASE ~IsPending(m)
          BY <1>1, <2>2, <3>1, <4>2 DEF Revised
        <4> QED BY <4>1, <4>2
      <3>3. rs = PutLast(ms, r)
        BY <1>1, <1>3, <1>6, <2>1, <2>4, <3>1, EffectOnLast
      <3>4. /\ rs \in Seq(MessagesOf(G + 1)) /\ DOMAIN rs = DOMAIN ms
            /\ rs[Len(ms)] = r /\ \A i \in DOMAIN ms : i # Len(ms) => rs[i] = ms[i]
        BY <1>2, <1>6, <3>2, <3>3, LastReplaced
      <3>5. \A i \in DOMAIN rs : Settled(rs[i], B)
        BY <3>2, <3>4 DEF Good, Settled
      <3> QED BY <3>4, <3>5
    <2> QED BY <2>3, <2>4
  <1> QED BY <1>5, <1>6

\* The next delta of the answer.
LEMMA DeltaEffect ==
    ASSUME NEW G \in Gens, NEW B, NEW got \in 0..Len(Letters), got < Len(Letters), NEW done,
           NEW ptxt, NEW ms, At(ms, G, B, got, done, TRUE, ptxt)
    PROVE  At(ms, G, B, got + 1, done, TRUE, mergePendingStreamChunk(ptxt, <<Delta(G, got + 1)>>))
  <1>1. /\ ptxt \in Texts
        /\ NoRepeat => \E k \in 0..got : ms[Len(ms)].txt = Full(G, k) /\ ptxt = Piece(G, k, got)
    BY DEF At, Asked
  <1>2. PICK x, p : x = <<Delta(G, got + 1)>> /\ p = mergePendingStreamChunk(ptxt, x)
    OBVIOUS
  <1>3. p \in Texts
    <2>1. got + 1 \in 1..Len(Letters)
      BY LettersFacts
    <2>2. Delta(G, got + 1) \in Gens \X Range(Letters)
      BY <2>1, LettersFacts DEF Delta
    <2>3. x \in Texts
      BY <1>2, <2>2 DEF Texts
    <2> QED BY <1>1, <1>2, <2>3, ChunkTyped
  <1>4. ASSUME NoRepeat
        PROVE  \E k \in 0..(got + 1) : ms[Len(ms)].txt = Full(G, k) /\ p = Piece(G, k, got + 1)
    <2>1. PICK k \in 0..got : ms[Len(ms)].txt = Full(G, k) /\ ptxt = Piece(G, k, got)
      BY <1>1, <1>4
    <2>2. k \in Nat /\ got \in Nat /\ k <= got /\ k \in 0..(got + 1)
      BY LettersFacts
    <2>3. p = Piece(G, k, got + 1)
      BY <1>2, <1>4, <2>1, <2>2, DeltaJoins
    <2> QED BY <2>1, <2>2, <2>3
  <1>5. Asked(ms, G, got + 1, done, p)
    BY <1>3, <1>4 DEF At, Asked
  <1> QED BY <1>2, <1>5 DEF At

\* A new request: a list in which nothing is pending, and the answer to come.
SettledList(ms, G, B) == ms \in ListsOf(G) /\ \A i \in DOMAIN ms : Settled(ms[i], B)

LEMMA Appended ==
    ASSUME NEW X, NEW ms \in Seq(X), NEW m \in X, NEW r, r = Append(ms, m)
    PROVE  /\ r \in Seq(X) /\ r # <<>> /\ Len(r) = Len(ms) + 1 /\ r[Len(r)] = m /\ Len(r) \in DOMAIN r
           /\ \A i \in DOMAIN r : i # Len(r) => i \in DOMAIN ms /\ r[i] = ms[i]
  <1>1. r \in Seq(X) /\ Len(r) = Len(ms) + 1 /\ r[Len(r)] = m /\ Len(ms) \in Nat
    OBVIOUS
  <1>2. DOMAIN r = 1..(Len(ms) + 1) /\ DOMAIN ms = 1..Len(ms)
    BY <1>1
  <1>3. \A i \in 1..Len(ms) : r[i] = ms[i]
    OBVIOUS
  <1> QED BY <1>1, <1>2, <1>3

LEMMA AskAnswer ==
    ASSUME NEW G \in Gens, NEW B, NEW ms, SettledList(ms, G, B),
           \A i \in DOMAIN ms : Key(ms[i]) # <<G, "assistant">>
    PROVE  At(Append(ms, createLoadingAssistantMessage(G)), G, B, 0, FALSE, TRUE, <<>>)
  <1>0. 0 \in 0..Len(Letters) /\ 0 \in 0..0 /\ G <= G
    BY LettersFacts DEF Gens
  <1>1. PICK m : m = createLoadingAssistantMessage(G)
    OBVIOUS
  <1>2. m.own = G /\ m.from = "assistant" /\ m.st = "loading" /\ m.txt = <<>>
    BY <1>1 DEF createLoadingAssistantMessage
  <1>3. <<>> = Full(G, 0) /\ <<>> = Piece(G, 0, 0)
    BY <1>0, PieceEmpty DEF Full
  <1>4. m \in MessagesOf(G)
    <2>1. <<>> \in Texts
      BY DEF Texts
    <2>2. m \in Message
      BY <1>1, <2>1 DEF createLoadingAssistantMessage, Message
    <2>3. OwnText(m)
      BY <1>0, <1>2, <1>3 DEF OwnText
    <2> QED BY <1>0, <1>2, <2>2, <2>3 DEF MessagesOf
  <1>5. PICK r : r = Append(ms, m)
    OBVIOUS
  <1>6. /\ r \in Seq(MessagesOf(G)) /\ r # <<>> /\ r[Len(r)] = m
        /\ \A i \in DOMAIN r : i # Len(r) => i \in DOMAIN ms /\ r[i] = ms[i]
    <2>1. ms \in Seq(MessagesOf(G))
      BY DEF SettledList, ListsOf
    <2> QED BY <1>4, <1>5, <2>1, Appended
  <1>7. Good(r, G, B)
    BY <1>6 DEF Good, SettledList, ListsOf
  <1>8. IsPending(m)
    BY <1>2 DEF IsPending
  <1>9. <<>> \in Texts /\ \E k \in 0..0 : m.txt = Full(G, k) /\ <<>> = Piece(G, k, 0)
    BY <1>0, <1>2, <1>3 DEF Texts
  <1>10. Asked(r, G, 0, FALSE, <<>>)
    BY <1>2, <1>6, <1>8, <1>9 DEF Asked
  <1> QED BY <1>1, <1>5, <1>7, <1>10 DEF At

LEMMA AskPair ==
    ASSUME NEW G \in Nat, G + 1 \in Gens, NEW B, NEW ms, SettledList(ms, G, B)
    PROVE  /\ At(Append(ms, createLoadingAssistantMessage(G + 1)), G + 1, B, 0, FALSE, TRUE, <<>>)
           /\ At(appendUserMessagePair(ms, G + 1), G + 1, B, 0, FALSE, TRUE, <<>>)
  <1>1. PICK H \in Gens : H = G + 1 /\ G <= H /\ H \in Nat
    BY DEF Gens
  <1>2. SettledList(ms, H, B)
    BY <1>1, MoreMessages DEF SettledList
  <1>3. \A i \in DOMAIN ms : ms[i].own < H
    <2>1. ms \in Seq(MessagesOf(G))
      BY DEF SettledList, ListsOf
    <2>2. \A i \in DOMAIN ms : ms[i] \in MessagesOf(G)
      BY <2>1
    <2> QED BY <1>1, <2>2 DEF MessagesOf, Message, Gens
  <1>4. \A i \in DOMAIN ms : Key(ms[i]) # <<H, "assistant">>
    BY <1>1, <1>3 DEF Key
  <1>5. At(Append(ms, createLoadingAssistantMessage(H)), H, B, 0, FALSE, TRUE, <<>>)
    BY <1>2, <1>4, AskAnswer
  <1>6. PICK m : m = createUserMessage(H)
    OBVIOUS
  <1>7. m.own = H /\ m.from = "user" /\ m.st = "none" /\ m.txt = <<>>
    BY <1>6 DEF createUserMessage
  <1>8. m \in MessagesOf(H)
    <2>0. 0 \in 0..Len(Letters) /\ 0 \in Nat /\ 0 <= Len(Letters)
      BY LettersFacts
    <2>1. <<>> \in Texts
      BY DEF Texts
    <2>2. m \in Message
      BY <1>6, <2>1 DEF createUserMessage, Message
    <2>3. m.txt = Full(m.own, 0)
      BY <1>7, <2>0, PieceEmpty DEF Full
    <2>4. OwnText(m)
      BY <2>0, <2>3 DEF OwnText
    <2> QED BY <1>1, <1>7, <2>2, <2>4 DEF MessagesOf
  <1>9. PICK r : r = Append(ms, m)
    OBVIOUS
  <1>10. /\ r \in Seq(MessagesOf(H)) /\ r[Len(r)] = m
         /\ \A i \in DOMAIN r : i # Len(r) => i \in DOMAIN ms /\ r[i] = ms[i]
    <2>1. ms \in Seq(MessagesOf(H))
      BY <1>2 DEF SettledList, ListsOf
    <2> QED BY <1>8, <1>9, <2>1, Appended
  <1>11. Settled(m, B) /\ Key(m) # <<H, "assistant">>
    BY <1>7 DEF Settled, IsPending, Key
  <1>12. SettledList(r, H, B)
    BY <1>2, <1>10, <1>11 DEF SettledList, ListsOf
  <1>13. \A i \in DOMAIN r : Key(r[i]) # <<H, "assistant">>
    BY <1>4, <1>10, <1>11
  <1>14. At(Append(r, createLoadingAssistantMessage(H)), H, B, 0, FALSE, TRUE, <<>>)
    BY <1>12, <1>13, AskAnswer
  <1>15. appendUserMessagePair(ms, H) = Append(r, createLoadingAssistantMessage(H))
    <2>1. PICK l : l = createLoadingAssistantMessage(H)
      OBVIOUS
    <2>2. PICK X : X = MessagesOf(H) \cup {m, l}
      OBVIOUS
    <2>3. ms \in Seq(X) /\ m \in X /\ l \in X
      <3>1. ms \in Seq(MessagesOf(H)) /\ MessagesOf(H) \subseteq X
        BY <1>2, <2>2 DEF SettledList, ListsOf
      <3> QED BY <2>2, <3>1, SeqMonotonic
    <2>4. ms \o <<m, l>> = Append(Append(ms, m), l)
      BY <2>3
    <2> QED BY <1>6, <1>9, <2>1, <2>4 DEF appendUserMessagePair
  <1> QED BY <1>1, <1>5, <1>14, <1>15

\* A part of a list in which nothing is pending.
LEMMA CalmPart ==
    ASSUME NEW G, NEW B, NEW got, NEW done, NEW ms, Calm(ms, G, B, got, done),
           NEW r \in ListsOf(G), Embeds(r, ms)
    PROVE  At(r, G, B, got, done, FALSE, <<>>)
  <1>1. \A i \in DOMAIN r : \E j \in DOMAIN ms : r[i] = ms[j]
    BY DEF Embeds
  <1>2. Calm(r, G, B, got, done)
    BY <1>1 DEF Calm
  <1> QED BY <1>2 DEF At, Good, Calm

LEMMA RemoveEffect ==
    ASSUME NEW G, NEW B, NEW got, NEW done, NEW ptxt, NEW ms, At(ms, G, B, got, done, FALSE, ptxt),
           NEW h, NEW u, u.op = "remove"
    PROVE  At(Effect(ms, u, h), G, B, got, done, FALSE, <<>>) /\ Embeds(Effect(ms, u, h), ms)
  <1>1. PICK S : S = {m \in Range(ms) : Key(m) # u.key}
    OBVIOUS
  <1>2. PICK r : r = Among(ms, S)
    OBVIOUS
  <1>3. Effect(ms, u, h) = r
    BY <1>1, <1>2 DEF Effect
  <1>4. ms \in Seq(MessagesOf(G))
    BY DEF At, Good, ListsOf
  <1>5. r \in Seq(MessagesOf(G)) /\ Embeds(r, ms)
    BY <1>2, <1>4, AmongIsRight DEF AmongRight
  <1> QED BY <1>3, <1>5, CalmPart DEF At, ListsOf

LEMMA SettledPart ==
    ASSUME NEW G, NEW B, NEW ms, SettledList(ms, G, B), NEW n \in 0..Len(ms)
    PROVE  SettledList(SubSeq(ms, 1, n), G, B) /\ Embeds(SubSeq(ms, 1, n), ms)
  <1>1. PICK r : r = SubSeq(ms, 1, n)
    OBVIOUS
  <1>2. ms \in Seq(MessagesOf(G)) /\ 1 \in 1..(Len(ms) + 1)
    BY DEF SettledList, ListsOf
  <1>3. r \in Seq(MessagesOf(G)) /\ Embeds(r, ms)
    BY <1>1, <1>2, SubSeqEmbeds
  <1>4. \A i \in DOMAIN r : \E j \in DOMAIN ms : r[i] = ms[j]
    BY <1>3 DEF Embeds
  <1> QED BY <1>1, <1>3, <1>4 DEF SettledList, ListsOf

\* A message is emptied by an edit, but not the answer that is asked for.
LEMMA EditEffect ==
    ASSUME NEW G, NEW B, NEW got, NEW done, NEW asking, NEW ptxt, NEW ms,
           At(ms, G, B, got, done, asking, ptxt), NEW i \in DOMAIN ms, asking => ms[i].own # G,
           NEW r, r = [ms EXCEPT ![i].txt = <<>>]
    PROVE  /\ At(r, G, B, got, done /\ Key(r[i]) # <<G, "assistant">>, asking, ptxt)
           /\ DOMAIN r = DOMAIN ms /\ \A j \in DOMAIN ms : Key(r[j]) = Key(ms[j])
  <1>1. PICK m, e : m = ms[i] /\ e = [m EXCEPT !.txt = <<>>]
    OBVIOUS
  <1>2. ms \in Seq(MessagesOf(G)) /\ m \in MessagesOf(G) /\ m \in Message
    BY <1>1 DEF At, Good, ListsOf, MessagesOf
  <1>3. e \in MessagesOf(G) /\ e.own = m.own /\ e.from = m.from /\ e.st = m.st
    <2>0. 0 \in 0..Len(Letters) /\ 0 \in Nat /\ 0 <= Len(Letters)
      BY LettersFacts
    <2>1. <<>> \in Texts
      BY DEF Texts
    <2>2. e \in Message /\ e.own = m.own /\ e.from = m.from /\ e.st = m.st /\ e.txt = <<>>
      BY <1>1, <1>2, <2>1 DEF Message
    <2>3. e.own \in Gens
      BY <2>2 DEF Message
    <2>4. e.txt = Full(e.own, 0)
      BY <2>0, <2>2, <2>3, PieceEmpty DEF Full
    <2>5. OwnText(e)
      BY <2>0, <2>4 DEF OwnText
    <2> QED BY <1>2, <2>2, <2>5 DEF MessagesOf
  <1>4. r = [ms EXCEPT ![i] = e]
    BY <1>1
  <1>5. r \in Seq(MessagesOf(G)) /\ Len(r) = Len(ms)
    <2>1. i \in 1..Len(ms)
      BY <1>2
    <2> QED BY <1>2, <1>3, <1>4, <2>1, ExceptSeq
  <1>6. DOMAIN r = DOMAIN ms /\ r[i] = e /\ \A j \in DOMAIN ms : j # i => r[j] = ms[j]
    BY <1>4
  <1>7. \A j \in DOMAIN ms : /\ Key(r[j]) = Key(ms[j])
                             /\ IsPending(r[j]) = IsPending(ms[j])
                             /\ r[j].own = ms[j].own /\ r[j].from = ms[j].from
    BY <1>1, <1>3, <1>6 DEF Key, IsPending
  <1>8. \A j \in DOMAIN ms : Settled(ms[j], B) => Settled(r[j], B)
    BY <1>7 DEF Settled
  <1>9. Good(r, G, B)
    BY <1>5, <1>6, <1>8 DEF At, Good, ListsOf
  <1>10. PICK d : d = (done /\ Key(r[i]) # <<G, "assistant">>)
    OBVIOUS
  <1>11. asking => Asked(r, G, got, d, ptxt)
    <2> SUFFICES ASSUME asking PROVE Asked(r, G, got, d, ptxt)
      OBVIOUS
    <2>1. Asked(ms, G, got, done, ptxt) /\ ms # <<>> /\ ms[Len(ms)].own = G
      BY DEF At, Asked
    <2>2. i # Len(ms) /\ Len(ms) \in DOMAIN ms
      BY <1>2, <2>1
    <2>3. r[Len(ms)] = ms[Len(ms)] /\ Len(r) = Len(ms)
      BY <1>5, <1>6, <2>2
    <2>4. r # <<>>
      BY <1>6, <2>2
    <2>5. ~d
      BY <1>10, <2>1 DEF Asked
    <2>6. \A j \in DOMAIN r : j # Len(r) => Key(r[j]) # <<G, "assistant">>
      BY <1>6, <1>7, <2>1, <2>3 DEF Asked
    <2> QED BY <2>1, <2>3, <2>4, <2>5, <2>6 DEF Asked
  <1>12. ~asking => ptxt = <<>> /\ Calm(r, G, B, got, d)
    <2> SUFFICES ASSUME ~asking PROVE ptxt = <<>> /\ Calm(r, G, B, got, d)
      OBVIOUS
    <2>1. ptxt = <<>> /\ Calm(ms, G, B, got, done)
      BY DEF At
    <2>2. ASSUME NEW j \in DOMAIN r PROVE Settled(r[j], B) /\ Whole(r[j], G, got, d)
      <3>1. Settled(r[j], B)
        BY <1>6, <1>8, <2>1 DEF Calm
      <3>2. CASE j = i
        BY <1>10, <3>1, <3>2 DEF Whole
      <3>3. CASE j # i
        BY <1>6, <1>10, <2>1, <3>1, <3>3 DEF Whole, Calm
      <3> QED BY <3>2, <3>3
    <2> QED BY <2>1, <2>2 DEF Calm
  <1> QED BY <1>6, <1>7, <1>9, <1>10, <1>11, <1>12 DEF At

-----------------------------------------------------------------------------
(* Updates that wait to be rendered.                                       *)

LEMMA AfterMore ==
    ASSUME NEW X, NEW q \in Seq(X), NEW ms, NEW h, NEW u, NEW v
    PROVE  /\ After(ms, q \o <<>>, h) = After(ms, q, h)
           /\ After(ms, q \o <<u>>, h) = Effect(After(ms, q, h), u, h)
           /\ After(ms, q \o (<<>> \o <<v>>), h) = Effect(After(ms, q, h), v, h)
           /\ After(ms, q \o (<<u>> \o <<v>>), h) = Effect(Effect(After(ms, q, h), u, h), v, h)
  <1>1. PICK Y : Y = X \cup {u, v}
    OBVIOUS
  <1>2. q \in Seq(Y) /\ u \in Y /\ v \in Y
    BY <1>1, SeqMonotonic
  <1>3. /\ q \o <<>> = q /\ q \o <<u>> = Append(q, u) /\ q \o (<<>> \o <<v>>) = Append(q, v)
    BY <1>2
  <1>4. q \o (<<u>> \o <<v>>) = Append(Append(q, u), v) /\ Append(q, u) \in Seq(Y)
    BY <1>2
  <1>5. /\ After(ms, Append(q, u), h) = Effect(After(ms, q, h), u, h)
        /\ After(ms, Append(q, v), h) = Effect(After(ms, q, h), v, h)
    BY <1>2, AfterOne
  <1>6. After(ms, Append(Append(q, u), v), h) = Effect(After(ms, Append(q, u), h), v, h)
    <2>1. PICK w \in Seq(Y) : w = Append(q, u)
      BY <1>4
    <2>2. After(ms, Append(w, v), h) = Effect(After(ms, w, h), v, h)
      BY <1>2, AfterOne
    <2> QED BY <2>1, <2>2
  <1> QED BY <1>3, <1>4, <1>5, <1>6

\* What a render makes of the list and of what is to be saved.
LEMMA RenderedNone ==
    ASSUME NEW h PROVE Rendered(<<>>, h) = Unrendered(page.msgs)
  BY RenderedIsFold, R!FoldEmpty

LEMMA RenderedLast ==
    ASSUME NEW X, NEW q \in Seq(X), NEW u, NEW h, NEW r, r = Rendered(Append(q, u), h)
    PROVE  /\ r.ms = After(page.msgs, Append(q, u), h)
           /\ u.op # "set" => r.dirty /\ r.latest = r.ms
  <1>1. PICK Y : Y = X \cup {u}
    OBVIOUS
  <1>2. q \in Seq(Y) /\ u \in Y
    BY <1>1, SeqMonotonic
  <1>3. R!Folded(Unrendered(page.msgs), Append(q, u), h)
          = RenderStep(R!Folded(Unrendered(page.msgs), q, h), u, h)
    BY <1>2, R!FoldAppend
  <1>4. r = RenderStep(R!Folded(Unrendered(page.msgs), q, h), u, h)
    BY <1>3, RenderedIsFold
  <1>5. r.ms = After(page.msgs, Append(q, u), h)
    BY RenderedIsFold DEF After
  <1>6. u.op # "set" => r.dirty /\ r.latest = r.ms
    <2> SUFFICES ASSUME u.op # "set" PROVE r.dirty /\ r.latest = r.ms
      OBVIOUS
    <2>1. PICK acc, e : acc = R!Folded(Unrendered(page.msgs), q, h) /\ e = Effect(acc.ms, u, h)
      OBVIOUS
    <2>2. PICK d : d = (acc.dirty \/ u.op # "set")
      OBVIOUS
    <2>3. r = [ms |-> e, dirty |-> d, latest |-> e]
      BY <1>4, <2>1, <2>2 DEF RenderStep
    <2>4. r.dirty = d /\ r.latest = r.ms
      BY <2>3
    <2> QED BY <2>2, <2>4
  <1> QED BY <1>5, <1>6

LEMMA RenderedSet ==
    ASSUME NEW v, NEW h
    PROVE  Rendered(<<[op |-> "set", val |-> v]>>, h) = Unrendered(v)
  <1>1. PICK u : u = [op |-> "set", val |-> v]
    OBVIOUS
  <1>2. PICK Y : Y = {u}
    OBVIOUS
  <1>3. <<>> \in Seq(Y) /\ u \in Y /\ <<u>> = Append(<<>>, u)
    BY <1>2
  <1>4. R!Folded(Unrendered(page.msgs), Append(<<>>, u), h)
          = RenderStep(R!Folded(Unrendered(page.msgs), <<>>, h), u, h)
    BY <1>3, R!FoldAppend
  <1>5. R!Folded(Unrendered(page.msgs), <<>>, h) = Unrendered(page.msgs)
    BY R!FoldEmpty
  <1>6. Rendered(<<u>>, h) = RenderStep(Unrendered(page.msgs), u, h)
    BY <1>3, <1>4, <1>5, RenderedIsFold
  <1>7. PICK b : b = Unrendered(page.msgs)
    OBVIOUS
  <1>8. b.dirty = FALSE /\ b.latest = <<>> /\ u.op = "set" /\ u.val = v
    BY <1>1, <1>7 DEF Unrendered
  <1>9. Effect(b.ms, u, h) = v
    BY <1>8 DEF Effect
  <1>10. RenderStep(b, u, h) = [ms |-> v, dirty |-> FALSE, latest |-> <<>>]
    BY <1>8, <1>9 DEF RenderStep
  <1> QED BY <1>1, <1>6, <1>7, <1>10 DEF Unrendered

-----------------------------------------------------------------------------
(* The flags of the page and the requests, the other way round.            *)

Asking == page.isReq \/ page.isStr

\* A request of the current generation keeps its flag up; no text is pending
\* without a stream; a page without updates to render shows its flags.
NetMore ==
  /\ page.busy \in BOOLEAN
  /\ net.live \subseteq {net.src} /\ net.src \in {0, net.cur}
  /\ net.cur = chat.gen /\ chat.gen \in net.hdrs => page.isReq
  /\ chat.gen \in net.live => page.isStr
  /\ \A c \in net.calls : c.g <= chat.gen
  /\ [g |-> chat.gen, aborted |-> FALSE] \in net.calls => page.isReq /\ net.cur = 0
  /\ net.cur = 0 => chat.ptxt = <<>>
  /\ chat.pgen = chat.gen
  /\ queue = <<>> => page.busy = Asking

LEMMA ShownMore ==
    ASSUME NEW us, NEW g, NEW m, NEW isReq \in BOOLEAN, NEW isStr \in BOOLEAN,
           Shown(us, g, m, isReq, isStr)
    PROVE  page'.busy \in BOOLEAN /\ queue' = <<>> /\ page'.busy = Asking'
  BY DEF Shown, Asking

LEMMA QueuedMore ==
    ASSUME PageOK, page.busy \in BOOLEAN, NEW us, NEW isReq, NEW isStr, Queued(us, isReq, isStr)
    PROVE  page'.busy = page.busy /\ queue' = queue \o us /\ page'.msgs = page.msgs /\ mem' = mem
  BY DEF Queued, PageOK

\* A step after which the page waits for nothing.
LEMMA QuietMore ==
    ASSUME NetInv, NetMore, NetInv', net'.live = {}, net'.src \in {0, net'.cur},
           net'.cur = chat'.gen => chat'.gen \notin net'.hdrs,
           \A c \in net'.calls : c.g <= chat'.gen,
           [g |-> chat'.gen, aborted |-> FALSE] \notin net'.calls,
           chat'.ptxt = <<>>, chat'.pgen = chat'.gen,
           page'.busy \in BOOLEAN, queue' = <<>> => page'.busy = Asking'
    PROVE  NetMore'
  BY DEF NetMore

LEMMA NewMore ==
    ASSUME NetInv, NetMore, NEW stream \in BOOLEAN, sendChat(stream), NetInv', page'.isReq,
           page'.busy \in BOOLEAN, queue' = <<>> => page'.busy = Asking'
    PROVE  NetMore'
  <1>1. PICK g : g = chat.gen + 1
    OBVIOUS
  <1>2. g \in Gens /\ g = chat'.gen /\ chat'.pgen = g /\ chat'.ptxt = <<>> /\ chat.gen < g
    BY <1>1, ConstantsAssumption DEF NetInv, ChatOK, sendChat, Fresh, Gens
  <1>3. PICK c : c = [StreamClosed EXCEPT !.calls = Aborted(@, net.ab)]
    OBVIOUS
  <1>4. c \in NetRec /\ c.cur = 0 /\ c.hdrs = net.hdrs /\ c.live = net.live \ {net.src}
    BY <1>3, Closed DEF NetInv
  <1>5. c.src = 0 /\ c.calls = Aborted(net.calls, net.ab)
    BY <1>3 DEF StreamClosed, NetInv, NetRec
  <1>6. net' = Launched(g, stream)
    BY <1>1 DEF sendChat
  <1>7. \A x \in c.calls : x.g <= chat.gen
    <2>1. \A y \in net.calls : y \in [g : Gens, aborted : BOOLEAN]
      BY DEF NetInv, NetRec
    <2>2. \A x \in c.calls : \E y \in net.calls : x.g = y.g
      BY <1>5, <2>1 DEF Aborted
    <2> QED BY <2>2 DEF NetMore
  <1>8. c.live = {}
    BY <1>4 DEF NetMore
  <1>9. \A x \in c.calls : x.g \in Nat /\ x.g < g
    BY <1>2, <1>4, <1>7 DEF NetRec, Gens, NetInv, ChatOK
  <1>10. [g |-> g, aborted |-> FALSE] \notin c.calls
    BY <1>2, <1>9 DEF Gens
  <1>11. CASE stream
    <2>1. net' = [c EXCEPT !.cur = g, !.ab = 0, !.hdrs = @ \cup {g}]
      BY <1>3, <1>6, <1>11 DEF Launched
    <2>2. net'.cur = g /\ net'.src = 0 /\ net'.live = {} /\ net'.calls = c.calls
      BY <1>4, <1>5, <1>8, <2>1 DEF NetRec
    <2>3. \A x \in net'.calls : x.g <= chat'.gen
      BY <1>2, <1>9, <2>2 DEF Gens
    <2>4. g # 0
      BY <1>2 DEF Gens
    <2> QED BY <1>2, <1>10, <2>2, <2>3, <2>4 DEF NetMore
  <1>12. CASE ~stream
    <2>1. net' = [c EXCEPT !.ab = g, !.calls = @ \cup {[g |-> g, aborted |-> FALSE]}]
      BY <1>3, <1>6, <1>12 DEF Launched
    <2>2. net'.cur = 0 /\ net'.src = 0 /\ net'.live = {} /\ net'.calls = c.calls \cup {[g |-> g, aborted |-> FALSE]}
      BY <1>4, <1>5, <1>8, <2>1 DEF NetRec
    <2>3. \A x \in net'.calls : x.g <= chat'.gen
      BY <1>2, <1>9, <2>2 DEF Gens
    <2> QED BY <1>2, <2>2, <2>3 DEF NetMore
  <1> QED BY <1>11, <1>12

LEMMA AskMore ==
    ASSUME NetInv, NetMore, NetInv', NEW stream \in BOOLEAN,
           \/ SendMessage(stream) \/ ImagesReady(stream)
           \/ \E i \in DOMAIN page.msgs : Regenerate(i, stream) \/ SubmitEdit(i, stream)
    PROVE  NetMore'
  <1>1. CASE sendChat(stream) /\ \E us, g, m : Shown(us, g, m, TRUE, FALSE)
    BY <1>1, ShownFlags, ShownMore, NewMore
  <1>2. CASE sendChat(stream) /\ \E ms : Queued(Replace(ms), TRUE, FALSE)
    <2>1. PICK ms : Queued(Replace(ms), TRUE, FALSE)
      BY <1>2
    <2>2. queue' # <<>>
      BY <2>1 DEF Queued, Replace
    <2>3. page'.busy \in BOOLEAN /\ page'.isReq
      BY <2>1, QueuedMore, QueuedFlags DEF NetInv, NetMore
    <2> QED BY <1>2, <2>2, <2>3, NewMore
  <1>3. CASE UNCHANGED <<page, queue, chat, net>>
    BY <1>3 DEF NetMore, Asking
  <1> QED BY <1>1, <1>2, <1>3 DEF SendMessage, ImagesReady, Regenerate, SubmitEdit

\* Queueing the end of a request.
LEMMA EndedMore ==
    ASSUME NetInv, NetMore, NEW op, NEW isStr \in BOOLEAN, Ended(chat.gen, op, isStr)
    PROVE  /\ queue' # <<>> /\ page'.busy \in BOOLEAN /\ page'.msgs = page.msgs /\ mem' = mem
           /\ chat'.ptxt = <<>> /\ chat'.pgen = chat.gen /\ chat'.gen = chat.gen
  <1>1. Queued(FlushUpdate(chat.gen) \o Update(op, chat.gen), FALSE, isStr) /\ chat' = Flushed
    BY DEF Ended, IsCurrentGen
  <1>2. chat'.ptxt = <<>> /\ chat'.pgen = chat.gen /\ chat'.gen = chat.gen
    BY <1>1 DEF Flushed, NetInv, ChatOK, NetMore
  <1>3. page'.busy \in BOOLEAN /\ page'.msgs = page.msgs /\ mem' = mem
    BY <1>1, QueuedMore DEF NetInv, NetMore
  <1>4. queue' # <<>>
    BY <1>1 DEF Queued, FlushUpdate, Update
  <1> QED BY <1>2, <1>3, <1>4

LEMMA HeadersMore == ASSUME NetInv, NetMore, NetInv', NEW g \in Gens, HeadersReady(g) PROVE NetMore'
  <1>1. PICK rest : rest = [net EXCEPT !.hdrs = @ \ {g}]
    OBVIOUS
  <1>2. /\ rest \in NetRec /\ rest.cur = net.cur /\ rest.live = net.live /\ rest.src = net.src
        /\ rest.hdrs = net.hdrs \ {g} /\ rest.calls = net.calls
    BY <1>1 DEF NetInv, NetRec
  <1>3. g \in net.hdrs /\ g \notin net.live /\ g # 0 /\ 0 \notin net.live
    BY DEF HeadersReady, NetInv, Gens, NetRec
  <1>4. CASE g # net.cur /\ net' = rest /\ UNCHANGED <<page, queue, mem, chat>>
    BY <1>2, <1>4 DEF NetMore, Asking
  <1>5. CASE /\ g = net.cur /\ net' = [rest EXCEPT !.src = g, !.live = @ \cup {g}]
             /\ Queued(<<>>, page.isReq, TRUE) /\ UNCHANGED chat
    <2>1. g = chat.gen /\ page.isReq
      BY <1>3, <1>5 DEF NetInv, NetMore
    <2>2. /\ net'.cur = net.cur /\ net'.live = net.live \cup {g} /\ net'.src = g
          /\ net'.hdrs = net.hdrs \ {g} /\ net'.calls = net.calls
      BY <1>2, <1>5 DEF NetRec
    <2>3. page'.isStr /\ page'.isReq /\ page'.busy = page.busy /\ queue' = queue \o <<>>
      <3>1. PageOK /\ page.isReq \in BOOLEAN /\ page.busy \in BOOLEAN
        BY DEF NetInv, NetMore, PageOK
      <3> QED BY <1>5, <2>1, <3>1, QueuedFlags, QueuedMore
    <2>4. net.live \subseteq {g}
      BY <1>3, <1>5 DEF NetMore
    <2>5. [g |-> g, aborted |-> FALSE] \notin net.calls
      BY <1>3, <1>5, <2>1 DEF NetMore
    <2>6. queue' = <<>> => page.busy = TRUE
      <3> SUFFICES ASSUME queue' = <<>> PROVE page.busy = TRUE
        OBVIOUS
      <3>1. queue = <<>>
        BY <2>3
      <3> QED BY <2>1, <3>1 DEF NetMore, Asking
    <2>7. queue' = <<>> => page'.busy = Asking'
      BY <2>3, <2>6 DEF Asking
    <2> QED BY <1>3, <1>5, <2>1, <2>2, <2>3, <2>4, <2>5, <2>7 DEF NetMore
  <1>6. CASE g = net.cur /\ net' = rest /\ Ended(g, "error", page.isStr)
    <2>1. g = chat.gen
      BY <1>3, <1>6 DEF NetInv
    <2>2. page.isStr \in BOOLEAN
      BY DEF NetInv, PageOK
    <2>3. /\ queue' # <<>> /\ page'.busy \in BOOLEAN /\ chat'.ptxt = <<>> /\ chat'.pgen = chat.gen
          /\ chat'.gen = chat.gen
      BY <1>6, <2>1, <2>2, EndedMore
    <2>4. net.live = {}
      BY <1>3, <1>6 DEF NetMore
    <2>5. [g |-> g, aborted |-> FALSE] \notin net.calls
      BY <1>3, <1>6, <2>1 DEF NetMore
    <2> QED BY <1>2, <1>6, <2>1, <2>3, <2>4, <2>5, QuietMore DEF NetMore
  <1> QED BY <1>1, <1>4, <1>5, <1>6 DEF HeadersReady

LEMMA StreamEndMore == ASSUME NetInv, NetMore, NetInv', NEW g \in Gens, StreamEnd(g) PROVE NetMore'
  <1>1. CASE ~IsCurrentSource(g)
    BY <1>1 DEF StreamEnd, NetMore, Asking
  <1>2. CASE IsCurrentSource(g)
    <2>1. g = chat.gen /\ g # 0 /\ net.cur = g /\ g \in net.live /\ net.src = g
      BY <1>2 DEF IsCurrentSource, NetInv, Gens, StreamEnd
    <2>2. net' = [net EXCEPT !.src = 0, !.live = @ \ {g}]
      BY <1>2 DEF StreamEnd
    <2>3. /\ net'.cur = net.cur /\ net'.hdrs = net.hdrs /\ net'.live = net.live \ {g} /\ net'.src = 0
          /\ net'.calls = net.calls
      BY <2>2 DEF NetInv, NetRec
    <2>4. Ended(g, "complete", FALSE) \/ Ended(g, "error", FALSE)
      BY <1>2 DEF StreamEnd
    <2>5. /\ queue' # <<>> /\ page'.busy \in BOOLEAN /\ chat'.ptxt = <<>> /\ chat'.pgen = chat.gen
          /\ chat'.gen = chat.gen
      BY <2>1, <2>4, EndedMore
    <2>6. net'.live = {} /\ g \notin net.hdrs
      BY <2>1, <2>3 DEF NetMore, NetInv
    <2>7. [g |-> g, aborted |-> FALSE] \notin net.calls
      BY <2>1 DEF NetMore
    <2> QED BY <2>1, <2>3, <2>5, <2>6, <2>7, QuietMore DEF NetMore
  <1> QED BY <1>1, <1>2

\* A reply to the call that is waited for finds no stream.
LEMMA CallMore == ASSUME NetInv, NetMore, NetInv', NEW c \in net.calls, CallReply(c) PROVE NetMore'
  <1>1. c \in [g : Gens, aborted : BOOLEAN]
    BY DEF NetInv, NetRec
  <1>2. CASE c.aborted \/ c.g # chat.gen
    <2>1. net' = [net EXCEPT !.calls = @ \ {c}] /\ UNCHANGED <<page, chat, queue>>
      BY <1>2 DEF CallReply, IsCurrentGen
    <2>2. /\ net'.cur = net.cur /\ net'.hdrs = net.hdrs /\ net'.live = net.live
          /\ net'.calls = net.calls \ {c} /\ net'.src = net.src
      BY <2>1 DEF NetInv, NetRec
    <2> QED BY <2>1, <2>2 DEF NetMore, Asking
  <1>3. CASE ~c.aborted /\ c.g = chat.gen
    <2>1. net' = [net EXCEPT !.calls = @ \ {c}, !.ab = 0]
      BY <1>3 DEF CallReply, IsCurrentGen
    <2>2. /\ net'.cur = net.cur /\ net'.hdrs = net.hdrs /\ net'.live = net.live
          /\ net'.calls = net.calls \ {c} /\ net'.src = net.src
      BY <2>1 DEF NetInv, NetRec
    <2>3. c = [g |-> chat.gen, aborted |-> FALSE]
      BY <1>1, <1>3
    <2>4. net.cur = 0 /\ chat.ptxt = <<>> /\ chat.gen # 0 /\ net.live = {} /\ net.src = 0
      <3>1. net.cur = 0 /\ net.src = 0 /\ chat.ptxt = <<>>
        BY <2>3 DEF NetMore
      <3>2. chat.gen # 0 /\ 0 \notin net.live
        BY <1>1, <1>3 DEF NetInv, NetRec, Gens
      <3> QED BY <3>1, <3>2 DEF NetMore
    <2>5. /\ queue' # <<>> /\ page'.busy \in BOOLEAN /\ chat'.ptxt = <<>> /\ chat'.pgen = chat.gen
          /\ chat'.gen = chat.gen
      <3>1. page.isStr \in BOOLEAN /\ PageOK /\ page.busy \in BOOLEAN /\ chat.pgen = chat.gen
        BY DEF NetInv, PageOK, NetMore
      <3>2. CASE Ended(c.g, "error", page.isStr)
        BY <1>3, <3>1, <3>2, EndedMore
      <3>3. CASE \E u : Queued(<<u>>, FALSE, page.isStr) /\ chat' = chat
        <4>1. PICK u : Queued(<<u>>, FALSE, page.isStr) /\ chat' = chat
          BY <3>3
        <4>2. queue' # <<>>
          BY <4>1 DEF Queued
        <4> QED BY <2>4, <3>1, <4>1, <4>2, QueuedMore
      <3> QED BY <1>3, <3>2, <3>3 DEF CallReply, IsCurrentGen
    <2>6. [g |-> chat.gen, aborted |-> FALSE] \notin net'.calls
      BY <2>2, <2>3
    <2> QED BY <2>2, <2>4, <2>5, <2>6, QuietMore DEF NetMore
  <1> QED BY <1>2, <1>3

LEMMA StopMore == ASSUME NetInv, NetMore, NetInv', StopGeneration PROVE NetMore'
  <1>1. PICK c : c = [StreamClosed EXCEPT !.calls = Aborted(@, net.ab)]
    OBVIOUS
  <1>2. c \in NetRec /\ c.cur = 0 /\ c.hdrs = net.hdrs /\ c.live = net.live \ {net.src}
    BY <1>1, Closed DEF NetInv
  <1>3. c.src = 0 /\ c.calls = Aborted(net.calls, net.ab)
    BY <1>1 DEF StreamClosed, NetInv, NetRec
  <1>4. net' = [c EXCEPT !.ab = 0]
    BY <1>1 DEF StopGeneration, StreamClosed
  <1>5. net'.cur = 0 /\ net'.src = 0 /\ net'.live = {} /\ net'.hdrs = net.hdrs /\ net'.calls = c.calls
    BY <1>2, <1>3, <1>4 DEF NetRec, NetMore
  <1>6. /\ chat'.gen = chat.gen + 1 /\ chat'.pgen = chat'.gen /\ chat'.ptxt = <<>> /\ chat.gen \in Nat
        /\ chat'.gen # 0
    BY DEF StopGeneration, Fresh, NetInv, ChatOK
  <1>7. \A x \in c.calls : \E y \in net.calls : x.g = y.g
    <2>1. \A y \in net.calls : y \in [g : Gens, aborted : BOOLEAN]
      BY DEF NetInv, NetRec
    <2> QED BY <1>3, <2>1 DEF Aborted
  <1>8. \A x \in c.calls : x.g \in Nat /\ x.g <= chat.gen
    BY <1>2, <1>7 DEF NetMore, NetRec, Gens
  <1>9. /\ \A x \in net'.calls : x.g <= chat'.gen
        /\ [g |-> chat'.gen, aborted |-> FALSE] \notin net'.calls
    BY <1>5, <1>6, <1>8
  <1>10. page'.busy \in BOOLEAN /\ page'.busy = Asking'
    BY ShownMore DEF StopGeneration
  <1> QED BY <1>5, <1>6, <1>9, <1>10, QuietMore

LEMMA ListMore ==
    ASSUME NetInv, NetMore, NetInv', ListOnly
    PROVE  NetMore'
  <1>1. net' = net
    BY ListOnlyKeeps
  <1>2. chat'.gen = chat.gen /\ chat'.pgen = chat.pgen /\ (net.cur = 0 => chat'.ptxt = <<>>)
    <2>1. CASE chat' = chat
      BY <2>1 DEF NetMore
    <2>2. CASE FlushTimer
      BY <2>2 DEF FlushTimer, Flushed, NetInv, ChatOK, NetMore
    <2>3. CASE \E g \in Gens : StreamDelta(g)
      <3>1. PICK g \in Gens : StreamDelta(g)
        BY <2>3
      <3>2. CASE net.cur = 0
        <4>1. ~IsCurrentSource(g)
          BY <3>2 DEF IsCurrentSource, Gens
        <4>2. chat' = chat
          BY <3>1, <4>1 DEF StreamDelta
        <4> QED BY <4>2 DEF NetMore
      <3>3. CASE net.cur # 0
        BY <3>1, <3>3 DEF StreamDelta, NetInv, ChatOK
      <3> QED BY <3>2, <3>3
    <2> QED BY <2>1, <2>2, <2>3, ListOnlyKeeps
  <1>3. /\ page'.isReq = page.isReq /\ page'.isStr = page.isStr /\ page'.busy \in BOOLEAN
        /\ queue' = <<>> => page'.busy = Asking'
    <2>1. page.isReq \in BOOLEAN /\ page.isStr \in BOOLEAN /\ PageOK /\ page.busy \in BOOLEAN
      BY DEF NetInv, PageOK, NetMore
    <2>2. CASE \E us, g, m : Shown(us, g, m, page.isReq, page.isStr)
      BY <2>1, <2>2, ShownFlags, ShownMore
    <2>3. CASE FlushTimer
      <3>1. Queued(FlushUpdate(chat.gen), page.isReq, page.isStr)
        BY <2>3 DEF FlushTimer
      <3>2. page'.busy = page.busy /\ queue' = queue \o FlushUpdate(chat.gen)
        BY <2>1, <3>1, QueuedMore
      <3>3. page'.isReq = page.isReq /\ page'.isStr = page.isStr
        BY <2>1, <3>1, QueuedFlags
      <3>4. queue' = <<>> => queue = <<>>
        BY <3>2 DEF FlushUpdate
      <3> QED BY <2>1, <3>2, <3>3, <3>4 DEF NetMore, Asking
    <2>4. CASE page' = page /\ queue' = queue
      BY <2>1, <2>4 DEF NetMore, Asking
    <2> QED BY <2>2, <2>3, <2>4, ListOnlyShows
  <1> QED BY <1>1, <1>2, <1>3 DEF NetMore

LEMMA LeaveMore == ASSUME NetInv, NetMore, NetInv', LeavePage PROVE NetMore'
  <1>1. net' = Offline /\ chat' = [chat EXCEPT !.ptxt = <<>>, !.ftimer = FALSE] /\ queue' = <<>>
    BY DEF LeavePage
  <1>2. net'.cur = 0 /\ net'.src = 0 /\ net'.hdrs = {} /\ net'.live = {} /\ net'.calls = {}
    BY <1>1 DEF Offline
  <1>3. chat'.gen = chat.gen /\ chat'.pgen = chat.pgen /\ chat'.ptxt = <<>>
    BY <1>1 DEF NetInv, ChatOK
  <1>4. page'.busy = FALSE /\ page'.busy = Asking'
    BY LeaveShows DEF Asking
  <1> QED BY <1>2, <1>3, <1>4, QuietMore DEF NetMore

LEMMA MoreInit == Init => NetMore
  <1> SUFFICES ASSUME Init PROVE NetMore
    OBVIOUS
  <1>1. page.busy = FALSE /\ page.isReq = FALSE /\ page.isStr = FALSE
    BY DEF Init
  <1>2. /\ net.cur = 0 /\ net.src = 0 /\ net.hdrs = {} /\ net.live = {} /\ net.calls = {}
        /\ chat.gen = 0 /\ chat.pgen = 0 /\ chat.ptxt = <<>>
    BY DEF Init, Offline
  <1>3. page.busy = Asking
    BY <1>1 DEF Asking
  <1> QED BY <1>1, <1>2, <1>3 DEF NetMore

LEMMA MoreStep == NetInv /\ NetMore /\ [Next]_vars => NetMore'
  BY NetStep, HeadersMore, StreamEndMore, CallMore, StopMore, AskMore, ListMore, LeaveMore DEF Next, ListOnly

-----------------------------------------------------------------------------
(* Conversations, and the invariant of the page.                           *)

Conv(G) == [id : Ids, msgs : ListsOf(G)]
UniqueIds(list) == \A i, j \in DOMAIN list : list[i].id = list[j].id => i = j

\* Two lists without a message in common.
Foreign(a, b) == \A i \in DOMAIN a, j \in DOMAIN b : Key(a[i]) # Key(b[j])
Apart(list) == \A i, j \in DOMAIN list : i # j => Foreign(list[i].msgs, list[j].msgs)
StoreOK(list, G) == list \in Seq(Conv(G)) /\ UniqueIds(list) /\ Apart(list)

\* Nothing of ms is in a conversation other than the active one.
Private(list, active, ms) ==
  \A i \in DOMAIN list : list[i].id # active => Foreign(list[i].msgs, ms)

\* The other conversations are at rest, and none of them holds the answer that
\* is asked for.
Resting(list, active, G, B, got, done, asking) ==
  \A i \in DOMAIN list : list[i].id # active =>
    /\ Calm(list[i].msgs, G, B, got, done)
    /\ asking => \A j \in DOMAIN list[i].msgs : list[i].msgs[j].own < G

Refs ==
  /\ mem = [list |-> mem.list, recent |-> mem.recent, active |-> mem.active,
            latest |-> mem.latest, timer |-> mem.timer]
  /\ mem.recent \in Seq(Ids) /\ mem.timer \in BOOLEAN
  /\ disk = [list |-> disk.list, recent |-> disk.recent, active |-> disk.active]
  /\ disk.recent \in Seq(Ids)
  /\ prep = [on |-> prep.on, snap |-> prep.snap] /\ prep.on \in BOOLEAN

Counts ==
  /\ hist = [got |-> hist.got, done |-> hist.done, born |-> hist.born]
  /\ hist.done \in BOOLEAN /\ hist.got \in 0..Len(Letters) /\ hist.born \in 0..chat.gen

\* The list as it will be rendered, for the generation at which it is.
Shows ==
  /\ queue \in Seq(Updates) /\ page.msgs \in ListsOf(chat.gen)
  /\ \A h \in Nat : Good(After(page.msgs, queue, h), chat.gen, hist.born)
  /\ At(After(page.msgs, queue, chat.gen), chat.gen, hist.born, hist.got, hist.done, Asking, chat.ptxt)
  /\ ~page.busy => SettledList(page.msgs, chat.gen, hist.born)
  /\ SettledList(prep.snap, chat.gen, hist.born) /\ (~prep.on => prep.snap = <<>>)

Stores ==
  /\ StoreOK(mem.list, chat.gen) /\ StoreOK(disk.list, chat.gen)
  /\ \E i \in DOMAIN mem.list : mem.list[i].id = mem.active
  /\ mem.latest = page.msgs
  /\ ~mem.timer => \A i \in DOMAIN mem.list : mem.list[i].id = mem.active => mem.list[i].msgs = page.msgs
  /\ Resting(mem.list, mem.active, chat.gen, hist.born, hist.got, hist.done, Asking)

Secrets ==
  /\ Private(mem.list, mem.active, page.msgs) /\ Private(mem.list, mem.active, prep.snap)
  /\ \A h \in Nat : Private(mem.list, mem.active, After(page.msgs, queue, h))

ListInv == Refs /\ Counts /\ Shows /\ Stores /\ Secrets
PInv == NetInv /\ NetMore /\ ListInv

\* How an answer may go on without concerning the other conversations: nothing
\* ends well, a new generation begins, or the answer asked for ends.
Onward(G, got, done, asking, G2, got2, done2, asking2) ==
  \/ G2 = G /\ (done2 => done /\ got2 = got) /\ (asking2 => asking)
  \/ G2 > G /\ ~done2
  \/ G2 = G /\ asking /\ ~asking2

LEMMA RestingOn ==
    ASSUME NEW list, NEW active, NEW G \in Nat, NEW B, NEW got, NEW done, NEW asking,
           list \in Seq(Conv(G)), Resting(list, active, G, B, got, done, asking),
           NEW G2 \in Nat, NEW got2, NEW done2, NEW asking2,
           Onward(G, got, done, asking, G2, got2, done2, asking2)
    PROVE  Resting(list, active, G2, B, got2, done2, asking2)
  <1> SUFFICES ASSUME NEW i \in DOMAIN list, list[i].id # active
               PROVE  /\ Calm(list[i].msgs, G2, B, got2, done2)
                      /\ asking2 => \A j \in DOMAIN list[i].msgs : list[i].msgs[j].own < G2
    BY DEF Resting
  <1>1. PICK ms : ms = list[i].msgs
    OBVIOUS
  <1>2. Calm(ms, G, B, got, done) /\ (asking => \A j \in DOMAIN ms : ms[j].own < G)
    BY <1>1 DEF Resting
  <1>3. \A j \in DOMAIN ms : ms[j].own \in Nat /\ ms[j].own <= G
    <2>1. list[i] \in Conv(G)
      OBVIOUS
    <2>2. ms \in Seq(MessagesOf(G))
      BY <1>1, <2>1 DEF Conv, ListsOf
    <2>3. \A j \in DOMAIN ms : ms[j] \in MessagesOf(G)
      BY <2>2
    <2> QED BY <2>3 DEF MessagesOf, Message, Gens
  <1>4. CASE G2 = G /\ (done2 => done /\ got2 = got) /\ (asking2 => asking)
    BY <1>1, <1>2, <1>4 DEF Calm, Whole
  <1>5. CASE G2 > G /\ ~done2
    BY <1>1, <1>2, <1>3, <1>5 DEF Calm, Whole
  <1>6. CASE G2 = G /\ asking /\ ~asking2
    <2>1. \A j \in DOMAIN ms : Key(ms[j]) # <<G, "assistant">>
      BY <1>2, <1>3, <1>6 DEF Key
    <2> QED BY <1>1, <1>2, <1>6, <2>1 DEF Calm, Whole
  <1> QED BY <1>4, <1>5, <1>6 DEF Onward

\* The messages of r are messages of ms or of generation g.
Within(r, ms, g) ==
  \A j \in DOMAIN r : r[j].own = g \/ \E i \in DOMAIN ms : Key(r[j]) = Key(ms[i])

LEMMA PrivateWithin ==
    ASSUME NEW G \in Nat, NEW list \in Seq(Conv(G)), NEW active, NEW ms, NEW r,
           Private(list, active, ms), Within(r, ms, G + 1)
    PROVE  Private(list, active, r)
  <1> SUFFICES ASSUME NEW i \in DOMAIN list, list[i].id # active PROVE Foreign(list[i].msgs, r)
    BY DEF Private
  <1>1. PICK a : a = list[i].msgs
    OBVIOUS
  <1>2. \A j \in DOMAIN a : a[j].own \in Nat /\ a[j].own <= G
    <2>1. list[i] \in Conv(G)
      OBVIOUS
    <2>2. a \in Seq(MessagesOf(G))
      BY <1>1, <2>1 DEF Conv, ListsOf
    <2>3. \A j \in DOMAIN a : a[j] \in MessagesOf(G)
      BY <2>2
    <2> QED BY <2>3 DEF MessagesOf, Message, Gens
  <1>3. Foreign(a, ms)
    BY <1>1 DEF Private
  <1>4. ASSUME NEW j \in DOMAIN a, NEW k \in DOMAIN r PROVE Key(a[j]) # Key(r[k])
    <2>1. CASE r[k].own = G + 1
      BY <1>2, <2>1 DEF Key
    <2>2. CASE \E n \in DOMAIN ms : Key(r[k]) = Key(ms[n])
      BY <1>3, <2>2 DEF Foreign
    <2> QED BY <2>1, <2>2 DEF Within
  <1> QED BY <1>1, <1>4 DEF Foreign

LEMMA EmbedsWithin ==
    ASSUME NEW r, NEW ms, Embeds(r, ms), NEW g
    PROVE  Within(r, ms, g)
  BY DEF Embeds, Within

LEMMA StoreMore ==
    ASSUME NEW G \in Nat, NEW G2 \in Nat, G <= G2, NEW list, StoreOK(list, G)
    PROVE  StoreOK(list, G2)
  <1>1. Conv(G) \subseteq Conv(G2)
    BY MoreMessages DEF Conv
  <1>2. list \in Seq(Conv(G2))
    BY <1>1, SeqMonotonic DEF StoreOK
  <1> QED BY <1>2 DEF StoreOK

\* A step that leaves the conversations alone.
LEMMA FlowStep ==
    ASSUME NetInv, ListInv, NetInv', Counts', Shows',
           mem' = [mem EXCEPT !.latest = page'.msgs, !.timer = mem'.timer], mem'.timer \in BOOLEAN,
           mem'.timer \/ (mem'.timer = mem.timer /\ page'.msgs = page.msgs),
           disk' = disk, prep' = [on |-> prep'.on, snap |-> prep'.snap], prep'.on \in BOOLEAN,
           chat.gen <= chat'.gen, hist'.born = hist.born,
           Onward(chat.gen, hist.got, hist.done, Asking, chat'.gen, hist'.got, hist'.done, Asking'),
           Private(mem.list, mem.active, page'.msgs), Private(mem.list, mem.active, prep'.snap),
           \A h \in Nat : Private(mem.list, mem.active, After(page'.msgs, queue', h))
    PROVE  ListInv'
  <1>1. /\ mem'.list = mem.list /\ mem'.recent = mem.recent /\ mem'.active = mem.active
        /\ mem'.latest = page'.msgs
        /\ mem' = [list |-> mem'.list, recent |-> mem'.recent, active |-> mem'.active,
                   latest |-> mem'.latest, timer |-> mem'.timer]
    BY DEF ListInv, Refs
  <1>2. Refs'
    BY <1>1 DEF ListInv, Refs
  <1>3. chat.gen \in Nat /\ chat'.gen \in Nat
    BY DEF NetInv, ChatOK
  <1>4. StoreOK(mem'.list, chat'.gen) /\ StoreOK(disk'.list, chat'.gen)
    BY <1>1, <1>3, StoreMore DEF ListInv, Stores
  <1>5. Resting(mem'.list, mem'.active, chat'.gen, hist'.born, hist'.got, hist'.done, Asking')
    <2>1. /\ mem.list \in Seq(Conv(chat.gen))
          /\ Resting(mem.list, mem.active, chat.gen, hist.born, hist.got, hist.done, Asking)
      BY DEF ListInv, Stores, StoreOK
    <2>2. Resting(mem.list, mem.active, chat'.gen, hist.born, hist'.got, hist'.done, Asking')
      BY <1>3, <2>1, RestingOn
    <2> QED BY <1>1, <2>2
  <1>6. Stores'
    BY <1>1, <1>4, <1>5 DEF ListInv, Stores
  <1>7. Secrets'
    BY <1>1 DEF Secrets
  <1> QED BY <1>2, <1>6, <1>7 DEF ListInv

-----------------------------------------------------------------------------
(* Steps that are rendered at once.                                        *)

\* The refs with a list to save.
ToSave(m, ms) == [m EXCEPT !.latest = ms, !.timer = TRUE]

LEMMA ShownStep ==
    ASSUME PInv, NetInv', Counts', queue' = <<>>, page'.busy = Asking',
           mem' = ToSave(mem, page'.msgs), disk' = disk, prep' = prep,
           chat.gen <= chat'.gen, hist'.born = hist.born,
           Onward(chat.gen, hist.got, hist.done, Asking, chat'.gen, hist'.got, hist'.done, Asking'),
           At(page'.msgs, chat'.gen, hist.born, hist'.got, hist'.done, Asking', chat'.ptxt),
           NEW base, Private(mem.list, mem.active, base), Within(page'.msgs, base, chat.gen + 1)
    PROVE  ListInv'
  <1>1. NetInv /\ ListInv /\ chat.gen \in Nat /\ chat'.gen \in Nat
    BY DEF PInv, NetInv, ChatOK
  <1>2. PICK ms, B : ms = page'.msgs /\ B = hist.born
    OBVIOUS
  <1>3. \A h : After(ms, <<>>, h) = ms
    BY AfterNone
  <1>4. Good(ms, chat'.gen, B) /\ ms \in ListsOf(chat'.gen)
    BY <1>2 DEF At, Good
  <1>5. ~page'.busy => SettledList(ms, chat'.gen, B)
    BY <1>2, <1>4 DEF At, Calm, SettledList
  <1>6. SettledList(prep.snap, chat'.gen, B) /\ (~prep.on => prep.snap = <<>>)
    BY <1>1, <1>2, MoreMessages DEF ListInv, Shows, SettledList
  <1>7. <<>> \in Seq(Updates)
    OBVIOUS
  <1>8. Shows'
    BY <1>2, <1>3, <1>4, <1>5, <1>6, <1>7 DEF Shows
  <1>9. Private(mem.list, mem.active, ms)
    BY <1>1, <1>2, PrivateWithin DEF ListInv, Stores, StoreOK
  <1>10. \A h \in Nat : Private(mem.list, mem.active, After(page'.msgs, queue', h))
    BY <1>2, <1>3, <1>9
  <1>11. Private(mem.list, mem.active, prep'.snap)
    BY <1>1 DEF ListInv, Secrets
  <1>12. mem'.timer = TRUE
    BY <1>1 DEF ListInv, Refs, ToSave
  <1>13. prep' = [on |-> prep'.on, snap |-> prep'.snap] /\ prep'.on \in BOOLEAN
    BY <1>1 DEF ListInv, Refs
  <1>14. mem' = [mem EXCEPT !.latest = page'.msgs, !.timer = mem'.timer] /\ mem'.timer \in BOOLEAN
    BY <1>12 DEF ToSave
  <1> QED BY <1>1, <1>2, <1>8, <1>9, <1>10, <1>11, <1>12, <1>13, <1>14, FlowStep

\* What a step shows whose last update is none of another conversation.
LEMMA ShownLast ==
    ASSUME NEW us, NEW g, NEW m, NEW isReq \in BOOLEAN, NEW isStr \in BOOLEAN, Shown(us, g, m, isReq, isStr),
           NEW X, NEW q \in Seq(X), NEW u, queue \o us = Append(q, u), u.op # "set"
    PROVE  /\ page'.msgs = After(page.msgs, queue \o us, g)
           /\ mem' = ToSave(m, page'.msgs)
  <1>1. PICK r : r = Rendered(queue \o us, g)
    OBVIOUS
  <1>2. r.ms = After(page.msgs, queue \o us, g) /\ r.dirty /\ r.latest = r.ms
    BY <1>1, RenderedLast
  <1>3. page'.msgs = r.ms /\ mem' = persistMessages(m, r)
    BY <1>1 DEF Shown
  <1>4. mem' = ToSave(m, r.latest)
    BY <1>2, <1>3 DEF persistMessages, ToSave
  <1> QED BY <1>2, <1>3, <1>4

LEMMA ShownOne ==
    ASSUME ListInv, NEW u, u.op # "set", NEW g, NEW m, NEW isReq \in BOOLEAN, NEW isStr \in BOOLEAN,
           Shown(<<u>>, g, m, isReq, isStr)
    PROVE  /\ page'.msgs = Effect(After(page.msgs, queue, g), u, g)
           /\ mem' = ToSave(m, page'.msgs)
  <1>1. queue \in Seq(Updates)
    BY DEF ListInv, Shows
  <1>2. PICK X : X = Updates \cup {u}
    OBVIOUS
  <1>3. queue \in Seq(X) /\ u \in X
    BY <1>1, <1>2, SeqMonotonic
  <1>4. queue \o <<u>> = Append(queue, u)
    BY <1>3
  <1>5. /\ page'.msgs = After(page.msgs, queue \o <<u>>, g)
        /\ mem' = ToSave(m, page'.msgs)
    BY <1>1, <1>4, ShownLast
  <1> QED BY <1>1, <1>5, AfterMore

LEMMA UpdateOps == ASSUME NEW u \in Updates PROVE u.op # "set" /\ u.op # "remove" /\ u.op # "stop"
  BY DEF Updates

LEMMA RenderList == ASSUME PInv, NetInv', Render PROVE ListInv'
  <1>1. ListInv /\ page.busy \in BOOLEAN /\ page.isReq \in BOOLEAN /\ page.isStr \in BOOLEAN
    BY DEF PInv, NetMore, NetInv, PageOK
  <1>2. queue \in Seq(Updates) /\ queue # <<>>
    BY DEF Render, PInv, NetMore, Asking, ListInv, Shows
  <1>3. PICK q \in Seq(Updates), u \in Updates : queue = Append(q, u)
    BY <1>2, SequenceEmptyOrAppend
  <1>4. queue \o <<>> = queue
    BY <1>2
  <1>5. Shown(<<>>, chat.gen, mem, page.isReq, page.isStr) /\ UNCHANGED <<chat, net, disk, prep, hist>>
    BY DEF Render
  <1>6. u.op # "set"
    BY UpdateOps
  <1>7. queue \o <<>> = Append(q, u)
    BY <1>3, <1>4
  <1>8. /\ page'.msgs = After(page.msgs, queue \o <<>>, chat.gen)
        /\ mem' = ToSave(mem, page'.msgs)
    BY <1>1, <1>5, <1>6, <1>7, ShownLast
  <1>9. queue' = <<>> /\ page'.busy = Asking' /\ Asking' = Asking
    BY <1>1, <1>5, ShownMore, ShownFlags DEF Asking
  <1>10. PICK base : base = After(page.msgs, queue, chat.gen)
    OBVIOUS
  <1>11. At(base, chat.gen, hist.born, hist.got, hist.done, Asking, chat.ptxt)
    BY <1>1, <1>10 DEF ListInv, Shows
  <1>12. Private(mem.list, mem.active, base)
    BY <1>1, <1>10 DEF ListInv, Secrets, PInv, NetInv, ChatOK
  <1>13. Within(base, base, chat.gen + 1)
    BY DEF Within
  <1>14. page'.msgs = base
    BY <1>4, <1>8, <1>10
  <1>15. Counts'
    BY <1>1, <1>5 DEF ListInv, Counts
  <1>16. chat.gen <= chat'.gen /\ chat'.gen = chat.gen /\ chat'.ptxt = chat.ptxt
         /\ hist' = hist /\ disk' = disk /\ prep' = prep
    BY <1>5 DEF PInv, NetInv, ChatOK
  <1>17. Onward(chat.gen, hist.got, hist.done, Asking, chat'.gen, hist'.got, hist'.done, Asking')
    BY <1>9, <1>16 DEF Onward
  <1> QED BY <1>8, <1>9, <1>11, <1>12, <1>13, <1>14, <1>15, <1>16, <1>17, ShownStep

\* A user who waits for the list to settle finds it as the refs have it.
LEMMA IdleList ==
    ASSUME ~Hasty, PInv, ListSettled
    PROVE  /\ queue = <<>> /\ ~prep.on /\ page.busy = Asking /\ chat.gen \in Nat
           /\ page.msgs \in ListsOf(chat.gen) /\ \A h : After(page.msgs, queue, h) = page.msgs
           /\ At(page.msgs, chat.gen, hist.born, hist.got, hist.done, Asking, chat.ptxt)
           /\ ~page.busy => SettledList(page.msgs, chat.gen, hist.born)
           /\ Private(mem.list, mem.active, page.msgs)
  <1>1. queue = <<>> /\ ~prep.on
    BY DEF ListSettled
  <1>2. page.busy = Asking
    BY <1>1 DEF PInv, NetMore
  <1>3. chat.gen \in Nat
    BY DEF PInv, NetInv, ChatOK
  <1>4. \A h : After(page.msgs, queue, h) = page.msgs
    BY <1>1, AfterNone
  <1> QED BY <1>1, <1>2, <1>3, <1>4 DEF PInv, ListInv, Shows, Secrets

LEMMA AskShown ==
    ASSUME PInv, NetInv', NEW stream \in BOOLEAN, sendChat(stream), NEW ms,
           Shown(Replace(ms), chat.gen + 1, mem, TRUE, FALSE), disk' = disk, prep' = prep,
           At(ms, chat.gen + 1, hist.born, 0, FALSE, TRUE, <<>>),
           NEW base, Private(mem.list, mem.active, base), Within(ms, base, chat.gen + 1)
    PROVE  ListInv'
  <1>1. ListInv /\ chat.gen \in Nat
    BY DEF PInv, NetInv, ChatOK
  <1>2. PICK u : u = [op |-> "replace", val |-> ms]
    OBVIOUS
  <1>3. u.op # "set" /\ u.op = "replace" /\ u.val = ms
    BY <1>2
  <1>4. Shown(<<u>>, chat.gen + 1, mem, TRUE, FALSE)
    BY <1>2 DEF Replace
  <1>5. /\ page'.msgs = Effect(After(page.msgs, queue, chat.gen + 1), u, chat.gen + 1)
        /\ mem' = ToSave(mem, page'.msgs)
    BY <1>1, <1>3, <1>4, ShownOne
  <1>6. page'.msgs = ms
    BY <1>3, <1>5 DEF Effect
  <1>7. queue' = <<>> /\ page'.busy = Asking' /\ Asking' = TRUE
    <2>1. queue' = <<>> /\ page'.busy = Asking' /\ page'.isReq = TRUE
      BY <1>4, ShownMore, ShownFlags
    <2> QED BY <2>1 DEF Asking
  <1>8. chat'.gen = chat.gen + 1 /\ chat'.ptxt = <<>>
    BY DEF sendChat, Fresh
  <1>9. hist'.got = 0 /\ hist'.done = FALSE /\ hist'.born = hist.born /\ Counts'
    <2>1. hist' = [got |-> 0, done |-> FALSE, born |-> hist.born]
      BY <1>1 DEF sendChat, ListInv, Counts
    <2>2. 0 \in 0..Len(Letters) /\ hist.born \in 0..(chat.gen + 1)
      BY <1>1, LettersFacts DEF ListInv, Counts
    <2> QED BY <1>8, <2>1, <2>2 DEF Counts
  <1>10. Onward(chat.gen, hist.got, hist.done, Asking, chat'.gen, hist'.got, hist'.done, Asking')
    BY <1>1, <1>8, <1>9 DEF Onward
  <1>11. At(page'.msgs, chat'.gen, hist.born, hist'.got, hist'.done, Asking', chat'.ptxt)
    BY <1>6, <1>7, <1>8, <1>9
  <1>12. chat.gen <= chat'.gen /\ Within(page'.msgs, base, chat.gen + 1)
    BY <1>1, <1>6, <1>8
  <1> QED BY <1>5, <1>7, <1>9, <1>10, <1>11, <1>12, ShownStep

\* The messages of a new request are those of the list it is based on, and new.
LEMMA AskWithin ==
    ASSUME NEW G, NEW ms \in Seq(MessagesOf(G)), NEW g
    PROVE  /\ Within(Append(ms, createLoadingAssistantMessage(g)), ms, g)
           /\ Within(appendUserMessagePair(ms, g), ms, g)
  <1>1. PICK a, b : a = createUserMessage(g) /\ b = createLoadingAssistantMessage(g)
    OBVIOUS
  <1>2. a.own = g /\ b.own = g
    BY <1>1 DEF createUserMessage, createLoadingAssistantMessage
  <1>3. PICK X : X = MessagesOf(G) \cup {a, b}
    OBVIOUS
  <1>4. ms \in Seq(X) /\ a \in X /\ b \in X
    BY <1>3, SeqMonotonic
  <1>5. PICK r, s, t : r = Append(ms, b) /\ s = Append(ms, a) /\ t = Append(s, b)
    OBVIOUS
  <1>6. r[Len(r)] = b /\ \A i \in DOMAIN r : i # Len(r) => i \in DOMAIN ms /\ r[i] = ms[i]
    BY <1>4, <1>5, Appended
  <1>7. s \in Seq(X) /\ s[Len(s)] = a /\ \A i \in DOMAIN s : i # Len(s) => i \in DOMAIN ms /\ s[i] = ms[i]
    BY <1>4, <1>5, Appended
  <1>8. t[Len(t)] = b /\ \A i \in DOMAIN t : i # Len(t) => i \in DOMAIN s /\ t[i] = s[i]
    BY <1>4, <1>5, <1>7, Appended
  <1>9. Within(r, ms, g)
    BY <1>2, <1>6 DEF Within
  <1>10. Within(t, ms, g)
    BY <1>2, <1>7, <1>8 DEF Within
  <1>11. ms \o <<a, b>> = t
    BY <1>4, <1>5
  <1>12. appendUserMessagePair(ms, g) = t
    BY <1>1, <1>11 DEF appendUserMessagePair
  <1> QED BY <1>1, <1>5, <1>9, <1>10, <1>12

LEMMA WithinTrans ==
    ASSUME NEW r, NEW s, NEW t, NEW g, Within(r, s, g), Embeds(s, t)
    PROVE  Within(r, t, g)
  BY DEF Within, Embeds

LEMMA SendList == ASSUME ~Hasty, PInv, NetInv', NEW stream \in BOOLEAN, SendMessage(stream) PROVE ListInv'
  <1>1. /\ ~page.busy /\ ListSettled /\ sendChat(stream) /\ UNCHANGED <<disk, prep>>
        /\ Shown(Replace(appendUserMessagePair(page.msgs, chat.gen + 1)), chat.gen + 1, mem, TRUE, FALSE)
    BY DEF SendMessage
  <1>2. /\ SettledList(page.msgs, chat.gen, hist.born) /\ Private(mem.list, mem.active, page.msgs)
        /\ chat.gen \in Nat
    BY <1>1, IdleList
  <1>3. chat.gen + 1 \in Gens
    BY <1>1, <1>2, ConstantsAssumption DEF sendChat, Gens
  <1>4. PICK ms : ms = appendUserMessagePair(page.msgs, chat.gen + 1)
    OBVIOUS
  <1>5. At(ms, chat.gen + 1, hist.born, 0, FALSE, TRUE, <<>>)
    BY <1>2, <1>3, <1>4, AskPair
  <1>6. Within(ms, page.msgs, chat.gen + 1)
    BY <1>2, <1>4, AskWithin DEF SettledList, ListsOf
  <1>7. Shown(Replace(ms), chat.gen + 1, mem, TRUE, FALSE) /\ disk' = disk /\ prep' = prep
    BY <1>1, <1>4
  <1> QED BY <1>1, <1>2, <1>5, <1>6, <1>7, AskShown

\* A new answer after the first n messages.
LEMMA AgainList ==
    ASSUME PInv, NetInv', NEW stream \in BOOLEAN, sendChat(stream), NEW n \in 0..Len(page.msgs),
           Shown(Replace(SubSeq(page.msgs, 1, n) \o <<createLoadingAssistantMessage(chat.gen + 1)>>),
                 chat.gen + 1, mem, TRUE, FALSE),
           disk' = disk, prep' = prep, SettledList(page.msgs, chat.gen, hist.born) \/
             (n < Len(page.msgs) /\ Good(page.msgs, chat.gen, hist.born))
    PROVE  ListInv'
  <1>1. chat.gen \in Nat /\ chat.gen + 1 \in Gens /\ page.msgs \in Seq(MessagesOf(chat.gen))
    BY ConstantsAssumption DEF sendChat, Gens, PInv, NetInv, ChatOK, ListInv, Shows, ListsOf
  <1>2. PICK r : r = SubSeq(page.msgs, 1, n)
    OBVIOUS
  <1>3. r \in Seq(MessagesOf(chat.gen)) /\ Embeds(r, page.msgs)
    <2>1. 1 \in 1..(Len(page.msgs) + 1)
      BY <1>1
    <2> QED BY <1>1, <1>2, <2>1, SubSeqEmbeds
  <1>4. SettledList(r, chat.gen, hist.born)
    <2>1. CASE SettledList(page.msgs, chat.gen, hist.born)
      BY <1>2, <2>1, SettledPart
    <2>2. CASE n < Len(page.msgs) /\ Good(page.msgs, chat.gen, hist.born)
      <3>1. \A i \in DOMAIN r : i \in DOMAIN page.msgs /\ i # Len(page.msgs) /\ r[i] = page.msgs[i]
        BY <1>1, <1>2, <2>2
      <3> QED BY <1>3, <2>2, <3>1 DEF Good, SettledList, ListsOf
    <2> QED BY <2>1, <2>2
  <1>5. PICK ms : ms = Append(r, createLoadingAssistantMessage(chat.gen + 1))
    OBVIOUS
  <1>6. At(ms, chat.gen + 1, hist.born, 0, FALSE, TRUE, <<>>)
    BY <1>1, <1>4, <1>5, AskPair
  <1>7. Within(ms, page.msgs, chat.gen + 1)
    BY <1>3, <1>5, AskWithin, WithinTrans
  <1>8. ms = r \o <<createLoadingAssistantMessage(chat.gen + 1)>>
    <2>1. PICK l, X : l = createLoadingAssistantMessage(chat.gen + 1) /\ X = MessagesOf(chat.gen) \cup {l}
      OBVIOUS
    <2>2. r \in Seq(X) /\ l \in X
      BY <1>3, <2>1, SeqMonotonic
    <2>3. Append(r, l) = r \o <<l>>
      BY <2>2
    <2> QED BY <1>5, <2>1, <2>3
  <1>9. Shown(Replace(ms), chat.gen + 1, mem, TRUE, FALSE)
    BY <1>2, <1>8
  <1>10. Private(mem.list, mem.active, page.msgs)
    BY DEF PInv, ListInv, Secrets
  <1> QED BY <1>6, <1>7, <1>9, <1>10, AskShown

LEMMA RegenerateList ==
    ASSUME ~Hasty, PInv, NetInv', NEW i \in DOMAIN page.msgs, NEW stream \in BOOLEAN, Regenerate(i, stream)
    PROVE  ListInv'
  <1>1. /\ ~page.busy /\ ListSettled /\ sendChat(stream) /\ UNCHANGED <<disk, prep>>
        /\ Shown(Replace(createRegeneratedMessages(page.msgs, i, chat.gen + 1)), chat.gen + 1, mem, TRUE, FALSE)
    BY DEF Regenerate
  <1>2. SettledList(page.msgs, chat.gen, hist.born) /\ page.msgs \in Seq(MessagesOf(chat.gen))
    BY <1>1, IdleList DEF ListsOf
  <1>3. PICK n \in 0..Len(page.msgs) : n = IF page.msgs[i].from = "user" THEN i ELSE i - 1
    <2>1. i \in 1..Len(page.msgs) /\ Len(page.msgs) \in Nat
      BY <1>2
    <2> QED BY <2>1
  <1>4. createRegeneratedMessages(page.msgs, i, chat.gen + 1)
          = SubSeq(page.msgs, 1, n) \o <<createLoadingAssistantMessage(chat.gen + 1)>>
    BY <1>3 DEF createRegeneratedMessages
  <1> QED BY <1>1, <1>2, <1>4, AgainList

LEMMA SubmitEditList ==
    ASSUME ~Hasty, PInv, NetInv', NEW i \in DOMAIN page.msgs, NEW stream \in BOOLEAN, SubmitEdit(i, stream)
    PROVE  ListInv'
  <1>1. /\ Editable(i) /\ page.msgs[i].from = "user" /\ sendChat(stream) /\ UNCHANGED <<disk, prep>>
        /\ Shown(Replace(SubSeq(page.msgs, 1, i) \o <<createLoadingAssistantMessage(chat.gen + 1)>>),
                 chat.gen + 1, mem, TRUE, FALSE)
    BY DEF SubmitEdit
  <1>2. /\ page.msgs \in Seq(MessagesOf(chat.gen)) /\ page.busy = Asking
        /\ ~page.busy => SettledList(page.msgs, chat.gen, hist.born)
        /\ At(page.msgs, chat.gen, hist.born, hist.got, hist.done, Asking, chat.ptxt)
    BY <1>1, IdleList DEF ListsOf, Editable
  <1>3. i \in 0..Len(page.msgs) /\ i <= Len(page.msgs) /\ Len(page.msgs) \in Nat
    BY <1>2
  <1>4. Asking => i # Len(page.msgs)
    BY <1>1, <1>2 DEF At, Asked
  <1>5. \/ SettledList(page.msgs, chat.gen, hist.born)
        \/ i < Len(page.msgs) /\ Good(page.msgs, chat.gen, hist.born)
    BY <1>2, <1>3, <1>4 DEF At
  <1> QED BY <1>1, <1>3, <1>5, AgainList

\* A change of the list that concerns no request.
LEMMA ChangeShown ==
    ASSUME ~Hasty, PInv, NetInv', ListSettled, NEW u, u.op # "set",
           Shown(<<u>>, chat.gen, mem, page.isReq, page.isStr), UNCHANGED <<chat, disk, prep>>,
           hist'.born = hist.born, hist'.got = hist.got, hist'.done => hist.done, Counts',
           At(Effect(page.msgs, u, chat.gen), chat.gen, hist.born, hist.got, hist'.done, Asking, chat.ptxt),
           Within(Effect(page.msgs, u, chat.gen), page.msgs, chat.gen + 1)
    PROVE  ListInv'
  <1>1. /\ ListInv /\ chat.gen \in Nat /\ page.isReq \in BOOLEAN /\ page.isStr \in BOOLEAN
        /\ Private(mem.list, mem.active, page.msgs) /\ After(page.msgs, queue, chat.gen) = page.msgs
    BY IdleList DEF PInv, NetInv, PageOK
  <1>2. /\ page'.msgs = Effect(page.msgs, u, chat.gen) /\ mem' = ToSave(mem, page'.msgs)
    BY <1>1, ShownOne
  <1>3. queue' = <<>> /\ page'.busy = Asking' /\ Asking' = Asking
    <2>1. page'.isReq = page.isReq /\ page'.isStr = page.isStr /\ queue' = <<>> /\ page'.busy = Asking'
      BY <1>1, ShownMore, ShownFlags
    <2> QED BY <2>1 DEF Asking
  <1>4. chat.gen <= chat'.gen /\ chat'.gen = chat.gen /\ chat'.ptxt = chat.ptxt /\ disk' = disk /\ prep' = prep
    BY <1>1
  <1>5. Onward(chat.gen, hist.got, hist.done, Asking, chat'.gen, hist'.got, hist'.done, Asking')
    BY <1>3, <1>4 DEF Onward
  <1>6. At(page'.msgs, chat'.gen, hist.born, hist'.got, hist'.done, Asking', chat'.ptxt)
    BY <1>2, <1>3, <1>4
  <1> QED BY <1>1, <1>2, <1>3, <1>4, <1>5, <1>6, ShownStep

LEMMA SaveEditList == ASSUME ~Hasty, PInv, NetInv', NEW i \in DOMAIN page.msgs, SaveEdit(i) PROVE ListInv'
  <1>1. PICK ms : ms = [page.msgs EXCEPT ![i].txt = <<>>]
    OBVIOUS
  <1>2. /\ Editable(i) /\ Shown(Replace(ms), chat.gen, mem, page.isReq, page.isStr)
        /\ hist' = [hist EXCEPT !.done = @ /\ Key(ms[i]) # <<chat.gen, "assistant">>]
        /\ UNCHANGED <<chat, disk, prep>>
    BY <1>1 DEF SaveEdit
  <1>3. /\ ListSettled /\ page.busy = Asking
        /\ At(page.msgs, chat.gen, hist.born, hist.got, hist.done, Asking, chat.ptxt)
    BY <1>2, IdleList DEF Editable
  <1>4. Asking => page.msgs[i].own # chat.gen
    BY <1>2, <1>3 DEF Editable
  <1>5. PICK d : d = (hist.done /\ Key(ms[i]) # <<chat.gen, "assistant">>)
    OBVIOUS
  <1>6. At(ms, chat.gen, hist.born, hist.got, d, Asking, chat.ptxt)
    <2>1. At(ms, chat.gen, hist.born, hist.got, hist.done /\ Key(ms[i]) # <<chat.gen, "assistant">>,
             Asking, chat.ptxt)
      BY <1>1, <1>3, <1>4, EditEffect
    <2> QED BY <1>5, <2>1
  <1>7. Within(ms, page.msgs, chat.gen + 1)
    <2>1. DOMAIN ms = DOMAIN page.msgs /\ \A j \in DOMAIN page.msgs : Key(ms[j]) = Key(page.msgs[j])
      BY <1>1, <1>3, <1>4, EditEffect
    <2> QED BY <2>1 DEF Within
  <1>8. /\ hist'.born = hist.born /\ hist'.got = hist.got /\ hist'.done = d /\ Counts'
    <2>1. Counts /\ hist.done \in BOOLEAN
      BY DEF PInv, ListInv, Counts
    <2>2. d \in BOOLEAN
      BY <1>5
    <2>3. hist' = [got |-> hist.got, done |-> d, born |-> hist.born]
      BY <1>2, <1>5, <2>1 DEF Counts
    <2> QED BY <1>2, <2>1, <2>2, <2>3 DEF Counts
  <1>9. PICK u : u = [op |-> "replace", val |-> ms]
    OBVIOUS
  <1>10. u.op # "set" /\ Effect(page.msgs, u, chat.gen) = ms
    BY <1>9 DEF Effect
  <1>11. Shown(<<u>>, chat.gen, mem, page.isReq, page.isStr)
    BY <1>2, <1>9 DEF Replace
  <1>12. hist'.done => hist.done
    BY <1>5, <1>8
  <1> QED BY <1>2, <1>3, <1>6, <1>7, <1>8, <1>10, <1>11, <1>12, ChangeShown

LEMMA DeleteList ==
    ASSUME ~Hasty, PInv, NetInv',
           ClearMessages \/ \E i \in DOMAIN page.msgs : DeleteMessage(i)
    PROVE  ListInv'
  <1>1. /\ ~page.busy /\ ListSettled /\ UNCHANGED <<chat, disk, prep, hist>>
    BY DEF ClearMessages, DeleteMessage
  <1>2. /\ ~Asking /\ Private(mem.list, mem.active, page.msgs)
        /\ At(page.msgs, chat.gen, hist.born, hist.got, hist.done, Asking, chat.ptxt)
    BY <1>1, IdleList
  <1>3. At(page.msgs, chat.gen, hist.born, hist.got, hist.done, FALSE, chat.ptxt) /\ chat.ptxt = <<>>
    BY <1>2 DEF At
  <1>4. /\ hist'.born = hist.born /\ hist'.got = hist.got /\ (hist'.done => hist.done) /\ Counts'
        /\ hist'.done = hist.done
    BY <1>1 DEF PInv, ListInv, Counts
  <1>5. CASE ClearMessages
    <2>1. PICK u : u = [op |-> "replace", val |-> <<>>]
      OBVIOUS
    <2>2. u.op # "set" /\ Effect(page.msgs, u, chat.gen) = <<>>
      BY <2>1 DEF Effect
    <2>3. Shown(<<u>>, chat.gen, mem, page.isReq, page.isStr)
      BY <1>5, <2>1 DEF ClearMessages, Replace
    <2>4. At(<<>>, chat.gen, hist.born, hist.got, hist.done, Asking, chat.ptxt)
      BY <1>2, <1>3 DEF At, Good, Calm, ListsOf
    <2>5. Within(<<>>, page.msgs, chat.gen + 1)
      BY DEF Within
    <2> QED BY <1>1, <1>4, <2>2, <2>3, <2>4, <2>5, ChangeShown
  <1>6. CASE \E i \in DOMAIN page.msgs : DeleteMessage(i)
    <2>1. PICK i \in DOMAIN page.msgs : DeleteMessage(i)
      BY <1>6
    <2>2. PICK u : u = [op |-> "remove", key |-> Key(page.msgs[i])]
      OBVIOUS
    <2>3. u.op = "remove" /\ u.op # "set"
      BY <2>2
    <2>4. Shown(<<u>>, chat.gen, mem, page.isReq, page.isStr)
      BY <2>1, <2>2 DEF DeleteMessage
    <2>5. PICK r : r = Effect(page.msgs, u, chat.gen)
      OBVIOUS
    <2>6. At(r, chat.gen, hist.born, hist.got, hist.done, FALSE, <<>>) /\ Embeds(r, page.msgs)
      BY <1>3, <2>3, <2>5, RemoveEffect
    <2>7. At(r, chat.gen, hist.born, hist.got, hist.done, Asking, chat.ptxt)
      BY <1>2, <1>3, <2>6 DEF At
    <2>8. Within(r, page.msgs, chat.gen + 1)
      BY <2>6, EmbedsWithin
    <2> QED BY <1>1, <1>4, <2>3, <2>4, <2>5, <2>7, <2>8, ChangeShown
  <1> QED BY <1>5, <1>6

\* A revision of the last message leaves the names of the messages.
LEMMA RevisionWithin ==
    ASSUME NEW G, NEW ms \in Seq(MessagesOf(G)), NEW u, NEW h, u.op \in Revisions, NEW g
    PROVE  Within(Effect(ms, u, h), ms, g)
  <1>1. CASE Effect(ms, u, h) = ms
    BY <1>1 DEF Within
  <1>2. CASE ms # <<>> /\ Effect(ms, u, h) = PutLast(ms, Revised(ms[Len(ms)], u))
    <2>1. PICK m, r, rs : m = ms[Len(ms)] /\ r = Revised(m, u) /\ rs = PutLast(ms, r)
      OBVIOUS
    <2>2. m \in Message /\ Len(ms) \in DOMAIN ms
      BY <1>2, <2>1 DEF MessagesOf
    <2>3. r.own = m.own /\ r.from = m.from
      <3>1. CASE u.op = "chunk"
        BY <2>1, <2>2, <3>1 DEF Revised, applyStreamingChunk, Message
      <3>2. CASE u.op = "complete"
        BY <2>1, <2>2, <3>2 DEF Revised, completeAssistantMessage, Message
      <3>3. CASE u.op = "stop"
        BY <2>1, <2>2, <3>3 DEF Revised, completeAssistantMessage, Message
      <3>4. CASE u.op = "error"
        BY <2>1, <2>2, <3>4 DEF Revised, Message
      <3>5. CASE u.op = "answer"
        BY <2>1, <2>2, <3>5 DEF Revised, Message
      <3> QED BY <3>1, <3>2, <3>3, <3>4, <3>5 DEF Revisions
    <2>4. DOMAIN rs = DOMAIN ms /\ rs[Len(ms)] = r /\ \A i \in DOMAIN ms : i # Len(ms) => rs[i] = ms[i]
      BY <2>1, <2>2 DEF PutLast
    <2>5. \A i \in DOMAIN ms : Key(rs[i]) = Key(ms[i])
      BY <2>1, <2>3, <2>4 DEF Key
    <2>6. Within(rs, ms, g)
      BY <2>4, <2>5 DEF Within
    <2> QED BY <1>2, <2>1, <2>6
  <1> QED BY <1>1, <1>2, EffectOnLast

LEMMA WithinWithin ==
    ASSUME NEW r, NEW s, NEW t, NEW g, Within(r, s, g), Within(s, t, g)
    PROVE  Within(r, t, g)
  BY DEF Within, Key

\* A stop: the text not yet shown is lost or becomes part of the answer, and
\* the answer is complete.
LEMMA StopList == ASSUME PInv, NetInv', StopGeneration PROVE ListInv'
  <1>1. PICK g : g = chat.gen
    OBVIOUS
  <1>2. g \in Nat /\ g < MaxGen /\ ListInv /\ page.busy
    BY <1>1 DEF StopGeneration, PInv, NetInv, ChatOK
  <1>3. /\ chat'.gen = g + 1 /\ chat'.ptxt = <<>> /\ UNCHANGED <<disk, prep>>
    BY <1>1 DEF StopGeneration, Fresh
  <1>4. hist'.got = 0 /\ hist'.done = FALSE /\ hist'.born = hist.born /\ Counts'
    <2>1. hist' = [got |-> 0, done |-> FALSE, born |-> hist.born]
      BY <1>2 DEF StopGeneration, ListInv, Counts
    <2>2. 0 \in 0..Len(Letters) /\ hist.born \in 0..(g + 1)
      BY <1>1, <1>2, LettersFacts DEF ListInv, Counts
    <2> QED BY <1>3, <2>1, <2>2 DEF Counts
  <1>5. PICK early \in {FALSE, queue = <<>>} :
          Shown(FlushUpdate(IF early THEN g + 1 ELSE g) \o Update("stop", g + 1), g + 1, mem, FALSE, FALSE)
    BY <1>1 DEF StopGeneration
  <1>6. PICK st, us : st = [op |-> "stop", gen |-> g + 1] /\ us = FlushUpdate(IF early THEN g + 1 ELSE g)
    OBVIOUS
  <1>7. Shown(us \o <<st>>, g + 1, mem, FALSE, FALSE) /\ st.op = "stop" /\ st.op # "set" /\ st.op \in Revisions
    BY <1>5, <1>6 DEF Update, Revisions
  <1>8. queue \in Seq(Updates)
    BY <1>2 DEF ListInv, Shows
  <1>9. PICK X : us \in Seq(X) /\ queue \in Seq(X) /\ st \in X
    <2>1. PICK c : us = <<>> \/ us = <<c>>
      BY <1>6 DEF FlushUpdate
    <2>2. PICK X : X = Updates \cup {c, st}
      OBVIOUS
    <2>3. queue \in Seq(X)
      BY <1>8, <2>2, SeqMonotonic
    <2>4. c \in X /\ st \in X
      BY <2>2
    <2>5. us \in Seq(X)
      <3>1. <<>> \in Seq(X) /\ <<c>> \in Seq(X)
        BY <2>4
      <3> QED BY <2>1, <3>1
    <2> QED BY <2>3, <2>4, <2>5
  <1>10. queue \o (us \o <<st>>) = Append(queue \o us, st) /\ queue \o us \in Seq(X)
    BY <1>9
  <1>11. /\ page'.msgs = After(page.msgs, queue \o (us \o <<st>>), g + 1)
         /\ mem' = ToSave(mem, page'.msgs)
    BY <1>7, <1>10, ShownLast
  <1>12. PICK base : base = After(page.msgs, queue \o us, g + 1)
    OBVIOUS
  <1>13. page'.msgs = Effect(base, st, g + 1)
    <2>1. PICK w \in Seq(X) : w = queue \o us
      BY <1>10
    <2>2. After(page.msgs, Append(w, st), g + 1) = Effect(After(page.msgs, w, g + 1), st, g + 1)
      BY <1>9, AfterOne
    <2> QED BY <1>10, <1>11, <1>12, <2>1, <2>2
  <1>14. Good(base, g, hist.born) /\ Private(mem.list, mem.active, base)
    <2>1. PICK v : v = After(page.msgs, queue, g + 1)
      OBVIOUS
    <2>2. Good(v, g, hist.born) /\ Private(mem.list, mem.active, v)
      BY <1>1, <1>2, <2>1 DEF ListInv, Shows, Secrets
    <2>3. CASE us = <<>>
      BY <1>8, <1>12, <2>1, <2>2, <2>3, AfterMore
    <2>4. CASE us # <<>>
      <3>1. PICK c : c = [op |-> "chunk", gen |-> IF early THEN g + 1 ELSE g, txt |-> chat.ptxt]
        OBVIOUS
      <3>2. us = <<c>> /\ chat.ptxt # <<>>
        BY <1>6, <2>4, <3>1 DEF FlushUpdate
      <3>3. base = Effect(v, c, g + 1)
        BY <1>8, <1>12, <2>1, <3>2, AfterMore
      <3>4. c.op = "chunk" /\ c.op \in Revisions /\ c.gen = (IF early THEN g + 1 ELSE g) /\ c.txt = chat.ptxt
        BY <3>1 DEF Revisions
      <3>5. CASE ~early
        <4>1. c.gen # g + 1
          BY <1>2, <3>4, <3>5
        <4> QED BY <2>2, <3>3, <3>4, <4>1, EffectOnLast
      <3>6. CASE early
        <4>1. queue = <<>>
          BY <1>5, <3>6
        <4>2. v = page.msgs /\ After(page.msgs, queue, g) = page.msgs
          BY <2>1, <4>1, AfterNone
        <4>3. At(v, g, hist.born, hist.got, hist.done, Asking, chat.ptxt)
          BY <1>1, <1>2, <4>2 DEF ListInv, Shows
        <4>4. Asking
          BY <3>2, <4>3 DEF At
        <4>5. At(v, g, hist.born, hist.got, hist.done, TRUE, chat.ptxt)
          BY <4>3, <4>4 DEF At
        <4>6. g \in Gens /\ hist.got \in 0..Len(Letters)
          <5>1. chat.gen # 0
            BY <4>4 DEF PInv, NetInv, BusyHasCause, NetRec, Gens, Asking
          <5> QED BY <1>1, <1>2, <5>1, ConstantsAssumption DEF Gens, ListInv, Counts
        <4>7. c = [op |-> "chunk", gen |-> g + 1, txt |-> chat.ptxt]
          BY <3>1, <3>6
        <4>8. At(base, g, hist.born, hist.got, hist.done, TRUE, <<>>)
          BY <3>3, <4>5, <4>6, <4>7, ChunkEffect
        <4>9. v \in Seq(MessagesOf(g))
          BY <2>2 DEF Good, ListsOf
        <4>10. Within(base, v, g + 1)
          BY <3>3, <3>4, <4>9, RevisionWithin
        <4>11. mem.list \in Seq(Conv(g))
          BY <1>1, <1>2 DEF ListInv, Stores, StoreOK
        <4> QED BY <1>2, <2>2, <4>8, <4>10, <4>11, PrivateWithin DEF At
      <3> QED BY <3>5, <3>6
    <2> QED BY <2>3, <2>4
  <1>15. At(page'.msgs, g + 1, hist.born, 0, FALSE, FALSE, <<>>)
    BY <1>2, <1>6, <1>13, <1>14, StopEffect
  <1>16. Within(page'.msgs, base, g + 1)
    BY <1>7, <1>13, <1>14, RevisionWithin DEF Good, ListsOf
  <1>17. queue' = <<>> /\ page'.busy = Asking' /\ Asking' = FALSE
    <2>1. page'.isReq = FALSE /\ page'.isStr = FALSE /\ queue' = <<>> /\ page'.busy = Asking'
      BY <1>7, ShownMore, ShownFlags
    <2> QED BY <2>1 DEF Asking
  <1>18. Onward(chat.gen, hist.got, hist.done, Asking, chat'.gen, hist'.got, hist'.done, Asking')
    BY <1>1, <1>2, <1>3, <1>4 DEF Onward
  <1>19. At(page'.msgs, chat'.gen, hist.born, hist'.got, hist'.done, Asking', chat'.ptxt)
    BY <1>3, <1>4, <1>15, <1>17
  <1>20. chat.gen <= chat'.gen /\ disk' = disk /\ prep' = prep /\ Within(page'.msgs, base, chat.gen + 1)
    BY <1>1, <1>2, <1>3, <1>16
  <1> QED BY <1>4, <1>11, <1>14, <1>17, <1>18, <1>19, <1>20, ShownStep

-----------------------------------------------------------------------------
(* Steps whose updates wait.                                               *)

LEMMA QueuedStep ==
    ASSUME PInv, NetInv', Counts', page'.msgs = page.msgs, page'.busy = page.busy,
           UNCHANGED <<mem, disk, prep>>, chat'.gen = chat.gen, hist'.born = hist.born,
           queue' \in Seq(Updates),
           \A h \in Nat : /\ Good(After(page.msgs, queue', h), chat.gen, hist.born)
                          /\ Within(After(page.msgs, queue', h), After(page.msgs, queue, h), chat.gen + 1),
           At(After(page.msgs, queue', chat.gen), chat.gen, hist.born, hist'.got, hist'.done, Asking', chat'.ptxt),
           Onward(chat.gen, hist.got, hist.done, Asking, chat'.gen, hist'.got, hist'.done, Asking')
    PROVE  ListInv'
  <1>1. NetInv /\ ListInv /\ chat.gen \in Nat /\ chat.gen <= chat'.gen
    BY DEF PInv, NetInv, ChatOK
  <1>2. Shows'
    BY <1>1 DEF ListInv, Shows
  <1>3. mem' = [mem EXCEPT !.latest = page'.msgs, !.timer = mem'.timer] /\ mem'.timer = mem.timer
    BY <1>1 DEF ListInv, Refs, Stores
  <1>4. mem'.timer \in BOOLEAN /\ prep' = [on |-> prep'.on, snap |-> prep'.snap] /\ prep'.on \in BOOLEAN
    BY <1>1 DEF ListInv, Refs
  <1>5. Private(mem.list, mem.active, page'.msgs) /\ Private(mem.list, mem.active, prep'.snap)
    BY <1>1 DEF ListInv, Secrets
  <1>6. \A h \in Nat : Private(mem.list, mem.active, After(page'.msgs, queue', h))
    <2>1. mem.list \in Seq(Conv(chat.gen)) /\ \A h \in Nat : Private(mem.list, mem.active, After(page.msgs, queue, h))
      BY <1>1 DEF ListInv, Stores, StoreOK, Secrets
    <2> QED BY <1>1, <2>1, PrivateWithin
  <1> QED BY <1>1, <1>2, <1>3, <1>4, <1>5, <1>6, FlowStep

\* One more update of the current generation, which is the only one to see it.
AllGood(ms, q, G, B) == \A h \in Nat : Good(After(ms, q, h), G, B)
AllWithin(ms, q2, q, g) == \A h \in Nat : Within(After(ms, q2, h), After(ms, q, h), g)

Followed(q, u) == q \o <<u>>

LEMMA OneQueued ==
    ASSUME NEW q \in Seq(Updates), NEW ms, NEW G \in Nat, NEW B, AllGood(ms, q, G, B),
           NEW u \in Updates, u.op \in Revisions, u.gen = G, Good(Effect(After(ms, q, G), u, G), G, B),
           NEW q2, q2 = Followed(q, u)
    PROVE  /\ q2 \in Seq(Updates) /\ After(ms, q2, G) = Effect(After(ms, q, G), u, G)
           /\ AllGood(ms, q2, G, B) /\ AllWithin(ms, q2, q, G + 1)
  <1>1. q2 \in Seq(Updates)
    BY DEF Followed
  <1>2. \A h : After(ms, q2, h) = Effect(After(ms, q, h), u, h)
    BY AfterMore DEF Followed
  <1>3. ASSUME NEW h \in Nat
        PROVE  Good(After(ms, q2, h), G, B) /\ Within(After(ms, q2, h), After(ms, q, h), G + 1)
    <2>1. PICK a : a = After(ms, q, h)
      OBVIOUS
    <2>2. Good(a, G, B) /\ a \in Seq(MessagesOf(G)) /\ After(ms, q2, h) = Effect(a, u, h)
      BY <1>2, <2>1 DEF AllGood, Good, ListsOf
    <2>3. Within(Effect(a, u, h), a, G + 1)
      BY <2>2, RevisionWithin
    <2>4. Good(Effect(a, u, h), G, B)
      <3>1. CASE h = G
        BY <2>1, <3>1
      <3>2. CASE h # G
        BY <2>2, <3>2, EffectOnLast
      <3> QED BY <3>1, <3>2
    <2> QED BY <2>1, <2>2, <2>3, <2>4
  <1> QED BY <1>1, <1>2, <1>3 DEF AllGood, AllWithin

LEMMA AskingGen == ASSUME PInv, Asking PROVE chat.gen \in Gens
  <1>1. chat.gen # 0
    BY DEF PInv, NetInv, BusyHasCause, NetRec, Gens, Asking
  <1> QED BY <1>1, ConstantsAssumption DEF PInv, NetInv, ChatOK, Gens

\* The pending text is queued.
LEMMA FlushQueue ==
    ASSUME PInv, NEW q, q = queue \o FlushUpdate(chat.gen)
    PROVE  /\ q \in Seq(Updates)
           /\ \A h \in Nat : /\ Good(After(page.msgs, q, h), chat.gen, hist.born)
                             /\ Within(After(page.msgs, q, h), After(page.msgs, queue, h), chat.gen + 1)
           /\ At(After(page.msgs, q, chat.gen), chat.gen, hist.born, hist.got, hist.done, Asking, <<>>)
  <1>1. PICK G, v : G = chat.gen /\ v = After(page.msgs, queue, chat.gen)
    OBVIOUS
  <1>2. /\ queue \in Seq(Updates) /\ G \in Nat /\ hist.got \in 0..Len(Letters)
        /\ \A h \in Nat : Good(After(page.msgs, queue, h), G, hist.born)
        /\ At(v, G, hist.born, hist.got, hist.done, Asking, chat.ptxt)
    BY <1>1 DEF PInv, ListInv, Shows, Counts, NetInv, ChatOK
  <1>3. CASE chat.ptxt = <<>>
    <2>1. q = queue
      BY <1>2, <1>3 DEF FlushUpdate
    <2>2. \A h \in Nat : Within(After(page.msgs, q, h), After(page.msgs, queue, h), G + 1)
      BY <2>1 DEF Within
    <2> QED BY <1>1, <1>2, <1>3, <2>1, <2>2
  <1>4. CASE chat.ptxt # <<>>
    <2>1. PICK u : u = [op |-> "chunk", gen |-> G, txt |-> chat.ptxt]
      OBVIOUS
    <2>2. q = queue \o <<u>>
      BY <1>1, <1>4, <2>1 DEF FlushUpdate, PInv, NetMore
    <2>3. Asking
      BY <1>2, <1>4 DEF At
    <2>4. G \in Gens
      BY <1>1, <2>3, AskingGen
    <2>5. At(v, G, hist.born, hist.got, hist.done, TRUE, chat.ptxt)
      BY <1>2, <2>3 DEF At
    <2>6. At(Effect(v, u, G), G, hist.born, hist.got, hist.done, TRUE, <<>>)
      BY <1>2, <2>1, <2>4, <2>5, ChunkEffect
    <2>7. chat.ptxt \in Texts
      BY <2>5 DEF At, Asked
    <2>8. u \in Updates /\ u.op \in Revisions /\ u.gen = G
      BY <2>1, <2>4, <2>7 DEF Updates, Revisions
    <2>9. Good(Effect(v, u, G), G, hist.born)
      BY <2>6 DEF At
    <2>10. /\ q \in Seq(Updates) /\ After(page.msgs, q, G) = Effect(v, u, G)
           /\ \A h \in Nat : /\ Good(After(page.msgs, q, h), G, hist.born)
                             /\ Within(After(page.msgs, q, h), After(page.msgs, queue, h), G + 1)
      <3>1. AllGood(page.msgs, queue, G, hist.born)
        BY <1>2 DEF AllGood
      <3>2. Good(Effect(After(page.msgs, queue, G), u, G), G, hist.born)
        BY <1>1, <2>9
      <3>3. /\ q \in Seq(Updates) /\ After(page.msgs, q, G) = Effect(After(page.msgs, queue, G), u, G)
            /\ AllGood(page.msgs, q, G, hist.born) /\ AllWithin(page.msgs, q, queue, G + 1)
        <4>1. q = Followed(queue, u) /\ queue \in Seq(Updates) /\ G \in Nat
          BY <1>2, <2>2 DEF Followed
        <4> QED BY <4>1, <2>8, <3>1, <3>2, OneQueued
      <3> QED BY <1>1, <3>3 DEF AllGood, AllWithin
    <2>11. At(After(page.msgs, q, G), G, hist.born, hist.got, hist.done, Asking, <<>>)
      BY <2>3, <2>6, <2>10 DEF At
    <2> QED BY <1>1, <2>10, <2>11
  <1> QED BY <1>3, <1>4

LEMMA FlushList == ASSUME PInv, NetInv', FlushTimer PROVE ListInv'
  <1>1. /\ chat' = Flushed /\ Queued(FlushUpdate(chat.gen), page.isReq, page.isStr)
        /\ UNCHANGED <<disk, prep, hist>>
    BY DEF FlushTimer
  <1>2. page.isReq \in BOOLEAN /\ page.isStr \in BOOLEAN /\ page.busy \in BOOLEAN /\ PageOK /\ chat.pgen = chat.gen
    BY DEF PInv, NetInv, PageOK, NetMore
  <1>3. /\ page'.busy = page.busy /\ queue' = queue \o FlushUpdate(chat.gen) /\ page'.msgs = page.msgs
        /\ mem' = mem
    BY <1>1, <1>2, QueuedMore
  <1>4. Asking' = Asking
    BY <1>1, <1>2, QueuedFlags DEF Asking
  <1>5. chat'.gen = chat.gen /\ chat'.ptxt = <<>>
    BY <1>1, <1>2 DEF Flushed, PInv, NetInv, ChatOK
  <1>6. Counts' /\ hist' = hist
    BY <1>1, <1>5 DEF PInv, ListInv, Counts
  <1>7. Onward(chat.gen, hist.got, hist.done, Asking, chat'.gen, hist'.got, hist'.done, Asking')
    BY <1>4, <1>5, <1>6 DEF Onward
  <1>8. /\ queue' \in Seq(Updates)
        /\ \A h \in Nat : /\ Good(After(page.msgs, queue', h), chat.gen, hist.born)
                          /\ Within(After(page.msgs, queue', h), After(page.msgs, queue, h), chat.gen + 1)
        /\ At(After(page.msgs, queue', chat.gen), chat.gen, hist.born, hist.got, hist.done, Asking, <<>>)
    BY <1>3, FlushQueue
  <1>9. At(After(page.msgs, queue', chat.gen), chat.gen, hist.born, hist'.got, hist'.done, Asking', chat'.ptxt)
    BY <1>4, <1>5, <1>6, <1>8
  <1> QED BY <1>1, <1>3, <1>5, <1>6, <1>7, <1>8, <1>9, QueuedStep

\* The answer asked for ends.
LEMMA EndedList ==
    ASSUME PInv, NetInv', Asking, NEW op \in {"complete", "error"}, NEW isStr \in BOOLEAN,
           Ended(chat.gen, op, isStr), UNCHANGED <<disk, prep>>, ~Asking',
           hist' = [hist EXCEPT !.done = (op = "complete")]
    PROVE  ListInv'
  <1>1. /\ chat' = Flushed /\ Queued(FlushUpdate(chat.gen) \o Update(op, chat.gen), FALSE, isStr)
    BY DEF Ended, IsCurrentGen
  <1>2. page.busy \in BOOLEAN /\ PageOK /\ chat.pgen = chat.gen
    BY DEF PInv, NetInv, PageOK, NetMore
  <1>3. PICK q, v : q = queue \o FlushUpdate(chat.gen) /\ v = [op |-> op, gen |-> chat.gen]
    OBVIOUS
  <1>4. /\ q \in Seq(Updates)
        /\ \A h \in Nat : /\ Good(After(page.msgs, q, h), chat.gen, hist.born)
                          /\ Within(After(page.msgs, q, h), After(page.msgs, queue, h), chat.gen + 1)
        /\ At(After(page.msgs, q, chat.gen), chat.gen, hist.born, hist.got, hist.done, Asking, <<>>)
    BY <1>3, FlushQueue
  <1>5. /\ page'.busy = page.busy /\ queue' = queue \o (FlushUpdate(chat.gen) \o <<v>>)
        /\ page'.msgs = page.msgs /\ mem' = mem
    BY <1>1, <1>2, <1>3, QueuedMore DEF Update
  <1>6. chat.gen \in Gens /\ chat.gen \in Nat
    BY AskingGen DEF Gens
  <1>7. v \in Updates /\ v.op \in Revisions /\ v.gen = chat.gen
    BY <1>3, <1>6 DEF Updates, Revisions
  <1>8. queue' = q \o <<v>>
    <2>1. queue \in Seq(Updates)
      BY DEF PInv, ListInv, Shows
    <2>2. PICK u : FlushUpdate(chat.gen) = <<>> \/ FlushUpdate(chat.gen) = <<u>>
      BY DEF FlushUpdate
    <2>3. PICK X : X = Updates \cup {u}
      OBVIOUS
    <2>4. queue \in Seq(X) /\ v \in X /\ u \in X
      BY <1>7, <2>1, <2>3, SeqMonotonic
    <2>5. <<>> \in Seq(X) /\ <<u>> \in Seq(X) /\ <<v>> \in Seq(X)
      BY <2>4
    <2>6. FlushUpdate(chat.gen) \in Seq(X)
      BY <2>2, <2>5
    <2>7. queue \o (FlushUpdate(chat.gen) \o <<v>>) = (queue \o FlushUpdate(chat.gen)) \o <<v>>
      BY <2>4, <2>5, <2>6, ConcatAssociative
    <2> QED BY <1>3, <1>5, <2>7
  <1>9. PICK ms, done : ms = After(page.msgs, q, chat.gen) /\ done = (op = "complete")
    OBVIOUS
  <1>10. /\ At(ms, chat.gen, hist.born, hist.got, hist.done, TRUE, <<>>) /\ ~hist.done
         /\ hist.got \in 0..Len(Letters) /\ hist.done \in BOOLEAN
    BY <1>4, <1>9 DEF At, Asked, PInv, ListInv, Counts
  <1>11. At(Effect(ms, v, chat.gen), chat.gen, hist.born, hist.got, done, FALSE, <<>>)
    <2>1. CASE op = "complete"
      BY <1>3, <1>6, <1>9, <1>10, <2>1, EndEffect
    <2>2. CASE op = "error"
      BY <1>3, <1>6, <1>9, <1>10, <2>2, EndEffect
    <2> QED BY <2>1, <2>2
  <1>12. Good(Effect(ms, v, chat.gen), chat.gen, hist.born)
    BY <1>11 DEF At
  <1>13. /\ queue' \in Seq(Updates) /\ After(page.msgs, queue', chat.gen) = Effect(ms, v, chat.gen)
         /\ \A h \in Nat : /\ Good(After(page.msgs, queue', h), chat.gen, hist.born)
                           /\ Within(After(page.msgs, queue', h), After(page.msgs, q, h), chat.gen + 1)
    <2>1. AllGood(page.msgs, q, chat.gen, hist.born)
      BY <1>4 DEF AllGood
    <2>2. Good(Effect(After(page.msgs, q, chat.gen), v, chat.gen), chat.gen, hist.born)
      BY <1>9, <1>12
    <2>3. /\ queue' \in Seq(Updates)
          /\ After(page.msgs, queue', chat.gen) = Effect(After(page.msgs, q, chat.gen), v, chat.gen)
          /\ AllGood(page.msgs, queue', chat.gen, hist.born)
          /\ AllWithin(page.msgs, queue', q, chat.gen + 1)
      <3>1. queue' = Followed(q, v) /\ q \in Seq(Updates) /\ chat.gen \in Nat
        BY <1>4, <1>6, <1>8 DEF Followed
      <3> QED BY <1>7, <2>1, <2>2, <3>1, OneQueued
    <2> QED BY <1>9, <2>3 DEF AllGood, AllWithin
  <1>14. \A h \in Nat : Within(After(page.msgs, queue', h), After(page.msgs, queue, h), chat.gen + 1)
    BY <1>4, <1>13, WithinWithin
  <1>15. chat'.gen = chat.gen /\ chat'.ptxt = <<>>
    BY <1>1, <1>2 DEF Flushed, PInv, NetInv, ChatOK
  <1>16. Counts' /\ hist'.got = hist.got /\ hist'.born = hist.born /\ hist'.done = done
    <2>1. hist' = [got |-> hist.got, done |-> done, born |-> hist.born]
      BY <1>9 DEF PInv, ListInv, Counts
    <2>2. done \in BOOLEAN
      BY <1>9
    <2> QED BY <1>15, <2>1, <2>2 DEF PInv, ListInv, Counts
  <1>17. Onward(chat.gen, hist.got, hist.done, Asking, chat'.gen, hist'.got, hist'.done, Asking')
    BY <1>15 DEF Onward
  <1>18. Asking' = FALSE
    BY DEF Asking
  <1>19. At(After(page.msgs, queue', chat.gen), chat.gen, hist.born, hist'.got, hist'.done, Asking', chat'.ptxt)
    BY <1>11, <1>13, <1>15, <1>16, <1>18
  <1> QED BY <1>5, <1>13, <1>14, <1>15, <1>16, <1>17, <1>19, QueuedStep

LEMMA DeltaList == ASSUME PInv, NetInv', NEW g \in Gens, StreamDelta(g) PROVE ListInv'
  <1>1. /\ g \in net.live /\ hist.got < Len(Letters) /\ hist' = [hist EXCEPT !.got = @ + 1]
        /\ UNCHANGED <<page, queue, net, mem, disk, prep>>
    BY DEF StreamDelta
  <1>2. g = net.src /\ g = net.cur /\ g = chat.gen /\ chat.pgen = g /\ page.isStr
    BY <1>1 DEF PInv, NetMore, NetInv, Gens
  <1>3. chat' = [chat EXCEPT !.ptxt = mergePendingStreamChunk(@, <<Delta(g, hist.got + 1)>>), !.ftimer = TRUE]
    BY <1>2 DEF StreamDelta, IsCurrentSource, IsCurrentGen
  <1>4. PICK p : p = mergePendingStreamChunk(chat.ptxt, <<Delta(g, hist.got + 1)>>)
    OBVIOUS
  <1>5. chat'.gen = chat.gen /\ chat'.ptxt = p
    BY <1>3, <1>4 DEF PInv, NetInv, ChatOK
  <1>6. Asking /\ Asking' = Asking
    BY <1>1, <1>2 DEF Asking
  <1>7. PICK ms : ms = After(page.msgs, queue, g)
    OBVIOUS
  <1>8. /\ hist.got \in 0..Len(Letters) /\ hist = [got |-> hist.got, done |-> hist.done, born |-> hist.born]
        /\ hist.done \in BOOLEAN
    BY DEF PInv, ListInv, Counts
  <1>9. At(ms, g, hist.born, hist.got, hist.done, TRUE, chat.ptxt)
    <2>1. At(ms, g, hist.born, hist.got, hist.done, Asking, chat.ptxt)
      BY <1>2, <1>7 DEF PInv, ListInv, Shows
    <2> QED BY <1>6, <2>1 DEF At
  <1>10. At(ms, g, hist.born, hist.got + 1, hist.done, TRUE, p)
    BY <1>1, <1>4, <1>8, <1>9, DeltaEffect
  <1>11. /\ hist'.got = hist.got + 1 /\ hist'.done = hist.done /\ hist'.born = hist.born /\ Counts'
    <2>1. hist' = [got |-> hist.got + 1, done |-> hist.done, born |-> hist.born]
      BY <1>1, <1>8
    <2>2. hist.got + 1 \in 0..Len(Letters)
      BY <1>1, <1>8, LettersFacts
    <2> QED BY <1>5, <2>1, <2>2 DEF PInv, ListInv, Counts
  <1>12. ~hist.done
    BY <1>9 DEF At, Asked
  <1>13. Onward(chat.gen, hist.got, hist.done, Asking, chat'.gen, hist'.got, hist'.done, Asking')
    BY <1>5, <1>6, <1>11, <1>12 DEF Onward
  <1>14. At(After(page.msgs, queue', chat.gen), chat.gen, hist.born, hist'.got, hist'.done, Asking', chat'.ptxt)
    <2>1. Asking' = TRUE
      BY <1>6 DEF Asking
    <2> QED BY <1>1, <1>2, <1>5, <1>7, <1>10, <1>11, <2>1
  <1>15. /\ queue' \in Seq(Updates)
         /\ \A h \in Nat : /\ Good(After(page.msgs, queue', h), chat.gen, hist.born)
                           /\ Within(After(page.msgs, queue', h), After(page.msgs, queue, h), chat.gen + 1)
    BY <1>1 DEF PInv, ListInv, Shows, Within
  <1> QED BY <1>1, <1>5, <1>11, <1>13, <1>14, <1>15, QueuedStep

\* A step that changes nothing the list depends on.
LEMMA SameList ==
    ASSUME PInv, UNCHANGED <<queue, chat, mem, disk, prep, hist>>, page'.msgs = page.msgs,
           page'.busy = page.busy, Asking' = Asking
    PROVE  ListInv'
  <1>1. Refs' /\ Counts'
    BY DEF PInv, ListInv, Refs, Counts
  <1>2. Shows'
    BY DEF PInv, ListInv, Shows
  <1>3. Stores' /\ Secrets'
    BY DEF PInv, ListInv, Stores, Secrets
  <1> QED BY <1>1, <1>2, <1>3 DEF ListInv

LEMMA NotDone == ASSUME PInv, Asking PROVE hist.done = FALSE
  <1>1. ~hist.done /\ hist.done \in BOOLEAN
    BY DEF PInv, ListInv, Shows, Counts, At, Asked
  <1> QED BY <1>1

LEMMA HeadersList == ASSUME PInv, NetInv', NEW g \in Gens, HeadersReady(g) PROVE ListInv'
  <1>1. g \in net.hdrs /\ g # 0 /\ UNCHANGED <<disk, prep, hist>>
    BY DEF HeadersReady, Gens
  <1>2. CASE UNCHANGED <<page, queue, mem, chat>>
    BY <1>1, <1>2, SameList DEF Asking
  <1>3. CASE g = net.cur /\ Queued(<<>>, page.isReq, TRUE) /\ UNCHANGED chat
    <2>1. page.isReq /\ page.isReq \in BOOLEAN /\ page.busy \in BOOLEAN /\ PageOK /\ queue \in Seq(Updates)
      BY <1>1, <1>3 DEF PInv, NetMore, NetInv, PageOK, ListInv, Shows
    <2>2. page'.busy = page.busy /\ queue' = queue \o <<>> /\ page'.msgs = page.msgs /\ mem' = mem
      BY <1>3, <2>1, QueuedMore
    <2>3. page'.isReq /\ page'.isStr
      BY <1>3, <2>1, QueuedFlags
    <2>4. Asking' = Asking
      BY <2>1, <2>3 DEF Asking
    <2>5. queue' = queue
      BY <2>1, <2>2
    <2> QED BY <1>1, <1>3, <2>2, <2>4, <2>5, SameList
  <1>4. CASE g = net.cur /\ Ended(g, "error", page.isStr)
    <2>1. g = chat.gen /\ page.isReq /\ ~page.isStr /\ page.isStr \in BOOLEAN
      BY <1>1, <1>4 DEF PInv, NetInv, NetMore, PageOK
    <2>2. Asking
      BY <2>1 DEF Asking
    <2>3. ~page'.isReq /\ page'.isStr = page.isStr
      BY <1>4, <2>1, EndedFlags DEF PInv
    <2>4. ~Asking'
      BY <2>1, <2>3 DEF Asking
    <2>5. hist' = [hist EXCEPT !.done = ("error" = "complete")]
      <3>1. hist.done = FALSE /\ hist = [got |-> hist.got, done |-> hist.done, born |-> hist.born]
        BY <2>2, NotDone DEF PInv, ListInv, Counts
      <3>2. hist' = [hist EXCEPT !.done = FALSE]
        BY <1>1, <3>1
      <3>3. ("error" = "complete") = FALSE
        OBVIOUS
      <3> QED BY <3>2, <3>3
    <2>6. Ended(chat.gen, "error", page.isStr) /\ "error" \in {"complete", "error"}
      BY <1>4, <2>1
    <2> QED BY <1>1, <2>1, <2>2, <2>4, <2>5, <2>6, EndedList
  <1> QED BY <1>2, <1>3, <1>4 DEF HeadersReady

LEMMA StreamEndList == ASSUME PInv, NetInv', NEW g \in Gens, StreamEnd(g) PROVE ListInv'
  <1>1. g \in net.live /\ UNCHANGED <<disk, prep>>
    BY DEF StreamEnd
  <1>2. CASE UNCHANGED <<page, queue, mem, chat, hist>>
    BY <1>1, <1>2, SameList DEF Asking
  <1>3. CASE /\ IsCurrentSource(g)
             /\ \/ Ended(g, "complete", FALSE) /\ hist' = [hist EXCEPT !.done = TRUE]
                \/ Ended(g, "error", FALSE) /\ UNCHANGED hist
    <2>1. g = chat.gen /\ page.isStr
      BY <1>1, <1>3 DEF PInv, NetInv, NetMore, IsCurrentSource, Gens
    <2>2. Asking
      BY <2>1 DEF Asking
    <2>3. ~page'.isReq /\ page'.isStr = FALSE
      BY <1>3, <2>1, EndedFlags DEF PInv
    <2>4. ~Asking'
      BY <2>3 DEF Asking
    <2>5. CASE Ended(g, "complete", FALSE) /\ hist' = [hist EXCEPT !.done = TRUE]
      <3>1. ("complete" = "complete") = TRUE /\ "complete" \in {"complete", "error"}
        OBVIOUS
      <3>2. hist' = [hist EXCEPT !.done = ("complete" = "complete")]
        BY <2>5, <3>1
      <3> QED BY <1>1, <2>1, <2>2, <2>4, <2>5, <3>1, <3>2, EndedList
    <2>6. CASE Ended(g, "error", FALSE) /\ UNCHANGED hist
      <3>1. hist.done = FALSE /\ hist = [got |-> hist.got, done |-> hist.done, born |-> hist.born]
        BY <2>2, NotDone DEF PInv, ListInv, Counts
      <3>2. hist' = [hist EXCEPT !.done = FALSE]
        BY <2>6, <3>1
      <3>3. ("error" = "complete") = FALSE /\ "error" \in {"complete", "error"}
        OBVIOUS
      <3>4. hist' = [hist EXCEPT !.done = ("error" = "complete")]
        BY <3>2, <3>3
      <3> QED BY <1>1, <2>1, <2>2, <2>4, <2>6, <3>3, <3>4, EndedList
    <2> QED BY <1>3, <2>5, <2>6
  <1> QED BY <1>2, <1>3 DEF StreamEnd

LEMMA AnswerList ==
    ASSUME PInv, NetInv', Asking, ~Asking', chat.ptxt = <<>>, UNCHANGED <<chat, disk, prep>>, NEW isStr,
           Queued(<<[op |-> "answer", gen |-> chat.gen, txt |-> Full(chat.gen, Len(Letters))]>>, FALSE, isStr),
           hist' = [hist EXCEPT !.got = Len(Letters), !.done = TRUE]
    PROVE  ListInv'
  <1>1. page.busy \in BOOLEAN /\ PageOK /\ queue \in Seq(Updates)
    BY DEF PInv, NetInv, NetMore, ListInv, Shows
  <1>2. PICK u : u = [op |-> "answer", gen |-> chat.gen, txt |-> Full(chat.gen, Len(Letters))]
    OBVIOUS
  <1>3. page'.busy = page.busy /\ queue' = queue \o <<u>> /\ page'.msgs = page.msgs /\ mem' = mem
    BY <1>1, <1>2, QueuedMore
  <1>4. chat.gen \in Gens /\ chat.gen \in Nat
    BY AskingGen DEF Gens
  <1>5. Len(Letters) \in 0..Len(Letters)
    BY LettersFacts
  <1>6. Full(chat.gen, Len(Letters)) \in Texts
    BY <1>4, <1>5, FullOwn
  <1>7. u \in Updates /\ u.op \in Revisions /\ u.gen = chat.gen
    BY <1>2, <1>4, <1>6 DEF Updates, Revisions
  <1>8. PICK ms : ms = After(page.msgs, queue, chat.gen)
    OBVIOUS
  <1>9. At(ms, chat.gen, hist.born, hist.got, hist.done, TRUE, <<>>) /\ hist.got \in 0..Len(Letters)
    <2>1. At(ms, chat.gen, hist.born, hist.got, hist.done, Asking, chat.ptxt) /\ hist.got \in 0..Len(Letters)
      BY <1>8 DEF PInv, ListInv, Shows, Counts
    <2> QED BY <2>1 DEF At
  <1>10. At(Effect(ms, u, chat.gen), chat.gen, hist.born, Len(Letters), TRUE, FALSE, <<>>)
    BY <1>2, <1>4, <1>9, EndEffect
  <1>11. Good(Effect(After(page.msgs, queue, chat.gen), u, chat.gen), chat.gen, hist.born)
    BY <1>8, <1>10 DEF At
  <1>12. AllGood(page.msgs, queue, chat.gen, hist.born) /\ queue' = Followed(queue, u)
    BY <1>3 DEF AllGood, Followed, PInv, ListInv, Shows
  <1>13. /\ queue' \in Seq(Updates)
         /\ After(page.msgs, queue', chat.gen) = Effect(After(page.msgs, queue, chat.gen), u, chat.gen)
         /\ AllGood(page.msgs, queue', chat.gen, hist.born) /\ AllWithin(page.msgs, queue', queue, chat.gen + 1)
    BY <1>1, <1>4, <1>7, <1>11, <1>12, OneQueued
  <1>14. /\ hist'.got = Len(Letters) /\ hist'.done = TRUE /\ hist'.born = hist.born /\ Counts'
    <2>1. hist' = [got |-> Len(Letters), done |-> TRUE, born |-> hist.born]
      BY DEF PInv, ListInv, Counts
    <2> QED BY <1>5, <2>1 DEF PInv, ListInv, Counts
  <1>15. Asking' = FALSE
    BY DEF Asking
  <1>16. Onward(chat.gen, hist.got, hist.done, Asking, chat'.gen, hist'.got, hist'.done, Asking')
    BY <1>15 DEF Onward
  <1>17. At(After(page.msgs, queue', chat.gen), chat.gen, hist.born, hist'.got, hist'.done, Asking', chat'.ptxt)
    BY <1>8, <1>10, <1>13, <1>14, <1>15
  <1>18. \A h \in Nat : /\ Good(After(page.msgs, queue', h), chat.gen, hist.born)
                        /\ Within(After(page.msgs, queue', h), After(page.msgs, queue, h), chat.gen + 1)
    BY <1>13 DEF AllGood, AllWithin
  <1> QED BY <1>3, <1>13, <1>14, <1>16, <1>17, <1>18, QueuedStep

LEMMA CallList == ASSUME PInv, NetInv', NEW c \in net.calls, CallReply(c) PROVE ListInv'
  <1>1. c \in [g : Gens, aborted : BOOLEAN] /\ UNCHANGED <<disk, prep>>
    BY DEF PInv, NetInv, NetRec, CallReply
  <1>2. CASE c.aborted \/ c.g # chat.gen
    <2>1. UNCHANGED <<page, queue, mem, chat, hist>>
      BY <1>2 DEF CallReply, IsCurrentGen
    <2> QED BY <1>1, <2>1, SameList DEF Asking
  <1>3. CASE ~c.aborted /\ c.g = chat.gen
    <2>1. c = [g |-> chat.gen, aborted |-> FALSE]
      BY <1>1, <1>3
    <2>2. page.isReq /\ net.cur = 0 /\ chat.ptxt = <<>>
      BY <2>1 DEF PInv, NetMore
    <2>3. ~page.isStr /\ page.isStr \in BOOLEAN
      BY <1>1, <1>3, <2>2 DEF PInv, NetInv, PageOK, Gens
    <2>4. Asking
      BY <2>2 DEF Asking
    <2>5. CASE Ended(c.g, "error", page.isStr) /\ UNCHANGED hist
      <3>1. ~page'.isReq /\ page'.isStr = page.isStr
        BY <1>3, <2>3, <2>5, EndedFlags DEF PInv
      <3>2. ~Asking'
        BY <2>3, <3>1 DEF Asking
      <3>3. hist.done = FALSE /\ hist = [got |-> hist.got, done |-> hist.done, born |-> hist.born]
        BY <2>4, NotDone DEF PInv, ListInv, Counts
      <3>4. hist' = [hist EXCEPT !.done = FALSE]
        BY <2>5, <3>3
      <3>5. ("error" = "complete") = FALSE /\ "error" \in {"complete", "error"}
        OBVIOUS
      <3>6. hist' = [hist EXCEPT !.done = ("error" = "complete")]
        BY <3>4, <3>5
      <3> QED BY <1>1, <1>3, <2>3, <2>4, <2>5, <3>2, <3>5, <3>6, EndedList
    <2>6. CASE /\ Queued(<<[op |-> "answer", gen |-> c.g,
                            txt |-> [n \in 1..Len(Letters) |-> Delta(c.g, n)]]>>, FALSE, page.isStr)
               /\ hist' = [hist EXCEPT !.got = Len(Letters), !.done = TRUE] /\ UNCHANGED chat
      <3>1. [n \in 1..Len(Letters) |-> Delta(c.g, n)] = Full(c.g, Len(Letters))
        <4>1. PICK L : L = Len(Letters) /\ L \in Nat
          BY LettersFacts
        <4>2. Full(c.g, L) = [n \in 1..(L - 0) |-> Delta(c.g, 0 + n)]
          BY DEF Full, Piece
        <4>3. L - 0 = L /\ \A n \in 1..L : 0 + n = n
          BY <4>1
        <4>4. \A n \in 1..L : Delta(c.g, 0 + n) = Delta(c.g, n)
          BY <4>3
        <4>5. [n \in 1..L |-> Delta(c.g, n)] = [n \in 1..L |-> Delta(c.g, 0 + n)]
          BY <4>4
        <4> QED BY <4>1, <4>2, <4>3, <4>5
      <3>2. Queued(<<[op |-> "answer", gen |-> chat.gen, txt |-> Full(chat.gen, Len(Letters))]>>, FALSE, page.isStr)
        BY <1>3, <2>6, <3>1
      <3>3. PageOK
        BY DEF PInv, NetInv
      <3>4. page'.isReq = FALSE /\ page'.isStr = page.isStr
        BY <2>3, <3>2, <3>3, QueuedFlags
      <3>5. ~Asking'
        BY <2>3, <3>4 DEF Asking
      <3> QED BY <1>1, <2>2, <2>4, <2>6, <3>2, <3>5, AnswerList
    <2> QED BY <1>3, <2>5, <2>6 DEF CallReply, IsCurrentGen
  <1> QED BY <1>2, <1>3


\* A change of the prompt with images alone.
LEMMA PrepList ==
    ASSUME PInv, NetInv', UNCHANGED <<page, queue, chat, mem, disk, hist>>,
           prep' = [on |-> prep'.on, snap |-> prep'.snap], prep'.on \in BOOLEAN,
           SettledList(prep'.snap, chat.gen, hist.born), ~prep'.on => prep'.snap = <<>>,
           Private(mem.list, mem.active, prep'.snap)
    PROVE  ListInv'
  <1>1. NetInv /\ ListInv /\ chat.gen \in Nat /\ chat'.gen = chat.gen /\ chat.gen <= chat'.gen
    BY DEF PInv, NetInv, ChatOK
  <1>2. Asking' = Asking
    BY DEF Asking
  <1>3. Counts' /\ Shows'
    BY <1>1, <1>2 DEF ListInv, Counts, Shows
  <1>4. mem' = [mem EXCEPT !.latest = page'.msgs, !.timer = mem'.timer] /\ mem'.timer \in BOOLEAN
    BY <1>1 DEF ListInv, Refs, Stores
  <1>5. Onward(chat.gen, hist.got, hist.done, Asking, chat'.gen, hist'.got, hist'.done, Asking')
    BY <1>2 DEF Onward
  <1>6. /\ Private(mem.list, mem.active, page'.msgs)
        /\ \A h \in Nat : Private(mem.list, mem.active, After(page'.msgs, queue', h))
    BY <1>1 DEF ListInv, Secrets
  <1> QED BY <1>1, <1>3, <1>4, <1>5, <1>6, FlowStep

\* Nothing is in the empty list.
LEMMA EmptyList ==
    ASSUME NEW G, NEW B, NEW list, NEW active
    PROVE  SettledList(<<>>, G, B) /\ Private(list, active, <<>>) /\ <<>> \in ListsOf(G)
  BY DEF SettledList, ListsOf, Private, Foreign

LEMMA SubmitImagesList == ASSUME PInv, NetInv', SubmitImages PROVE ListInv'
  <1>1. /\ ~page.busy /\ prep' = [on |-> TRUE, snap |-> page.msgs]
        /\ UNCHANGED <<page, queue, chat, mem, disk, hist>>
    BY DEF SubmitImages
  <1>2. SettledList(page.msgs, chat.gen, hist.born) /\ Private(mem.list, mem.active, page.msgs)
    BY <1>1 DEF PInv, ListInv, Shows, Secrets
  <1>3. prep' = [on |-> prep'.on, snap |-> prep'.snap] /\ prep'.on \in BOOLEAN /\ prep'.on
        /\ prep'.snap = page.msgs
    BY <1>1
  <1> QED BY <1>1, <1>2, <1>3, PrepList

LEMMA ImagesList == ASSUME PInv, NetInv', NEW stream \in BOOLEAN, ImagesReady(stream) PROVE ListInv'
  <1>1. prep' = [on |-> FALSE, snap |-> <<>>] /\ disk' = disk
    BY DEF ImagesReady
  <1>2. /\ prep' = [on |-> prep'.on, snap |-> prep'.snap] /\ prep'.on \in BOOLEAN
        /\ prep'.snap = <<>>
    BY <1>1
  <1>3. CASE UNCHANGED <<page, queue, chat, net, mem, hist>>
    BY <1>1, <1>2, <1>3, EmptyList, PrepList
  <1>4. CASE /\ sendChat(stream)
             /\ Queued(Replace(appendUserMessagePair(prep.snap, chat.gen + 1)), TRUE, FALSE)
    <2>1. NetInv /\ ListInv /\ chat.gen \in Nat /\ PageOK /\ page.busy \in BOOLEAN
      BY DEF PInv, NetInv, NetMore, ChatOK
    <2>2. chat.gen + 1 \in Gens /\ chat'.gen = chat.gen + 1 /\ chat'.ptxt = <<>> /\ chat.gen <= chat'.gen
      BY <1>4, <2>1, ConstantsAssumption DEF sendChat, Fresh, Gens
    <2>3. PICK ms, u, B : /\ ms = appendUserMessagePair(prep.snap, chat.gen + 1)
                          /\ u = [op |-> "replace", val |-> ms] /\ B = hist.born
      OBVIOUS
    <2>4. SettledList(prep.snap, chat.gen, B) /\ Private(mem.list, mem.active, prep.snap)
      BY <2>1, <2>3 DEF ListInv, Shows, Secrets
    <2>5. At(ms, chat.gen + 1, B, 0, FALSE, TRUE, <<>>)
      BY <2>1, <2>2, <2>3, <2>4, AskPair
    <2>6. Within(ms, prep.snap, chat.gen + 1)
      BY <2>3, <2>4, AskWithin DEF SettledList, ListsOf
    <2>7. Private(mem.list, mem.active, ms)
      <3>1. mem.list \in Seq(Conv(chat.gen))
        BY <2>1 DEF ListInv, Stores, StoreOK
      <3> QED BY <2>1, <2>4, <2>6, <3>1, PrivateWithin
    <2>8. u.op = "replace" /\ u.val = ms /\ u \in Updates
      <3>1. ms \in Seq(MessagesOf(chat.gen + 1)) /\ MessagesOf(chat.gen + 1) \subseteq Message
        BY <2>5 DEF At, Good, ListsOf, MessagesOf
      <3>2. ms \in Seq(Message)
        BY <3>1, SeqMonotonic
      <3> QED BY <2>3, <3>2 DEF Updates
    <2>9. page'.busy = page.busy /\ queue' = queue \o <<u>> /\ page'.msgs = page.msgs /\ mem' = mem
      <3>1. Queued(<<u>>, TRUE, FALSE)
        BY <1>4, <2>3 DEF Replace
      <3> QED BY <2>1, <3>1, QueuedMore
    <2>10. queue \in Seq(Updates)
      BY <2>1 DEF ListInv, Shows
    <2>11. queue' \in Seq(Updates)
      BY <2>8, <2>9, <2>10
    <2>12. \A h : After(page'.msgs, queue', h) = ms
      <3>1. \A h : After(page.msgs, queue \o <<u>>, h) = Effect(After(page.msgs, queue, h), u, h)
        BY <2>10, AfterMore
      <3>2. \A h : Effect(After(page.msgs, queue, h), u, h) = ms
        BY <2>8 DEF Effect
      <3> QED BY <2>9, <3>1, <3>2
    <2>13. Asking' = TRUE
      <3>1. page'.isReq = TRUE
        BY <1>4, <2>1, QueuedFlags
      <3> QED BY <3>1 DEF Asking
    <2>14. hist'.got = 0 /\ hist'.done = FALSE /\ hist'.born = B /\ Counts'
      <3>1. hist' = [got |-> 0, done |-> FALSE, born |-> B]
        BY <1>4, <2>1, <2>3 DEF sendChat, ListInv, Counts
      <3>2. 0 \in 0..Len(Letters) /\ B \in 0..(chat.gen + 1)
        BY <2>1, <2>3, LettersFacts DEF ListInv, Counts
      <3> QED BY <2>2, <3>1, <3>2 DEF Counts
    <2>15. page.msgs \in ListsOf(chat.gen + 1)
           /\ (~page.busy => SettledList(page.msgs, chat.gen + 1, B))
      <3>1. page.msgs \in ListsOf(chat.gen) /\ (~page.busy => SettledList(page.msgs, chat.gen, B))
        BY <2>1, <2>3 DEF ListInv, Shows
      <3>2. ListsOf(chat.gen) \subseteq ListsOf(chat.gen + 1)
        BY <2>1, MoreMessages
      <3> QED BY <3>1, <3>2 DEF SettledList
    <2>16. At(ms, chat'.gen, hist'.born, hist'.got, hist'.done, Asking', chat'.ptxt)
      BY <2>2, <2>5, <2>13, <2>14
    <2>17. Shows'
      <3>1. Good(ms, chat'.gen, hist'.born)
        BY <2>16 DEF At
      <3>2. SettledList(prep'.snap, chat'.gen, hist'.born) /\ (~prep'.on => prep'.snap = <<>>)
        BY <1>2, EmptyList
      <3>3. page'.msgs \in ListsOf(chat'.gen) /\ (~page'.busy => SettledList(page'.msgs, chat'.gen, hist'.born))
        BY <2>2, <2>9, <2>14, <2>15
      <3> QED BY <2>11, <2>12, <2>16, <3>1, <3>2, <3>3 DEF Shows
    <2>18. mem' = [mem EXCEPT !.latest = page'.msgs, !.timer = mem'.timer] /\ mem'.timer = mem.timer
           /\ mem'.timer \in BOOLEAN
      BY <2>1, <2>9 DEF ListInv, Refs, Stores
    <2>19. Onward(chat.gen, hist.got, hist.done, Asking, chat'.gen, hist'.got, hist'.done, Asking')
      BY <2>1, <2>2, <2>14 DEF Onward
    <2>20. Private(mem.list, mem.active, page'.msgs) /\ Private(mem.list, mem.active, prep'.snap)
      BY <1>2, <2>1, <2>9, EmptyList DEF ListInv, Secrets
    <2>21. \A h \in Nat : Private(mem.list, mem.active, After(page'.msgs, queue', h))
      BY <2>7, <2>12
    <2>22. hist'.born = hist.born
      BY <2>3, <2>14
    <2> QED BY <1>1, <1>2, <2>1, <2>2, <2>9, <2>14, <2>17, <2>18, <2>19, <2>20, <2>21, <2>22, FlowStep
  <1> QED BY <1>3, <1>4 DEF ImagesReady

-----------------------------------------------------------------------------
(* Conversations: what is kept, capped and saved.                          *)

\* Some of the conversations of a store.
LEMMA StorePart ==
    ASSUME NEW G, NEW s, StoreOK(s, G), NEW r \in Seq(Conv(G)), Embeds(r, s)
    PROVE  StoreOK(r, G)
  <1>1. PICK f \in [DOMAIN r -> DOMAIN s] :
          (\A i \in DOMAIN r : r[i] = s[f[i]]) /\ \A i, j \in DOMAIN r : f[i] = f[j] => i = j
    BY DEF Embeds
  <1>2. UniqueIds(s) /\ Apart(s)
    BY DEF StoreOK
  <1>3. UniqueIds(r)
    BY <1>1, <1>2 DEF UniqueIds
  <1>4. Apart(r)
    BY <1>1, <1>2 DEF Apart
  <1> QED BY <1>3, <1>4 DEF StoreOK

LEMMA OnlyPart ==
    ASSUME NEW G, NEW s, StoreOK(s, G), NEW S, NEW r, r = Only(s, S)
    PROVE  /\ StoreOK(r, G) /\ Embeds(r, s) /\ \A i \in DOMAIN r : r[i].id \in S
           /\ \A i \in DOMAIN s : s[i].id \in S => \E j \in DOMAIN r : r[j] = s[i]
  <1>1. PICK T : T = {c \in Range(s) : c.id \in S}
    OBVIOUS
  <1>2. s \in Seq(Conv(G)) /\ r = Among(s, T)
    BY <1>1 DEF StoreOK, Only
  <1>3. AmongRight(s, T, Conv(G))
    BY <1>2, AmongIsRight
  <1>4. r \in Seq(Conv(G)) /\ Embeds(r, s) /\ \A i \in DOMAIN r : r[i] \in T
    BY <1>2, <1>3 DEF AmongRight
  <1>5. \A i \in DOMAIN s : s[i] \in T => \E j \in DOMAIN r : r[j] = s[i]
    BY <1>2, <1>3 DEF AmongRight
  <1>6. \A i \in DOMAIN s : s[i].id \in S => s[i] \in T
    BY <1>1 DEF Range
  <1> QED BY <1>1, <1>4, <1>5, <1>6, StorePart

\* The most recently updated conversation is kept.
LEMMA CappedPart ==
    ASSUME NEW G, NEW s, StoreOK(s, G), NEW recent \in Seq(Ids), NEW c, c = Capped(s, recent)
    PROVE  /\ StoreOK(c.list, G) /\ Embeds(c.list, s) /\ c.recent \in Seq(Ids)
           /\ \A i \in DOMAIN s : recent # <<>> /\ s[i].id = recent[1] =>
                \E j \in DOMAIN c.list : c.list[j] = s[i]
  <1>1. MaxConversations \in Nat /\ MaxConversations >= 1
    BY ConstantsAssumption
  <1>2. PICK n : n = IF Len(recent) < MaxConversations THEN Len(recent) ELSE MaxConversations
    OBVIOUS
  <1>3. n \in 0..Len(recent) /\ (recent # <<>> => n >= 1)
    <2>1. Len(recent) \in Nat /\ (recent # <<>> => Len(recent) >= 1)
      OBVIOUS
    <2> QED BY <1>1, <1>2, <2>1
  <1>4. PICK top : top = SubSeq(recent, 1, n)
    OBVIOUS
  <1>5. c = [list |-> Only(s, Range(top)), recent |-> top]
    BY <1>2, <1>4 DEF Capped
  <1>6. top \in Seq(Ids)
    BY <1>3, <1>4
  <1>7. recent # <<>> => recent[1] \in Range(top)
    <2> SUFFICES ASSUME recent # <<>> PROVE recent[1] \in Range(top)
      OBVIOUS
    <2>1. 1 \in 1..n /\ DOMAIN top = 1..n /\ top[1] = recent[1]
      BY <1>3, <1>4
    <2> QED BY <2>1 DEF Range
  <1>8. c.list = Only(s, Range(top)) /\ c.recent = top
    BY <1>5
  <1>9. /\ StoreOK(c.list, G) /\ Embeds(c.list, s)
        /\ \A i \in DOMAIN s : s[i].id \in Range(top) => \E j \in DOMAIN c.list : c.list[j] = s[i]
    BY <1>8, OnlyPart
  <1> QED BY <1>6, <1>7, <1>8, <1>9

\* What is on the disk.
DiskOK(d, G) ==
  /\ d = [list |-> d.list, recent |-> d.recent, active |-> d.active]
  /\ StoreOK(d.list, G) /\ d.recent \in Seq(Ids)

LEMMA LeastIn == ASSUME NEW T, T \subseteq Nat, T # {} PROVE Min(T) \in T
  <1>1. \E n \in T : \A k \in T : n <= k
    BY A!Least
  <1> QED BY <1>1 DEF Min

LEMMA SavedPart ==
    ASSUME NEW G, NEW d, DiskOK(d, G), NEW s, StoreOK(s, G), NEW recent \in Seq(Ids),
           NEW e, e = Saved(d, s, recent)
    PROVE  DiskOK(e, G)
  <1>1. PICK c : c = Capped(s, recent)
    OBVIOUS
  <1>2. StoreOK(c.list, G) /\ c.recent \in Seq(Ids) /\ c.list \in Seq(Conv(G)) /\ Len(c.list) \in Nat
    BY <1>1, CappedPart DEF StoreOK
  <1> DEFINE tries == {n \in 0..(Len(c.list) - 1) : Fits(SubSeq(c.list, n + 1, Len(c.list)))}
  <1>3. CASE tries = {}
    BY <1>1, <1>3 DEF Saved
  <1>4. CASE tries # {}
    <2>1. PICK n : n = Min(tries)
      OBVIOUS
    <2>2. n \in tries
      <3>1. tries \subseteq Nat
        BY <1>2
      <3> HIDE DEF tries
      <3> QED BY <1>4, <2>1, <3>1, LeastIn
    <2>3. PICK k : k = SubSeq(c.list, n + 1, Len(c.list))
      OBVIOUS
    <2>4. n + 1 \in 1..(Len(c.list) + 1) /\ Len(c.list) \in 0..Len(c.list)
      BY <1>2, <2>2
    <2>5. k \in Seq(Conv(G)) /\ Embeds(k, c.list)
      BY <1>2, <2>3, <2>4, SubSeqEmbeds
    <2>6. StoreOK(k, G)
      BY <1>2, <2>5, StorePart
    <2>7. PICK q : q = Among(c.recent, IdsOf(k))
      OBVIOUS
    <2>8. q \in Seq(Ids)
      BY <1>2, <2>7, AmongIsRight DEF AmongRight
    <2>9. e = [d EXCEPT !.list = k, !.recent = q]
      BY <1>1, <1>4, <2>1, <2>3, <2>7 DEF Saved
    <2>10. e = [list |-> k, recent |-> q, active |-> d.active]
      BY <2>9 DEF DiskOK
    <2> QED BY <2>6, <2>8, <2>10 DEF DiskOK
  <1> QED BY <1>3, <1>4

\* The disk with another conversation open.
LEMMA OpenedPart ==
    ASSUME NEW G, NEW d, DiskOK(d, G), NEW a, NEW e, e = [d EXCEPT !.active = a]
    PROVE  DiskOK(e, G) /\ e.list = d.list
  <1>1. e = [list |-> d.list, recent |-> d.recent, active |-> a]
    BY DEF DiskOK
  <1> QED BY <1>1 DEF DiskOK

\* The refs after the messages shown were put into the active conversation.
WithActive(list, active, ms) ==
  [i \in DOMAIN list |-> [id |-> list[i].id, msgs |-> IF list[i].id = active THEN ms ELSE list[i].msgs]]
StoredIn(m, ms, list, active) ==
  /\ m = [list |-> WithActive(list, active, ms), recent |-> m.recent, active |-> active,
          latest |-> ms, timer |-> FALSE]
  /\ m.recent \in Seq(Ids)

LEMMA StoredList == ASSUME ListInv PROVE StoredIn(Stored(mem), page.msgs, mem.list, mem.active)
  <1>1. /\ mem = [list |-> mem.list, recent |-> mem.recent, active |-> mem.active,
                  latest |-> mem.latest, timer |-> mem.timer]
        /\ mem.recent \in Seq(Ids) /\ mem.latest = page.msgs /\ mem.list \in Seq(Conv(chat.gen))
    BY DEF ListInv, Refs, Stores, StoreOK
  <1>2. PICK L, a, l, ms : L = mem.list /\ a = mem.active /\ l = mem.recent /\ ms = page.msgs
    OBVIOUS
  <1>3. PICK q : q = IF a \in IdsOf(L) THEN Newest(a, l) ELSE l
    OBVIOUS
  <1>4. PICK K : K = [i \in DOMAIN L |-> IF L[i].id = a THEN [L[i] EXCEPT !.msgs = ms] ELSE L[i]]
    OBVIOUS
  <1>5. Stored(mem) = [mem EXCEPT !.list = K, !.recent = q, !.timer = FALSE]
    BY <1>1, <1>2, <1>3, <1>4 DEF Stored
  <1>6. Stored(mem) = [list |-> K, recent |-> q, active |-> a, latest |-> ms, timer |-> FALSE]
    BY <1>1, <1>2, <1>5
  <1>7. q \in Seq(Ids)
    <2>1. CASE a \in IdsOf(L)
      <3>1. PICK r : r = Among(l, Ids \ {a})
        OBVIOUS
      <3>2. r \in Seq(Ids)
        BY <1>1, <1>2, <3>1, AmongIsRight DEF AmongRight
      <3>3. a \in Ids
        <4>1. \A i \in DOMAIN L : L[i] \in Conv(chat.gen)
          BY <1>1, <1>2
        <4> QED BY <2>1, <4>1 DEF IdsOf, Conv
      <3>4. q = <<a>> \o r
        BY <1>3, <2>1, <3>1 DEF Newest
      <3> QED BY <3>2, <3>3, <3>4
    <2>2. CASE a \notin IdsOf(L)
      BY <1>1, <1>2, <1>3, <2>2
    <2> QED BY <2>1, <2>2
  <1>8. \A i \in DOMAIN L : L[i] \in Conv(chat.gen) /\ L[i] = [id |-> L[i].id, msgs |-> L[i].msgs]
    <2>1. \A i \in DOMAIN L : L[i] \in Conv(chat.gen)
      BY <1>1, <1>2
    <2>2. \A c \in Conv(chat.gen) : c = [id |-> c.id, msgs |-> c.msgs]
      BY DEF Conv
    <2> QED BY <2>1, <2>2
  <1>9. K = WithActive(L, a, ms)
    <2>1. \A i \in DOMAIN L :
            K[i] = [id |-> L[i].id, msgs |-> IF L[i].id = a THEN ms ELSE L[i].msgs]
      <3> TAKE i \in DOMAIN L
      <3>1. CASE L[i].id = a
        BY <1>4, <1>8, <3>1
      <3>2. CASE L[i].id # a
        BY <1>4, <1>8, <3>2
      <3> QED BY <3>1, <3>2
    <2> QED BY <1>4, <2>1 DEF WithActive
  <1> QED BY <1>2, <1>6, <1>7, <1>9 DEF StoredIn

\* What is stored is a store again.
LEMMA StoredStore ==
    ASSUME NEW G, NEW list, StoreOK(list, G), NEW active, NEW ms \in ListsOf(G), Private(list, active, ms),
           NEW K, K = WithActive(list, active, ms)
    PROVE  StoreOK(K, G)
  <1>1. /\ DOMAIN K = DOMAIN list
        /\ \A i \in DOMAIN list :
             K[i] = [id |-> list[i].id, msgs |-> IF list[i].id = active THEN ms ELSE list[i].msgs]
    BY DEF WithActive
  <1>2. /\ \A i \in DOMAIN list : K[i].id = list[i].id
        /\ \A i \in DOMAIN list : K[i].msgs = IF list[i].id = active THEN ms ELSE list[i].msgs
    BY <1>1
  <1>3. UniqueIds(list) /\ Apart(list) /\ list \in Seq(Conv(G))
    BY DEF StoreOK
  <1>4. UniqueIds(K)
    BY <1>1, <1>2, <1>3 DEF UniqueIds
  <1>5. ASSUME NEW i \in DOMAIN K, NEW j \in DOMAIN K, i # j PROVE Foreign(K[i].msgs, K[j].msgs)
    <2>1. list[i].id # list[j].id /\ Foreign(list[i].msgs, list[j].msgs)
      BY <1>1, <1>3, <1>5 DEF UniqueIds, Apart
    <2>2. CASE list[i].id = active
      <3>1. K[i].msgs = ms /\ K[j].msgs = list[j].msgs /\ Foreign(list[j].msgs, ms)
        BY <1>1, <1>2, <2>1, <2>2 DEF Private
      <3> QED BY <3>1 DEF Foreign
    <2>3. CASE list[j].id = active
      BY <1>1, <1>2, <2>1, <2>3 DEF Private
    <2>4. CASE list[i].id # active /\ list[j].id # active
      BY <1>1, <1>2, <2>1, <2>4
    <2> QED BY <2>2, <2>3, <2>4
  <1>6. K \in Seq(Conv(G))
    <2>1. \A i \in DOMAIN list : list[i] \in Conv(G)
      BY <1>3
    <2>2. \A i \in DOMAIN list : K[i] \in Conv(G)
      BY <1>1, <2>1 DEF Conv
    <2>3. PICK n \in Nat : DOMAIN list = 1..n
      BY <1>3
    <2>4. K \in [1..n -> Conv(G)]
      BY <2>2, <2>3 DEF WithActive
    <2> QED BY <2>4
  <1> QED BY <1>4, <1>5, <1>6 DEF Apart, StoreOK

LEMMA SaveTimerList == ASSUME PInv, NetInv', SaveTimer PROVE ListInv'
  <1>1. /\ mem' = Stored(mem) /\ disk' = Saved(disk, mem'.list, mem'.recent)
        /\ UNCHANGED <<page, queue, chat, prep, hist>> /\ ListInv
    BY DEF SaveTimer, PInv
  <1>2. PICK L, a, G, ms : L = mem.list /\ a = mem.active /\ G = chat.gen /\ ms = page.msgs
    OBVIOUS
  <1>3. /\ StoreOK(L, G) /\ Private(L, a, ms) /\ ms \in ListsOf(G) /\ DiskOK(disk, G)
    BY <1>1, <1>2 DEF ListInv, Stores, Secrets, Shows, DiskOK, Refs
  <1>4. PICK K : K = WithActive(L, a, ms)
    OBVIOUS
  <1>5. /\ mem' = [list |-> K, recent |-> mem'.recent, active |-> a, latest |-> ms, timer |-> FALSE]
        /\ mem'.recent \in Seq(Ids)
    BY <1>1, <1>2, <1>4, StoredList DEF StoredIn
  <1>6. StoreOK(K, G)
    BY <1>3, <1>4, StoredStore
  <1>7. DiskOK(disk', G)
    <2>1. mem'.list = K
      BY <1>5
    <2> QED BY <1>1, <1>3, <1>5, <1>6, <2>1, SavedPart
  <1>8. /\ DOMAIN K = DOMAIN L
        /\ \A i \in DOMAIN L : K[i].id = L[i].id
        /\ \A i \in DOMAIN L : L[i].id = a => K[i].msgs = ms
        /\ \A i \in DOMAIN L : L[i].id # a => K[i].msgs = L[i].msgs
    BY <1>4 DEF WithActive
  <1>9. Refs'
    <2>1. /\ mem' = [list |-> mem'.list, recent |-> mem'.recent, active |-> mem'.active,
                     latest |-> mem'.latest, timer |-> mem'.timer]
          /\ mem'.timer \in BOOLEAN
      <3>1. /\ mem'.list = K /\ mem'.active = a /\ mem'.latest = ms /\ mem'.timer = FALSE
        BY <1>5
      <3> QED BY <1>5, <3>1
    <2>2. prep' = [on |-> prep'.on, snap |-> prep'.snap] /\ prep'.on \in BOOLEAN
      BY <1>1 DEF ListInv, Refs
    <2> QED BY <1>5, <1>7, <2>1, <2>2 DEF Refs, DiskOK
  <1>10. Asking' = Asking
    BY <1>1 DEF Asking
  <1>11. Counts' /\ Shows'
    BY <1>1, <1>10 DEF ListInv, Counts, Shows
  <1>12. mem'.list = K /\ mem'.active = a /\ mem'.latest = ms /\ chat' = chat /\ page'.msgs = ms
    BY <1>1, <1>2, <1>5
  <1>13. Resting(K, a, G, hist.born, hist.got, hist.done, Asking)
    <2>1. Resting(L, a, G, hist.born, hist.got, hist.done, Asking)
      BY <1>1, <1>2 DEF ListInv, Stores
    <2> QED BY <1>8, <2>1 DEF Resting
  <1>14. \E i \in DOMAIN K : K[i].id = a
    BY <1>1, <1>2, <1>8 DEF ListInv, Stores
  <1>15. Stores'
    BY <1>1, <1>2, <1>6, <1>7, <1>8, <1>10, <1>12, <1>13, <1>14 DEF Stores, DiskOK
  <1>16. \A r : Private(L, a, r) => Private(K, a, r)
    BY <1>8 DEF Private
  <1>17. Secrets'
    BY <1>1, <1>2, <1>12, <1>16 DEF ListInv, Secrets
  <1> QED BY <1>9, <1>11, <1>15, <1>17 DEF ListInv

-----------------------------------------------------------------------------
(* A conversation is opened.                                               *)

AllCalm(list, G, B, got, done) == \A i \in DOMAIN list : Calm(list[i].msgs, G, B, got, done)

\* A step after which conversation k is open and nothing is asked for.
LEMMA OpenStep ==
    ASSUME NetInv', Counts', queue' = <<>>, page'.busy = FALSE, Asking' = FALSE, chat'.ptxt = <<>>,
           prep' = [on |-> FALSE, snap |-> <<>>], DiskOK(disk', chat'.gen),
           NEW L, NEW q \in Seq(Ids), NEW k \in DOMAIN L, NEW t \in BOOLEAN,
           mem' = [list |-> L, recent |-> q, active |-> L[k].id, latest |-> L[k].msgs, timer |-> t],
           page'.msgs = L[k].msgs, StoreOK(L, chat'.gen),
           AllCalm(L, chat'.gen, hist'.born, hist'.got, hist'.done)
    PROVE  ListInv'
  <1>1. PICK ms, a : ms = L[k].msgs /\ a = L[k].id
    OBVIOUS
  <1>2. /\ mem'.list = L /\ mem'.recent = q /\ mem'.active = a /\ mem'.latest = ms /\ mem'.timer = t
        /\ page'.msgs = ms /\ prep'.on = FALSE /\ prep'.snap = <<>>
    BY <1>1
  <1>3. Refs'
    <2>1. /\ mem' = [list |-> mem'.list, recent |-> mem'.recent, active |-> mem'.active,
                     latest |-> mem'.latest, timer |-> mem'.timer]
          /\ mem'.timer \in BOOLEAN
      BY <1>1, <1>2
    <2>2. prep' = [on |-> prep'.on, snap |-> prep'.snap] /\ prep'.on \in BOOLEAN
      BY <1>2
    <2> QED BY <1>2, <2>1, <2>2 DEF Refs, DiskOK
  <1>4. chat'.gen \in Nat
    BY DEF NetInv, ChatOK
  <1>5. ms \in ListsOf(chat'.gen) /\ Calm(ms, chat'.gen, hist'.born, hist'.got, hist'.done)
    <2>1. L \in Seq(Conv(chat'.gen))
      BY DEF StoreOK
    <2>2. L[k] \in Conv(chat'.gen)
      BY <2>1
    <2> QED BY <1>1, <2>2 DEF Conv, AllCalm
  <1>6. \A h : After(page'.msgs, queue', h) = ms
    BY <1>2, AfterNone
  <1>7. Good(ms, chat'.gen, hist'.born) /\ SettledList(ms, chat'.gen, hist'.born)
    BY <1>5 DEF Good, Calm, SettledList
  <1>8. At(ms, chat'.gen, hist'.born, hist'.got, hist'.done, Asking', chat'.ptxt)
    BY <1>5, <1>7 DEF At
  <1>9. Shows'
    <2>1. <<>> \in Seq(Updates)
      OBVIOUS
    <2>2. SettledList(prep'.snap, chat'.gen, hist'.born)
      BY <1>2, EmptyList
    <2> QED BY <1>2, <1>5, <1>6, <1>7, <1>8, <2>1, <2>2 DEF Shows
  <1>10. UniqueIds(L) /\ Apart(L)
    BY DEF StoreOK
  <1>11. \A i \in DOMAIN L : L[i].id = a => L[i].msgs = ms
    BY <1>1, <1>10 DEF UniqueIds
  <1>12. Private(L, a, ms) /\ Private(L, a, <<>>)
    BY <1>1, <1>10, EmptyList DEF Apart, Private
  <1>13. Secrets'
    BY <1>2, <1>6, <1>12 DEF Secrets
  <1>14. Resting(L, a, chat'.gen, hist'.born, hist'.got, hist'.done, Asking')
    BY DEF Resting, AllCalm
  <1>15. Stores'
    BY <1>1, <1>2, <1>11, <1>14 DEF Stores, DiskOK
  <1> QED BY <1>3, <1>9, <1>13, <1>15 DEF ListInv

\* A conversation is shown; the refs are as they were set.
LEMMA ShowStep ==
    ASSUME PageOK, queue = <<>>, NEW m, Show(m)
    PROVE  /\ page'.msgs = m.latest /\ mem' = m /\ queue' = <<>> /\ Asking' = Asking
           /\ page'.busy = Asking'
  <1>1. PICK us : us = <<[op |-> "set", val |-> m.latest]>>
    OBVIOUS
  <1>2. Shown(us, chat.gen, m, page.isReq, page.isStr) /\ page.isReq \in BOOLEAN /\ page.isStr \in BOOLEAN
    BY <1>1 DEF Show, PageOK
  <1>3. queue \o us = us
    BY <1>1
  <1>4. PICK r : r = Rendered(queue \o us, chat.gen)
    OBVIOUS
  <1>5. r = Unrendered(m.latest)
    BY <1>1, <1>3, <1>4, RenderedSet
  <1>6. r.ms = m.latest /\ ~r.dirty
    BY <1>5 DEF Unrendered
  <1>7. page'.msgs = r.ms /\ mem' = persistMessages(m, r)
    BY <1>2, <1>4 DEF Shown
  <1>8. mem' = m
    BY <1>6, <1>7 DEF persistMessages
  <1>9. page'.isReq = page.isReq /\ page'.isStr = page.isStr
    BY <1>2, ShownFlags
  <1>10. queue' = <<>> /\ page'.busy = Asking'
    BY <1>2, ShownMore
  <1> QED BY <1>6, <1>7, <1>8, <1>9, <1>10 DEF Asking

\* The refs with these parts.
Ref(L, q, a, ms, t) == [list |-> L, recent |-> q, active |-> a, latest |-> ms, timer |-> t]

LEMMA OpenedRefs ==
    ASSUME NEW m, NEW L, NEW q, NEW a, NEW ms, NEW t, NEW c, m = Ref(L, q, a, ms, t)
    PROVE  Opened(m, c) = Ref(L, q, c.id, c.msgs, t)
  <1>1. PICK x, y : x = c.id /\ y = c.msgs
    OBVIOUS
  <1>2. Opened(m, c) = [m EXCEPT !.active = x, !.latest = y]
    BY <1>1 DEF Opened
  <1>3. [m EXCEPT !.active = x, !.latest = y] = [list |-> L, recent |-> q, active |-> x, latest |-> y, timer |-> t]
    <2>1. PICK n : n = [m EXCEPT !.active = x]
      OBVIOUS
    <2>2. n = [list |-> L, recent |-> q, active |-> x, latest |-> ms, timer |-> t]
      BY <2>1 DEF Ref
    <2>3. [m EXCEPT !.active = x, !.latest = y] = [n EXCEPT !.latest = y]
      BY <2>1
    <2> QED BY <2>2, <2>3
  <1> QED BY <1>1, <1>2, <1>3 DEF Ref

\* What the sidebar finds: nothing is asked for or waits, and the refs and the
\* disk once the open conversation is saved.
LEMMA SidebarList ==
    ASSUME ~Hasty, PInv, SidebarEnabled
    PROVE  /\ queue = <<>> /\ PageOK /\ page.busy = FALSE /\ Asking = FALSE /\ chat.ptxt = <<>>
           /\ prep = [on |-> FALSE, snap |-> <<>>]
           /\ StoreOK(mem.list, chat.gen) /\ DiskOK(disk, chat.gen) /\ mem.recent \in Seq(Ids)
           /\ StoredIn(LeaveConversation, page.msgs, mem.list, mem.active)
           /\ StoreOK(WithActive(mem.list, mem.active, page.msgs), chat.gen)
           /\ AllCalm(WithActive(mem.list, mem.active, page.msgs), chat.gen, hist.born, hist.got, hist.done)
           /\ DiskOK(SavedOnLeave, chat.gen)
  <1>1. ~page.busy /\ ListSettled /\ ListInv /\ PageOK /\ page.busy \in BOOLEAN
    BY DEF SidebarEnabled, PInv, NetInv, NetMore
  <1>2. /\ queue = <<>> /\ ~prep.on /\ page.busy = Asking
        /\ At(page.msgs, chat.gen, hist.born, hist.got, hist.done, Asking, chat.ptxt)
        /\ Private(mem.list, mem.active, page.msgs) /\ page.msgs \in ListsOf(chat.gen)
    BY <1>1, IdleList
  <1>3. page.busy = FALSE /\ Asking = FALSE
    BY <1>1, <1>2
  <1>4. chat.ptxt = <<>> /\ Calm(page.msgs, chat.gen, hist.born, hist.got, hist.done)
    BY <1>2, <1>3 DEF At
  <1>5. prep = [on |-> FALSE, snap |-> <<>>]
    <2>1. prep = [on |-> prep.on, snap |-> prep.snap] /\ prep.on \in BOOLEAN /\ prep.snap = <<>>
      BY <1>1, <1>2 DEF ListInv, Refs, Shows
    <2>2. prep.on = FALSE
      BY <1>2, <2>1
    <2> QED BY <2>1, <2>2
  <1>6. StoreOK(mem.list, chat.gen) /\ DiskOK(disk, chat.gen) /\ mem.recent \in Seq(Ids)
    BY <1>1 DEF ListInv, Stores, Refs, DiskOK
  <1>7. PICK K : K = WithActive(mem.list, mem.active, page.msgs)
    OBVIOUS
  <1>8. StoreOK(K, chat.gen)
    BY <1>2, <1>6, <1>7, StoredStore
  <1>9. StoredIn(LeaveConversation, page.msgs, mem.list, mem.active)
    <2>1. CASE mem.timer
      BY <1>1, <2>1, StoredList DEF LeaveConversation
    <2>2. CASE ~mem.timer
      <3>1. /\ mem = [list |-> mem.list, recent |-> mem.recent, active |-> mem.active,
                      latest |-> mem.latest, timer |-> mem.timer]
            /\ mem.timer \in BOOLEAN
            /\ mem.latest = page.msgs /\ mem.list \in Seq(Conv(chat.gen))
            /\ \A i \in DOMAIN mem.list : mem.list[i].id = mem.active => mem.list[i].msgs = page.msgs
        BY <1>1, <2>2 DEF ListInv, Refs, Stores, StoreOK
      <3>2. PICK L, a, ms : L = mem.list /\ a = mem.active /\ ms = page.msgs
        OBVIOUS
      <3>3. \A i \in DOMAIN L : L[i] = [id |-> L[i].id, msgs |-> L[i].msgs]
        <4>1. \A i \in DOMAIN L : L[i] \in Conv(chat.gen)
          BY <3>1, <3>2
        <4>2. \A c \in Conv(chat.gen) : c = [id |-> c.id, msgs |-> c.msgs]
          BY DEF Conv
        <4> QED BY <4>1, <4>2
      <3>4. \A i \in DOMAIN L : L[i] = [id |-> L[i].id, msgs |-> IF L[i].id = a THEN ms ELSE L[i].msgs]
        <4> TAKE i \in DOMAIN L
        <4>1. L[i].id = a => L[i].msgs = ms
          BY <3>1, <3>2
        <4> QED BY <3>3, <4>1
      <3>5. L = [i \in DOMAIN L |-> L[i]]
        BY <3>1, <3>2
      <3>6. L = WithActive(L, a, ms)
        BY <3>4, <3>5 DEF WithActive
      <3>7. mem.timer = FALSE
        BY <2>2, <3>1
      <3>8. mem = [list |-> WithActive(L, a, ms), recent |-> mem.recent, active |-> a,
                   latest |-> ms, timer |-> FALSE]
        BY <3>1, <3>2, <3>6, <3>7
      <3> QED BY <1>6, <2>2, <3>2, <3>8 DEF LeaveConversation, StoredIn
    <2> QED BY <2>1, <2>2
  <1>10. AllCalm(K, chat.gen, hist.born, hist.got, hist.done)
    <2>1. Resting(mem.list, mem.active, chat.gen, hist.born, hist.got, hist.done, Asking)
      BY <1>1 DEF ListInv, Stores
    <2>2. DOMAIN K = DOMAIN mem.list /\ \A i \in DOMAIN mem.list :
            K[i].msgs = IF mem.list[i].id = mem.active THEN page.msgs ELSE mem.list[i].msgs
      BY <1>7 DEF WithActive
    <2> QED BY <1>4, <2>1, <2>2 DEF Resting, AllCalm
  <1>11. DiskOK(SavedOnLeave, chat.gen)
    <2>1. CASE mem.timer
      <3>1. PICK s : s = Stored(mem)
        OBVIOUS
      <3>2. s = [list |-> K, recent |-> s.recent, active |-> mem.active, latest |-> page.msgs, timer |-> FALSE]
            /\ s.recent \in Seq(Ids)
        BY <1>1, <1>7, <3>1, StoredList DEF StoredIn
      <3>3. s.list = K
        BY <3>2
      <3>4. SavedOnLeave = Saved(disk, s.list, s.recent)
        BY <2>1, <3>1 DEF SavedOnLeave
      <3> QED BY <1>6, <1>8, <3>2, <3>3, <3>4, SavedPart
    <2>2. CASE ~mem.timer
      BY <1>6, <2>2 DEF SavedOnLeave
    <2> QED BY <2>1, <2>2
  <1> QED BY <1>1, <1>2, <1>3, <1>4, <1>5, <1>6, <1>7, <1>8, <1>9, <1>10, <1>11

LEMMA SwitchList == ASSUME ~Hasty, PInv, NetInv', NEW id \in Ids, SwitchConversation(id) PROVE ListInv'
  <1>1. PICK left : left = LeaveConversation
    OBVIOUS
  <1>2. PICK k \in DOMAIN left.list : Show(Opened(left, left.list[k]))
    BY <1>1 DEF SwitchConversation
  <1>3. /\ SidebarEnabled /\ disk' = [SavedOnLeave EXCEPT !.active = id]
        /\ UNCHANGED <<chat, net, prep, hist>>
    BY DEF SwitchConversation
  <1>4. PICK L : L = WithActive(mem.list, mem.active, page.msgs)
    OBVIOUS
  <1>5. /\ queue = <<>> /\ PageOK /\ Asking = FALSE /\ chat.ptxt = <<>>
        /\ prep = [on |-> FALSE, snap |-> <<>>]
        /\ StoredIn(left, page.msgs, mem.list, mem.active) /\ StoreOK(L, chat.gen)
        /\ AllCalm(L, chat.gen, hist.born, hist.got, hist.done) /\ DiskOK(SavedOnLeave, chat.gen)
    BY <1>1, <1>3, <1>4, SidebarList
  <1>6. /\ left = [list |-> L, recent |-> left.recent, active |-> mem.active, latest |-> page.msgs, timer |-> FALSE]
        /\ left.recent \in Seq(Ids) /\ left.list = L
    BY <1>4, <1>5 DEF StoredIn
  <1>7. PICK m : m = Opened(left, L[k])
    OBVIOUS
  <1>8. m = [list |-> L, recent |-> left.recent, active |-> L[k].id, latest |-> L[k].msgs, timer |-> FALSE]
    <2>1. PICK f : f = FALSE
      OBVIOUS
    <2>2. left = Ref(L, left.recent, mem.active, page.msgs, f)
      BY <1>6, <2>1 DEF Ref
    <2>3. m = Ref(L, left.recent, L[k].id, L[k].msgs, f)
      BY <1>7, <2>2, OpenedRefs
    <2> QED BY <2>1, <2>3 DEF Ref
  <1>9. /\ page'.msgs = m.latest /\ mem' = m /\ queue' = <<>> /\ Asking' = FALSE /\ page'.busy = FALSE
    BY <1>2, <1>5, <1>6, <1>7, ShowStep
  <1>10. DiskOK(disk', chat.gen)
    BY <1>3, <1>5, OpenedPart
  <1>11. Counts'
    BY <1>3 DEF PInv, ListInv, Counts
  <1>12. page'.msgs = L[k].msgs /\ k \in DOMAIN L
    BY <1>2, <1>6, <1>8, <1>9
  <1> QED BY <1>3, <1>5, <1>6, <1>8, <1>9, <1>10, <1>11, <1>12, OpenStep

\* A store with a new conversation.
Empty(id) == [id |-> id, msgs |-> <<>>]
WithNew(L, id) == Append(L, Empty(id))

LEMMA NewStore ==
    ASSUME NEW G, NEW id \in Ids, NEW B, NEW got, NEW done,
           NEW L, StoreOK(L, G), id \notin IdsOf(L), AllCalm(L, G, B, got, done), NEW s, s = WithNew(L, id)
    PROVE  /\ StoreOK(s, G) /\ AllCalm(s, G, B, got, done) /\ Len(s) \in DOMAIN s /\ s[Len(s)] = Empty(id)
           /\ Empty(id).id = id /\ Empty(id).msgs = <<>>
  <1>0. PICK c : c = Empty(id)
    OBVIOUS
  <1>1. L \in Seq(Conv(G)) /\ UniqueIds(L) /\ Apart(L)
    BY DEF StoreOK
  <1>2. c \in Conv(G) /\ c.id = id /\ c.msgs = <<>>
    BY <1>0, EmptyList DEF Conv, Empty
  <1>3. /\ s \in Seq(Conv(G)) /\ s[Len(s)] = c /\ Len(s) \in DOMAIN s
        /\ \A i \in DOMAIN s : i # Len(s) => i \in DOMAIN L /\ s[i] = L[i]
    BY <1>0, <1>1, <1>2, Appended DEF WithNew
  <1>4. \A i \in DOMAIN L : L[i].id # id
    BY DEF IdsOf
  <1>5. UniqueIds(s)
    BY <1>1, <1>2, <1>3, <1>4 DEF UniqueIds
  <1>6. Apart(s)
    BY <1>1, <1>2, <1>3 DEF Apart, Foreign
  <1>7. AllCalm(s, G, B, got, done)
    BY <1>2, <1>3 DEF AllCalm, Calm
  <1> QED BY <1>0, <1>2, <1>3, <1>5, <1>6, <1>7 DEF StoreOK

LEMMA OneStore ==
    ASSUME NEW G, NEW id \in Ids, NEW B, NEW got, NEW done, NEW s, s = <<Empty(id)>>
    PROVE  /\ StoreOK(s, G) /\ AllCalm(s, G, B, got, done) /\ DOMAIN s = {1}
           /\ s[1] = Empty(id) /\ <<id>> \in Seq(Ids)
  <1>1. StoreOK(<<>>, G) /\ AllCalm(<<>>, G, B, got, done) /\ id \notin IdsOf(<<>>)
    BY DEF StoreOK, UniqueIds, Apart, AllCalm, IdsOf
  <1>2. PICK c, e : c = Empty(id) /\ e = <<>>
    OBVIOUS
  <1>3. s = Append(<<>>, c)
    BY <1>2
  <1>4. s = WithNew(e, id)
    BY <1>2, <1>3 DEF WithNew
  <1>5. StoreOK(s, G) /\ AllCalm(s, G, B, got, done)
    BY <1>1, <1>2, <1>4, NewStore
  <1>6. DOMAIN s = {1} /\ s[1] = c
    BY <1>2
  <1> QED BY <1>2, <1>5, <1>6

\* The refs with other conversations.
Listed(m, K, r) == [m EXCEPT !.list = K, !.recent = r]

LEMMA ListedRefs ==
    ASSUME NEW m, NEW L, NEW q, NEW a, NEW ms, NEW t, NEW K, NEW r, m = Ref(L, q, a, ms, t)
    PROVE  Listed(m, K, r) = Ref(K, r, a, ms, t)
  <1>1. PICK n : n = [m EXCEPT !.list = K]
    OBVIOUS
  <1>2. n = [list |-> K, recent |-> q, active |-> a, latest |-> ms, timer |-> t]
    BY <1>1 DEF Ref
  <1>3. [m EXCEPT !.list = K, !.recent = r] = [n EXCEPT !.recent = r]
    BY <1>1
  <1> QED BY <1>2, <1>3 DEF Ref, Listed

LEMMA CalmStore ==
    ASSUME NEW s, NEW r, Embeds(r, s), NEW G, NEW B, NEW got, NEW done, AllCalm(s, G, B, got, done)
    PROVE  AllCalm(r, G, B, got, done)
  BY DEF Embeds, AllCalm

LEMMA NewList == ASSUME ~Hasty, PInv, NetInv', CreateNewConversation PROVE ListInv'
  <1>1. PICK left : left = LeaveConversation
    OBVIOUS
  <1>2. PICK id \in Ids \ IdsOf(mem.list) :
          LET fresh == Empty(id)
              next  == Capped(Append(left.list, fresh), <<id>> \o left.recent)
              m     == Opened([left EXCEPT !.list = next.list, !.recent = next.recent], fresh)
          IN /\ Show(m)
             /\ disk' = [Saved(SavedOnLeave, m.list, m.recent) EXCEPT !.active = id]
    BY <1>1, ZenonT(30) DEF CreateNewConversation, Created, Empty
  <1>3. SidebarEnabled /\ UNCHANGED <<chat, net, prep, hist>>
    BY DEF CreateNewConversation
  <1>4. PICK L, G, B, got, done : /\ L = WithActive(mem.list, mem.active, page.msgs) /\ G = chat.gen
                                  /\ B = hist.born /\ got = hist.got /\ done = hist.done
    OBVIOUS
  <1>5. /\ queue = <<>> /\ PageOK /\ Asking = FALSE /\ chat.ptxt = <<>>
        /\ prep = [on |-> FALSE, snap |-> <<>>]
        /\ StoredIn(left, page.msgs, mem.list, mem.active) /\ StoreOK(L, G)
        /\ AllCalm(L, G, B, got, done) /\ DiskOK(SavedOnLeave, G)
    BY <1>1, <1>3, <1>4, SidebarList
  <1>6. /\ left = [list |-> L, recent |-> left.recent, active |-> mem.active, latest |-> page.msgs, timer |-> FALSE]
        /\ left.recent \in Seq(Ids) /\ left.list = L
    BY <1>4, <1>5 DEF StoredIn
  <1>7. PICK c, s, q : c = Empty(id) /\ s = WithNew(L, id) /\ q = <<id>> \o left.recent
    OBVIOUS
  <1>8. StoreOK(s, G) /\ AllCalm(s, G, B, got, done) /\ Len(s) \in DOMAIN s /\ s[Len(s)] = c
        /\ c.id = id
    <2>1. id \notin IdsOf(L)
      BY <1>2, <1>4 DEF WithActive, IdsOf
    <2> QED BY <1>2, <1>5, <2>1, <1>7, NewStore
  <1>9. q \in Seq(Ids) /\ q # <<>> /\ q[1] = id
    BY <1>2, <1>6, <1>7
  <1>10. PICK n, nl, nr : n = Capped(s, q) /\ nl = n.list /\ nr = n.recent
    OBVIOUS
  <1>11. /\ StoreOK(nl, G) /\ Embeds(nl, s) /\ nr \in Seq(Ids)
         /\ \A i \in DOMAIN s : q # <<>> /\ s[i].id = q[1] => \E j \in DOMAIN nl : nl[j] = s[i]
    BY <1>8, <1>9, <1>10, CappedPart
  <1>12. PICK k \in DOMAIN nl : nl[k] = c
    BY <1>7, <1>8, <1>9, <1>11
  <1>13. AllCalm(nl, G, B, got, done)
    BY <1>8, <1>11, CalmStore
  <1>14. PICK o, f : o = Listed(left, nl, nr) /\ f = FALSE
    OBVIOUS
  <1>15. o = Ref(nl, nr, mem.active, page.msgs, f)
    <2>1. left = Ref(L, left.recent, mem.active, page.msgs, f)
      BY <1>6, <1>14 DEF Ref
    <2> QED BY <1>14, <2>1, ListedRefs
  <1>16. PICK m : m = Opened(o, c)
    OBVIOUS
  <1>17. m = Ref(nl, nr, c.id, c.msgs, f)
    BY <1>15, <1>16, OpenedRefs
  <1>18. Show(m) /\ disk' = [Saved(SavedOnLeave, m.list, m.recent) EXCEPT !.active = id]
    BY <1>2, <1>6, <1>7, <1>10, <1>14, <1>16 DEF WithNew, Listed
  <1>19. /\ page'.msgs = m.latest /\ mem' = m /\ queue' = <<>> /\ Asking' = FALSE /\ page'.busy = FALSE
    BY <1>5, <1>18, ShowStep
  <1>20. m.list = nl /\ m.recent = nr /\ m.latest = c.msgs
    BY <1>17 DEF Ref
  <1>21. DiskOK(disk', G)
    <2>1. PICK d : d = Saved(SavedOnLeave, m.list, m.recent)
      OBVIOUS
    <2>2. DiskOK(d, G)
      BY <1>5, <1>11, <1>20, <2>1, SavedPart
    <2> QED BY <1>18, <2>1, <2>2, OpenedPart
  <1>22. Counts'
    BY <1>3 DEF PInv, ListInv, Counts
  <1>23. mem' = [list |-> nl, recent |-> nr, active |-> nl[k].id,
                 latest |-> nl[k].msgs, timer |-> FALSE] /\ page'.msgs = nl[k].msgs
    BY <1>12, <1>14, <1>17, <1>19, <1>20 DEF Ref
  <1>24. /\ chat'.gen = G /\ chat'.ptxt = <<>> /\ hist'.born = B /\ hist'.got = got /\ hist'.done = done
         /\ prep' = [on |-> FALSE, snap |-> <<>>]
    BY <1>3, <1>4, <1>5
  <1> QED BY <1>11, <1>13, <1>19, <1>21, <1>22, <1>23, <1>24, OpenStep

\* With some of the conversations, what was private and at rest still is.
LEMMA PartPrivate ==
    ASSUME NEW s, NEW r, Embeds(r, s), NEW a
    PROVE  /\ \A ms : Private(s, a, ms) => Private(r, a, ms)
           /\ \A G, B, got, done, asking : Resting(s, a, G, B, got, done, asking) =>
                                             Resting(r, a, G, B, got, done, asking)
  <1>1. \A i \in DOMAIN r : \E j \in DOMAIN s : r[i] = s[j]
    BY DEF Embeds
  <1>2. \A ms : Private(s, a, ms) => Private(r, a, ms)
    BY <1>1 DEF Private
  <1>3. ASSUME NEW G, NEW B, NEW got, NEW done, NEW asking, Resting(s, a, G, B, got, done, asking)
        PROVE  Resting(r, a, G, B, got, done, asking)
    BY <1>1, <1>3 DEF Resting
  <1> QED BY <1>2, <1>3

\* Conversations other than the open one are left out.
LEMMA DropOther ==
    ASSUME PInv, NetInv', UNCHANGED <<page, queue, chat, prep, hist>>, DiskOK(disk', chat.gen),
           NEW L, NEW q \in Seq(Ids), StoreOK(L, chat.gen), Embeds(L, mem.list),
           \E i \in DOMAIN L : L[i].id = mem.active,
           mem' = Ref(L, q, mem.active, mem.latest, mem.timer)
    PROVE  ListInv'
  <1>1. ListInv /\ Asking' = Asking
    BY DEF PInv, Asking
  <1>2. /\ mem'.list = L /\ mem'.recent = q /\ mem'.active = mem.active /\ mem'.latest = mem.latest
        /\ mem'.timer = mem.timer
    BY DEF Ref
  <1>3. Refs'
    <2>1. mem' = [list |-> mem'.list, recent |-> mem'.recent, active |-> mem'.active,
                  latest |-> mem'.latest, timer |-> mem'.timer]
      BY <1>2 DEF Ref
    <2> QED BY <1>1, <1>2, <2>1 DEF ListInv, Refs, DiskOK
  <1>4. Counts' /\ Shows'
    BY <1>1 DEF ListInv, Counts, Shows
  <1>5. \A i \in DOMAIN L : \E j \in DOMAIN mem.list : L[i] = mem.list[j]
    BY DEF Embeds
  <1>6. Resting(L, mem.active, chat.gen, hist.born, hist.got, hist.done, Asking)
    BY <1>1, PartPrivate DEF ListInv, Stores
  <1>7. Stores'
    <2>1. StoreOK(mem'.list, chat'.gen) /\ StoreOK(disk'.list, chat'.gen) /\ mem'.latest = page'.msgs
      BY <1>1, <1>2 DEF ListInv, Stores, DiskOK
    <2>2. ~mem'.timer => \A i \in DOMAIN L : L[i].id = mem.active => L[i].msgs = page.msgs
      BY <1>1, <1>2, <1>5 DEF ListInv, Stores
    <2> QED BY <1>1, <1>2, <1>6, <2>1, <2>2 DEF Stores
  <1>8. Secrets'
    BY <1>1, <1>2, PartPrivate DEF ListInv, Secrets
  <1> QED BY <1>3, <1>4, <1>7, <1>8 DEF ListInv

LEMMA DeleteConversationList ==
    ASSUME ~Hasty, PInv, NetInv', NEW id \in Ids, DeleteConversation(id) PROVE ListInv'
  <1>1. PICK rest : rest = Only(mem.list, Ids \ {id})
    OBVIOUS
  <1>2. PICK new \in IF rest = <<>> THEN Ids \ {id} ELSE {id} :
          LET list   == IF rest = <<>> THEN <<Empty(new)>> ELSE rest
              recent == IF rest = <<>> THEN <<new>> ELSE Among(mem.recent, Ids \ {id})
              m      == Listed(mem, list, recent)
              d      == Saved(disk, list, recent)
          IN IF id = mem.active
             THEN Show(Opened(m, list[1])) /\ disk' = [d EXCEPT !.active = list[1].id]
             ELSE mem' = m /\ disk' = d /\ UNCHANGED <<page, queue>>
    BY <1>1, ZenonT(30) DEF DeleteConversation, Listed, Empty
  <1>3. PICK L, q, d : /\ L = IF rest = <<>> THEN <<Empty(new)>> ELSE rest
                       /\ q = IF rest = <<>> THEN <<new>> ELSE Among(mem.recent, Ids \ {id})
                       /\ d = Saved(disk, L, q)
    OBVIOUS
  <1>4. SidebarEnabled /\ UNCHANGED <<chat, net, prep, hist>>
    BY DEF DeleteConversation
  <1>5. PICK G, B, got, done : /\ G = chat.gen /\ B = hist.born /\ got = hist.got /\ done = hist.done
    OBVIOUS
  <1>6. /\ queue = <<>> /\ PageOK /\ page.busy = FALSE /\ Asking = FALSE /\ chat.ptxt = <<>>
        /\ prep = [on |-> FALSE, snap |-> <<>>]
        /\ StoreOK(mem.list, G) /\ DiskOK(disk, G) /\ mem.recent \in Seq(Ids)
    BY <1>4, <1>5, SidebarList
  <1>7. /\ StoreOK(rest, G) /\ Embeds(rest, mem.list) /\ (\A i \in DOMAIN rest : rest[i].id \in Ids \ {id})
        /\ \A i \in DOMAIN mem.list : mem.list[i].id \in Ids \ {id} =>
                                       \E j \in DOMAIN rest : rest[j] = mem.list[i]
    <2>1. PICK S : S = Ids \ {id}
      OBVIOUS
    <2>2. rest = Only(mem.list, S)
      BY <1>1, <2>1
    <2>3. /\ StoreOK(rest, G) /\ Embeds(rest, mem.list) /\ (\A i \in DOMAIN rest : rest[i].id \in S)
          /\ \A i \in DOMAIN mem.list : mem.list[i].id \in S => \E j \in DOMAIN rest : rest[j] = mem.list[i]
      BY <1>6, <2>2, OnlyPart
    <2> QED BY <2>1, <2>3
  <1>8. new \in Ids
    BY <1>2
  <1>9. StoreOK(L, G) /\ q \in Seq(Ids)
    <2>1. CASE rest = <<>>
      BY <1>3, <1>8, <2>1, OneStore
    <2>2. CASE rest # <<>>
      BY <1>3, <1>6, <1>7, <2>2, AmongIsRight DEF AmongRight
    <2> QED BY <2>1, <2>2
  <1>10. DiskOK(d, G)
    BY <1>3, <1>6, <1>9, SavedPart
  <1>11. mem = Ref(mem.list, mem.recent, mem.active, mem.latest, mem.timer) /\ mem.timer \in BOOLEAN
    BY DEF PInv, ListInv, Refs, Ref
  <1>12. PICK m : m = Listed(mem, L, q)
    OBVIOUS
  <1>13. m = Ref(L, q, mem.active, mem.latest, mem.timer)
    BY <1>11, <1>12, ListedRefs
  <1>14. CASE id # mem.active
    <2>1. mem' = m /\ disk' = d /\ UNCHANGED <<page, queue>>
      BY <1>2, <1>3, <1>12, <1>14
    <2>2. PICK i \in DOMAIN mem.list : mem.list[i].id = mem.active
      BY DEF PInv, ListInv, Stores
    <2>3. mem.list[i].id \in Ids \ {id}
      <3>1. mem.list \in Seq(Conv(G))
        BY <1>6 DEF StoreOK
      <3>2. mem.list[i] \in Conv(G)
        BY <3>1
      <3> QED BY <1>14, <2>2, <3>2 DEF Conv
    <2>4. PICK j \in DOMAIN rest : rest[j] = mem.list[i]
      BY <1>7, <2>3
    <2>5. rest # <<>>
      BY <2>4
    <2>6. L = rest /\ \E n \in DOMAIN L : L[n].id = mem.active
      BY <1>3, <2>2, <2>4, <2>5
    <2> QED BY <1>4, <1>5, <1>7, <1>9, <1>10, <1>13, <2>1, <2>6, DropOther
  <1>15. CASE id = mem.active
    <2>1. Show(Opened(m, L[1])) /\ disk' = [d EXCEPT !.active = L[1].id]
      BY <1>2, <1>3, <1>12, <1>15
    <2>2. PICK o : o = Opened(m, L[1])
      OBVIOUS
    <2>3. o = Ref(L, q, L[1].id, L[1].msgs, mem.timer)
      BY <1>13, <2>2, OpenedRefs
    <2>4. /\ page'.msgs = o.latest /\ mem' = o /\ queue' = <<>> /\ Asking' = FALSE /\ page'.busy = FALSE
      BY <1>6, <2>1, <2>2, ShowStep
    <2>5. page'.msgs = L[1].msgs /\ mem' = [list |-> L, recent |-> q, active |-> L[1].id,
                                            latest |-> L[1].msgs, timer |-> mem.timer]
      BY <2>3, <2>4 DEF Ref
    <2>6. DiskOK(disk', G)
      BY <1>10, <2>1, OpenedPart
    <2>7. AllCalm(L, G, B, got, done) /\ 1 \in DOMAIN L
      <3>1. CASE rest = <<>>
        BY <1>3, <1>8, <3>1, OneStore
      <3>2. CASE rest # <<>>
        <4>1. L = rest /\ L \in Seq(Conv(G))
          BY <1>3, <1>7, <3>2 DEF StoreOK
        <4>2. 1 \in DOMAIN L
          BY <3>2, <4>1
        <4>3. Resting(L, mem.active, G, B, got, done, Asking)
          BY <1>5, <1>7, <4>1, PartPrivate DEF PInv, ListInv, Stores
        <4> QED BY <1>7, <1>15, <4>1, <4>2, <4>3 DEF Resting, AllCalm
      <3> QED BY <3>1, <3>2
    <2>8. Counts'
      BY <1>4 DEF PInv, ListInv, Counts
    <2>9. /\ chat'.gen = G /\ chat'.ptxt = <<>> /\ hist'.born = B /\ hist'.got = got /\ hist'.done = done
          /\ prep' = [on |-> FALSE, snap |-> <<>>]
      BY <1>4, <1>5, <1>6
    <2> QED BY <1>9, <1>11, <2>4, <2>5, <2>6, <2>7, <2>8, <2>9, OpenStep
  <1> QED BY <1>14, <1>15

\* Every answer is of an earlier visit once the page has been left.
LEMMA LeaveList == ASSUME PInv, NetInv', LeavePage PROVE ListInv'
  <1>1. PICK d \in {disk} \cup IF mem.timer THEN {Saved(disk, mem.list, mem.recent)} ELSE {} :
         \E new \in IF d.list = <<>> THEN Ids ELSE {d.active} :
           mem' = Loaded(d, new) /\ disk' = [d EXCEPT !.active = mem'.active]
    BY DEF LeavePage
  <1>2. PICK new \in IF d.list = <<>> THEN Ids ELSE {d.active} :
          mem' = Loaded(d, new) /\ disk' = [d EXCEPT !.active = mem'.active]
    BY <1>1
  <1>3. PICK L, q : /\ L = IF d.list = <<>> THEN <<Empty(new)>> ELSE d.list
                    /\ q = IF d.list = <<>> THEN <<new>> ELSE d.recent
    OBVIOUS
  <1>4. PICK k : k = IF d.active \in IdsOf(L) THEN CHOOSE i \in DOMAIN L : L[i].id = d.active ELSE 1
    OBVIOUS
  <1>5. /\ mem' = [list |-> L, recent |-> q, active |-> L[k].id, latest |-> L[k].msgs, timer |-> FALSE]
        /\ page' = [msgs |-> L[k].msgs, busy |-> FALSE, isReq |-> FALSE, isStr |-> FALSE]
        /\ disk' = [d EXCEPT !.active = L[k].id]
    <2>1. mem' = [list |-> L, recent |-> q, active |-> L[k].id, latest |-> L[k].msgs, timer |-> FALSE]
      BY <1>2, <1>3, <1>4 DEF Loaded, Empty
    <2>2. mem'.active = L[k].id /\ mem'.latest = L[k].msgs
      BY <2>1
    <2>3. page' = [msgs |-> mem'.latest, busy |-> FALSE, isReq |-> FALSE, isStr |-> FALSE]
      BY DEF LeavePage
    <2> QED BY <1>2, <2>1, <2>2, <2>3
  <1>6. /\ queue' = <<>> /\ chat' = [chat EXCEPT !.ptxt = <<>>, !.ftimer = FALSE]
        /\ prep' = [on |-> FALSE, snap |-> <<>>]
        /\ hist' = [hist EXCEPT !.got = 0, !.done = FALSE, !.born = chat.gen]
    BY DEF LeavePage
  <1>7. PICK G : G = chat.gen /\ G \in Nat
    BY DEF PInv, NetInv, ChatOK
  <1>8. ListInv /\ chat'.gen = G /\ chat'.ptxt = <<>>
    BY <1>6, <1>7 DEF PInv, NetInv, ChatOK
  <1>9. DiskOK(disk, G) /\ StoreOK(mem.list, G) /\ mem.recent \in Seq(Ids)
    BY <1>7, <1>8 DEF ListInv, Stores, Refs, DiskOK
  <1>10. DiskOK(d, G)
    <2>1. CASE d = disk
      BY <1>9, <2>1
    <2>2. CASE d = Saved(disk, mem.list, mem.recent)
      BY <1>9, <2>2, SavedPart
    <2> QED BY <1>1, <2>1, <2>2
  <1>11. StoreOK(L, G) /\ q \in Seq(Ids) /\ L # <<>> /\ 1 \in DOMAIN L
    <2>1. CASE d.list = <<>>
      <3>1. new \in Ids
        BY <1>2, <2>1
      <3> QED BY <1>3, <2>1, <3>1, OneStore
    <2>2. CASE d.list # <<>>
      <3>1. StoreOK(d.list, G) /\ d.recent \in Seq(Ids) /\ L = d.list /\ q = d.recent
        BY <1>3, <1>10, <2>2 DEF DiskOK
      <3>2. L \in Seq(Conv(G)) /\ L # <<>>
        BY <2>2, <3>1 DEF StoreOK
      <3>3. 1 \in DOMAIN L
        BY <3>2
      <3> QED BY <3>1, <3>2, <3>3
    <2> QED BY <2>1, <2>2
  <1>12. k \in DOMAIN L
    <2>1. CASE d.active \in IdsOf(L)
      <3>1. \E i \in DOMAIN L : L[i].id = d.active
        BY <2>1 DEF IdsOf
      <3> QED BY <1>4, <2>1, <3>1
    <2>2. CASE d.active \notin IdsOf(L)
      BY <1>4, <1>11, <2>2
    <2> QED BY <2>1, <2>2
  <1>13. AllCalm(L, G, G, 0, FALSE)
    <2>1. L \in Seq(Conv(G))
      BY <1>11 DEF StoreOK
    <2>2. ASSUME NEW i \in DOMAIN L PROVE Calm(L[i].msgs, G, G, 0, FALSE)
      <3>1. L[i] \in Conv(G)
        BY <2>1
      <3>2. L[i].msgs \in Seq(MessagesOf(G))
        BY <3>1 DEF Conv, ListsOf
      <3>3. \A j \in DOMAIN L[i].msgs : L[i].msgs[j] \in MessagesOf(G)
        BY <3>2
      <3> QED BY <3>3 DEF Calm, Settled, Whole, MessagesOf
    <2> QED BY <2>2 DEF AllCalm
  <1>14. /\ hist'.born = G /\ hist'.got = 0 /\ hist'.done = FALSE /\ Counts'
    <2>1. hist' = [got |-> 0, done |-> FALSE, born |-> G]
      BY <1>6, <1>7, <1>8 DEF ListInv, Counts
    <2>2. 0 \in 0..Len(Letters) /\ G \in 0..G
      BY <1>7, LettersFacts
    <2> QED BY <1>8, <2>1, <2>2 DEF Counts
  <1>15. DiskOK(disk', G)
    BY <1>5, <1>10, OpenedPart
  <1>16. page'.busy = FALSE /\ Asking' = FALSE /\ page'.msgs = L[k].msgs
    BY <1>5 DEF Asking
  <1> QED BY <1>5, <1>6, <1>8, <1>11, <1>12, <1>13, <1>14, <1>15, <1>16, OpenStep

-----------------------------------------------------------------------------
(* The invariant and the theorems.                                         *)

LEMMA ListInit == Init => ListInv
  <1> SUFFICES ASSUME Init PROVE ListInv
    OBVIOUS
  <1>1. PICK id \in Ids :
          /\ mem = [list |-> <<Empty(id)>>, recent |-> <<id>>, active |-> id, latest |-> <<>>, timer |-> FALSE]
          /\ disk = [list |-> <<>>, recent |-> <<>>, active |-> id]
    BY DEF Init, Empty
  <1>2. /\ page = [msgs |-> <<>>, busy |-> FALSE, isReq |-> FALSE, isStr |-> FALSE] /\ queue = <<>>
        /\ chat = [gen |-> 0, pgen |-> 0, ptxt |-> <<>>, ftimer |-> FALSE]
        /\ prep = [on |-> FALSE, snap |-> <<>>] /\ hist = [got |-> 0, done |-> FALSE, born |-> 0]
    BY DEF Init
  <1>3. PICK L, e : L = <<Empty(id)>> /\ e = <<>>
    OBVIOUS
  <1>4. /\ StoreOK(L, 0) /\ AllCalm(L, 0, 0, 0, FALSE) /\ DOMAIN L = {1} /\ L[1] = Empty(id)
        /\ <<id>> \in Seq(Ids)
    BY <1>3, OneStore
  <1>5. L[1].id = id /\ L[1].msgs = <<>>
    BY <1>4 DEF Empty
  <1>6. /\ mem.list = L /\ mem.recent = <<id>> /\ mem.active = id /\ mem.latest = <<>> /\ mem.timer = FALSE
        /\ disk.list = <<>> /\ disk.recent = <<>> /\ disk.active = id
    BY <1>1, <1>3
  <1>7. Refs
    BY <1>1, <1>2, <1>3, <1>4, <1>6 DEF Refs
  <1>8. Counts
    BY <1>2, LettersFacts DEF Counts
  <1>9. Asking = FALSE
    BY <1>2 DEF Asking
  <1>10. \A h : After(e, <<>>, h) = e
    BY AfterNone
  <1>11. At(e, 0, 0, 0, FALSE, Asking, <<>>)
    <2>1. e \in ListsOf(0) /\ DOMAIN e = {}
      BY <1>3, EmptyList
    <2>2. Good(e, 0, 0) /\ Calm(e, 0, 0, 0, FALSE)
      BY <2>1 DEF Good, Calm
    <2> QED BY <1>9, <2>2 DEF At
  <1>12. Shows
    <2>1. /\ page.msgs = e /\ queue = <<>> /\ chat.gen = 0 /\ chat.ptxt = <<>> /\ hist.born = 0
          /\ hist.got = 0 /\ hist.done = FALSE /\ prep.snap = e /\ prep.on = FALSE
      BY <1>2, <1>3
    <2>2. e \in ListsOf(0) /\ SettledList(e, 0, 0) /\ <<>> \in Seq(Updates)
      BY <1>3, EmptyList
    <2>3. Good(e, 0, 0)
      BY <1>11 DEF At
    <2> QED BY <1>3, <1>10, <1>11, <2>1, <2>2, <2>3 DEF Shows
  <1>13. StoreOK(<<>>, 0)
    BY DEF StoreOK, UniqueIds, Apart
  <1>14. Stores
    <2>1. Resting(L, id, 0, 0, 0, FALSE, Asking)
      BY <1>4, <1>5 DEF Resting
    <2> QED BY <1>2, <1>4, <1>5, <1>6, <1>13, <2>1 DEF Stores
  <1>15. Private(L, id, e)
    BY <1>3, EmptyList
  <1>16. Secrets
    BY <1>2, <1>3, <1>6, <1>10, <1>15 DEF Secrets
  <1> QED BY <1>7, <1>8, <1>12, <1>14, <1>16 DEF ListInv

LEMMA PageStep ==
    ASSUME ~Hasty, PInv, [Next]_vars
    PROVE  PInv'
  <1>1. NetInv' /\ NetMore'
    BY NetStep, MoreStep DEF PInv
  <1> SUFFICES ListInv'
    BY <1>1 DEF PInv
  <1>2. CASE Render \/ FlushTimer \/ SaveTimer \/ StopGeneration \/ SubmitImages \/ ClearMessages \/ LeavePage
    BY <1>1, <1>2, RenderList, FlushList, SaveTimerList, StopList, SubmitImagesList, DeleteList, LeaveList
  <1>3. CASE \E g \in Gens : HeadersReady(g) \/ StreamDelta(g) \/ StreamEnd(g)
    BY <1>1, <1>3, HeadersList, DeltaList, StreamEndList
  <1>4. CASE \E c \in net.calls : CallReply(c)
    BY <1>1, <1>4, CallList
  <1>5. CASE \E stream \in BOOLEAN : SendMessage(stream) \/ ImagesReady(stream)
    BY <1>1, <1>5, SendList, ImagesList
  <1>6. CASE \E i \in DOMAIN page.msgs :
               \/ \E stream \in BOOLEAN : Regenerate(i, stream)
               \/ \E stream \in BOOLEAN : SubmitEdit(i, stream)
               \/ SaveEdit(i) \/ DeleteMessage(i)
    BY <1>1, <1>6, RegenerateList, SubmitEditList, SaveEditList, DeleteList
  <1>7. CASE CreateNewConversation \/ \E id \in Ids : SwitchConversation(id) \/ DeleteConversation(id)
    BY <1>1, <1>7, NewList, SwitchList, DeleteConversationList
  <1>8. CASE UNCHANGED vars
    <2>1. UNCHANGED <<page, queue, chat, mem, disk, prep, hist>>
      BY <1>8 DEF vars
    <2> QED BY <2>1, SameList DEF Asking
  <1> QED BY <1>2, <1>3, <1>4, <1>5, <1>6, <1>7, <1>8 DEF Next

LEMMA PageHolds == ASSUME ~Hasty PROVE Spec => []PInv
  <1>1. Init => PInv
    BY NetInit, MoreInit, ListInit DEF PInv
  <1>2. PInv /\ [Next]_vars => PInv'
    BY PageStep
  <1> QED BY <1>1, <1>2, PTL DEF Spec

\* The text of a message is made of the first deltas of its own request.
LEMMA OwnPrefix ==
    ASSUME NoRepeat, NEW G, NEW m \in MessagesOf(G)
    PROVE  IsPrefix(m.txt, [n \in 1..Len(Letters) |-> Delta(m.own, n)])
  <1>1. PICK g, t, L : g = m.own /\ t = m.txt /\ L = Len(Letters) /\ L \in Nat
    BY LettersFacts
  <1>2. PICK k \in 0..L : t = Full(g, k)
    BY <1>1 DEF MessagesOf, OwnText
  <1>3. g \in Gens
    BY <1>1 DEF MessagesOf, Message
  <1>4. PICK w : w = [n \in 1..L |-> Delta(g, n)]
    OBVIOUS
  <1>5. IsPiece(t, g, 0, k)
    BY <1>1, <1>2, <1>3, PieceType DEF Full
  <1>6. Len(t) = k /\ DOMAIN t = 1..k /\ \A n \in 1..k : t[n] = <<g, Letters[n]>>
    BY <1>2, <1>5 DEF IsPiece
  <1>7. w \in Seq(Gens \X Range(Letters)) /\ Len(w) = L /\ \A n \in 1..L : w[n] = <<g, Letters[n]>>
    <2>1. \A n \in 1..L : Delta(g, n) = <<g, Letters[n]>> /\ <<g, Letters[n]>> \in Gens \X Range(Letters)
      BY <1>1, <1>3, LettersFacts DEF Delta
    <2>2. w \in [1..L -> Gens \X Range(Letters)]
      BY <1>4, <2>1
    <2>3. w \in Seq(Gens \X Range(Letters)) /\ Len(w) = L
      BY <1>1, <2>2
    <2> QED BY <1>4, <2>1, <2>3
  <1>8. t \in Seq(Gens \X Range(Letters))
    BY <1>5 DEF IsPiece, Texts
  <1>9. IsPrefix(t, w)
    <2>1. SubSeq(t, 1, k) = t
      BY <1>6, <1>8
    <2>2. PICK v : v = SubSeq(w, 1, k)
      OBVIOUS
    <2>3. v \in Seq(Gens \X Range(Letters)) /\ Len(v) = k /\ \A n \in 1..k : v[n] = w[n]
      BY <1>1, <1>2, <1>7, <2>2
    <2>4. \A n \in 1..k : v[n] = t[n]
      <3>1. \A n \in 1..k : n \in 1..L
        BY <1>1, <1>2
      <3> QED BY <1>6, <1>7, <2>3, <3>1
    <2>5. v = t
      BY <1>6, <1>8, <2>3, <2>4, SeqEqual
    <2>6. k <= Len(w)
      BY <1>1, <1>2, <1>7
    <2> QED BY <1>6, <2>1, <2>2, <2>5, <2>6 DEF IsPrefix
  <1> QED BY <1>1, <1>4, <1>9

\* An answer holds text of its own request only, in the order it was sent and
\* without a gap: no chunk of a stopped, superseded or abandoned generation
\* gets past isCurrent (use-chat-handler.ts), for every number of conversations,
\* deltas and generations.
THEOREM OnlyOwnTextHolds == ASSUME ~Hasty, NoRepeat PROVE Spec => []OnlyOwnText
  <1>1. ASSUME PInv PROVE OnlyOwnText
    <2> SUFFICES ASSUME NEW i \in DOMAIN mem.list, NEW j \in DOMAIN Shadow(i)
                 PROVE  IsPrefix(Shadow(i)[j].txt, [n \in 1..Len(Letters) |-> Delta(Shadow(i)[j].own, n)])
      BY DEF OnlyOwnText
    <2>1. page.msgs \in Seq(MessagesOf(chat.gen)) /\ mem.list \in Seq(Conv(chat.gen))
      BY <1>1 DEF PInv, ListInv, Shows, Stores, StoreOK, ListsOf
    <2>2. mem.list[i] \in Conv(chat.gen)
      BY <2>1
    <2>3. mem.list[i].msgs \in Seq(MessagesOf(chat.gen))
      BY <2>2 DEF Conv, ListsOf
    <2>4. Shadow(i) \in Seq(MessagesOf(chat.gen))
      BY <2>1, <2>3 DEF Shadow
    <2>5. Shadow(i)[j] \in MessagesOf(chat.gen)
      BY <2>4
    <2> QED BY <2>5, OwnPrefix
  <1> QED BY <1>1, PageHolds, PTL

\* An answer that ended with [DONE] and is rendered holds every delta that was
\* sent for it, although the deltas were merged, shown by a timer and flushed at
\* the end of the stream (flushStreamUpdates, handleStreamComplete).
THEOREM CompleteAnswerHolds == ASSUME ~Hasty, NoRepeat PROVE Spec => []CompleteAnswer
  <1>1. ASSUME PInv PROVE CompleteAnswer
    <2> SUFFICES ASSUME queue = <<>>, hist.done, NEW j \in DOMAIN page.msgs,
                        Key(page.msgs[j]) = <<chat.gen, "assistant">>
                 PROVE  /\ page.msgs[j].st = "complete"
                        /\ page.msgs[j].txt = [n \in 1..hist.got |-> Delta(page.msgs[j].own, n)]
      BY DEF CompleteAnswer
    <2>1. After(page.msgs, queue, chat.gen) = page.msgs
      BY AfterNone
    <2>2. At(page.msgs, chat.gen, hist.born, hist.got, hist.done, Asking, chat.ptxt) /\ hist.got \in Nat
      <3>1. At(page.msgs, chat.gen, hist.born, hist.got, hist.done, Asking, chat.ptxt)
        BY <1>1, <2>1 DEF PInv, ListInv, Shows
      <3>2. hist.got \in 0..Len(Letters)
        BY <1>1 DEF PInv, ListInv, Counts
      <3>3. hist.got \in Nat
        BY <3>2, LettersFacts
      <3> QED BY <3>1, <3>3
    <2>3. ~Asking
      BY <2>2 DEF At, Asked
    <2>4. page.msgs[j].st = "complete" /\ page.msgs[j].txt = Full(chat.gen, hist.got)
      BY <2>2, <2>3 DEF At, Calm, Whole
    <2>5. page.msgs[j].own = chat.gen
      BY DEF Key
    <2>6. Full(chat.gen, hist.got) = [n \in 1..hist.got |-> Delta(chat.gen, n)]
      <3>1. PICK g, k : g = chat.gen /\ k = hist.got /\ k \in Nat
        BY <2>2
      <3>2. Full(g, k) = [n \in 1..(k - 0) |-> Delta(g, 0 + n)]
        BY DEF Full, Piece
      <3>3. k - 0 = k /\ \A n \in 1..k : 0 + n = n
        BY <3>1
      <3>4. [n \in 1..k |-> Delta(g, n)] = [n \in 1..k |-> Delta(g, 0 + n)]
        BY <3>3
      <3> QED BY <3>1, <3>2, <3>3, <3>4
    <2> QED BY <2>4, <2>5, <2>6
  <1> QED BY <1>1, PageHolds, PTL

\* Once the page shows no generation, no answer asked for on this page is left
\* loading or streaming: a stop, an error, a replaced request, a switch and a
\* deletion all settle it (stopGeneration, handleStreamError), whatever the
\* deltas are.
THEOREM NoOrphanPendingHolds == ASSUME ~Hasty PROVE Spec => []NoOrphanPending
  <1>1. ASSUME PInv PROVE NoOrphanPending
    BY <1>1 DEF PInv, ListInv, Shows, NoOrphanPending, SettledList, Settled
  <1> QED BY <1>1, PageHolds, PTL

\* No message is in two conversations: the save timer, a switch, a new or a
\* deleted conversation and a reload never write the messages of one
\* conversation into another (use-playground-state.ts), whatever the deltas are.
THEOREM HistoriesSeparateHolds == ASSUME ~Hasty PROVE Spec => []HistoriesSeparate
  <1>1. ASSUME PInv PROVE HistoriesSeparate
    <2> SUFFICES ASSUME NEW i \in DOMAIN mem.list, NEW j \in DOMAIN mem.list, i # j
                 PROVE  {Key(m) : m \in Range(Shadow(i))} \cap {Key(m) : m \in Range(Shadow(j))} = {}
      BY DEF HistoriesSeparate
    <2>1. /\ UniqueIds(mem.list) /\ Apart(mem.list) /\ Private(mem.list, mem.active, page.msgs)
      BY <1>1 DEF PInv, ListInv, Stores, StoreOK, Secrets
    <2>2. mem.list[i].id # mem.list[j].id /\ Foreign(mem.list[i].msgs, mem.list[j].msgs)
      BY <2>1 DEF UniqueIds, Apart
    <2>3. Foreign(Shadow(i), Shadow(j))
      <3>1. CASE mem.list[i].id = mem.active
        <4>1. Shadow(i) = page.msgs /\ Shadow(j) = mem.list[j].msgs /\ Foreign(mem.list[j].msgs, page.msgs)
          BY <2>1, <2>2, <3>1 DEF Shadow, Private
        <4> QED BY <4>1 DEF Foreign
      <3>2. CASE mem.list[j].id = mem.active
        BY <2>1, <2>2, <3>2 DEF Shadow, Private
      <3>3. CASE mem.list[i].id # mem.active /\ mem.list[j].id # mem.active
        BY <2>2, <3>3 DEF Shadow
      <3> QED BY <3>1, <3>2, <3>3
    <2> QED BY <2>3 DEF Foreign, Range
  <1> QED BY <1>1, PageHolds, PTL

-----------------------------------------------------------------------------
(* The types of the lists and of their updates.                            *)

\* The updates a user's event may add to the ones that wait.
OwnUpdates == Updates \cup [op : {"remove"}, key : Gens \X {"user", "assistant"}]
                      \cup [op : {"stop"}, gen : Gens]
AllUpdates == OwnUpdates \cup [op : {"set"}, val : Seq(Message)]

LEMMA RevisedTyped ==
    ASSUME NEW m \in Message, NEW u \in AllUpdates, u.op \notin {"replace", "set", "remove"}
    PROVE  Revised(m, u) \in Message
  <1>0. m.txt \in Texts /\ <<>> \in Texts
    BY DEF Message, Texts
  <1>1. \A st \in States, t \in Texts : With(m, st, t) \in Message
    BY DEF Message, States, With
  <1>2. \A st \in States : [m EXCEPT !.st = st] \in Message
    BY DEF Message, States
  <1>3. CASE u.op = "chunk"
    <2>1. u.txt \in Texts
      BY <1>3 DEF AllUpdates, OwnUpdates, Updates
    <2>2. PICK t : t = m.txt \o getAppendableChunk(m.txt, u.txt)
      OBVIOUS
    <2>3. t \in Texts
      BY <1>0, <2>1, <2>2, ChunkTyped
    <2>4. applyStreamingChunk(m, u.txt) = m
          \/ applyStreamingChunk(m, u.txt) = With(m, "streaming", t)
      BY <2>2 DEF applyStreamingChunk, With
    <2>5. applyStreamingChunk(m, u.txt) \in Message
      BY <1>1, <2>3, <2>4 DEF States
    <2> QED BY <1>3, <2>5 DEF Revised
  <1>4. CASE u.op = "complete" \/ u.op = "stop"
    <2>1. completeAssistantMessage(m) \in Message
      BY <1>2 DEF completeAssistantMessage, States
    <2> QED BY <1>4, <2>1 DEF Revised
  <1>5. CASE u.op = "error"
    <2>1. Revised(m, u) = With(m, "error", <<>>)
      BY <1>5 DEF Revised, With
    <2> QED BY <1>0, <1>1, <2>1 DEF States
  <1>6. CASE u.op = "answer"
    <2>1. u.txt \in Texts
      BY <1>6 DEF AllUpdates, OwnUpdates, Updates
    <2>2. Revised(m, u) = With(m, "complete", u.txt)
      BY <1>6 DEF Revised, With
    <2> QED BY <1>1, <2>1, <2>2 DEF States
  <1>7. u.op \in {"chunk", "complete", "stop", "error", "answer"}
    BY DEF AllUpdates, OwnUpdates, Updates
  <1> QED BY <1>3, <1>4, <1>5, <1>6, <1>7

\* An update makes a list of messages of one.
LEMMA EffectTyped ==
    ASSUME NEW ms \in Seq(Message), NEW u \in AllUpdates, NEW g
    PROVE  Effect(ms, u, g) \in Seq(Message)
  <1>1. CASE u.op \in {"replace", "set"}
    <2>1. u.val \in Seq(Message)
      BY <1>1 DEF AllUpdates, OwnUpdates, Updates
    <2> QED BY <1>1, <2>1 DEF Effect
  <1>2. CASE u.op = "remove"
    <2>1. PICK S : S = {m \in Range(ms) : Key(m) # u.key}
      OBVIOUS
    <2>2. Among(ms, S) \in Seq(Message)
      BY AmongIsRight DEF AmongRight
    <2>3. Effect(ms, u, g) = Among(ms, S)
      BY <1>2, <2>1 DEF Effect
    <2> QED BY <2>2, <2>3
  <1>3. CASE u.op \notin {"replace", "set", "remove"}
    <2>1. Effect(ms, u, g) = IF StillCurrent(u, g) THEN updateLastAssistantMessage(ms, u) ELSE ms
      BY <1>3 DEF Effect
    <2>2. updateLastAssistantMessage(ms, u) \in Seq(Message)
      <3>1. CASE ms = <<>> \/ ms[Len(ms)].from # "assistant"
        BY <3>1 DEF updateLastAssistantMessage
      <3>2. CASE ~(ms = <<>> \/ ms[Len(ms)].from # "assistant")
        <4>1. PICK n \in Nat : n = Len(ms) /\ n \in 1..n /\ DOMAIN ms = 1..n
          BY <3>2
        <4>2. PICK m \in Message : m = ms[n]
          BY <4>1
        <4>3. PICK r \in Message : r = Revised(m, u)
          BY <1>3, RevisedTyped
        <4>4. updateLastAssistantMessage(ms, u) = [ms EXCEPT ![n] = r]
          BY <3>2, <4>1, <4>2, <4>3 DEF updateLastAssistantMessage
        <4>5. [ms EXCEPT ![n] = r] \in Seq(Message)
          BY <4>1, <4>3
        <4> QED BY <4>4, <4>5
      <3> QED BY <3>1, <3>2
    <2> QED BY <2>1, <2>2
  <1> QED BY <1>1, <1>2, <1>3

\* What a render makes of typed updates; unless they open another conversation
\* the list shown is the one to save.
Renders(ms) ==
  {a \in [ms : Seq(Message), dirty : BOOLEAN, latest : Seq(Message)] :
     (a.dirty => a.latest = a.ms) /\ (~a.dirty => a.ms = ms)}

LEMMA RenderedTyped ==
    ASSUME page.msgs \in Seq(Message), NEW q, NEW g
    PROVE  /\ q \in Seq(AllUpdates) =>
                Rendered(q, g) \in [ms : Seq(Message), dirty : BOOLEAN, latest : Seq(Message)]
           /\ q \in Seq(OwnUpdates) => Rendered(q, g) \in Renders(page.msgs)
  <1> DEFINE All == [ms : Seq(Message), dirty : BOOLEAN, latest : Seq(Message)]
  <1>1. PICK b : b = Unrendered(page.msgs)
    OBVIOUS
  <1>2. b \in All /\ b \in Renders(page.msgs)
    BY <1>1 DEF Unrendered, Renders
  <1>3. ASSUME NEW a \in All, NEW u \in AllUpdates
        PROVE  RenderStep(a, u, g) \in All
    <2>1. PICK e \in Seq(Message) : e = Effect(a.ms, u, g)
      BY EffectTyped
    <2>2. PICK d \in BOOLEAN : d = (a.dirty \/ u.op # "set")
      OBVIOUS
    <2>3. PICK l \in Seq(Message) : l = IF u.op = "set" THEN a.latest ELSE e
      BY <2>1
    <2>4. RenderStep(a, u, g) = [ms |-> e, dirty |-> d, latest |-> l]
      BY <2>1, <2>2, <2>3 DEF RenderStep
    <2> QED BY <2>4
  <1>4. ASSUME NEW a \in Renders(page.msgs), NEW u \in OwnUpdates
        PROVE  RenderStep(a, u, g) \in Renders(page.msgs)
    <2>0. u \in AllUpdates /\ u.op # "set" /\ a.ms \in Seq(Message)
      BY DEF AllUpdates, OwnUpdates, Updates, Renders
    <2>1. PICK e \in Seq(Message) : e = Effect(a.ms, u, g)
      BY <2>0, EffectTyped
    <2>2. PICK d : d = (a.dirty \/ u.op # "set")
      OBVIOUS
    <2>3. d = TRUE
      BY <2>0, <2>2
    <2>4. RenderStep(a, u, g) = [ms |-> e, dirty |-> d, latest |-> e]
      BY <2>0, <2>1, <2>2 DEF RenderStep
    <2> QED BY <2>3, <2>4 DEF Renders
  <1>5. Rendered(q, g) = R!Folded(b, q, g)
    BY <1>1, RenderedIsFold
  <1>6. ASSUME q \in Seq(AllUpdates) PROVE Rendered(q, g) \in All
    <2>1. \A i \in 1..Len(q) : q[i] \in AllUpdates
      BY <1>6
    <2>2. \A a \in All, i \in 1..Len(q) : RenderStep(a, q[i], g) \in All
      BY <1>3, <2>1
    <2> HIDE DEF All
    <2> QED BY <1>2, <1>5, <1>6, <2>2, R!FoldIn
  <1>7. ASSUME q \in Seq(OwnUpdates) PROVE Rendered(q, g) \in Renders(page.msgs)
    <2>1. \A i \in 1..Len(q) : q[i] \in OwnUpdates
      BY <1>7
    <2>2. \A a \in Renders(page.msgs), i \in 1..Len(q) : RenderStep(a, q[i], g) \in Renders(page.msgs)
      BY <1>4, <2>1
    <2> QED BY <1>2, <1>5, <1>7, <2>2, R!FoldIn
  <1> QED BY <1>6, <1>7

\* What a user's event shows and leaves to be saved.
LEMMA ShownTyped ==
    ASSUME page.msgs \in Seq(Message), queue \in Seq(Updates), NEW us, NEW g, NEW m,
           NEW isReq, NEW isStr, Shown(us, g, m, isReq, isStr)
    PROVE  /\ queue' = <<>>
           /\ us \in Seq(AllUpdates) =>
                /\ page'.msgs \in Seq(Message)
                /\ mem' = m \/ \E ms \in Seq(Message) : mem' = ToSave(m, ms)
           /\ us \in Seq(OwnUpdates) =>
                \/ mem' = m /\ page'.msgs = page.msgs
                \/ mem' = ToSave(m, page'.msgs)
  <1>1. PICK q, r : q = queue \o us /\ r = Rendered(q, g)
    OBVIOUS
  <1>2. page'.msgs = r.ms /\ mem' = persistMessages(m, r) /\ queue' = <<>>
    BY <1>1 DEF Shown
  <1>3. Updates \subseteq OwnUpdates /\ Updates \subseteq AllUpdates
    BY DEF AllUpdates, OwnUpdates
  <1>4. queue \in Seq(OwnUpdates) /\ queue \in Seq(AllUpdates)
    BY <1>3, SeqMonotonic
  <1>5. mem' = m \/ mem' = ToSave(m, r.latest)
    BY <1>2 DEF persistMessages, ToSave
  <1>6. ASSUME us \in Seq(AllUpdates)
        PROVE  page'.msgs \in Seq(Message) /\ r.latest \in Seq(Message)
    <2>1. q \in Seq(AllUpdates)
      BY <1>1, <1>4, <1>6
    <2>2. r \in [ms : Seq(Message), dirty : BOOLEAN, latest : Seq(Message)]
      BY <1>1, <2>1, RenderedTyped
    <2> QED BY <1>2, <2>2
  <1>7. ASSUME us \in Seq(OwnUpdates)
        PROVE  (mem' = m /\ page'.msgs = page.msgs) \/ mem' = ToSave(m, page'.msgs)
    <2>1. q \in Seq(OwnUpdates)
      BY <1>1, <1>4, <1>7
    <2>2. r \in Renders(page.msgs)
      BY <1>1, <2>1, RenderedTyped
    <2>3. CASE r.dirty
      BY <1>2, <2>2, <2>3 DEF Renders, persistMessages, ToSave
    <2>4. CASE ~r.dirty
      BY <1>2, <2>2, <2>4 DEF Renders, persistMessages
    <2> QED BY <2>3, <2>4
  <1> QED BY <1>2, <1>5, <1>6, <1>7

-----------------------------------------------------------------------------
(* The conversations and the order of their last updates.                  *)

Entries == [id : Ids, msgs : Seq(Message)]

\* The conversations have names of their own, and recent names each of them once.
Named(L, r) == L \in Seq(Entries) /\ UniqueIds(L) /\ r \in Seq(Ids) /\ IsInjective(r) /\ Range(r) = IdsOf(L)
Kept(L, r) == Named(L, r) /\ Len(L) <= MaxConversations

LEMMA CountOnce ==
    ASSUME NEW X, NEW s \in Seq(X), IsInjective(s)
    PROVE  Cardinality(Range(s)) = Len(s)
  <1>1. PICK n \in Nat : n = Len(s) /\ DOMAIN s = 1..n
    OBVIOUS
  <1>2. s \in [1..n -> Range(s)]
    BY <1>1 DEF Range
  <1>3. s \in Bijection(1..n, Range(s))
    BY <1>1, <1>2 DEF Bijection, Injection, Surjection, Range
  <1>4. ExistsBijection(1..n, Range(s))
    BY <1>3 DEF ExistsBijection
  <1> QED BY <1>1, <1>4, FS_CountingElements

LEMMA NamedLen ==
    ASSUME NEW L, NEW r, Named(L, r)
    PROVE  Len(L) = Len(r) /\ Len(L) \in Nat
  <1>1. PICK s : s = [i \in 1..Len(L) |-> L[i].id]
    OBVIOUS
  <1>2. L \in Seq(Entries) /\ UniqueIds(L) /\ r \in Seq(Ids) /\ IsInjective(r) /\ Range(r) = IdsOf(L)
    BY DEF Named
  <1>3. Len(L) \in Nat /\ DOMAIN L = 1..Len(L) /\ \A i \in 1..Len(L) : L[i] \in Entries
    BY <1>2
  <1>4. s \in [1..Len(L) -> Ids]
    BY <1>1, <1>3 DEF Entries
  <1>5. s \in Seq(Ids) /\ Len(s) = Len(L) /\ DOMAIN s = 1..Len(L)
    BY <1>3, <1>4
  <1>6. IsInjective(s)
    BY <1>1, <1>2, <1>3, <1>5 DEF IsInjective, UniqueIds
  <1>7. Range(s) = IdsOf(L)
    BY <1>1, <1>3, <1>5 DEF Range, IdsOf
  <1>8. Cardinality(Range(s)) = Len(L)
    BY <1>5, <1>6, CountOnce
  <1>9. Cardinality(Range(r)) = Len(r)
    BY <1>2, CountOnce
  <1> QED BY <1>2, <1>3, <1>7, <1>8, <1>9

LEMMA EmbedsLen ==
    ASSUME NEW X, NEW r \in Seq(X), NEW s \in Seq(X), Embeds(r, s)
    PROVE  Len(r) <= Len(s)
  <1>1. PICK m \in Nat, n \in Nat : m = Len(r) /\ n = Len(s) /\ DOMAIN r = 1..m /\ DOMAIN s = 1..n
    OBVIOUS
  <1>2. PICK f \in [DOMAIN r -> DOMAIN s] : \A i, j \in DOMAIN r : f[i] = f[j] => i = j
    BY DEF Embeds
  <1>3. f \in Injection(1..m, 1..n)
    BY <1>1, <1>2 DEF Injection, IsInjective
  <1>4. /\ IsFiniteSet(1..n) /\ Cardinality(1..n) = n /\ Cardinality(1..m) = m
    BY FS_Interval
  <1>5. Cardinality(1..m) <= Cardinality(1..n)
    BY <1>3, <1>4, FS_Injection
  <1> QED BY <1>1, <1>4, <1>5

\* Some of the conversations, with their names.
LEMMA NamedPart ==
    ASSUME NEW L, NEW r, Named(L, r), NEW K \in Seq(Entries), Embeds(K, L),
           NEW q \in Seq(Ids), Embeds(q, r), Range(q) = IdsOf(K)
    PROVE  Named(K, q) /\ Len(K) <= Len(L)
  <1>1. L \in Seq(Entries) /\ UniqueIds(L) /\ IsInjective(r)
    BY DEF Named
  <1>2. UniqueIds(K)
    BY <1>1 DEF Embeds, UniqueIds
  <1>3. IsInjective(q)
    BY <1>1 DEF Embeds, IsInjective
  <1>4. Len(K) <= Len(L)
    BY <1>1, EmbedsLen
  <1> QED BY <1>2, <1>3, <1>4 DEF Named

LEMMA AmongAll ==
    ASSUME NEW X, NEW s \in Seq(X), NEW S, \A i \in DOMAIN s : s[i] \in S
    PROVE  Among(s, S) = s
  <1> DEFINE T == {k \in 0..Len(s) : Among(SubSeq(s, 1, k), S) = SubSeq(s, 1, k)}
  <1>1. Len(s) \in Nat /\ SubSeq(s, 1, Len(s)) = s /\ DOMAIN s = 1..Len(s)
    OBVIOUS
  <1>2. 0 \in T
    <2>1. SubSeq(s, 1, 0) = <<>>
      OBVIOUS
    <2>2. Among(SubSeq(s, 1, 0), S) = SubSeq(s, 1, 0)
      BY <2>1, AmongNone
    <2> QED BY <1>1, <2>2
  <1>3. ASSUME NEW k \in 0..(Len(s) - 1), k \in T PROVE k + 1 \in T
    <2>1. k \in 0..Len(s) /\ k + 1 \in 1..Len(s) /\ k + 1 \in 0..Len(s)
      BY <1>1
    <2>2. PICK r \in Seq(X), x \in X : r = SubSeq(s, 1, k) /\ x = s[k + 1]
      <3>1. SubSeq(s, 1, k) \in Seq(X)
        BY <2>1
      <3>2. s[k + 1] \in X
        BY <2>1
      <3> QED BY <3>1, <3>2
    <2>3. SubSeq(s, 1, k + 1) = Append(r, x) /\ x \in S
      BY <1>1, <2>1, <2>2
    <2>4. Among(Append(r, x), S) = Append(Among(r, S), x)
      BY <2>3, AmongOne
    <2>5. Among(r, S) = r
      BY <1>3, <2>2
    <2>6. Among(SubSeq(s, 1, k + 1), S) = SubSeq(s, 1, k + 1)
      BY <2>3, <2>4, <2>5
    <2> QED BY <2>1, <2>6
  <1>4. Len(s) \in T
    <2> HIDE DEF T
    <2> QED BY <1>1, <1>2, <1>3, A!UpTo
  <1> QED BY <1>1, <1>4

LEMMA OnlyNamed ==
    ASSUME NEW L \in Seq(Entries), NEW S, NEW K, K = Only(L, S)
    PROVE  /\ K \in Seq(Entries) /\ Embeds(K, L) /\ IdsOf(K) = IdsOf(L) \cap S
           /\ IdsOf(L) \subseteq S => K = L
  <1>1. PICK T : T = {c \in Range(L) : c.id \in S}
    OBVIOUS
  <1>2. K = Among(L, T) /\ AmongRight(L, T, Entries)
    BY <1>1, AmongIsRight DEF Only
  <1>3. K \in Seq(Entries) /\ Embeds(K, L) /\ \A i \in DOMAIN K : K[i] \in T
    BY <1>2 DEF AmongRight
  <1>4. \A i \in DOMAIN L : L[i] \in T => \E j \in DOMAIN K : K[j] = L[i]
    BY <1>2 DEF AmongRight
  <1>5. \A i \in DOMAIN L : L[i].id \in S => L[i] \in T
    BY <1>1 DEF Range
  <1>6. ASSUME NEW i \in DOMAIN K PROVE K[i].id \in IdsOf(L) \cap S
    <2>1. K[i] \in Range(L) /\ K[i].id \in S
      BY <1>1, <1>3
    <2> QED BY <2>1 DEF Range, IdsOf
  <1>7. ASSUME NEW i \in DOMAIN L, L[i].id \in S PROVE L[i].id \in IdsOf(K)
    <2>1. PICK j \in DOMAIN K : K[j] = L[i]
      BY <1>4, <1>5, <1>7
    <2> QED BY <2>1 DEF IdsOf
  <1>8. IdsOf(K) = IdsOf(L) \cap S
    BY <1>6, <1>7 DEF IdsOf
  <1>9. ASSUME IdsOf(L) \subseteq S PROVE K = L
    <2>1. \A i \in DOMAIN L : L[i] \in T
      BY <1>5, <1>9 DEF IdsOf
    <2> QED BY <1>2, <2>1, AmongAll
  <1> QED BY <1>3, <1>8, <1>9

LEMMA AmongNamed ==
    ASSUME NEW r \in Seq(Ids), NEW S, NEW q, q = Among(r, S)
    PROVE  q \in Seq(Ids) /\ Embeds(q, r) /\ Range(q) = Range(r) \cap S
  <1>1. AmongRight(r, S, Ids)
    BY AmongIsRight
  <1>2. q \in Seq(Ids) /\ Embeds(q, r) /\ \A i \in DOMAIN q : q[i] \in S
    BY <1>1 DEF AmongRight
  <1>3. \A i \in DOMAIN r : r[i] \in S => \E j \in DOMAIN q : q[j] = r[i]
    BY <1>1 DEF AmongRight
  <1>4. \A i \in DOMAIN q : \E j \in DOMAIN r : q[i] = r[j]
    BY <1>2 DEF Embeds
  <1> QED BY <1>2, <1>3, <1>4 DEF Range

\* The cap keeps the most recent conversation, and all of them below it.
LEMMA CappedNamed ==
    ASSUME NEW L, NEW r, Named(L, r), NEW c, c = Capped(L, r)
    PROVE  /\ Kept(c.list, c.recent) /\ (r # <<>> => r[1] \in IdsOf(c.list)) /\ Embeds(c.list, L)
           /\ Len(L) <= MaxConversations => c.list = L /\ c.recent = r
  <1>1. MaxConversations \in Nat /\ MaxConversations >= 1
    BY ConstantsAssumption
  <1>2. L \in Seq(Entries) /\ r \in Seq(Ids) /\ Range(r) = IdsOf(L) /\ Len(L) = Len(r) /\ Len(r) \in Nat
    BY NamedLen DEF Named
  <1>3. PICK n : n = IF Len(r) < MaxConversations THEN Len(r) ELSE MaxConversations
    OBVIOUS
  <1>4. /\ n \in 0..Len(r) /\ n <= MaxConversations /\ (r # <<>> => n >= 1)
        /\ Len(L) <= MaxConversations => n = Len(r)
    <2>1. r # <<>> => Len(r) >= 1
      BY <1>2
    <2> QED BY <1>1, <1>2, <1>3, <2>1
  <1>5. PICK top : top = SubSeq(r, 1, n)
    OBVIOUS
  <1>6. c.list = Only(L, Range(top)) /\ c.recent = top
    BY <1>3, <1>5 DEF Capped
  <1>7. top \in Seq(Ids) /\ Embeds(top, r) /\ Len(top) = n /\ DOMAIN top = 1..n
    <2>1. 1 \in 1..(Len(r) + 1)
      BY <1>2
    <2>2. top \in Seq(Ids) /\ Embeds(top, r)
      BY <1>2, <1>4, <1>5, <2>1, SubSeqEmbeds
    <2>3. Len(top) = n
      BY <1>2, <1>4, <1>5
    <2> QED BY <2>2, <2>3
  <1>8. Range(top) \subseteq IdsOf(L)
    <2>1. Range(top) \subseteq Range(r)
      BY <1>7 DEF Embeds, Range
    <2> QED BY <1>2, <2>1
  <1>9. /\ c.list \in Seq(Entries) /\ Embeds(c.list, L) /\ IdsOf(c.list) = Range(top)
        /\ IdsOf(L) \subseteq Range(top) => c.list = L
    <2>1. /\ c.list \in Seq(Entries) /\ Embeds(c.list, L) /\ IdsOf(c.list) = IdsOf(L) \cap Range(top)
          /\ IdsOf(L) \subseteq Range(top) => c.list = L
      BY <1>2, <1>6, OnlyNamed
    <2> QED BY <1>8, <2>1
  <1>10. Named(c.list, c.recent)
    BY <1>6, <1>7, <1>9, NamedPart
  <1>11. Len(c.list) <= MaxConversations
    BY <1>4, <1>6, <1>7, <1>10, NamedLen
  <1>12. r # <<>> => r[1] \in Range(top)
    <2> SUFFICES ASSUME r # <<>> PROVE r[1] \in Range(top)
      OBVIOUS
    <2>1. 1 \in 1..n /\ top[1] = r[1]
      BY <1>2, <1>4, <1>5
    <2> QED BY <1>7, <2>1 DEF Range
  <1>13. Len(L) <= MaxConversations => c.list = L /\ c.recent = r
    <2> SUFFICES ASSUME Len(L) <= MaxConversations PROVE c.list = L /\ c.recent = r
      OBVIOUS
    <2>1. top = r
      BY <1>2, <1>4, <1>5
    <2> QED BY <1>2, <1>6, <1>9, <2>1
  <1> QED BY <1>9, <1>10, <1>11, <1>12, <1>13 DEF Kept

DiskTyped(d) ==
  /\ d = [list |-> d.list, recent |-> d.recent, active |-> d.active]
  /\ Kept(d.list, d.recent) /\ d.active \in Ids

\* What is saved is a store again, and all of it if there is room.
LEMMA SavedNamed ==
    ASSUME NEW d, DiskTyped(d), NEW L, NEW r, Named(L, r), NEW e, e = Saved(d, L, r)
    PROVE  /\ DiskTyped(e) /\ e.active = d.active
           /\ Len(L) <= MaxConversations /\ L # <<>> /\ Fits(L) => e.list = L
  <1>1. PICK c, K, q : c = Capped(L, r) /\ K = c.list /\ q = c.recent
    OBVIOUS
  <1>2. Kept(K, q) /\ (Len(L) <= MaxConversations => K = L)
    BY <1>1, CappedNamed
  <1>3. K \in Seq(Entries) /\ q \in Seq(Ids) /\ Range(q) = IdsOf(K) /\ Len(K) \in Nat
        /\ Len(K) <= MaxConversations /\ MaxConversations \in Nat /\ Named(K, q)
    BY <1>2, ConstantsAssumption DEF Kept, Named
  <1> DEFINE tries == {n \in 0..(Len(K) - 1) : Fits(SubSeq(K, n + 1, Len(K)))}
  <1>4. tries \subseteq Nat
    BY <1>3
  <1>5. SubSeq(K, 0 + 1, Len(K)) = K
    BY <1>3
  <1>6. K # <<>> /\ Fits(K) => 0 \in tries
    <2> SUFFICES ASSUME K # <<>>, Fits(K) PROVE 0 \in tries
      OBVIOUS
    <2>1. 0 \in 0..(Len(K) - 1)
      BY <1>3
    <2>2. Fits(SubSeq(K, 0 + 1, Len(K)))
      BY <1>5
    <2> QED BY <2>1, <2>2
  <1>7. CASE tries = {}
    <2>1. e = d
      BY <1>1, <1>7 DEF Saved
    <2> QED BY <1>2, <1>6, <1>7, <2>1
  <1>8. CASE tries # {}
    <2>1. PICK n : n = Min(tries)
      OBVIOUS
    <2>2. n \in tries /\ (0 \in tries => n = 0)
      <3>1. \E k \in tries : \A j \in tries : k <= j
        <4> HIDE DEF tries
        <4> QED BY <1>4, <1>8, A!Least
      <3>2. n \in tries /\ \A j \in tries : n <= j
        <4> HIDE DEF tries
        <4> QED BY <2>1, <3>1 DEF Min
      <3> QED BY <1>4, <3>2
    <2>3. PICK k : k = SubSeq(K, n + 1, Len(K))
      OBVIOUS
    <2>4. n + 1 \in 1..(Len(K) + 1) /\ Len(K) \in 0..Len(K)
      BY <1>3, <2>2
    <2>5. k \in Seq(Entries) /\ Embeds(k, K)
      BY <1>3, <2>3, <2>4, SubSeqEmbeds
    <2>6. PICK p : p = Among(q, IdsOf(k))
      OBVIOUS
    <2>7. IdsOf(k) \subseteq IdsOf(K)
      BY <2>5 DEF IdsOf, Embeds
    <2>8. p \in Seq(Ids) /\ Embeds(p, q) /\ Range(p) = IdsOf(k)
      <3>1. PICK S : S = IdsOf(k)
        OBVIOUS
      <3>2. p \in Seq(Ids) /\ Embeds(p, q) /\ Range(p) = Range(q) \cap S
        BY <1>3, <2>6, <3>1, AmongNamed
      <3> QED BY <1>3, <2>7, <3>1, <3>2
    <2>9. Named(k, p) /\ Len(k) <= Len(K)
      BY <1>3, <2>5, <2>8, NamedPart
    <2>10. Kept(k, p)
      <3>1. Len(k) \in Nat
        BY <2>5
      <3> QED BY <1>3, <2>9, <3>1 DEF Kept
    <2>11. e = [d EXCEPT !.list = k, !.recent = p]
      BY <1>1, <1>8, <2>1, <2>3, <2>6 DEF Saved
    <2>12. e = [list |-> k, recent |-> p, active |-> d.active]
      BY <2>11 DEF DiskTyped
    <2>13. 0 \in tries => k = K
      <3> HIDE DEF tries
      <3> QED BY <1>5, <2>2, <2>3
    <2>14. DiskTyped(e) /\ e.active = d.active /\ e.list = k
      BY <2>10, <2>12 DEF DiskTyped
    <2> HIDE DEF tries
    <2> QED BY <1>2, <1>6, <2>13, <2>14
  <1> QED BY <1>7, <1>8

LEMMA OpenedDisk ==
    ASSUME NEW d, DiskTyped(d), NEW a \in Ids, NEW e, e = [d EXCEPT !.active = a]
    PROVE  DiskTyped(e) /\ e.list = d.list
  <1>1. e = [list |-> d.list, recent |-> d.recent, active |-> a]
    BY DEF DiskTyped
  <1> QED BY <1>1 DEF DiskTyped

\* A name put before others.
LEMMA PushedNamed ==
    ASSUME NEW q \in Seq(Ids), IsInjective(q), NEW id \in Ids, id \notin Range(q), NEW w, w = <<id>> \o q
    PROVE  w \in Seq(Ids) /\ IsInjective(w) /\ Range(w) = Range(q) \cup {id} /\ w # <<>> /\ w[1] = id
  <1>1. PICK n \in Nat : n = Len(q) /\ DOMAIN q = 1..n
    OBVIOUS
  <1>2. /\ w \in Seq(Ids) /\ Len(w) = n + 1 /\ DOMAIN w = 1..(n + 1) /\ w[1] = id
    BY <1>1
  <1>3. \A i \in 2..(n + 1) : w[i] = q[i - 1] /\ i - 1 \in 1..n
    BY <1>1
  <1>4. IsInjective(w)
    <2> SUFFICES ASSUME NEW i \in 1..(n + 1), NEW j \in 1..(n + 1), w[i] = w[j] PROVE i = j
      BY <1>2 DEF IsInjective
    <2>1. CASE i = 1 /\ j = 1
      BY <2>1
    <2>2. CASE i # 1 /\ j = 1
      <3>1. i \in 2..(n + 1)
        BY <2>2
      <3> QED BY <1>1, <1>2, <1>3, <2>2, <3>1 DEF Range
    <2>3. CASE i = 1 /\ j # 1
      <3>1. j \in 2..(n + 1)
        BY <2>3
      <3> QED BY <1>1, <1>2, <1>3, <2>3, <3>1 DEF Range
    <2>4. CASE i # 1 /\ j # 1
      <3>1. i \in 2..(n + 1) /\ j \in 2..(n + 1)
        BY <2>4
      <3>2. q[i - 1] = q[j - 1] /\ i - 1 \in DOMAIN q /\ j - 1 \in DOMAIN q
        BY <1>1, <1>3, <3>1
      <3>3. i - 1 = j - 1
        BY <3>2 DEF IsInjective
      <3> QED BY <3>1, <3>3
    <2> QED BY <2>1, <2>2, <2>3, <2>4
  <1>5. \A x : x \in Range(w) => x \in Range(q) \cup {id}
    <2> SUFFICES ASSUME NEW i \in 1..(n + 1) PROVE w[i] \in Range(q) \cup {id}
      BY <1>2 DEF Range
    <2>1. i = 1 \/ i \in 2..(n + 1)
      OBVIOUS
    <2> QED BY <1>1, <1>2, <1>3, <2>1 DEF Range
  <1>6. \A x : x \in Range(q) \cup {id} => x \in Range(w)
    <2>1. id \in Range(w)
      <3>1. 1 \in DOMAIN w /\ w[1] = id
        BY <1>2
      <3> QED BY <3>1 DEF Range
    <2>2. ASSUME NEW i \in 1..n PROVE q[i] \in Range(w)
      <3>1. i + 1 \in 2..(n + 1) /\ i + 1 \in 1..(n + 1) /\ (i + 1) - 1 = i
        OBVIOUS
      <3>2. w[i + 1] = q[i]
        BY <1>3, <3>1
      <3> QED BY <1>2, <3>1, <3>2 DEF Range
    <2> QED BY <1>1, <2>1, <2>2 DEF Range
  <1> QED BY <1>2, <1>4, <1>5, <1>6

\* The refs of the state hook.
RefTyped(m) ==
  /\ m = Ref(m.list, m.recent, m.active, m.latest, m.timer)
  /\ Kept(m.list, m.recent) /\ m.active \in Ids /\ m.latest \in Seq(Message) /\ m.timer \in BOOLEAN

LEMMA RefParts ==
    ASSUME NEW L, NEW q, NEW a, NEW ms, NEW t, NEW m, m = Ref(L, q, a, ms, t)
    PROVE  /\ m.list = L /\ m.recent = q /\ m.active = a /\ m.latest = ms /\ m.timer = t
           /\ Kept(L, q) /\ a \in Ids /\ ms \in Seq(Message) /\ t \in BOOLEAN => RefTyped(m)
  <1>1. m.list = L /\ m.recent = q /\ m.active = a /\ m.latest = ms /\ m.timer = t
    BY DEF Ref
  <1> QED BY <1>1 DEF RefTyped

\* The messages to save are put into their conversation.
LEMMA ActiveNamed ==
    ASSUME NEW L \in Seq(Entries), UniqueIds(L), NEW a, NEW ms \in Seq(Message),
           NEW K, K = WithActive(L, a, ms)
    PROVE  K \in Seq(Entries) /\ UniqueIds(K) /\ IdsOf(K) = IdsOf(L) /\ Len(K) = Len(L)
  <1>1. PICK n \in Nat : n = Len(L) /\ DOMAIN L = 1..n
    OBVIOUS
  <1>2. /\ DOMAIN K = 1..n
        /\ \A i \in 1..n : K[i] = [id |-> L[i].id, msgs |-> IF L[i].id = a THEN ms ELSE L[i].msgs]
    BY <1>1 DEF WithActive
  <1>3. \A i \in 1..n : K[i].id = L[i].id /\ K[i] \in Entries
    <2>1. \A i \in 1..n : L[i].id \in Ids /\ L[i].msgs \in Seq(Message)
      <3>1. \A i \in 1..n : L[i] \in Entries
        BY <1>1
      <3> QED BY <3>1 DEF Entries
    <2> QED BY <1>2, <2>1 DEF Entries
  <1>4. K \in [1..n -> Entries]
    BY <1>1, <1>3 DEF WithActive
  <1>5. K \in Seq(Entries) /\ Len(K) = n
    BY <1>4
  <1>6. UniqueIds(K)
    BY <1>1, <1>2, <1>3 DEF UniqueIds
  <1>7. IdsOf(K) = IdsOf(L)
    BY <1>1, <1>2, <1>3 DEF IdsOf
  <1> QED BY <1>1, <1>5, <1>6, <1>7

LEMMA NewestNamed ==
    ASSUME NEW r \in Seq(Ids), IsInjective(r), NEW a \in Range(r), NEW q, q = Newest(a, r)
    PROVE  q \in Seq(Ids) /\ IsInjective(q) /\ Range(q) = Range(r)
  <1>0. a \in Ids
    BY DEF Range
  <1>1. PICK S, p : S = Ids \ {a} /\ p = Among(r, S)
    OBVIOUS
  <1>2. p \in Seq(Ids) /\ Embeds(p, r) /\ Range(p) = Range(r) \cap S
    BY <1>1, AmongNamed
  <1>3. IsInjective(p)
    BY <1>2 DEF Embeds, IsInjective
  <1>4. q = <<a>> \o p
    BY <1>1 DEF Newest
  <1>5. a \notin Range(p) /\ Range(r) \subseteq Ids
    <2>1. \A i \in DOMAIN r : r[i] \in Ids
      OBVIOUS
    <2> QED BY <1>1, <1>2, <2>1 DEF Range
  <1>6. q \in Seq(Ids) /\ IsInjective(q) /\ Range(q) = Range(p) \cup {a}
    BY <1>0, <1>2, <1>3, <1>4, <1>5, PushedNamed
  <1>7. Range(p) \cup {a} = Range(r)
    BY <1>1, <1>2, <1>5
  <1> QED BY <1>6, <1>7

LEMMA StoredRefs ==
    ASSUME NEW m, RefTyped(m), NEW s, s = Stored(m)
    PROVE  /\ RefTyped(s) /\ s.list = WithActive(m.list, m.active, m.latest)
           /\ s.active = m.active /\ s.latest = m.latest /\ s.timer = FALSE
  <1>1. PICK L, r, a, ms : L = m.list /\ r = m.recent /\ a = m.active /\ ms = m.latest
    OBVIOUS
  <1>2. /\ m = Ref(L, r, a, ms, m.timer) /\ L \in Seq(Entries) /\ UniqueIds(L) /\ r \in Seq(Ids)
        /\ IsInjective(r) /\ Range(r) = IdsOf(L) /\ Len(L) <= MaxConversations
        /\ a \in Ids /\ ms \in Seq(Message)
    BY <1>1 DEF RefTyped, Kept, Named
  <1>3. PICK q : q = IF a \in IdsOf(L) THEN Newest(a, r) ELSE r
    OBVIOUS
  <1>4. PICK K : K = [i \in DOMAIN L |-> IF L[i].id = a THEN [L[i] EXCEPT !.msgs = ms] ELSE L[i]]
    OBVIOUS
  <1>5. s = [m EXCEPT !.list = K, !.recent = q, !.timer = FALSE]
    BY <1>1, <1>3, <1>4 DEF Stored
  <1>6. PICK f \in BOOLEAN : ~f /\ s = Ref(K, q, a, ms, f)
    <2>1. PICK y : y = Listed(m, K, q)
      OBVIOUS
    <2>2. y = Ref(K, q, a, ms, m.timer)
      BY <1>2, <2>1, ListedRefs
    <2>3. s = [y EXCEPT !.timer = FALSE]
      BY <1>5, <2>1 DEF Listed
    <2>4. s = [list |-> K, recent |-> q, active |-> a, latest |-> ms, timer |-> FALSE]
      BY <2>2, <2>3 DEF Ref
    <2> QED BY <2>4 DEF Ref
  <1>7. K = WithActive(L, a, ms)
    <2>1. \A i \in DOMAIN L :
            K[i] = [id |-> L[i].id, msgs |-> IF L[i].id = a THEN ms ELSE L[i].msgs]
      <3> TAKE i \in DOMAIN L
      <3>1. L[i] = [id |-> L[i].id, msgs |-> L[i].msgs]
        <4>1. L[i] \in Entries
          BY <1>2
        <4> QED BY <4>1 DEF Entries
      <3>2. CASE L[i].id = a
        BY <1>4, <3>1, <3>2
      <3>3. CASE L[i].id # a
        BY <1>4, <3>1, <3>3
      <3> QED BY <3>2, <3>3
    <2> QED BY <1>4, <2>1 DEF WithActive
  <1>8. K \in Seq(Entries) /\ UniqueIds(K) /\ IdsOf(K) = IdsOf(L) /\ Len(K) = Len(L)
    BY <1>2, <1>7, ActiveNamed
  <1>9. q \in Seq(Ids) /\ IsInjective(q) /\ Range(q) = IdsOf(L)
    <2>1. CASE a \in IdsOf(L)
      <3>1. q = Newest(a, r)
        BY <1>3, <2>1
      <3> QED BY <1>2, <2>1, <3>1, NewestNamed
    <2>2. CASE a \notin IdsOf(L)
      BY <1>2, <1>3, <2>2
    <2> QED BY <2>1, <2>2
  <1>10. Kept(K, q)
    BY <1>2, <1>8, <1>9 DEF Kept, Named
  <1>11. /\ s.list = K /\ s.recent = q /\ s.active = a /\ s.latest = ms /\ s.timer = f /\ RefTyped(s)
    BY <1>2, <1>6, <1>10, RefParts
  <1> QED BY <1>1, <1>6, <1>7, <1>11

\* What leaving the conversation makes of the refs and of the disk.
LEMMA LeftRefs ==
    ASSUME RefTyped(mem), DiskTyped(disk)
    PROVE  RefTyped(LeaveConversation) /\ DiskTyped(SavedOnLeave)
  <1>1. PICK s : s = Stored(mem)
    OBVIOUS
  <1>2. RefTyped(s) /\ Named(s.list, s.recent)
    BY <1>1, StoredRefs DEF RefTyped, Kept
  <1>3. DiskTyped(Saved(disk, s.list, s.recent))
    BY <1>2, SavedNamed
  <1> QED BY <1>1, <1>2, <1>3 DEF LeaveConversation, SavedOnLeave

\* A store with one conversation more, or with one that is new.
Pushed(id, r) == <<id>> \o r

LEMMA NamedMore ==
    ASSUME NEW L, NEW r, Named(L, r), NEW id \in Ids, id \notin IdsOf(L),
           NEW K, K = WithNew(L, id), NEW q, q = Pushed(id, r)
    PROVE  Named(K, q) /\ q # <<>> /\ q[1] = id /\ Len(K) \in DOMAIN K /\ K[Len(K)] = Empty(id)
  <1>1. L \in Seq(Entries) /\ UniqueIds(L) /\ r \in Seq(Ids) /\ IsInjective(r) /\ Range(r) = IdsOf(L)
    BY DEF Named
  <1>2. PICK c \in Entries : c = Empty(id) /\ c.id = id
    <2>1. <<>> \in Seq(Message)
      OBVIOUS
    <2>2. Empty(id) \in Entries /\ Empty(id).id = id
      BY <2>1 DEF Empty, Entries
    <2> QED BY <2>2
  <1>3. /\ K \in Seq(Entries) /\ K[Len(K)] = c /\ Len(K) \in DOMAIN K /\ Len(K) = Len(L) + 1
        /\ \A i \in DOMAIN K : i # Len(K) => i \in DOMAIN L /\ K[i] = L[i]
    BY <1>1, <1>2, Appended DEF WithNew
  <1>4. \A i \in DOMAIN L : L[i].id # id
    BY DEF IdsOf
  <1>5. UniqueIds(K)
    BY <1>1, <1>2, <1>3, <1>4 DEF UniqueIds
  <1>6. IdsOf(K) = IdsOf(L) \cup {id}
    <2>1. \A i \in DOMAIN L : i \in DOMAIN K /\ i # Len(K)
      BY <1>1, <1>3
    <2> QED BY <1>2, <1>3, <2>1 DEF IdsOf
  <1>7. q \in Seq(Ids) /\ IsInjective(q) /\ Range(q) = Range(r) \cup {id} /\ q # <<>> /\ q[1] = id
    BY <1>1, PushedNamed DEF Pushed
  <1> QED BY <1>1, <1>2, <1>3, <1>5, <1>6, <1>7 DEF Named

LEMMA OneNamed ==
    ASSUME NEW id \in Ids, NEW L, L = <<Empty(id)>>, NEW q, q = <<id>>
    PROVE  Kept(L, q) /\ DOMAIN L = {1} /\ L[1] = Empty(id) /\ IdsOf(L) = {id}
  <1>1. PICK e : e = <<>>
    OBVIOUS
  <1>2. Named(e, e) /\ id \notin IdsOf(e)
    BY <1>1 DEF Named, UniqueIds, IdsOf, IsInjective, Range
  <1>3. L = WithNew(e, id) /\ q = Pushed(id, e)
    BY <1>1 DEF WithNew, Pushed
  <1>4. Named(L, q)
    BY <1>2, <1>3, NamedMore
  <1>5. Len(L) = 1 /\ DOMAIN L = {1} /\ L[1] = Empty(id)
    OBVIOUS
  <1>6. IdsOf(L) = {id}
    BY <1>5 DEF IdsOf, Empty
  <1> QED BY <1>4, <1>5, <1>6, ConstantsAssumption DEF Kept

LEMMA CreatedRefs ==
    ASSUME NEW left, RefTyped(left), NEW id \in Ids, id \notin IdsOf(left.list), NEW m, m = Created(left, id)
    PROVE  /\ RefTyped(m) /\ m.active = id /\ m.latest = <<>> /\ m.timer = left.timer
           /\ \E i \in DOMAIN m.list : m.list[i] = Empty(id)
  <1>1. PICK c, K, q : c = Empty(id) /\ K = WithNew(left.list, id) /\ q = Pushed(id, left.recent)
    OBVIOUS
  <1>2. Named(K, q) /\ q # <<>> /\ q[1] = id /\ Len(K) \in DOMAIN K /\ K[Len(K)] = c
    <2>1. PICK L, r : L = left.list /\ r = left.recent
      OBVIOUS
    <2>2. Named(L, r) /\ id \notin IdsOf(L) /\ K = WithNew(L, id) /\ q = Pushed(id, r)
      BY <1>1, <2>1 DEF RefTyped, Kept
    <2> QED BY <1>1, <2>2, NamedMore
  <1>3. PICK n, nl, nr : n = Capped(K, q) /\ nl = n.list /\ nr = n.recent
    OBVIOUS
  <1>4. Kept(nl, nr) /\ id \in IdsOf(nl) /\ Embeds(nl, K)
    BY <1>2, <1>3, CappedNamed
  <1>5. PICK o : o = Listed(left, nl, nr)
    OBVIOUS
  <1>6. o = Ref(nl, nr, left.active, left.latest, left.timer)
    BY <1>5, ListedRefs DEF RefTyped
  <1>7. m = Opened(o, c)
    BY <1>1, <1>3, <1>5 DEF Created, Listed, WithNew, Empty, Pushed
  <1>8. c.id = id /\ c.msgs = <<>> /\ <<>> \in Seq(Message)
    BY <1>1 DEF Empty
  <1>9. m = Ref(nl, nr, id, <<>>, left.timer)
    BY <1>6, <1>7, <1>8, OpenedRefs
  <1>10. PICK ms : ms = <<>>
    OBVIOUS
  <1>11. /\ m.list = nl /\ m.active = id /\ m.latest = ms /\ m.timer = left.timer /\ RefTyped(m)
    <2>1. m = Ref(nl, nr, id, ms, left.timer) /\ ms \in Seq(Message) /\ left.timer \in BOOLEAN
      BY <1>8, <1>9, <1>10 DEF RefTyped
    <2> QED BY <1>4, <2>1, RefParts
  <1>12. PICK i \in DOMAIN nl : nl[i].id = id
    BY <1>4 DEF IdsOf
  <1>13. PICK j \in DOMAIN K : nl[i] = K[j]
    BY <1>4 DEF Embeds
  <1>14. nl[i] = c
    BY <1>2, <1>8, <1>12, <1>13 DEF Named, UniqueIds
  <1> QED BY <1>1, <1>10, <1>11, <1>14

-----------------------------------------------------------------------------
(* The type invariant, and the steps that leave the conversations alone.   *)

Sides ==
  /\ prep = [on |-> prep.on, snap |-> prep.snap] /\ prep.on \in BOOLEAN /\ prep.snap \in Seq(Message)
  /\ chat.ptxt \in Texts /\ chat.ftimer \in BOOLEAN
  /\ hist = [got |-> hist.got, done |-> hist.done, born |-> hist.born] /\ hist.got \in 0..Len(Letters)

Lists == page.msgs \in Seq(Message) /\ queue \in Seq(Updates) /\ RefTyped(mem) /\ DiskTyped(disk)

TInv == NetInv /\ NetMore /\ Sides /\ Lists

\* Updates of the open conversation are shown, queued, or there are none.
Flow ==
  /\ \/ \E us \in Seq(OwnUpdates) : \E g, isReq, isStr : Shown(us, g, mem, isReq, isStr)
     \/ \E us \in Seq(Updates) : \E isReq, isStr : Queued(us, isReq, isStr)
     \/ UNCHANGED <<page, queue, mem>>
  /\ disk' = disk

LEMMA SavedRefs ==
    ASSUME NEW m, RefTyped(m), NEW ms \in Seq(Message), NEW s, s = ToSave(m, ms)
    PROVE  RefTyped(s) /\ s.list = m.list /\ s.active = m.active /\ s.latest = ms /\ s.timer = TRUE
  <1>1. PICK y : y = [m EXCEPT !.latest = ms]
    OBVIOUS
  <1>2. y = Ref(m.list, m.recent, m.active, ms, m.timer)
    BY <1>1 DEF RefTyped, Ref
  <1>3. s = [y EXCEPT !.timer = TRUE]
    BY <1>1 DEF ToSave
  <1>4. s = [list |-> m.list, recent |-> m.recent, active |-> m.active, latest |-> ms, timer |-> TRUE]
    BY <1>2, <1>3 DEF Ref
  <1>5. PICK t \in BOOLEAN : t /\ s = Ref(m.list, m.recent, m.active, ms, t)
    BY <1>4 DEF Ref
  <1>6. Kept(m.list, m.recent) /\ m.active \in Ids
    BY DEF RefTyped
  <1>7. RefTyped(s) /\ s.list = m.list /\ s.active = m.active /\ s.latest = ms
    <2>1. PICK L, q, a : L = m.list /\ q = m.recent /\ a = m.active
      OBVIOUS
    <2>2. s = Ref(L, q, a, ms, t) /\ Kept(L, q) /\ a \in Ids
      BY <1>5, <1>6, <2>1
    <2>3. RefTyped(s) /\ s.list = L /\ s.active = a /\ s.latest = ms
      BY <2>2, RefParts
    <2> QED BY <2>1, <2>3
  <1> QED BY <1>4, <1>7

LEMMA FlowLists ==
    ASSUME TInv, Flow
    PROVE  /\ Lists'
           /\ \/ mem' = mem /\ page'.msgs = page.msgs
              \/ mem' = ToSave(mem, page'.msgs)
  <1>0. Lists /\ PageOK /\ page.busy \in BOOLEAN /\ disk' = disk
    BY DEF TInv, NetInv, NetMore, Flow
  <1>1. CASE \E us \in Seq(OwnUpdates) : \E g, isReq, isStr : Shown(us, g, mem, isReq, isStr)
    <2>0. PICK us \in Seq(OwnUpdates) : \E g, isReq, isStr : Shown(us, g, mem, isReq, isStr)
      BY <1>1
    <2>1. PICK g, isReq, isStr : Shown(us, g, mem, isReq, isStr)
      BY <2>0
    <2>2. us \in Seq(AllUpdates)
      <3>1. OwnUpdates \subseteq AllUpdates
        BY DEF AllUpdates
      <3> QED BY <3>1, SeqMonotonic
    <2>3. /\ queue' = <<>> /\ page'.msgs \in Seq(Message)
          /\ (mem' = mem /\ page'.msgs = page.msgs) \/ mem' = ToSave(mem, page'.msgs)
      BY <1>0, <2>1, <2>2, ShownTyped DEF Lists
    <2>4. RefTyped(mem')
      BY <1>0, <2>3, SavedRefs DEF Lists
    <2>5. queue' \in Seq(Updates)
      BY <2>3
    <2> QED BY <1>0, <2>3, <2>4, <2>5 DEF Lists
  <1>2. CASE \E us \in Seq(Updates) : \E isReq, isStr : Queued(us, isReq, isStr)
    <2>0. PICK us \in Seq(Updates) : \E isReq, isStr : Queued(us, isReq, isStr)
      BY <1>2
    <2>1. PICK isReq, isStr : Queued(us, isReq, isStr)
      BY <2>0
    <2>2. queue' = queue \o us /\ page'.msgs = page.msgs /\ mem' = mem
      BY <1>0, <2>1, QueuedMore
    <2>3. queue' \in Seq(Updates)
      BY <1>0, <2>2 DEF Lists
    <2> QED BY <1>0, <2>2, <2>3 DEF Lists
  <1>3. CASE UNCHANGED <<page, queue, mem>>
    BY <1>0, <1>3 DEF Lists
  <1> QED BY <1>1, <1>2, <1>3 DEF Flow

LEMMA FlowTyped ==
    ASSUME TInv, Flow, Sides', NetInv', NetMore'
    PROVE  TInv'
  BY FlowLists DEF TInv

\* The updates the steps make.
LEMMA ReplaceTyped ==
    ASSUME NEW ms \in Seq(Message)
    PROVE  Replace(ms) \in Seq(Updates) /\ Replace(ms) \in Seq(OwnUpdates)
  <1>1. PICK u : u = [op |-> "replace", val |-> ms]
    OBVIOUS
  <1>2. u \in Updates /\ u \in OwnUpdates
    BY <1>1 DEF Updates, OwnUpdates
  <1>3. Replace(ms) = <<u>>
    BY <1>1 DEF Replace
  <1> QED BY <1>2, <1>3

LEMMA UpdateTyped ==
    ASSUME NEW g \in Gens, NEW op
    PROVE  /\ op \in {"complete", "error"} => Update(op, g) \in Seq(Updates)
           /\ op = "stop" => Update(op, g) \in Seq(OwnUpdates)
  <1>1. PICK u : u = [op |-> op, gen |-> g]
    OBVIOUS
  <1>2. op \in {"complete", "error"} => u \in Updates
    BY <1>1 DEF Updates
  <1>3. op = "stop" => u \in OwnUpdates
    BY <1>1 DEF OwnUpdates
  <1>4. Update(op, g) = <<u>>
    BY <1>1 DEF Update
  <1> QED BY <1>2, <1>3, <1>4

\* Text is pending for a generation that is one.
LEMMA FlushTyped ==
    ASSUME TInv, NEW g, g \in Gens \/ g = chat.gen
    PROVE  FlushUpdate(g) \in Seq(Updates)
  <1>1. CASE chat.pgen = chat.gen /\ chat.ptxt # <<>>
    <2>1. chat.gen \in Gens
      BY <1>1, ConstantsAssumption DEF TInv, NetInv, NetMore, NetRec, Gens
    <2>2. PICK u : u = [op |-> "chunk", gen |-> g, txt |-> chat.ptxt]
      OBVIOUS
    <2>3. u \in Updates
      BY <2>1, <2>2 DEF Updates, TInv, Sides
    <2>4. FlushUpdate(g) = <<u>>
      BY <1>1, <2>2 DEF FlushUpdate
    <2> QED BY <2>3, <2>4
  <1>2. CASE ~(chat.pgen = chat.gen /\ chat.ptxt # <<>>)
    BY <1>2 DEF FlushUpdate
  <1> QED BY <1>1, <1>2

LEMMA FlushedSides ==
    ASSUME TInv, chat' = Flushed, prep' = prep, hist' = hist \/ hist' = [hist EXCEPT !.done = TRUE]
    PROVE  Sides'
  <1>1. <<>> \in Texts
    BY DEF Texts
  <1>2. chat = [gen |-> chat.gen, pgen |-> chat.pgen, ptxt |-> chat.ptxt, ftimer |-> chat.ftimer]
    BY DEF TInv, NetInv, ChatOK
  <1>3. chat'.ptxt \in Texts /\ chat'.ftimer \in BOOLEAN
    BY <1>1, <1>2 DEF Flushed, TInv, Sides
  <1>4. /\ hist' = [got |-> hist'.got, done |-> hist'.done, born |-> hist'.born]
        /\ hist'.got \in 0..Len(Letters)
    BY DEF TInv, Sides
  <1> QED BY <1>3, <1>4 DEF TInv, Sides

LEMMA EndedTyped ==
    ASSUME TInv, NEW g \in Gens, NEW op \in {"complete", "error"}, NEW isStr, Ended(g, op, isStr),
           disk' = disk, prep' = prep, hist' = hist \/ hist' = [hist EXCEPT !.done = TRUE]
    PROVE  Flow /\ Sides'
  <1>1. CASE g = chat.gen
    <2>1. PICK us : us = FlushUpdate(g) \o Update(op, g)
      OBVIOUS
    <2>2. Queued(us, FALSE, isStr) /\ chat' = Flushed
      BY <1>1, <2>1 DEF Ended, IsCurrentGen
    <2>3. FlushUpdate(g) \in Seq(Updates) /\ Update(op, g) \in Seq(Updates)
      BY FlushTyped, UpdateTyped
    <2>4. us \in Seq(Updates)
      BY <2>1, <2>3
    <2> QED BY <2>2, <2>4, FlushedSides DEF Flow
  <1>2. CASE g # chat.gen
    <2>1. Queued(<<>>, page.isReq, isStr) /\ chat' = chat
      BY <1>2 DEF Ended, IsCurrentGen
    <2>2. <<>> \in Seq(Updates)
      OBVIOUS
    <2>3. Flow
      BY <2>1, <2>2 DEF Flow
    <2>4. /\ hist' = [got |-> hist'.got, done |-> hist'.done, born |-> hist'.born]
          /\ hist'.got \in 0..Len(Letters)
      BY DEF TInv, Sides
    <2> QED BY <2>1, <2>3, <2>4 DEF TInv, Sides
  <1> QED BY <1>1, <1>2

\* A new generation begins.
LEMMA FreshSides ==
    ASSUME TInv, NEW g, chat' = Fresh(g), hist' = [hist EXCEPT !.got = 0, !.done = FALSE],
           prep' = prep \/ prep' = [on |-> FALSE, snap |-> <<>>]
    PROVE  Sides'
  <1>1. chat'.ptxt \in Texts /\ chat'.ftimer \in BOOLEAN
    BY DEF Fresh, Texts
  <1>2. hist' = [got |-> 0, done |-> FALSE, born |-> hist.born] /\ 0 \in 0..Len(Letters)
    <2>1. PICK x : x = [hist EXCEPT !.got = 0]
      OBVIOUS
    <2>2. x = [got |-> 0, done |-> hist.done, born |-> hist.born]
      BY <2>1 DEF TInv, Sides
    <2>3. hist' = [x EXCEPT !.done = FALSE]
      BY <2>1
    <2>4. hist' = [got |-> 0, done |-> FALSE, born |-> hist.born]
      BY <2>2, <2>3
    <2>5. 0 \in 0..Len(Letters)
      BY LettersFacts
    <2> QED BY <2>4, <2>5
  <1>3. hist' = [got |-> hist'.got, done |-> hist'.done, born |-> hist'.born] /\ hist'.got \in 0..Len(Letters)
    BY <1>2
  <1>4. prep' = [on |-> prep'.on, snap |-> prep'.snap] /\ prep'.on \in BOOLEAN /\ prep'.snap \in Seq(Message)
    <2>1. CASE prep' = prep
      BY <2>1 DEF TInv, Sides
    <2>2. CASE prep' = [on |-> FALSE, snap |-> <<>>]
      <3>1. prep'.on = FALSE /\ prep'.snap = <<>>
        BY <2>2
      <3>2. <<>> \in Seq(Message)
        OBVIOUS
      <3> QED BY <2>2, <3>1, <3>2
    <2> QED BY <2>1, <2>2
  <1> QED BY <1>1, <1>3, <1>4 DEF Sides

LEMMA SameSides == ASSUME TInv, UNCHANGED <<chat, prep, hist>> PROVE Sides'
  BY DEF TInv, Sides

LEMMA ShowsFlow ==
    ASSUME NEW us \in Seq(OwnUpdates), NEW g, NEW isReq, NEW isStr, Shown(us, g, mem, isReq, isStr), disk' = disk
    PROVE  Flow
  BY DEF Flow

LEMMA QueuesFlow ==
    ASSUME NEW us \in Seq(Updates), NEW isReq, NEW isStr, Queued(us, isReq, isStr), disk' = disk
    PROVE  Flow
  BY DEF Flow

LEMMA RenderFlow == ASSUME TInv, Render PROVE Flow /\ Sides'
  <1>1. <<>> \in Seq(OwnUpdates)
    OBVIOUS
  <1>2. Shown(<<>>, chat.gen, mem, page.isReq, page.isStr) /\ UNCHANGED <<chat, disk, prep, hist>>
    BY DEF Render
  <1> QED BY <1>1, <1>2, ShowsFlow, SameSides

LEMMA FlushFlow == ASSUME TInv, FlushTimer PROVE Flow /\ Sides'
  <1>1. /\ chat' = Flushed /\ Queued(FlushUpdate(chat.gen), page.isReq, page.isStr)
        /\ UNCHANGED <<disk, prep, hist>>
    BY DEF FlushTimer
  <1>2. FlushUpdate(chat.gen) \in Seq(Updates)
    BY FlushTyped
  <1> QED BY <1>1, <1>2, QueuesFlow, FlushedSides

LEMMA HeadersFlow == ASSUME TInv, NEW g \in Gens, HeadersReady(g) PROVE Flow /\ Sides'
  <1>1. UNCHANGED <<disk, prep, hist>>
    BY DEF HeadersReady
  <1>2. CASE UNCHANGED <<page, queue, mem, chat>>
    BY <1>1, <1>2, SameSides DEF Flow
  <1>3. CASE Queued(<<>>, page.isReq, TRUE) /\ UNCHANGED chat
    <2>1. <<>> \in Seq(Updates)
      OBVIOUS
    <2> QED BY <1>1, <1>3, <2>1, QueuesFlow, SameSides
  <1>4. CASE Ended(g, "error", page.isStr)
    BY <1>1, <1>4, EndedTyped
  <1> QED BY <1>2, <1>3, <1>4 DEF HeadersReady

LEMMA DeltaFlow == ASSUME TInv, NEW g \in Gens, StreamDelta(g) PROVE Flow /\ Sides'
  <1>1. /\ hist.got < Len(Letters) /\ hist' = [hist EXCEPT !.got = @ + 1]
        /\ UNCHANGED <<page, queue, net, mem, disk, prep>>
    BY DEF StreamDelta
  <1>2. hist.got \in Nat /\ hist.got + 1 \in 1..Len(Letters) /\ hist.got + 1 \in 0..Len(Letters)
    BY <1>1, LettersFacts DEF TInv, Sides
  <1>3. /\ hist' = [got |-> hist'.got, done |-> hist'.done, born |-> hist'.born]
        /\ hist'.got \in 0..Len(Letters)
    BY <1>1, <1>2 DEF TInv, Sides
  <1>4. PICK x : x = <<Delta(g, hist.got + 1)>>
    OBVIOUS
  <1>5. x \in Texts
    <2>1. Delta(g, hist.got + 1) \in Gens \X Range(Letters)
      BY <1>2, LettersFacts DEF Delta
    <2> QED BY <1>4, <2>1 DEF Texts
  <1>6. chat'.ptxt \in Texts /\ chat'.ftimer \in BOOLEAN
    <2>1. PICK t : t = mergePendingStreamChunk(chat.ptxt, x)
      OBVIOUS
    <2>2. t \in Texts
      BY <1>5, <2>1, ChunkTyped DEF TInv, Sides
    <2>3. chat' = chat \/ chat' = [chat EXCEPT !.ptxt = t, !.ftimer = TRUE]
      BY <1>4, <2>1 DEF StreamDelta
    <2>4. CASE chat' = chat
      BY <2>4 DEF TInv, Sides
    <2>5. CASE chat' = [chat EXCEPT !.ptxt = t, !.ftimer = TRUE]
      BY <2>2, <2>5 DEF TInv, NetInv, ChatOK
    <2> QED BY <2>3, <2>4, <2>5
  <1>7. Flow
    BY <1>1 DEF Flow
  <1>8. prep' = [on |-> prep'.on, snap |-> prep'.snap] /\ prep'.on \in BOOLEAN /\ prep'.snap \in Seq(Message)
    BY <1>1 DEF TInv, Sides
  <1> QED BY <1>3, <1>6, <1>7, <1>8 DEF Sides

LEMMA EndFlow == ASSUME TInv, NEW g \in Gens, StreamEnd(g) PROVE Flow /\ Sides'
  <1>1. UNCHANGED <<disk, prep>>
    BY DEF StreamEnd
  <1>2. CASE ~IsCurrentSource(g)
    <2>1. UNCHANGED <<page, queue, mem, chat, net, hist>>
      BY <1>2 DEF StreamEnd
    <2> QED BY <1>1, <2>1, SameSides DEF Flow
  <1>3. CASE IsCurrentSource(g)
    <2>1. \/ Ended(g, "complete", FALSE) /\ hist' = [hist EXCEPT !.done = TRUE]
          \/ Ended(g, "error", FALSE) /\ UNCHANGED hist
      BY <1>3 DEF StreamEnd
    <2> QED BY <1>1, <2>1, EndedTyped
  <1> QED BY <1>2, <1>3

LEMMA CallFlow == ASSUME TInv, NEW c \in net.calls, CallReply(c) PROVE Flow /\ Sides'
  <1>1. UNCHANGED <<disk, prep>> /\ c.g \in Gens
    BY DEF CallReply, TInv, NetInv, NetRec
  <1>2. CASE c.aborted \/ ~IsCurrentGen(c.g)
    <2>1. UNCHANGED <<page, queue, mem, chat, hist>>
      BY <1>2 DEF CallReply
    <2> QED BY <1>1, <2>1, SameSides DEF Flow
  <1>3. CASE ~(c.aborted \/ ~IsCurrentGen(c.g))
    <2>1. PICK all : all = [n \in 1..Len(Letters) |-> Delta(c.g, n)]
      OBVIOUS
    <2>2. \/ /\ Queued(<<[op |-> "answer", gen |-> c.g, txt |-> all]>>, FALSE, page.isStr)
             /\ hist' = [hist EXCEPT !.got = Len(Letters), !.done = TRUE]
             /\ UNCHANGED chat
          \/ Ended(c.g, "error", page.isStr) /\ UNCHANGED hist
      BY <1>3, <2>1 DEF CallReply
    <2>3. CASE Ended(c.g, "error", page.isStr) /\ UNCHANGED hist
      BY <1>1, <2>3, EndedTyped
    <2>4. CASE /\ Queued(<<[op |-> "answer", gen |-> c.g, txt |-> all]>>, FALSE, page.isStr)
               /\ hist' = [hist EXCEPT !.got = Len(Letters), !.done = TRUE]
               /\ UNCHANGED chat
      <3>1. all \in Texts
        <4>1. \A n \in 1..Len(Letters) : Delta(c.g, n) \in Gens \X Range(Letters)
          BY <1>1, LettersFacts DEF Delta
        <4>2. all \in [1..Len(Letters) -> Gens \X Range(Letters)]
          BY <2>1, <4>1
        <4> QED BY <4>2, LettersFacts DEF Texts
      <3>2. PICK u : u = [op |-> "answer", gen |-> c.g, txt |-> all]
        OBVIOUS
      <3>3. u \in Updates
        BY <1>1, <3>1, <3>2 DEF Updates
      <3>4. <<u>> \in Seq(Updates)
        BY <3>3
      <3>5. Flow
        BY <1>1, <2>4, <3>2, <3>4, QueuesFlow
      <3>6. PICK x : x = [hist EXCEPT !.got = Len(Letters)]
        OBVIOUS
      <3>7. x = [got |-> Len(Letters), done |-> hist.done, born |-> hist.born]
        BY <3>6 DEF TInv, Sides
      <3>8. hist' = [x EXCEPT !.done = TRUE]
        BY <2>4, <3>6
      <3>9. hist' = [got |-> Len(Letters), done |-> TRUE, born |-> hist.born]
        BY <3>7, <3>8
      <3>10. /\ hist' = [got |-> hist'.got, done |-> hist'.done, born |-> hist'.born]
             /\ hist'.got = Len(Letters)
        BY <3>9
      <3>11. hist'.got \in 0..Len(Letters)
        BY <3>10, LettersFacts
      <3> QED BY <1>1, <2>4, <3>5, <3>10, <3>11 DEF TInv, Sides
    <2> QED BY <2>2, <2>3, <2>4
  <1> QED BY <1>2, <1>3

LEMMA StopFlow == ASSUME TInv, StopGeneration PROVE Flow /\ Sides'
  <1>1. PICK g : g = chat.gen
    OBVIOUS
  <1>2. /\ g < MaxGen /\ chat' = Fresh(g + 1) /\ hist' = [hist EXCEPT !.got = 0, !.done = FALSE]
        /\ UNCHANGED <<disk, prep>>
    BY <1>1 DEF StopGeneration
  <1>3. PICK h : /\ h = g \/ h = g + 1
                 /\ Shown(FlushUpdate(h) \o Update("stop", g + 1), g + 1, mem, FALSE, FALSE)
    BY <1>1 DEF StopGeneration
  <1>4. g + 1 \in Gens
    BY <1>1, <1>2, ConstantsAssumption DEF TInv, NetInv, ChatOK, Gens
  <1>5. FlushUpdate(h) \in Seq(Updates)
    BY <1>1, <1>3, <1>4, FlushTyped
  <1>6. FlushUpdate(h) \in Seq(OwnUpdates)
    <2>1. Updates \subseteq OwnUpdates
      BY DEF OwnUpdates
    <2> QED BY <1>5, <2>1, SeqMonotonic
  <1>7. Update("stop", g + 1) \in Seq(OwnUpdates)
    BY <1>4, UpdateTyped
  <1>8. FlushUpdate(h) \o Update("stop", g + 1) \in Seq(OwnUpdates)
    BY <1>6, <1>7
  <1> QED BY <1>2, <1>3, <1>8, ShowsFlow, FreshSides

LEMMA NewTyped ==
    ASSUME NEW g \in Gens
    PROVE  createUserMessage(g) \in Message /\ createLoadingAssistantMessage(g) \in Message
  <1>1. <<>> \in Texts
    BY DEF Texts
  <1> QED BY <1>1 DEF createUserMessage, createLoadingAssistantMessage, Message

LEMMA PairTyped ==
    ASSUME NEW ms \in Seq(Message), NEW g \in Gens
    PROVE  /\ appendUserMessagePair(ms, g) \in Seq(Message)
           /\ ms \o <<createLoadingAssistantMessage(g)>> \in Seq(Message)
  <1>1. PICK a \in Message, b \in Message : a = createUserMessage(g) /\ b = createLoadingAssistantMessage(g)
    BY NewTyped
  <1>2. ms \o <<a, b>> \in Seq(Message) /\ ms \o <<b>> \in Seq(Message)
    OBVIOUS
  <1> QED BY <1>1, <1>2 DEF appendUserMessagePair

\* A step that replaces the list, with or without asking for an answer.
LEMMA ReplaceFlow ==
    ASSUME NEW ms \in Seq(Message), NEW g, NEW isReq, NEW isStr,
           Shown(Replace(ms), g, mem, isReq, isStr), disk' = disk
    PROVE  Flow
  BY ReplaceTyped, ShowsFlow

LEMMA AskGen ==
    ASSUME TInv, NEW stream, sendChat(stream)
    PROVE  /\ chat.gen + 1 \in Gens /\ chat' = Fresh(chat.gen + 1)
           /\ hist' = [hist EXCEPT !.got = 0, !.done = FALSE]
  BY ConstantsAssumption DEF sendChat, TInv, NetInv, ChatOK, Gens

LEMMA SendFlow == ASSUME TInv, NEW stream, SendMessage(stream) PROVE Flow /\ Sides'
  <1>1. PICK g : g = chat.gen + 1
    OBVIOUS
  <1>2. /\ sendChat(stream) /\ UNCHANGED <<disk, prep>>
        /\ Shown(Replace(appendUserMessagePair(page.msgs, g)), g, mem, TRUE, FALSE)
    BY <1>1 DEF SendMessage
  <1>3. g \in Gens /\ chat' = Fresh(g) /\ hist' = [hist EXCEPT !.got = 0, !.done = FALSE]
    BY <1>1, <1>2, AskGen
  <1>4. appendUserMessagePair(page.msgs, g) \in Seq(Message)
    BY <1>3, PairTyped DEF TInv, Lists
  <1> QED BY <1>2, <1>3, <1>4, ReplaceFlow, FreshSides

LEMMA AgainFlow ==
    ASSUME TInv, NEW stream, NEW i \in DOMAIN page.msgs, Regenerate(i, stream) \/ SubmitEdit(i, stream)
    PROVE  Flow /\ Sides'
  <1>1. PICK g : g = chat.gen + 1
    OBVIOUS
  <1>2. page.msgs \in Seq(Message) /\ Len(page.msgs) \in Nat /\ i \in 1..Len(page.msgs)
    BY DEF TInv, Lists
  <1>3. PICK n \in 0..Len(page.msgs) :
          /\ sendChat(stream) /\ UNCHANGED <<disk, prep>>
          /\ Shown(Replace(SubSeq(page.msgs, 1, n) \o <<createLoadingAssistantMessage(g)>>), g, mem, TRUE, FALSE)
    <2>1. CASE Regenerate(i, stream)
      <3>1. PICK n : n = IF page.msgs[i].from = "user" THEN i ELSE i - 1
        OBVIOUS
      <3>2. n \in 0..Len(page.msgs)
        BY <1>2, <3>1
      <3>3. /\ sendChat(stream) /\ UNCHANGED <<disk, prep>>
            /\ Shown(Replace(createRegeneratedMessages(page.msgs, i, g)), g, mem, TRUE, FALSE)
        BY <1>1, <2>1 DEF Regenerate
      <3>4. createRegeneratedMessages(page.msgs, i, g)
              = SubSeq(page.msgs, 1, n) \o <<createLoadingAssistantMessage(g)>>
        BY <3>1 DEF createRegeneratedMessages
      <3> QED BY <3>2, <3>3, <3>4
    <2>2. CASE SubmitEdit(i, stream)
      <3>1. /\ sendChat(stream) /\ UNCHANGED <<disk, prep>>
            /\ Shown(Replace(SubSeq(page.msgs, 1, i) \o <<createLoadingAssistantMessage(g)>>),
                     g, mem, TRUE, FALSE)
        BY <1>1, <2>2 DEF SubmitEdit
      <3>2. i \in 0..Len(page.msgs)
        BY <1>2
      <3> QED BY <3>1, <3>2
    <2> QED BY <2>1, <2>2
  <1>4. g \in Gens /\ chat' = Fresh(g) /\ hist' = [hist EXCEPT !.got = 0, !.done = FALSE]
    BY <1>1, <1>3, AskGen
  <1>5. PICK r : r = SubSeq(page.msgs, 1, n)
    OBVIOUS
  <1>6. r \in Seq(Message)
    BY <1>2, <1>5
  <1>7. r \o <<createLoadingAssistantMessage(g)>> \in Seq(Message)
    BY <1>4, <1>6, PairTyped
  <1> QED BY <1>3, <1>4, <1>5, <1>7, ReplaceFlow, FreshSides

LEMMA SaveEditFlow == ASSUME TInv, NEW i \in DOMAIN page.msgs, SaveEdit(i) PROVE Flow /\ Sides'
  <1>1. PICK ms : ms = [page.msgs EXCEPT ![i].txt = <<>>]
    OBVIOUS
  <1>2. PICK d : d = (hist.done /\ Key(ms[i]) # <<chat.gen, "assistant">>)
    OBVIOUS
  <1>3. /\ Shown(Replace(ms), chat.gen, mem, page.isReq, page.isStr)
        /\ hist' = [hist EXCEPT !.done = d] /\ UNCHANGED <<chat, net, disk, prep>>
    BY <1>1, <1>2 DEF SaveEdit
  <1>4. page.msgs \in Seq(Message) /\ page.msgs[i] \in Message
    BY DEF TInv, Lists
  <1>5. ms \in Seq(Message)
    <2>1. PICK m : m = [page.msgs[i] EXCEPT !.txt = <<>>]
      OBVIOUS
    <2>2. m \in Message
      <3>1. <<>> \in Texts
        BY DEF Texts
      <3> QED BY <1>4, <2>1, <3>1 DEF Message
    <2>3. ms = [page.msgs EXCEPT ![i] = m]
      BY <1>1, <2>1
    <2> QED BY <1>4, <2>2, <2>3
  <1>6. hist' = [got |-> hist'.got, done |-> hist'.done, born |-> hist'.born] /\ hist'.got = hist.got
    BY <1>3 DEF TInv, Sides
  <1>7. Sides'
    BY <1>3, <1>6 DEF TInv, Sides
  <1> QED BY <1>3, <1>5, <1>7, ReplaceFlow

LEMMA RemoveFlow ==
    ASSUME TInv, ClearMessages \/ \E i \in DOMAIN page.msgs : DeleteMessage(i)
    PROVE  Flow /\ Sides'
  <1>1. CASE ClearMessages
    <2>1. <<>> \in Seq(Message)
      OBVIOUS
    <2>2. Shown(Replace(<<>>), chat.gen, mem, page.isReq, page.isStr) /\ UNCHANGED <<chat, disk, prep, hist>>
      BY <1>1 DEF ClearMessages
    <2> QED BY <2>1, <2>2, ReplaceFlow, SameSides
  <1>2. ASSUME NEW i \in DOMAIN page.msgs, DeleteMessage(i) PROVE Flow /\ Sides'
    <2>1. PICK u : u = [op |-> "remove", key |-> Key(page.msgs[i])]
      OBVIOUS
    <2>2. Shown(<<u>>, chat.gen, mem, page.isReq, page.isStr) /\ UNCHANGED <<chat, disk, prep, hist>>
      BY <1>2, <2>1 DEF DeleteMessage
    <2>3. page.msgs[i] \in Message
      BY DEF TInv, Lists
    <2>4. Key(page.msgs[i]) \in Gens \X {"user", "assistant"}
      BY <2>3 DEF Key, Message
    <2>5. u \in OwnUpdates
      BY <2>1, <2>4 DEF OwnUpdates
    <2>6. <<u>> \in Seq(OwnUpdates)
      BY <2>5
    <2> QED BY <2>2, <2>6, ShowsFlow, SameSides
  <1> QED BY <1>1, <1>2

LEMMA ImagesFlow ==
    ASSUME TInv, NEW stream, SubmitImages \/ ImagesReady(stream)
    PROVE  Flow /\ Sides'
  <1>1. CASE SubmitImages
    <2>1. prep' = [on |-> TRUE, snap |-> page.msgs] /\ UNCHANGED <<page, queue, chat, mem, disk, hist>>
      BY <1>1 DEF SubmitImages
    <2>2. Flow
      BY <2>1 DEF Flow
    <2>3. prep'.on = TRUE /\ prep'.snap = page.msgs /\ page.msgs \in Seq(Message)
      BY <2>1 DEF TInv, Lists
    <2> QED BY <2>1, <2>2, <2>3 DEF TInv, Sides
  <1>2. CASE ImagesReady(stream)
    <2>1. prep' = [on |-> FALSE, snap |-> <<>>] /\ disk' = disk
      BY <1>2 DEF ImagesReady
    <2>2. CASE UNCHANGED <<page, queue, chat, net, mem, hist>>
      <3>1. prep'.on = FALSE /\ prep'.snap = <<>> /\ <<>> \in Seq(Message)
        BY <2>1
      <3>2. Flow
        BY <2>1, <2>2 DEF Flow
      <3> QED BY <2>1, <2>2, <3>1, <3>2 DEF TInv, Sides
    <2>3. CASE /\ sendChat(stream)
               /\ Queued(Replace(appendUserMessagePair(prep.snap, chat.gen + 1)), TRUE, FALSE)
      <3>1. PICK g, ms : g = chat.gen + 1 /\ ms = appendUserMessagePair(prep.snap, g)
        OBVIOUS
      <3>2. g \in Gens /\ chat' = Fresh(g) /\ hist' = [hist EXCEPT !.got = 0, !.done = FALSE]
        BY <2>3, <3>1, AskGen
      <3>3. ms \in Seq(Message)
        BY <3>1, <3>2, PairTyped DEF TInv, Sides
      <3>4. Replace(ms) \in Seq(Updates)
        BY <3>3, ReplaceTyped
      <3>5. Flow
        BY <2>1, <2>3, <3>1, <3>4, QueuesFlow
      <3> QED BY <2>1, <3>2, <3>5, FreshSides
    <2> QED BY <1>2, <2>2, <2>3 DEF ImagesReady
  <1> QED BY <1>1, <1>2

-----------------------------------------------------------------------------
(* The steps that change the conversations.                                *)

\* The refs name the open conversation and hold its messages.
Opening(m) ==
  RefTyped(m) /\ \E i \in DOMAIN m.list : m.list[i].id = m.active /\ m.list[i].msgs = m.latest
SavedAs(L, d) == Fits(L) => d.list = L

LEMMA ShowLists ==
    ASSUME TInv, NEW m, RefTyped(m), Show(m)
    PROVE  page'.msgs \in Seq(Message) /\ queue' \in Seq(Updates) /\ RefTyped(mem')
  <1>1. PICK u : u = [op |-> "set", val |-> m.latest]
    OBVIOUS
  <1>2. Shown(<<u>>, chat.gen, m, page.isReq, page.isStr) /\ m.latest \in Seq(Message)
    BY <1>1 DEF Show, RefTyped
  <1>3. u \in AllUpdates
    BY <1>1, <1>2 DEF AllUpdates
  <1>4. <<u>> \in Seq(AllUpdates)
    BY <1>3
  <1>5. /\ queue' = <<>> /\ page'.msgs \in Seq(Message)
        /\ mem' = m \/ \E ms \in Seq(Message) : mem' = ToSave(m, ms)
    BY <1>2, <1>4, ShownTyped DEF TInv, Lists
  <1>6. RefTyped(mem')
    BY <1>5, SavedRefs
  <1>7. queue' \in Seq(Updates)
    BY <1>5
  <1> QED BY <1>5, <1>6, <1>7

LEMMA StoredDisk ==
    ASSUME TInv, NEW s, s = Stored(mem), NEW d, d = Saved(disk, s.list, s.recent)
    PROVE  /\ RefTyped(s) /\ DiskTyped(d) /\ s.list = WithActive(mem.list, mem.active, mem.latest)
           /\ s.active = mem.active /\ s.latest = mem.latest /\ s.timer = FALSE
           /\ IdsOf(s.list) = IdsOf(mem.list)
           /\ s.list # <<>> => SavedAs(s.list, d)
  <1>1. RefTyped(mem) /\ DiskTyped(disk)
    BY DEF TInv, Lists
  <1>2. /\ RefTyped(s) /\ s.list = WithActive(mem.list, mem.active, mem.latest)
        /\ s.active = mem.active /\ s.latest = mem.latest /\ s.timer = FALSE
    BY <1>1, StoredRefs
  <1>3. Named(s.list, s.recent) /\ Len(s.list) <= MaxConversations
    BY <1>2 DEF RefTyped, Kept
  <1>4. DiskTyped(d) /\ (s.list # <<>> => SavedAs(s.list, d))
    BY <1>1, <1>3, SavedNamed DEF SavedAs
  <1>5. IdsOf(s.list) = IdsOf(mem.list)
    <2>1. mem.list \in Seq(Entries) /\ UniqueIds(mem.list) /\ mem.latest \in Seq(Message)
      BY <1>1 DEF RefTyped, Kept, Named
    <2> QED BY <1>2, <2>1, ActiveNamed
  <1> QED BY <1>2, <1>4, <1>5

LEMMA LeftDisk ==
    ASSUME TInv, NEW left, left = LeaveConversation
    PROVE  /\ RefTyped(left) /\ DiskTyped(SavedOnLeave) /\ IdsOf(left.list) = IdsOf(mem.list)
           /\ left.timer = FALSE
           /\ mem.timer /\ left.list # <<>> => SavedAs(left.list, SavedOnLeave)
           /\ ~mem.timer => left = mem /\ SavedOnLeave = disk
  <1>0. RefTyped(mem) /\ DiskTyped(disk) /\ mem.timer \in BOOLEAN
    BY DEF TInv, Lists, RefTyped
  <1>1. CASE mem.timer
    <2>1. left = Stored(mem) /\ SavedOnLeave = Saved(disk, left.list, left.recent)
      BY <1>1 DEF LeaveConversation, SavedOnLeave
    <2> QED BY <1>1, <2>1, StoredDisk
  <1>2. CASE ~mem.timer
    <2>1. left = mem /\ SavedOnLeave = disk
      BY <1>2 DEF LeaveConversation, SavedOnLeave
    <2>2. mem.timer = FALSE
      BY <1>0, <1>2
    <2> QED BY <1>0, <1>2, <2>1, <2>2
  <1> QED BY <1>1, <1>2

LEMMA NewOpens ==
    ASSUME TInv, CreateNewConversation
    PROVE  \E m : Show(m) /\ Opening(m) /\ m.timer = FALSE /\ DiskTyped(disk') /\ SavedAs(m.list, disk')
  <1>1. PICK left : left = LeaveConversation
    OBVIOUS
  <1>2. PICK id \in Ids \ IdsOf(mem.list) :
          LET m == Created(left, id)
          IN /\ Show(m)
             /\ disk' = [Saved(SavedOnLeave, m.list, m.recent) EXCEPT !.active = id]
    BY <1>1 DEF CreateNewConversation
  <1>3. PICK m : m = Created(left, id)
    OBVIOUS
  <1>4. PICK d : d = Saved(SavedOnLeave, m.list, m.recent)
    OBVIOUS
  <1>5. Show(m) /\ disk' = [d EXCEPT !.active = id]
    BY <1>2, <1>3, <1>4
  <1>6. RefTyped(left) /\ DiskTyped(SavedOnLeave) /\ id \notin IdsOf(left.list) /\ left.timer = FALSE
    BY <1>1, <1>2, LeftDisk
  <1>7. /\ RefTyped(m) /\ m.active = id /\ m.latest = <<>> /\ m.timer = FALSE
        /\ \E i \in DOMAIN m.list : m.list[i] = Empty(id)
    <2>1. id \in Ids
      BY <1>2
    <2> QED BY <1>3, <1>6, <2>1, CreatedRefs
  <1>8. Empty(id).id = id /\ Empty(id).msgs = <<>>
    BY DEF Empty
  <1>9. Opening(m)
    BY <1>7, <1>8 DEF Opening
  <1>10. Named(m.list, m.recent) /\ Len(m.list) <= MaxConversations
    BY <1>7 DEF RefTyped, Kept
  <1>11. m.list # <<>>
    BY <1>7
  <1>12. DiskTyped(d) /\ SavedAs(m.list, d)
    BY <1>4, <1>6, <1>10, <1>11, SavedNamed DEF SavedAs
  <1>13. DiskTyped(disk') /\ disk'.list = d.list
    BY <1>2, <1>5, <1>12, OpenedDisk
  <1>14. SavedAs(m.list, disk')
    BY <1>12, <1>13 DEF SavedAs
  <1> QED BY <1>5, <1>7, <1>9, <1>13, <1>14

LEMMA SwitchOpens ==
    ASSUME TInv, NEW id \in Ids, SwitchConversation(id)
    PROVE  \E m : /\ Show(m) /\ Opening(m) /\ m.timer = FALSE /\ m.active = id /\ DiskTyped(disk')
                  /\ mem.timer => SavedAs(m.list, disk')
                  /\ ~mem.timer => m.list = mem.list /\ disk'.list = disk.list
  <1>1. PICK left : left = LeaveConversation
    OBVIOUS
  <1>2. PICK i \in DOMAIN left.list : left.list[i].id = id /\ Show(Opened(left, left.list[i]))
    BY <1>1 DEF SwitchConversation
  <1>3. disk' = [SavedOnLeave EXCEPT !.active = id]
    BY DEF SwitchConversation
  <1>4. /\ RefTyped(left) /\ DiskTyped(SavedOnLeave) /\ left.timer = FALSE
        /\ mem.timer /\ left.list # <<>> => SavedAs(left.list, SavedOnLeave)
        /\ ~mem.timer => left = mem /\ SavedOnLeave = disk
    BY <1>1, LeftDisk
  <1>5. PICK c, L, q : c = left.list[i] /\ L = left.list /\ q = left.recent
    OBVIOUS
  <1>6. PICK m : m = Opened(left, c)
    OBVIOUS
  <1>7. left = Ref(L, q, left.active, left.latest, left.timer) /\ Kept(L, q) /\ L \in Seq(Entries)
    BY <1>4, <1>5 DEF RefTyped, Kept, Named
  <1>8. m = Ref(L, q, c.id, c.msgs, left.timer)
    BY <1>6, <1>7, OpenedRefs
  <1>9. c \in Entries
    BY <1>2, <1>5, <1>7
  <1>10. c.id = id /\ c.msgs \in Seq(Message) /\ left.timer \in BOOLEAN
    BY <1>2, <1>4, <1>5, <1>9 DEF Entries
  <1>11. RefTyped(m) /\ m.list = L /\ m.active = id /\ m.latest = c.msgs /\ m.timer = left.timer
    BY <1>7, <1>8, <1>10, RefParts
  <1>12. Opening(m)
    BY <1>2, <1>5, <1>10, <1>11 DEF Opening
  <1>13. DiskTyped(disk') /\ disk'.list = SavedOnLeave.list
    BY <1>3, <1>4, OpenedDisk
  <1>14. Show(m)
    BY <1>2, <1>5, <1>6
  <1>15. mem.timer => SavedAs(m.list, disk')
    <2>1. L # <<>>
      BY <1>2, <1>5
    <2> QED BY <1>4, <1>5, <1>11, <1>13, <2>1 DEF SavedAs
  <1>16. ~mem.timer => m.list = mem.list /\ disk'.list = disk.list
    BY <1>4, <1>5, <1>11, <1>13
  <1> QED BY <1>4, <1>11, <1>12, <1>13, <1>14, <1>15, <1>16

\* What is left of the conversations, or a new one if none is.
LeftList(rest, new) == IF rest = <<>> THEN <<Empty(new)>> ELSE rest
LeftNames(rest, new, id) == IF rest = <<>> THEN <<new>> ELSE Among(mem.recent, Ids \ {id})

LEMMA LeftNamed ==
    ASSUME TInv, NEW id \in Ids, NEW new \in Ids, NEW rest, rest = Only(mem.list, Ids \ {id}),
           NEW L, L = LeftList(rest, new), NEW q, q = LeftNames(rest, new, id)
    PROVE  /\ Kept(L, q) /\ 1 \in DOMAIN L
           /\ IdsOf(rest) = IdsOf(mem.list) \cap (Ids \ {id}) /\ (rest # <<>> => L = rest /\ Embeds(L, mem.list))
  <1>1. PICK S, M, r : S = Ids \ {id} /\ M = mem.list /\ r = mem.recent
    OBVIOUS
  <1>2. /\ Named(M, r) /\ Len(M) <= MaxConversations /\ M \in Seq(Entries) /\ r \in Seq(Ids)
        /\ Range(r) = IdsOf(M)
    BY <1>1 DEF TInv, Lists, RefTyped, Kept, Named
  <1>3. rest \in Seq(Entries) /\ Embeds(rest, M) /\ IdsOf(rest) = IdsOf(M) \cap S
    <2>1. rest = Only(M, S)
      BY <1>1
    <2> QED BY <1>2, <2>1, OnlyNamed
  <1>4. CASE rest = <<>>
    <2>1. L = <<Empty(new)>> /\ q = <<new>>
      BY <1>4 DEF LeftList, LeftNames
    <2>2. Kept(L, q) /\ DOMAIN L = {1}
      BY <2>1, OneNamed
    <2> QED BY <1>1, <1>3, <1>4, <2>2
  <1>5. CASE rest # <<>>
    <2>1. L = rest /\ q = Among(r, S)
      BY <1>1, <1>5 DEF LeftList, LeftNames
    <2>2. q \in Seq(Ids) /\ Embeds(q, r) /\ Range(q) = Range(r) \cap S
      BY <1>2, <2>1, AmongNamed
    <2>3. Named(L, q) /\ Len(L) <= Len(M)
      BY <1>2, <1>3, <2>1, <2>2, NamedPart
    <2>4. Kept(L, q)
      <3>1. Len(L) \in Nat /\ Len(M) \in Nat /\ MaxConversations \in Nat
        BY <1>2, <1>3, <2>1, ConstantsAssumption
      <3> QED BY <1>2, <2>3, <3>1 DEF Kept
    <2>5. 1 \in DOMAIN L
      BY <1>3, <1>5, <2>1
    <2> QED BY <1>1, <1>3, <2>1, <2>4, <2>5
  <1> QED BY <1>4, <1>5

LEMMA DeleteOpens ==
    ASSUME TInv, NEW id \in Ids, DeleteConversation(id)
    PROVE  /\ DiskTyped(disk')
           /\ \/ \E m : Show(m) /\ Opening(m) /\ m.timer = mem.timer /\ SavedAs(m.list, disk')
              \/ /\ UNCHANGED <<page, queue>> /\ RefTyped(mem') /\ SavedAs(mem'.list, disk')
                 /\ mem'.active = mem.active /\ mem'.latest = mem.latest /\ mem'.timer = mem.timer
                 /\ mem.active \in IdsOf(mem.list) =>
                      Embeds(mem'.list, mem.list) /\ mem.active \in IdsOf(mem'.list)
  <1>1. PICK rest : rest = Only(mem.list, Ids \ {id})
    OBVIOUS
  <1>2. PICK new \in IF rest = <<>> THEN Ids \ {id} ELSE {id} :
          LET list   == IF rest = <<>> THEN <<Empty(new)>> ELSE rest
              recent == IF rest = <<>> THEN <<new>> ELSE Among(mem.recent, Ids \ {id})
              m      == Listed(mem, list, recent)
              d      == Saved(disk, list, recent)
          IN IF id = mem.active
             THEN Show(Opened(m, list[1])) /\ disk' = [d EXCEPT !.active = list[1].id]
             ELSE mem' = m /\ disk' = d /\ UNCHANGED <<page, queue>>
    BY <1>1, ZenonT(30) DEF DeleteConversation, Listed, Empty
  <1>3. PICK L, q, d : L = LeftList(rest, new) /\ q = LeftNames(rest, new, id) /\ d = Saved(disk, L, q)
    OBVIOUS
  <1>4. new \in Ids
    BY <1>2
  <1>5. /\ Kept(L, q) /\ 1 \in DOMAIN L
        /\ IdsOf(rest) = IdsOf(mem.list) \cap (Ids \ {id}) /\ (rest # <<>> => L = rest /\ Embeds(L, mem.list))
    BY <1>1, <1>3, <1>4, LeftNamed
  <1>6. RefTyped(mem) /\ DiskTyped(disk)
    BY DEF TInv, Lists
  <1>7. Named(L, q) /\ Len(L) <= MaxConversations /\ L # <<>> /\ L \in Seq(Entries)
    BY <1>5 DEF Kept, Named
  <1>8. DiskTyped(d) /\ SavedAs(L, d)
    BY <1>3, <1>6, <1>7, SavedNamed DEF SavedAs
  <1>9. PICK m : m = Listed(mem, L, q)
    OBVIOUS
  <1>10. PICK a, ms, t : a = mem.active /\ ms = mem.latest /\ t = mem.timer
    OBVIOUS
  <1>11. m = Ref(L, q, a, ms, t) /\ a \in Ids /\ ms \in Seq(Message) /\ t \in BOOLEAN
    BY <1>6, <1>9, <1>10, ListedRefs DEF RefTyped
  <1>12. CASE id # mem.active
    <2>1. mem' = m /\ disk' = d /\ UNCHANGED <<page, queue>>
      BY <1>2, <1>3, <1>9, <1>12 DEF LeftList, LeftNames
    <2>2. RefTyped(m) /\ m.list = L /\ m.active = a /\ m.latest = ms /\ m.timer = t
      BY <1>5, <1>11, RefParts
    <2>3. ASSUME a \in IdsOf(mem.list) PROVE Embeds(L, mem.list) /\ a \in IdsOf(L)
      <3>1. a \in IdsOf(rest)
        BY <1>5, <1>10, <1>11, <1>12, <2>3
      <3>2. rest # <<>>
        BY <3>1 DEF IdsOf
      <3> QED BY <1>5, <3>1, <3>2
    <2> QED BY <1>8, <1>10, <2>1, <2>2, <2>3
  <1>13. CASE id = mem.active
    <2>1. PICK c : c = L[1]
      OBVIOUS
    <2>2. Show(Opened(m, c)) /\ disk' = [d EXCEPT !.active = c.id]
      BY <1>2, <1>3, <1>9, <1>13, <2>1 DEF LeftList, LeftNames
    <2>3. c \in Entries
      BY <1>5, <1>7, <2>1
    <2>4. PICK x, y : x = c.id /\ y = c.msgs /\ x \in Ids /\ y \in Seq(Message)
      BY <2>3 DEF Entries
    <2>5. PICK o : o = Opened(m, c)
      OBVIOUS
    <2>6. o = Ref(L, q, x, y, t)
      BY <1>11, <2>4, <2>5, OpenedRefs
    <2>7. RefTyped(o) /\ o.list = L /\ o.active = x /\ o.latest = y /\ o.timer = t
      BY <1>5, <1>11, <2>4, <2>6, RefParts
    <2>8. Opening(o)
      BY <1>5, <2>1, <2>4, <2>7 DEF Opening
    <2>9. DiskTyped(disk') /\ disk'.list = d.list
      BY <1>8, <2>2, <2>4, OpenedDisk
    <2>10. SavedAs(o.list, disk')
      BY <1>8, <2>7, <2>9 DEF SavedAs
    <2> QED BY <1>10, <2>2, <2>5, <2>7, <2>8, <2>9, <2>10
  <1> QED BY <1>12, <1>13

LEMMA LeaveOpens ==
    ASSUME TInv, LeavePage
    PROVE  /\ Opening(mem') /\ mem'.timer = FALSE /\ page'.msgs = mem'.latest /\ DiskTyped(disk')
           /\ disk'.list = mem'.list \/ (disk'.list = <<>> /\ mem'.list = <<Empty(mem'.active)>>)
  <1>1. PICK d \in {disk} \cup IF mem.timer THEN {Saved(disk, mem.list, mem.recent)} ELSE {} :
         \E new \in IF d.list = <<>> THEN Ids ELSE {d.active} :
           mem' = Loaded(d, new) /\ disk' = [d EXCEPT !.active = mem'.active]
    BY DEF LeavePage
  <1>2. PICK new \in IF d.list = <<>> THEN Ids ELSE {d.active} :
          mem' = Loaded(d, new) /\ disk' = [d EXCEPT !.active = mem'.active]
    BY <1>1
  <1>3. PICK L, q : /\ L = IF d.list = <<>> THEN <<Empty(new)>> ELSE d.list
                    /\ q = IF d.list = <<>> THEN <<new>> ELSE d.recent
    OBVIOUS
  <1>4. PICK k : k = IF d.active \in IdsOf(L) THEN CHOOSE i \in DOMAIN L : L[i].id = d.active ELSE 1
    OBVIOUS
  <1>5. /\ mem' = [list |-> L, recent |-> q, active |-> L[k].id, latest |-> L[k].msgs, timer |-> FALSE]
        /\ page' = [msgs |-> L[k].msgs, busy |-> FALSE, isReq |-> FALSE, isStr |-> FALSE]
        /\ disk' = [d EXCEPT !.active = L[k].id]
    <2>1. mem' = [list |-> L, recent |-> q, active |-> L[k].id, latest |-> L[k].msgs, timer |-> FALSE]
      BY <1>2, <1>3, <1>4 DEF Loaded, Empty
    <2>2. mem'.active = L[k].id /\ mem'.latest = L[k].msgs
      BY <2>1
    <2>3. page' = [msgs |-> mem'.latest, busy |-> FALSE, isReq |-> FALSE, isStr |-> FALSE]
      BY DEF LeavePage
    <2> QED BY <1>2, <2>1, <2>2, <2>3
  <1>6. RefTyped(mem) /\ DiskTyped(disk) /\ Named(mem.list, mem.recent)
    BY DEF TInv, Lists, RefTyped, Kept
  <1>7. DiskTyped(d)
    <2>1. CASE d = disk
      BY <1>6, <2>1
    <2>2. CASE d = Saved(disk, mem.list, mem.recent)
      BY <1>6, <2>2, SavedNamed
    <2> QED BY <1>1, <2>1, <2>2
  <1>8. Kept(L, q) /\ 1 \in DOMAIN L
    <2>1. CASE d.list = <<>>
      <3>1. new \in Ids
        BY <1>2, <2>1
      <3>2. Kept(L, q) /\ DOMAIN L = {1}
        BY <1>3, <2>1, <3>1, OneNamed
      <3> QED BY <3>2
    <2>2. CASE d.list # <<>>
      <3>1. L = d.list /\ Kept(L, q) /\ L \in Seq(Entries) /\ L # <<>>
        BY <1>3, <1>7, <2>2 DEF DiskTyped, Kept, Named
      <3>2. 1 \in DOMAIN L
        BY <3>1
      <3> QED BY <3>1, <3>2
    <2> QED BY <2>1, <2>2
  <1>9. k \in DOMAIN L
    <2>1. CASE d.active \in IdsOf(L)
      <3>1. \E i \in DOMAIN L : L[i].id = d.active
        BY <2>1 DEF IdsOf
      <3> QED BY <1>4, <2>1, <3>1
    <2>2. CASE d.active \notin IdsOf(L)
      BY <1>4, <1>8, <2>2
    <2> QED BY <2>1, <2>2
  <1>10. L[k] \in Entries
    BY <1>8, <1>9 DEF Kept, Named
  <1>11. PICK a, ms, f : a = L[k].id /\ ms = L[k].msgs /\ f = FALSE /\ a \in Ids /\ ms \in Seq(Message)
    BY <1>10 DEF Entries
  <1>12. mem' = Ref(L, q, a, ms, f) /\ f \in BOOLEAN
    BY <1>5, <1>11 DEF Ref
  <1>13. RefTyped(mem') /\ mem'.list = L /\ mem'.active = a /\ mem'.latest = ms /\ mem'.timer = f
    BY <1>8, <1>11, <1>12, RefParts
  <1>14. Opening(mem')
    BY <1>9, <1>11, <1>13 DEF Opening
  <1>15. DiskTyped(disk') /\ disk'.list = d.list
    BY <1>5, <1>7, <1>11, OpenedDisk
  <1>16. page'.msgs = ms
    BY <1>5, <1>11
  <1>17. disk'.list = L \/ (disk'.list = <<>> /\ L = <<Empty(a)>>)
    <2>1. CASE d.list = <<>>
      <3>1. new \in Ids /\ L = <<Empty(new)>>
        BY <1>2, <1>3, <2>1
      <3>2. DOMAIN L = {1} /\ L[1] = Empty(new)
        BY <3>1
      <3>3. a = new
        BY <1>9, <1>11, <3>2 DEF Empty
      <3> QED BY <1>15, <2>1, <3>1, <3>3
    <2>2. CASE d.list # <<>>
      BY <1>3, <1>15, <2>2
    <2> QED BY <2>1, <2>2
  <1> QED BY <1>11, <1>13, <1>14, <1>15, <1>16, <1>17

-----------------------------------------------------------------------------
(* Type correctness.                                                       *)

LEMMA LeaveSides == ASSUME TInv, LeavePage PROVE Sides' /\ queue' = <<>>
  <1>1. /\ queue' = <<>> /\ chat' = [chat EXCEPT !.ptxt = <<>>, !.ftimer = FALSE]
        /\ prep' = [on |-> FALSE, snap |-> <<>>]
        /\ hist' = [hist EXCEPT !.got = 0, !.done = FALSE, !.born = chat.gen]
    BY DEF LeavePage
  <1>2. <<>> \in Texts /\ <<>> \in Seq(Message) /\ 0 \in 0..Len(Letters)
    BY LettersFacts DEF Texts
  <1>3. chat'.ptxt = <<>> /\ chat'.ftimer = FALSE
    BY <1>1 DEF TInv, NetInv, ChatOK
  <1>4. hist' = [got |-> 0, done |-> FALSE, born |-> chat.gen]
    BY <1>1 DEF TInv, Sides
  <1> QED BY <1>1, <1>2, <1>3, <1>4 DEF Sides

LEMMA TypedInit == Init => TInv
  <1> SUFFICES ASSUME Init PROVE TInv
    OBVIOUS
  <1>1. PICK id \in Ids :
          /\ mem = [list |-> <<Empty(id)>>, recent |-> <<id>>, active |-> id, latest |-> <<>>, timer |-> FALSE]
          /\ disk = [list |-> <<>>, recent |-> <<>>, active |-> id]
    BY DEF Init, Empty
  <1>2. /\ page.msgs = <<>> /\ queue = <<>>
        /\ chat.ptxt = <<>> /\ chat.ftimer = FALSE
        /\ prep = [on |-> FALSE, snap |-> <<>>] /\ hist = [got |-> 0, done |-> FALSE, born |-> 0]
    BY DEF Init
  <1>3. <<>> \in Texts /\ <<>> \in Seq(Message) /\ <<>> \in Seq(Updates) /\ 0 \in 0..Len(Letters)
    BY LettersFacts DEF Texts
  <1>4. Sides
    BY <1>2, <1>3 DEF Sides
  <1>5. PICK L, q, ms, f : L = <<Empty(id)>> /\ q = <<id>> /\ ms = <<>> /\ f = FALSE
    OBVIOUS
  <1>6. Kept(L, q)
    BY <1>5, OneNamed
  <1>7. mem = Ref(L, q, id, ms, f) /\ ms \in Seq(Message) /\ f \in BOOLEAN
    BY <1>1, <1>3, <1>5 DEF Ref
  <1>8. RefTyped(mem)
    BY <1>6, <1>7, RefParts
  <1>9. Kept(<<>>, <<>>)
    BY ConstantsAssumption DEF Kept, Named, UniqueIds, IsInjective, IdsOf, Range
  <1>10. DiskTyped(disk)
    BY <1>1, <1>9 DEF DiskTyped
  <1>11. Lists
    BY <1>2, <1>3, <1>8, <1>10 DEF Lists
  <1> QED BY <1>4, <1>11, NetInit, MoreInit DEF TInv

\* A step that shows a conversation.
LEMMA OpenTyped ==
    ASSUME TInv, NEW m, Show(m), Opening(m), DiskTyped(disk'), UNCHANGED <<chat, prep, hist>>
    PROVE  Sides' /\ Lists'
  <1>1. RefTyped(m)
    BY DEF Opening
  <1>2. page'.msgs \in Seq(Message) /\ queue' \in Seq(Updates) /\ RefTyped(mem')
    BY <1>1, ShowLists
  <1> QED BY <1>2, SameSides DEF Lists

\* The steps that change the conversations.
LEMMA ListTyped ==
    ASSUME TInv, \/ CreateNewConversation \/ SaveTimer \/ LeavePage
                 \/ \E id \in Ids : SwitchConversation(id) \/ DeleteConversation(id)
    PROVE  Sides' /\ Lists'
  <1>1. CASE CreateNewConversation
    <2>1. PICK m : Show(m) /\ Opening(m) /\ DiskTyped(disk')
      BY <1>1, NewOpens
    <2>2. UNCHANGED <<chat, prep, hist>>
      BY <1>1 DEF CreateNewConversation
    <2> QED BY <2>1, <2>2, OpenTyped
  <1>2. ASSUME NEW id \in Ids, SwitchConversation(id) PROVE Sides' /\ Lists'
    <2>1. PICK m : Show(m) /\ Opening(m) /\ DiskTyped(disk')
      BY <1>2, SwitchOpens
    <2>2. UNCHANGED <<chat, prep, hist>>
      BY <1>2 DEF SwitchConversation
    <2> QED BY <2>1, <2>2, OpenTyped
  <1>3. ASSUME NEW id \in Ids, DeleteConversation(id) PROVE Sides' /\ Lists'
    <2>1. DiskTyped(disk') /\ ((\E m : Show(m) /\ Opening(m)) \/ (UNCHANGED <<page, queue>> /\ RefTyped(mem')))
      BY <1>3, DeleteOpens
    <2>2. UNCHANGED <<chat, prep, hist>>
      <3>1. UNCHANGED <<chat, net, prep, hist>>
        BY <1>3, ZenonT(30) DEF DeleteConversation
      <3> QED BY <3>1
    <2>3. CASE \E m : Show(m) /\ Opening(m)
      BY <2>1, <2>2, <2>3, OpenTyped
    <2>4. CASE UNCHANGED <<page, queue>> /\ RefTyped(mem')
      BY <2>1, <2>2, <2>4, SameSides DEF TInv, Lists
    <2> QED BY <2>1, <2>3, <2>4
  <1>4. CASE SaveTimer
    <2>1. /\ mem' = Stored(mem) /\ disk' = Saved(disk, mem'.list, mem'.recent)
          /\ UNCHANGED <<page, queue, chat, prep, hist>>
      BY <1>4 DEF SaveTimer
    <2>2. RefTyped(mem') /\ DiskTyped(disk')
      BY <2>1, StoredDisk
    <2> QED BY <2>1, <2>2, SameSides DEF TInv, Lists
  <1>5. CASE LeavePage
    <2>1. Sides' /\ queue' = <<>> /\ Opening(mem') /\ page'.msgs = mem'.latest /\ DiskTyped(disk')
      BY <1>5, LeaveSides, LeaveOpens
    <2>2. RefTyped(mem') /\ page'.msgs \in Seq(Message) /\ queue' \in Seq(Updates)
      BY <2>1 DEF Opening, RefTyped
    <2> QED BY <2>1, <2>2 DEF Lists
  <1> QED BY <1>1, <1>2, <1>3, <1>4, <1>5

\* Every other step is a flow of updates.
ListSteps ==
  \/ CreateNewConversation \/ SaveTimer \/ LeavePage
  \/ \E id \in Ids : SwitchConversation(id) \/ DeleteConversation(id)

LEMMA OtherSteps ==
    ASSUME TInv, [Next]_vars, ~ListSteps
    PROVE  Flow /\ Sides'
  <1>1. CASE Render \/ FlushTimer \/ StopGeneration \/ SubmitImages \/ ClearMessages
    BY <1>1, RenderFlow, FlushFlow, StopFlow, ImagesFlow, RemoveFlow
  <1>2. CASE \E g \in Gens : HeadersReady(g) \/ StreamDelta(g) \/ StreamEnd(g)
    BY <1>2, HeadersFlow, DeltaFlow, EndFlow
  <1>3. CASE \E c \in net.calls : CallReply(c)
    BY <1>3, CallFlow
  <1>4. CASE \E stream \in BOOLEAN : SendMessage(stream) \/ ImagesReady(stream)
    BY <1>4, SendFlow, ImagesFlow
  <1>5. CASE \E i \in DOMAIN page.msgs :
               \/ \E stream \in BOOLEAN : Regenerate(i, stream)
               \/ \E stream \in BOOLEAN : SubmitEdit(i, stream)
               \/ SaveEdit(i) \/ DeleteMessage(i)
    BY <1>5, AgainFlow, SaveEditFlow, RemoveFlow
  <1>6. CASE UNCHANGED vars
    BY <1>6, SameSides DEF vars, Flow
  <1> QED BY <1>1, <1>2, <1>3, <1>4, <1>5, <1>6 DEF Next, ListSteps

LEMMA TypedStep == TInv /\ [Next]_vars => TInv'
  <1> SUFFICES ASSUME TInv, [Next]_vars PROVE TInv'
    OBVIOUS
  <1>1. NetInv' /\ NetMore'
    BY NetStep, MoreStep DEF TInv
  <1>2. CASE ListSteps
    <2>1. Sides' /\ Lists'
      BY <1>2, ListTyped DEF ListSteps
    <2> QED BY <1>1, <2>1 DEF TInv
  <1>3. CASE ~ListSteps
    BY <1>1, <1>3, OtherSteps, FlowTyped
  <1> QED BY <1>2, <1>3

LEMMA StoreTyped == ASSUME NEW s, Kept(s.list, s.recent), s.active \in Ids PROVE IsStore(s)
  <1>1. Named(s.list, s.recent) /\ Len(s.list) <= MaxConversations
    BY DEF Kept
  <1>2. Len(s.list) = Len(s.recent)
    BY <1>1, NamedLen
  <1>3. s.list \in Seq(Entries) /\ IsInjective(s.recent) /\ Range(s.recent) = IdsOf(s.list)
    BY <1>1 DEF Named
  <1> QED BY <1>1, <1>2, <1>3 DEF IsStore, Entries, IdsOf

LEMMA TypedIsTypeOK == TInv => TypeOK
  <1> SUFFICES ASSUME TInv PROVE TypeOK
    OBVIOUS
  <1>1. page.msgs \in Seq(Message) /\ {page.busy, page.isReq, page.isStr} \subseteq BOOLEAN
    BY DEF TInv, Lists, NetInv, NetMore, PageOK
  <1>2. ASSUME NEW i \in DOMAIN queue
        PROVE  queue[i].op \in {"replace", "set", "remove", "chunk", "complete", "error", "answer", "stop"}
    <2>1. queue[i] \in Updates
      BY <1>2 DEF TInv, Lists
    <2> QED BY <2>1 DEF Updates
  <1>3. chat.gen \in 0..MaxGen /\ chat.pgen \in 0..MaxGen /\ chat.ftimer \in BOOLEAN /\ prep.on \in BOOLEAN
    BY DEF TInv, NetInv, NetMore, ChatOK, Sides
  <1>4. net \in NetRec
    BY DEF TInv, NetInv
  <1>5. /\ {net.cur, net.src, net.ab} \subseteq 0..MaxGen /\ net.hdrs \cup net.live \subseteq Gens
        /\ net.calls \subseteq [g : Gens, aborted : BOOLEAN]
    BY <1>4 DEF NetRec
  <1>6. IsStore(mem) /\ IsStore(disk) /\ mem.timer \in BOOLEAN
    BY StoreTyped DEF TInv, Lists, RefTyped, DiskTyped
  <1> QED BY <1>1, <1>2, <1>3, <1>5, <1>6 DEF TypeOK

LEMMA TypedHolds == Spec => []TInv
  BY TypedInit, TypedStep, PTL DEF Spec

\* Whatever the user does, and with whatever deltas: the list of messages, the
\* requests and both stores keep their shape, a store names each conversation
\* once and in the order of the last updates, and it never holds more of them
\* than the cap (saveConversations and MAX_CONVERSATIONS in
\* storage/conversations.ts, use-playground-state.ts).
THEOREM PlaygroundTypeCorrect == Spec => []TypeOK
  BY TypedHolds, TypedIsTypeOK, PTL

-----------------------------------------------------------------------------
(* What is on the disk while no save is due.                               *)

\* The refs hold the list as shown, for a conversation that is one of the list.
Current == mem.latest = page.msgs /\ mem.active \in IdsOf(mem.list)

\* The disk holds all conversations that there is room for, and only one that was
\* never written to may be missing there; while no save is due, the open one is
\* stored as shown.
Written ==
  /\ ~mem.timer =>
       \A i \in DOMAIN mem.list : mem.list[i].id = mem.active => mem.list[i].msgs = page.msgs
  /\ SavedAs(mem.list, disk) \/ (disk.list = <<>> /\ mem.list = <<Empty(mem.active)>>)

QInv == TInv /\ Current /\ Written

LEMMA QuietInit == Init => QInv
  <1> SUFFICES ASSUME Init PROVE QInv
    OBVIOUS
  <1>1. PICK id \in Ids :
          /\ mem = [list |-> <<Empty(id)>>, recent |-> <<id>>, active |-> id, latest |-> <<>>, timer |-> FALSE]
          /\ disk = [list |-> <<>>, recent |-> <<>>, active |-> id]
    BY DEF Init, Empty
  <1>2. page.msgs = <<>>
    BY DEF Init
  <1>3. PICK L, q : L = <<Empty(id)>> /\ q = <<id>>
    OBVIOUS
  <1>4. DOMAIN L = {1} /\ L[1] = Empty(id) /\ IdsOf(L) = {id}
    BY <1>3, OneNamed
  <1>5. mem.list = L /\ mem.active = id /\ mem.latest = <<>> /\ disk.list = <<>>
    BY <1>1, <1>3
  <1>6. \A i \in DOMAIN L : L[i].msgs = <<>>
    BY <1>4 DEF Empty
  <1> QED BY <1>2, <1>3, <1>4, <1>5, <1>6, TypedInit DEF QInv, Current, Written

\* The refs are those of a conversation that is shown and saved.
LEMMA OpenQuiet ==
    ASSUME TInv', Opening(mem'), page'.msgs = mem'.latest,
           SavedAs(mem'.list, disk') \/ (disk'.list = <<>> /\ mem'.list = <<Empty(mem'.active)>>)
    PROVE  QInv'
  <1>1. PICK L, a, ms : L = mem'.list /\ a = mem'.active /\ ms = mem'.latest
    OBVIOUS
  <1>2. PICK i \in DOMAIN L : L[i].id = a /\ L[i].msgs = ms
    BY <1>1 DEF Opening
  <1>3. UniqueIds(L)
    BY <1>1 DEF Opening, RefTyped, Kept, Named
  <1>4. \A j \in DOMAIN L : L[j].id = a => L[j].msgs = ms
    BY <1>2, <1>3 DEF UniqueIds
  <1>5. a \in IdsOf(L)
    BY <1>2 DEF IdsOf
  <1>6. Current'
    BY <1>1, <1>5 DEF Current
  <1>7. Written'
    BY <1>1, <1>4 DEF Written
  <1> QED BY <1>6, <1>7 DEF QInv

LEMMA ShowQuiet ==
    ASSUME TInv, TInv', queue = <<>>, NEW m, Show(m), Opening(m),
           SavedAs(m.list, disk')
    PROVE  QInv'
  <1>1. PageOK
    BY DEF TInv, NetInv
  <1>2. page'.msgs = m.latest /\ mem' = m
    BY <1>1, ShowStep
  <1> QED BY <1>2, OpenQuiet

LEMMA SidebarQuiet == ASSUME ~Hasty, SidebarEnabled PROVE queue = <<>>
  BY DEF SidebarEnabled, ListSettled

LEMMA FlowQuiet == ASSUME QInv, TInv', Flow PROVE QInv'
  <1>1. TInv /\ RefTyped(mem) /\ disk' = disk
    BY DEF QInv, TInv, Lists, Flow
  <1>2. CASE mem' = mem /\ page'.msgs = page.msgs
    BY <1>1, <1>2 DEF QInv, Current, Written
  <1>3. CASE mem' = ToSave(mem, page'.msgs)
    <2>1. PICK b, c, r : b = mem /\ c = mem' /\ r = page'.msgs
      OBVIOUS
    <2>2. RefTyped(b) /\ c = ToSave(b, r)
      BY <1>1, <1>3, <2>1
    <2>3. c.list = b.list /\ c.active = b.active /\ c.latest = r /\ c.timer = TRUE
      <3>1. PICK y : y = [b EXCEPT !.latest = r]
        OBVIOUS
      <3>2. y = Ref(b.list, b.recent, b.active, r, b.timer)
        BY <2>2, <3>1 DEF RefTyped, Ref
      <3>3. c = [y EXCEPT !.timer = TRUE]
        BY <2>2, <3>1 DEF ToSave
      <3> QED BY <3>2, <3>3 DEF Ref
    <2>4. /\ mem'.list = mem.list /\ mem'.active = mem.active
          /\ mem'.latest = page'.msgs /\ mem'.timer = TRUE
      BY <2>1, <2>3
    <2>5. SavedAs(mem'.list, disk') \/ (disk'.list = <<>> /\ mem'.list = <<Empty(mem'.active)>>)
      BY <1>1, <2>4 DEF QInv, Written
    <2> QED BY <2>4, <2>5 DEF QInv, Current, Written
  <1> QED BY <1>1, <1>2, <1>3, FlowLists

LEMMA SaveQuiet == ASSUME QInv, TInv', SaveTimer PROVE QInv'
  <1>1. /\ mem' = Stored(mem) /\ disk' = Saved(disk, mem'.list, mem'.recent) /\ page' = page
    BY DEF SaveTimer
  <1>2. /\ mem'.list = WithActive(mem.list, mem.active, mem.latest)
        /\ mem'.active = mem.active /\ mem'.latest = mem.latest /\ IdsOf(mem'.list) = IdsOf(mem.list)
        /\ mem'.list # <<>> => SavedAs(mem'.list, disk')
    BY <1>1, StoredDisk DEF QInv
  <1>3. Current'
    BY <1>1, <1>2 DEF QInv, Current
  <1>4. mem'.list # <<>>
    BY <1>3 DEF Current, IdsOf
  <1>5. \A i \in DOMAIN mem'.list : mem'.list[i].id = mem.active => mem'.list[i].msgs = page.msgs
    BY <1>2 DEF WithActive, QInv, Current
  <1> QED BY <1>1, <1>2, <1>3, <1>4, <1>5 DEF QInv, Written

LEMMA SwitchQuiet ==
    ASSUME ~Hasty, QInv, TInv', NEW id \in Ids, SwitchConversation(id)
    PROVE  QInv'
  <1>1. PICK m : /\ Show(m) /\ Opening(m) /\ m.timer = FALSE /\ m.active = id
                 /\ mem.timer => SavedAs(m.list, disk')
                 /\ ~mem.timer => m.list = mem.list /\ disk'.list = disk.list
    BY SwitchOpens DEF QInv
  <1>2. SidebarEnabled /\ id # mem.active
    BY DEF SwitchConversation
  <1>3. SavedAs(m.list, disk')
    <2>1. CASE mem.timer
      BY <1>1, <2>1
    <2>2. CASE ~mem.timer
      <3>1. m.list = mem.list /\ disk'.list = disk.list
        BY <1>1, <2>2
      <3>2. mem.list # <<Empty(mem.active)>>
        <4>1. PICK i \in DOMAIN mem.list : mem.list[i].id = id
          BY <1>1, <3>1 DEF Opening
        <4>2. PICK a, L : a = mem.active /\ L = <<Empty(a)>>
          OBVIOUS
        <4>3. \A j \in DOMAIN L : L[j].id = a
          BY <4>2 DEF Empty
        <4> QED BY <1>2, <4>1, <4>2, <4>3
      <3>3. SavedAs(mem.list, disk)
        BY <2>2, <3>2 DEF QInv, Written
      <3> QED BY <3>1, <3>3 DEF SavedAs
    <2> QED BY <2>1, <2>2
  <1> QED BY <1>1, <1>2, <1>3, SidebarQuiet, ShowQuiet DEF QInv

LEMMA DeleteQuiet ==
    ASSUME ~Hasty, QInv, TInv', NEW id \in Ids, DeleteConversation(id)
    PROVE  QInv'
  <1>1. SidebarEnabled
    BY ZenonT(30) DEF DeleteConversation
  <1>2. queue = <<>> /\ TInv
    BY <1>1, SidebarQuiet DEF QInv
  <1>3. CASE \E m : Show(m) /\ Opening(m) /\ m.timer = mem.timer /\ SavedAs(m.list, disk')
    BY <1>2, <1>3, ShowQuiet
  <1>4. CASE /\ UNCHANGED <<page, queue>> /\ RefTyped(mem') /\ SavedAs(mem'.list, disk')
             /\ mem'.active = mem.active /\ mem'.latest = mem.latest /\ mem'.timer = mem.timer
             /\ mem.active \in IdsOf(mem.list) =>
                  Embeds(mem'.list, mem.list) /\ mem.active \in IdsOf(mem'.list)
    <2>1. Current /\ Written
      BY DEF QInv
    <2>2. Embeds(mem'.list, mem.list) /\ mem.active \in IdsOf(mem'.list)
      BY <1>4, <2>1 DEF Current
    <2>3. \A i \in DOMAIN mem'.list : \E j \in DOMAIN mem.list : mem'.list[i] = mem.list[j]
      BY <2>2 DEF Embeds
    <2>4. ~mem.timer => \A i \in DOMAIN mem'.list : mem'.list[i].id = mem.active => mem'.list[i].msgs = page.msgs
      BY <2>1, <2>3 DEF Written
    <2>5. Current' /\ Written'
      BY <1>4, <2>1, <2>2, <2>4 DEF Current, Written
    <2> QED BY <2>5 DEF QInv
  <1> QED BY <1>2, <1>3, <1>4, DeleteOpens

LEMMA QuietStep == ASSUME ~Hasty PROVE QInv /\ [Next]_vars => QInv'
  <1> SUFFICES ASSUME QInv, [Next]_vars PROVE QInv'
    OBVIOUS
  <1>1. TInv /\ TInv'
    BY TypedStep DEF QInv
  <1>2. CASE CreateNewConversation
    <2>1. PICK m : Show(m) /\ Opening(m) /\ SavedAs(m.list, disk')
      BY <1>1, <1>2, NewOpens
    <2>2. queue = <<>>
      BY <1>2, SidebarQuiet DEF CreateNewConversation
    <2> QED BY <1>1, <2>1, <2>2, ShowQuiet
  <1>3. CASE SaveTimer
    BY <1>1, <1>3, SaveQuiet
  <1>4. CASE LeavePage
    <2>1. /\ Opening(mem') /\ page'.msgs = mem'.latest
          /\ disk'.list = mem'.list \/ (disk'.list = <<>> /\ mem'.list = <<Empty(mem'.active)>>)
      BY <1>1, <1>4, LeaveOpens
    <2> QED BY <1>1, <2>1, OpenQuiet DEF SavedAs
  <1>5. CASE \E id \in Ids : SwitchConversation(id) \/ DeleteConversation(id)
    BY <1>1, <1>5, SwitchQuiet, DeleteQuiet
  <1>6. CASE ~ListSteps
    BY <1>1, <1>6, OtherSteps, FlowQuiet
  <1> QED BY <1>2, <1>3, <1>4, <1>5, <1>6 DEF ListSteps

LEMMA QuietIsSaved == QInv => OnlyUnsavedIsLost
  <1> SUFFICES ASSUME QInv
               PROVE  /\ \/ disk.list = mem.list
                         \/ disk.list = <<>> /\ \A i \in DOMAIN mem.list : mem.list[i].msgs = <<>>
                         \/ ~Fits(mem.list)
                      /\ ~mem.timer => [id |-> mem.active, msgs |-> page.msgs] \in Range(mem.list)
    BY DEF OnlyUnsavedIsLost
  <1>1. PICK i \in DOMAIN mem.list : mem.list[i].id = mem.active
    BY DEF QInv, Current, IdsOf
  <1>2. ASSUME ~mem.timer PROVE [id |-> mem.active, msgs |-> page.msgs] \in Range(mem.list)
    <2>1. mem.list[i].msgs = page.msgs
      BY <1>1, <1>2 DEF QInv, Written
    <2>2. mem.list[i] \in Entries
      BY <1>1 DEF QInv, TInv, Lists, RefTyped, Kept, Named
    <2>3. mem.list[i] = [id |-> mem.active, msgs |-> page.msgs]
      BY <1>1, <2>1, <2>2 DEF Entries
    <2> QED BY <1>1, <2>3 DEF Range
  <1>3. CASE disk.list = mem.list \/ ~Fits(mem.list)
    BY <1>2, <1>3
  <1>4. CASE disk.list = <<>> /\ mem.list = <<Empty(mem.active)>>
    <2>1. PICK a, L : a = mem.active /\ L = <<Empty(a)>>
      OBVIOUS
    <2>2. \A j \in DOMAIN L : L[j].msgs = <<>>
      BY <2>1 DEF Empty
    <2> QED BY <1>2, <1>4, <2>1, <2>2
  <1> QED BY <1>3, <1>4 DEF QInv, Written, SavedAs

\* As long as there is room, localStorage holds the conversations as the hook knows
\* them, unless nothing was ever written, and the open one as it is shown once no save
\* is due: switches, new and deleted conversations and the cap lose nothing that the
\* debounce of persistMessages had still to write, and leaving the page loses that and
\* nothing else (use-playground-state.ts), for any deltas, repeated ones too.  A user
\* who acts on a list that is about to be replaced (Hasty) can lose a list: TLC shows
\* how.
THEOREM OnlyUnsavedIsLostHolds == ASSUME ~Hasty PROVE Spec => []OnlyUnsavedIsLost
  <1>1. QInv /\ [Next]_vars => QInv'
    BY QuietStep
  <1> QED BY <1>1, QuietInit, QuietIsSaved, PTL DEF Spec
=============================================================================
