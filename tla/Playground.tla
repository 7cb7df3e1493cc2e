----------------------------- MODULE Playground -----------------------------
(***************************************************************************)
(* The chat playground of the dashboard (web/src/features/playground): the *)
(* chat handler and its generations, the controller of the event stream,   *)
(* the message state that React renders, and the conversations that a      *)
(* debounced timer writes to localStorage.                                 *)
(*                                                                         *)
(* Abstractions.  A text is the sequence of the deltas it was made of, each*)
(* with the generation that asked for it; reasoning and content are one    *)
(* channel.  A message is named by the generation that made it and its     *)
(* role.  updatedAt is the order of the last updates and createdAt the     *)
(* order of the list.  A confirmation dialog is part of its click.         *)
(*                                                                         *)
(* React.  A handler reads the state of the last render.  The updates of a *)
(* user's event are rendered before the next event; those of timers and of *)
(* the network wait in a queue until a render, or until the next user's    *)
(* event is rendered with them.                                            *)
(***************************************************************************)
EXTENDS Naturals, Sequences, FiniteSets, SequencesExt

CONSTANTS
  Ids,               \* names of conversations
  MaxConversations,  \* the cap on stored conversations (50 in the code)
  Letters,           \* the deltas a stream sends, in order
  MaxGen,            \* bound: generations, one per request or stop
  Hasty,             \* whether the user acts on a list that is about to be replaced
  Room               \* the number of messages that localStorage holds

ASSUME ConstantsAssumption ==
  /\ IsFiniteSet(Ids) /\ Cardinality(Ids) > MaxConversations
  /\ MaxConversations \in Nat \ {0} /\ MaxGen \in Nat /\ Letters \in Seq(Range(Letters))
  /\ Hasty \in BOOLEAN /\ Room \in Nat

VARIABLES
  page,   \* the rendered messages and isGenerating; the values set for its two parts
  queue,  \* the message updates not yet rendered
  chat,   \* the generation, its text not yet shown, and the timer that shows it
  net,    \* the stream controller and the requests in flight
  mem,    \* the refs of the state hook: conversations, active one, messages, save timer
  disk,   \* localStorage
  prep,   \* images of a submitted prompt being converted
  hist    \* history: the deltas of the current answer, whether it ended well, and the
          \* generation at which the page was opened

vars == <<page, queue, chat, net, mem, disk, prep, hist>>

Gens == 1..MaxGen

\* The elements of s that are in S, in their order.
Among(s, S) ==
  LET kept[n \in 0..Len(s)] ==
        IF n = 0 THEN <<>> ELSE IF s[n] \in S THEN Append(kept[n - 1], s[n]) ELSE kept[n - 1]
  IN kept[Len(s)]

Key(m) == <<m.own, m.from>>

createUserMessage(g) == [own |-> g, from |-> "user", st |-> "none", txt |-> <<>>]
createLoadingAssistantMessage(g) ==
  [own |-> g, from |-> "assistant", st |-> "loading", txt |-> <<>>]

Delta(g, n) == <<g, Letters[n]>>
IsPending(m) == m.st \in {"loading", "streaming"}
IsFinal(m)   == m.st \in {"complete", "error"}
HasContent(m) == m.from = "user" \/ m.txt # <<>> \/ m.st = "error"

Offline == [cur |-> 0, src |-> 0, hdrs |-> {}, live |-> {}, calls |-> {}, ab |-> 0]

Texts == Seq(Gens \X Range(Letters))
Message == [own : Gens, from : {"user", "assistant"},
            st : {"none", "loading", "streaming", "complete", "error"}, txt : Texts]
IsStore(s) ==
  /\ s.list \in Seq([id : Ids, msgs : Seq(Message)])
  /\ IsInjective(s.recent) /\ Range(s.recent) = {s.list[i].id : i \in DOMAIN s.list}
  /\ Len(s.recent) = Len(s.list) /\ Len(s.list) <= MaxConversations
  /\ s.active \in Ids

\* The state components hold values of the shapes the code gives them; a store
\* lists every conversation once and never more of them than the cap.
TypeOK ==
  /\ page.msgs \in Seq(Message)
  /\ {page.busy, page.isReq, page.isStr} \subseteq BOOLEAN
  /\ \A i \in DOMAIN queue : queue[i].op \in
       {"replace", "set", "remove", "chunk", "complete", "error", "answer", "stop"}
  /\ chat.gen \in 0..MaxGen /\ chat.pgen \in 0..MaxGen /\ chat.ftimer \in BOOLEAN
  /\ {net.cur, net.src, net.ab} \subseteq 0..MaxGen /\ net.hdrs \cup net.live \subseteq Gens
  /\ net.calls \subseteq [g : Gens, aborted : BOOLEAN]
  /\ IsStore(mem) /\ IsStore(disk) /\ mem.timer \in BOOLEAN
  /\ prep.on \in BOOLEAN

\* The page opens on an empty localStorage with a new conversation.
Init ==
  /\ page = [msgs |-> <<>>, busy |-> FALSE, isReq |-> FALSE, isStr |-> FALSE]
  /\ queue = <<>>
  /\ chat = [gen |-> 0, pgen |-> 0, ptxt |-> <<>>, ftimer |-> FALSE]
  /\ net = Offline
  /\ \E id \in Ids :
       /\ mem = [list |-> <<[id |-> id, msgs |-> <<>>]>>, recent |-> <<id>>, active |-> id,
                 latest |-> <<>>, timer |-> FALSE]
       /\ disk = [list |-> <<>>, recent |-> <<>>, active |-> id]
  /\ prep = [on |-> FALSE, snap |-> <<>>]
  /\ hist = [got |-> 0, done |-> FALSE, born |-> 0]

-----------------------------------------------------------------------------
(* Updates of the message list and their rendering.                        *)

\* A chunk that repeats the whole text so far is taken for a snapshot of it.
mergePendingStreamChunk(cur, chunk) ==
  IF cur # <<>> /\ IsPrefix(cur, chunk) THEN chunk ELSE cur \o chunk
getAppendableChunk(cur, chunk) ==
  IF cur # <<>> /\ IsPrefix(cur, chunk) THEN SubSeq(chunk, Len(cur) + 1, Len(chunk)) ELSE chunk

applyStreamingChunk(m, chunk) ==
  IF m.st = "error" THEN m
  ELSE [m EXCEPT !.st = "streaming", !.txt = @ \o getAppendableChunk(@, chunk)]

\* finalizeMessage also moves what stands between think tags from the text to the
\* reasoning, and trims: reasoning and content are one text here, of answers that use
\* one of the two.
completeAssistantMessage(m) == [m EXCEPT !.st = "complete"]

\* Mutant: a stop leaves the answer as it is.
RevisedNoStop(m, u) ==
  CASE u.op = "chunk"    -> applyStreamingChunk(m, u.txt)
    [] u.op = "complete" -> IF IsFinal(m) THEN m ELSE completeAssistantMessage(m)
    [] u.op = "stop"     -> m
    [] u.op = "error"    -> [m EXCEPT !.st = "error", !.txt = <<>>]
    [] u.op = "answer"   -> [m EXCEPT !.st = "complete", !.txt = u.txt]

\* What an update makes of the last message, if that is an answer.
Revised(m, u) ==
  CASE u.op = "chunk"    -> applyStreamingChunk(m, u.txt)
    [] u.op = "complete" -> IF IsFinal(m) THEN m ELSE completeAssistantMessage(m)
    [] u.op = "stop"     -> IF IsPending(m) THEN completeAssistantMessage(m) ELSE m
    [] u.op = "error"    -> [m EXCEPT !.st = "error", !.txt = <<>>]
    [] u.op = "answer"   -> [m EXCEPT !.st = "complete", !.txt = u.txt]

updateLastAssistantMessage(ms, u) ==
  IF ms = <<>> \/ ms[Len(ms)].from # "assistant" THEN ms
  ELSE [ms EXCEPT ![Len(ms)] = Revised(@, u)]

\* An update of a request is void once generation g has replaced its own.
StillCurrent(u, g) == u.gen = g
Effect(ms, u, g) ==
  CASE u.op \in {"replace", "set"} -> u.val
    [] u.op = "remove"             -> Among(ms, {m \in Range(ms) : Key(m) # u.key})
    [] OTHER -> IF StillCurrent(u, g) THEN updateLastAssistantMessage(ms, u) ELSE ms

\* A render applies updates q in their order.  updateMessages also notes the
\* list it returns as the one to save, which a plain setMessages does not.
Rendered(q, g) ==
  FoldLeft(LAMBDA acc, u : LET ms == Effect(acc.ms, u, g) IN
             [ms |-> ms, dirty |-> acc.dirty \/ u.op # "set",
              latest |-> IF u.op = "set" THEN acc.latest ELSE ms],
           [ms |-> page.msgs, dirty |-> FALSE, latest |-> <<>>], q)

\* persistMessages: remember the list and restart the save timer.
persistMessages(m, r) ==
  IF r.dirty THEN [m EXCEPT !.latest = r.latest, !.timer = TRUE] ELSE m

\* A user's event adds updates us, leaves the refs as m and is rendered.
Shown(us, g, m, isReq, isStr) ==
  LET r == Rendered(queue \o us, g) IN
  /\ page' = [msgs |-> r.ms, busy |-> isReq \/ isStr, isReq |-> isReq, isStr |-> isStr]
  /\ queue' = <<>>
  /\ mem' = persistMessages(m, r)

\* A timer or the network adds updates us, to be rendered later.
Queued(us, isReq, isStr) ==
  /\ queue' = queue \o us
  /\ page' = [page EXCEPT !.isReq = isReq, !.isStr = isStr]
  /\ UNCHANGED mem

Render ==
  /\ queue # <<>> \/ page.busy # (page.isReq \/ page.isStr)
  /\ Shown(<<>>, chat.gen, mem, page.isReq, page.isStr)
  /\ UNCHANGED <<chat, net, disk, prep, hist>>

-----------------------------------------------------------------------------
(* The chat handler and the stream controller.                             *)

\* flushStreamUpdates: the text not yet shown becomes an update of generation g.
FlushUpdate(g) ==
  IF chat.pgen = chat.gen /\ chat.ptxt # <<>>
  THEN <<[op |-> "chunk", gen |-> g, txt |-> chat.ptxt]>> ELSE <<>>
Flushed == [chat EXCEPT !.ftimer = FALSE, !.ptxt = IF chat.pgen = chat.gen THEN <<>> ELSE @]

\* Mutant: the text of the generation before is not discarded.
FreshKeepsText(g) == [gen |-> g, pgen |-> g, ptxt |-> chat.ptxt, ftimer |-> FALSE]

\* A new generation drops the text of the one before, and its timer.
Fresh(g) == [gen |-> g, pgen |-> g, ptxt |-> <<>>, ftimer |-> FALSE]

Aborted(calls, g) == {[c EXCEPT !.aborted = @ \/ c.g = g] : c \in calls}
StreamClosed == [net EXCEPT !.cur = 0, !.src = 0, !.live = @ \ {net.src}]

\* sendChat: either path supersedes a stream and aborts a call.
Launched(g, stream) ==
  LET closed == [StreamClosed EXCEPT !.calls = Aborted(@, net.ab)] IN
  IF stream
  THEN [closed EXCEPT !.cur = g, !.ab = 0, !.hdrs = @ \cup {g}]
  ELSE [closed EXCEPT !.ab = g, !.calls = @ \cup {[g |-> g, aborted |-> FALSE]}]

sendChat(stream) ==
  /\ chat.gen + 1 < MaxGen
  /\ chat' = Fresh(chat.gen + 1)
  /\ net' = Launched(chat.gen + 1, stream)
  /\ hist' = [hist EXCEPT !.got = 0, !.done = FALSE]

Update(op, g) == <<[op |-> op, gen |-> g]>>
IsCurrentGen(g) == g = chat.gen

\* Mutant: the end of a stream does not flush the text not yet shown.
EndedUnflushed(g, op, isStr) ==
  IF IsCurrentGen(g)
  THEN Queued(Update(op, g), FALSE, isStr) /\ chat' = Fresh(g)
  ELSE Queued(<<>>, page.isReq, isStr) /\ UNCHANGED chat

\* Mutant: the end of a stream does not end the request.
EndedBusy(g, op, isStr) ==
  IF IsCurrentGen(g)
  THEN /\ Queued(FlushUpdate(g) \o Update(op, g), page.isReq, isStr)
       /\ chat' = Flushed
  ELSE Queued(<<>>, page.isReq, isStr) /\ UNCHANGED chat

\* handleStreamError and handleStreamComplete, with the controller as isStr.
Ended(g, op, isStr) ==
  IF IsCurrentGen(g)
  THEN /\ Queued(FlushUpdate(g) \o Update(op, g), FALSE, isStr)
       /\ chat' = Flushed
  ELSE Queued(<<>>, page.isReq, isStr) /\ UNCHANGED chat

\* The fresh headers of a stream request are there, or could not be had; a
\* request that was replaced meanwhile goes no further.
HeadersReady(g) ==
  /\ g \in net.hdrs
  /\ LET rest == [net EXCEPT !.hdrs = @ \ {g}] IN
     \/ /\ g # net.cur
        /\ net' = rest /\ UNCHANGED <<page, queue, mem, chat>>
     \/ /\ g = net.cur
        /\ net' = [rest EXCEPT !.src = g, !.live = @ \cup {g}]
        /\ Queued(<<>>, page.isReq, TRUE) /\ UNCHANGED chat
     \/ g = net.cur /\ net' = rest /\ Ended(g, "error", page.isStr)
  /\ UNCHANGED <<disk, prep, hist>>

IsCurrentSource(g) == net.cur = g /\ net.src = g

\* A delta arrives on the stream of g.
StreamDelta(g) ==
  /\ g \in net.live /\ hist.got < Len(Letters)
  /\ hist' = [hist EXCEPT !.got = @ + 1]
  /\ chat' = IF IsCurrentSource(g) /\ IsCurrentGen(g) /\ chat.pgen = g
             THEN [chat EXCEPT !.ptxt = mergePendingStreamChunk(@, <<Delta(g, hist.got + 1)>>),
                               !.ftimer = TRUE]
             ELSE chat
  /\ UNCHANGED <<page, queue, net, mem, disk, prep>>

\* 50 ms after the first of them the deltas are shown.
FlushTimer ==
  /\ chat.ftimer
  /\ chat' = Flushed
  /\ Queued(FlushUpdate(chat.gen), page.isReq, page.isStr)
  /\ UNCHANGED <<net, disk, prep, hist>>

\* The stream of g ends with [DONE] or with an error.
StreamEnd(g) ==
  /\ g \in net.live
  /\ IF ~IsCurrentSource(g) THEN UNCHANGED <<page, queue, mem, chat, net, hist>>
     ELSE /\ net' = [net EXCEPT !.src = 0, !.live = @ \ {g}]
          /\ \/ /\ Ended(g, "complete", FALSE)
                /\ hist' = [hist EXCEPT !.done = TRUE]
             \/ Ended(g, "error", FALSE) /\ UNCHANGED hist
  /\ UNCHANGED <<disk, prep>>

\* A call without streaming is answered, or fails.
CallReply(c) ==
  /\ c \in net.calls
  /\ IF c.aborted \/ ~IsCurrentGen(c.g)
     THEN /\ net' = [net EXCEPT !.calls = @ \ {c}]
          /\ UNCHANGED <<page, queue, mem, chat, hist>>
     ELSE /\ net' = [net EXCEPT !.calls = @ \ {c}, !.ab = 0]
          /\ \/ LET all == [n \in 1..Len(Letters) |-> Delta(c.g, n)] IN
                /\ Queued(<<[op |-> "answer", gen |-> c.g, txt |-> all]>>, FALSE, page.isStr)
                /\ hist' = [hist EXCEPT !.got = Len(Letters), !.done = TRUE]
                /\ UNCHANGED chat
             \/ Ended(c.g, "error", page.isStr) /\ UNCHANGED hist
  /\ UNCHANGED <<disk, prep>>

\* stopGeneration.  The update with the last text runs at once if React has no
\* other update waiting, and may otherwise run when the generation has moved on.
StopGeneration ==
  LET g == chat.gen IN
  /\ page.busy /\ g < MaxGen
  /\ chat' = Fresh(g + 1)
  /\ net' = [StreamClosed EXCEPT !.calls = Aborted(@, net.ab), !.ab = 0]
  /\ \E early \in {FALSE, queue = <<>>} :
       Shown(FlushUpdate(IF early THEN g + 1 ELSE g) \o Update("stop", g + 1),
             g + 1, mem, FALSE, FALSE)
  /\ hist' = [hist EXCEPT !.got = 0, !.done = FALSE]
  /\ UNCHANGED <<disk, prep>>

-----------------------------------------------------------------------------
(* What the user does with the messages.                                   *)

\* The list on the screen is not about to be replaced, or the user does not care.
ListSettled == prep.on \/ queue # <<>> => Hasty

Replace(ms) == <<[op |-> "replace", val |-> ms]>>
appendUserMessagePair(ms, g) ==
  ms \o <<createUserMessage(g), createLoadingAssistantMessage(g)>>

\* A prompt without images; while images are converted only the suggestions of
\* an empty conversation can be sent.
SendMessage(stream) ==
  LET g == chat.gen + 1 IN
  /\ ~page.busy /\ ListSettled /\ (prep.on => page.msgs = <<>>)
  /\ sendChat(stream)
  /\ Shown(Replace(appendUserMessagePair(page.msgs, g)), g, mem, TRUE, FALSE)
  /\ UNCHANGED <<disk, prep>>

\* A prompt with images is sent when they are converted, by the handler of the
\* render in which it was submitted; without text and images it is not.
SubmitImages ==
  /\ ~page.busy /\ ~prep.on
  /\ prep' = [on |-> TRUE, snap |-> page.msgs]
  /\ UNCHANGED <<page, queue, chat, net, mem, disk, hist>>

ImagesReady(stream) ==
  /\ prep.on
  /\ prep' = [on |-> FALSE, snap |-> <<>>]
  /\ \/ UNCHANGED <<page, queue, chat, net, mem, hist>>
     \/ /\ sendChat(stream)
        /\ Queued(Replace(appendUserMessagePair(prep.snap, chat.gen + 1)), TRUE, FALSE)
  /\ UNCHANGED <<disk>>

createRegeneratedMessages(ms, i, g) ==
  SubSeq(ms, 1, IF ms[i].from = "user" THEN i ELSE i - 1)
    \o <<createLoadingAssistantMessage(g)>>

Regenerate(i, stream) ==
  LET g == chat.gen + 1 IN
  /\ ~page.busy /\ ListSettled
  /\ HasContent(page.msgs[i]) /\ ~IsPending(page.msgs[i])
  /\ sendChat(stream)
  /\ Shown(Replace(createRegeneratedMessages(page.msgs, i, g)), g, mem, TRUE, FALSE)
  /\ UNCHANGED <<disk, prep>>

\* applyEdit.  The editor is opened while nothing is generated, on a message with
\* content, and can be used during a generation too.
Editable(i) ==
  /\ ListSettled
  /\ HasContent(page.msgs[i]) /\ (page.busy => page.msgs[i].own # chat.gen)

SaveEdit(i) ==
  LET ms == [page.msgs EXCEPT ![i].txt = <<>>] IN
  /\ Editable(i)
  /\ Shown(Replace(ms), chat.gen, mem, page.isReq, page.isStr)
  /\ hist' = [hist EXCEPT !.done = @ /\ Key(ms[i]) # <<chat.gen, "assistant">>]
  /\ UNCHANGED <<chat, net, disk, prep>>

\* Save & Submit of a prompt asks for a new answer.
SubmitEdit(i, stream) ==
  LET g == chat.gen + 1 IN
  /\ Editable(i) /\ page.msgs[i].from = "user"
  /\ sendChat(stream)
  /\ Shown(Replace(SubSeq(page.msgs, 1, i) \o <<createLoadingAssistantMessage(g)>>),
           g, mem, TRUE, FALSE)
  /\ UNCHANGED <<disk, prep>>

DeleteMessage(i) ==
  /\ ~page.busy /\ ListSettled
  /\ Shown(<<[op |-> "remove", key |-> Key(page.msgs[i])]>>, chat.gen, mem,
           page.isReq, page.isStr)
  /\ UNCHANGED <<chat, net, disk, prep, hist>>

ClearMessages ==
  /\ ~page.busy /\ ListSettled /\ page.msgs # <<>>
  /\ Shown(Replace(<<>>), chat.gen, mem, page.isReq, page.isStr)
  /\ UNCHANGED <<chat, net, disk, prep, hist>>

-----------------------------------------------------------------------------
(* Conversations.                                                          *)

IdsOf(list) == {list[i].id : i \in DOMAIN list}
Newest(id, recent) == <<id>> \o Among(recent, Ids \ {id})
Only(list, S) == Among(list, {c \in Range(list) : c.id \in S})

\* Mutant: one conversation more than the cap.
CappedLate(list, recent) ==
  LET top == SubSeq(recent, 1, IF Len(recent) < MaxConversations + 1 THEN Len(recent)
                               ELSE MaxConversations + 1)
  IN [list |-> Only(list, Range(top)), recent |-> top]

\* The most recently updated conversations up to the cap, in order of creation.
Capped(list, recent) ==
  LET top == SubSeq(recent, 1, IF Len(recent) < MaxConversations THEN Len(recent)
                               ELSE MaxConversations)
  IN [list |-> Only(list, Range(top)), recent |-> top]

\* saveConversations: when the write is refused the conversations created first
\* are left out, one more at each attempt; if every attempt fails nothing is
\* written.
Fits(list) == Cardinality(UNION {{i} \X DOMAIN list[i].msgs : i \in DOMAIN list}) <= Room
Saved(d, list, recent) ==
  LET c       == Capped(list, recent)
      kept(n) == SubSeq(c.list, n + 1, Len(c.list))
      tries   == {n \in 0..(Len(c.list) - 1) : Fits(kept(n))}
  IN IF tries = {} THEN d
     ELSE [d EXCEPT !.list = kept(Min(tries)),
                    !.recent = Among(c.recent, IdsOf(kept(Min(tries))))]

\* The messages to save go into the active conversation, which thereby is the
\* most recently updated one.
Stored(m) ==
  [m EXCEPT !.list = [i \in DOMAIN @ |-> IF @[i].id = m.active
                                         THEN [@[i] EXCEPT !.msgs = m.latest] ELSE @[i]],
            !.recent = IF m.active \in IdsOf(m.list) THEN Newest(m.active, @) ELSE @,
            !.timer = FALSE]

\* Half a second after the last update.
SaveTimer ==
  /\ mem.timer
  /\ mem' = Stored(mem)
  /\ disk' = Saved(disk, mem'.list, mem'.recent)
  /\ UNCHANGED <<page, queue, chat, net, prep, hist>>

\* Mutant: leaving a conversation cancels its timer without a save.
SavedOnLeaveNever == disk

\* Leaving a conversation saves what its timer has not saved yet.
LeaveConversation == IF mem.timer THEN Stored(mem) ELSE mem
SavedOnLeave ==
  LET m == Stored(mem) IN IF mem.timer THEN Saved(disk, m.list, m.recent) ELSE disk

Opened(m, c) == [m EXCEPT !.active = c.id, !.latest = c.msgs]
Show(m) ==
  Shown(<<[op |-> "set", val |-> m.latest]>>, chat.gen, m, page.isReq, page.isStr)

SidebarEnabled == ~page.busy /\ ListSettled

\* A new conversation is opened; beyond the cap the least recent one goes.
Created(left, id) ==
  LET fresh == [id |-> id, msgs |-> <<>>]
      next  == Capped(Append(left.list, fresh), <<id>> \o left.recent)
  IN Opened([left EXCEPT !.list = next.list, !.recent = next.recent], fresh)

CreateNewConversation ==
  /\ SidebarEnabled
  /\ \E id \in Ids \ IdsOf(mem.list) :
       LET m == Created(LeaveConversation, id)
       IN /\ Show(m)
          /\ disk' = [Saved(SavedOnLeave, m.list, m.recent) EXCEPT !.active = id]
  /\ UNCHANGED <<chat, net, prep, hist>>

\* Mutant: what is left to save is saved after the other conversation was opened.
SwitchConversationFirst(id) ==
  LET left == IF mem.timer THEN Stored([mem EXCEPT !.active = id]) ELSE mem IN
  /\ SidebarEnabled
  /\ id # mem.active /\ id \in IdsOf(left.list)
  /\ \E i \in DOMAIN left.list :
       left.list[i].id = id /\ Show(Opened(left, left.list[i]))
  /\ disk' = [Saved(disk, left.list, left.recent) EXCEPT !.active = id]
  /\ UNCHANGED <<chat, net, prep, hist>>

SwitchConversation(id) ==
  LET left == LeaveConversation IN
  /\ SidebarEnabled
  /\ id # mem.active /\ id \in IdsOf(left.list)
  /\ \E i \in DOMAIN left.list :
       left.list[i].id = id /\ Show(Opened(left, left.list[i]))
  /\ disk' = [SavedOnLeave EXCEPT !.active = id]
  /\ UNCHANGED <<chat, net, prep, hist>>

\* The active conversation gives way to the first one left; a last one is
\* replaced by a new one.
DeleteConversation(id) ==
  LET rest == Only(mem.list, Ids \ {id}) IN
  /\ SidebarEnabled
  /\ id \in IdsOf(mem.list)
  /\ \E new \in IF rest = <<>> THEN Ids \ {id} ELSE {id} :
       LET list   == IF rest = <<>> THEN <<[id |-> new, msgs |-> <<>>]>> ELSE rest
           recent == IF rest = <<>> THEN <<new>> ELSE Among(mem.recent, Ids \ {id})
           m      == [mem EXCEPT !.list = list, !.recent = recent]
           d      == Saved(disk, list, recent)
       IN IF id = mem.active
          THEN Show(Opened(m, list[1])) /\ disk' = [d EXCEPT !.active = list[1].id]
          ELSE mem' = m /\ disk' = d /\ UNCHANGED <<page, queue>>
  /\ UNCHANGED <<chat, net, prep, hist>>

\* What a page that is opened loads from the store d: the conversation it names, or
\* the first one, or a new one if there is none.
Loaded(d, new) ==
  LET list == IF d.list = <<>> THEN <<[id |-> new, msgs |-> <<>>]>> ELSE d.list
      open == IF d.active \in IdsOf(list)
              THEN CHOOSE i \in DOMAIN list : list[i].id = d.active ELSE 1
  IN [list |-> list, recent |-> IF d.list = <<>> THEN <<new>> ELSE d.recent,
      active |-> list[open].id, latest |-> list[open].msgs, timer |-> FALSE]

\* The page is left, by navigation (which runs the cleanups) or by a reload,
\* and opened again.  The cleanup saves the conversations without the messages that
\* the timer had still to write.  Images under way are lost, as in a reload; after a
\* navigation the code still calls the handler of the page that is gone, which sends
\* a request that no page shows: left out.
LeavePage ==
  /\ \E d \in {disk} \cup IF mem.timer THEN {Saved(disk, mem.list, mem.recent)} ELSE {} :
       \E new \in IF d.list = <<>> THEN Ids ELSE {d.active} :
         mem' = Loaded(d, new) /\ disk' = [d EXCEPT !.active = mem'.active]
  /\ page' = [msgs |-> mem'.latest, busy |-> FALSE, isReq |-> FALSE, isStr |-> FALSE]
  /\ queue' = <<>> /\ net' = Offline
  /\ chat' = [chat EXCEPT !.ptxt = <<>>, !.ftimer = FALSE]
  /\ prep' = [on |-> FALSE, snap |-> <<>>]
  /\ hist' = [hist EXCEPT !.got = 0, !.done = FALSE, !.born = chat.gen]

-----------------------------------------------------------------------------

Next ==
  \/ Render \/ FlushTimer \/ SaveTimer \/ StopGeneration
  \/ \E g \in Gens : HeadersReady(g) \/ StreamDelta(g) \/ StreamEnd(g)
  \/ \E c \in net.calls : CallReply(c)
  \/ \E stream \in BOOLEAN : SendMessage(stream) \/ ImagesReady(stream)
  \/ SubmitImages \/ ClearMessages
  \/ \E i \in DOMAIN page.msgs :
       \/ \E stream \in BOOLEAN : Regenerate(i, stream)
       \/ \E stream \in BOOLEAN : SubmitEdit(i, stream)
       \/ SaveEdit(i) \/ DeleteMessage(i)
  \/ CreateNewConversation
  \/ \E id \in Ids : SwitchConversation(id) \/ DeleteConversation(id)
  \/ LeavePage

Spec == Init /\ [][Next]_vars

-----------------------------------------------------------------------------
(* Properties.                                                             *)

\* The messages of conversation c as the page would save them.
Shadow(i) == IF mem.list[i].id = mem.active THEN page.msgs ELSE mem.list[i].msgs

\* An answer holds text of its own request only, in the order it was sent and
\* without a gap, whatever was stopped, superseded or switched away from
\* meanwhile (requestGenerationRef, isCurrent).
OnlyOwnText ==
  \A i \in DOMAIN mem.list : \A j \in DOMAIN Shadow(i) :
    LET m == Shadow(i)[j] IN IsPrefix(m.txt, [n \in 1..Len(Letters) |-> Delta(m.own, n)])

\* Once an answer has ended with [DONE] and is rendered, it holds all that was
\* sent for it ("keeps the full raw content", processStreamingContent).
CompleteAnswer ==
  (queue = <<>> /\ hist.done) =>
    \A j \in DOMAIN page.msgs :
      LET m == page.msgs[j] IN
      Key(m) = <<chat.gen, "assistant">> =>
        m.st = "complete" /\ m.txt = [n \in 1..hist.got |-> Delta(m.own, n)]

\* No message is in two conversations: switching, deleting and the save timer
\* never write the messages of one conversation into another
\* (use-playground-state.ts persistMessages, switchConversation).
HistoriesSeparate ==
  \A i, j \in DOMAIN mem.list : i # j =>
    {Key(m) : m \in Range(Shadow(i))} \cap {Key(m) : m \in Range(Shadow(j))} = {}

\* Once the page shows no generation, no answer asked for on this page is left
\* loading or streaming.
NoOrphanPending ==
  (~page.busy /\ queue = <<>>) =>
    \A j \in DOMAIN page.msgs : IsPending(page.msgs[j]) => page.msgs[j].own <= hist.born

\* As long as there is room, localStorage holds the conversations as the hook knows
\* them, and the hook knows the open one as it is shown once no save is due and no
\* update waits to be rendered: switches, new and deleted conversations and the cap lose nothing that the
\* timer had still to write, and leaving the page, which does lose that
\* (persistConversations in the cleanup of use-playground-state.ts), loses nothing else.
OnlyUnsavedIsLost ==
  /\ \/ disk.list = mem.list
     \/ disk.list = <<>> /\ \A i \in DOMAIN mem.list : mem.list[i].msgs = <<>>
     \/ ~Fits(mem.list)
  /\ (~mem.timer /\ queue = <<>>) =>
       [id |-> mem.active, msgs |-> page.msgs] \in Range(mem.list)

\* While the page waits for an answer, the current generation has a request that
\* is not aborted and whose end unblocks the composer; a stream that the server
\* closes without [DONE] or an error is one whose end never comes
\* (use-stream-request.ts getStreamReadyStateError).
BusyHasCause ==
  (page.isReq \/ page.isStr) =>
    \/ chat.gen = net.cur /\ chat.gen \in net.hdrs \cup net.live
    \/ [g |-> chat.gen, aborted |-> FALSE] \in net.calls
=============================================================================
