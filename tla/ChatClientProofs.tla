--------------------------- MODULE ChatClientProofs ---------------------------
(***************************************************************************)
(* What the chat of ChatClient promises for every set of messages and      *)
(* chats and every budget of faults and clicks.                            *)
(***************************************************************************)
EXTENDS ChatClient, FiniteSetTheorems, SequenceTheorems, TLAPS

-----------------------------------------------------------------------------
(* Types. *)

LEMMA RenderTyped ==
  ASSUME NEW base \in {"landing", "conversation"}, Render(base),
         stale \subseteq Sessions, cur' \in Sessions \cup {Nobody}
  PROVE  view' \in {"landing", "conversation"} /\ stale' \subseteq Sessions
  BY DEF Render

LEMMA SpendTyped ==
  ASSUME budget \in [Spent -> Nat], NEW what \in Spent, Spend(what)
  PROVE  budget' \in [Spent -> Nat]
  BY DEF Spend

LEMMA EntryTyped ==
  ASSUME NEW m \in Msgs
  PROVE  Typed(m) \in Entries /\ Reply(m) \in Entries
  BY DEF Typed, Reply, Entries

LEMMA GivenUpTyped ==
  ASSUME TypeOK, NEW m \in Msgs, GivenUp(m)
  PROVE  /\ completion' = Nobody /\ phase' = "idle" /\ bubble' = {}
         /\ opt' \subseteq Entries \cup Locals /\ finishing' \subseteq Msgs
  BY EntryTyped DEF GivenUp, Completed, TypeOK

LEMMA FlushedTyped ==
  ASSUME TypeOK, Flushed
  PROVE  /\ closed' = FALSE /\ completion' = Nobody /\ phase' = "idle" /\ bubble' = {}
         /\ opt' \subseteq Entries \cup Locals /\ finishing' \subseteq Msgs
  BY EntryTyped DEF Flushed, Completed, TypeOK

LEMMA CloseTyped ==
  ASSUME TypeOK, Close
  PROVE  /\ closed' \in BOOLEAN /\ completion' \in Msgs \cup {Nobody} /\ phase' \in {"idle", "sending", "streaming"}
         /\ bubble' \subseteq Msgs /\ opt' \subseteq Entries \cup Locals /\ finishing' \subseteq Msgs
  BY FlushedTyped DEF Close, TypeOK

LEMMA BeginTyped ==
  ASSUME TypeOK, NEW m \in Msgs, NEW s \in Sessions \cup {Nobody}, Begin(m, s)
  PROVE  /\ send' \in [Msgs -> {"none", "posted", "refreshing", "reposted", "reading", "ended", "errored", "done", "over"}]
         /\ at' \in [Msgs -> {"none", "asked", "refused", "failed", "started", "written", "saved", "broken"}]
         /\ asks' \in [Msgs -> Sessions \cup {Nobody}] /\ aborted' \subseteq Msgs
         /\ ctrl' = m /\ completion' = m /\ closed' = FALSE /\ full' = {} /\ queued' = {} /\ bubble' = {}
         /\ phase' = "sending" /\ cur' = cur /\ opt' \subseteq Entries \cup Locals
         /\ view' \in {"landing", "conversation"} /\ stale' \subseteq Sessions
<1>1. cur' \in Sessions \cup {Nobody} /\ stale \subseteq Sessions
  BY DEF Begin, TypeOK
<1>2. view' \in {"landing", "conversation"} /\ stale' \subseteq Sessions
  BY <1>1, RenderTyped DEF Begin
<1> QED
  BY <1>2, EntryTyped DEF Begin, AbortCurrent, TypeOK

LEMMA AbortTyped ==
  ASSUME TypeOK, NEW s \in Sessions \cup {Nobody}, NEW base \in {"landing", "conversation"}, Abort(s, base)
  PROVE  /\ aborted' \subseteq Msgs /\ ctrl' = Nobody /\ completion' = Nobody /\ closed' = FALSE /\ queued' = {}
         /\ phase' = "idle" /\ bubble' = {} /\ opt' = {} /\ finishing' \subseteq Msgs /\ cur' = s
         /\ view' \in {"landing", "conversation"} /\ stale' \subseteq Sessions
<1>1. cur' \in Sessions \cup {Nobody} /\ stale \subseteq Sessions
  BY DEF Abort, TypeOK
<1>2. view' \in {"landing", "conversation"} /\ stale' \subseteq Sessions
  BY <1>1, RenderTyped DEF Abort
<1> QED
  BY <1>2 DEF Abort, AbortCurrent, TypeOK

LEMMA ServeTyped ==
  ASSUME TypeOK, NEW m \in Msgs, Serve(m)
  PROVE  TypeOK'
<1>0. Spent = {"expiries", "faults", "stops", "choices", "loads", "commands"}
  BY DEF Spent
<1>1. CASE Refuse(m)
  <2>1. budget' \in [Spent -> Nat]
    BY <1>0, <1>1, SpendTyped DEF Refuse, TypeOK
  <2> QED
    BY <1>1, <2>1 DEF Refuse, TypeOK, refs, shown
<1>2. CASE Accept(m)
  <2>1. chatOf' \in [Msgs -> Sessions \cup {Nobody}] /\ saved' \subseteq Entries
    BY <1>2, EntryTyped DEF Accept, TypeOK, Sessions
  <2> QED
    BY <1>2, <2>1 DEF Accept, TypeOK, refs, shown, local
<1>3. CASE Write(m)
  BY <1>3 DEF Write, TypeOK, refs, shown, local
<1>4. CASE SaveReply(m)
  <2>1. budget' \in [Spent -> Nat]
    BY <1>0, <1>4, SpendTyped DEF SaveReply, TypeOK
  <2>2. saved' \subseteq Entries
    BY <1>4, EntryTyped DEF SaveReply, TypeOK, Reply
  <2>3. at' \in [Msgs -> {"none", "asked", "refused", "failed", "started", "written", "saved", "broken"}]
    BY <1>4 DEF SaveReply, TypeOK
  <2> QED
    BY <1>4, <2>1, <2>2, <2>3 DEF SaveReply, TypeOK, refs, shown
<1> QED
  BY <1>1, <1>2, <1>3, <1>4 DEF Serve

LEMMA FetchTyped ==
  ASSUME TypeOK, NEW m \in Msgs, Fetch(m)
  PROVE  TypeOK'
<1>0. view \in {"landing", "conversation"} /\ stale \subseteq Sessions /\ cur \in Sessions \cup {Nobody}
  BY DEF TypeOK
<1>1. CASE AbortError(m)
  BY <1>1 DEF AbortError, TypeOK, server, refs, shown, local
<1>2. CASE Denied(m)
  BY <1>2 DEF Denied, TypeOK, server, refs, shown, local
<1>3. CASE Refreshed(m)
  BY <1>3 DEF Refreshed, TypeOK, refs, shown, local
<1>4. CASE AuthExpired(m)
  <2>1. GivenUp(m) /\ cur' = cur /\ Render(view)
    BY <1>4 DEF AuthExpired
  <2>2. view' \in {"landing", "conversation"} /\ stale' \subseteq Sessions
    BY <1>0, <2>1, RenderTyped
  <2>3. buffer' \in Seq(Msgs) /\ cut' \in BOOLEAN
    BY <1>4 DEF AuthExpired, TypeOK
  <2> QED
    BY <1>4, <2>1, <2>2, <2>3, GivenUpTyped DEF AuthExpired, TypeOK, server
<1>5. CASE NotOk(m)
  <2>1. GivenUp(m) /\ cur' = cur /\ Render(view)
    BY <1>5 DEF NotOk
  <2>2. view' \in {"landing", "conversation"} /\ stale' \subseteq Sessions
    BY <1>0, <2>1, RenderTyped
  <2> QED
    BY <1>5, <2>1, <2>2, GivenUpTyped DEF NotOk, TypeOK, server, local
<1>6. CASE NetworkFails(m)
  <2>1. GivenUp(m) /\ cur' = cur /\ Render(view) /\ Spend("faults")
    BY <1>6 DEF NetworkFails
  <2>2. view' \in {"landing", "conversation"} /\ stale' \subseteq Sessions
    BY <1>0, <2>1, RenderTyped
  <2>3. budget' \in [Spent -> Nat]
    BY <2>1, SpendTyped DEF TypeOK, Spent
  <2>4. cut' \in BOOLEAN
    BY <1>6 DEF NetworkFails, TypeOK
  <2> QED
    BY <1>6, <2>1, <2>2, <2>3, <2>4, GivenUpTyped DEF NetworkFails, TypeOK, server
<1> QED
  BY <1>1, <1>2, <1>3, <1>4, <1>5, <1>6 DEF Fetch

LEMMA ReadTyped ==
  ASSUME TypeOK, NEW m \in Msgs, Read(m) \/ Finish(m)
  PROVE  TypeOK'
<1>0. view \in {"landing", "conversation"} /\ stale \subseteq Sessions /\ cur \in Sessions \cup {Nobody}
  BY DEF TypeOK
<1>1. CASE MessageStart(m)
  <2>1. cur' \in Sessions \cup {Nobody} /\ Render(view)
    BY <1>1 DEF MessageStart, TypeOK
  <2>2. view' \in {"landing", "conversation"} /\ stale' \subseteq Sessions
    BY <1>0, <2>1, RenderTyped
  <2> QED
    BY <1>1, <2>1, <2>2 DEF MessageStart, TypeOK, server, refs, local
<1>2. CASE ContentDelta(m)
  <2>1. cur' = cur /\ Render(view)
    BY <1>2 DEF ContentDelta
  <2>2. view' \in {"landing", "conversation"} /\ stale' \subseteq Sessions
    BY <1>0, <2>1, RenderTyped
  <2> QED
    BY <1>2, <2>1, <2>2 DEF ContentDelta, TypeOK, server, local
<1>3. CASE MessageEnd(m)
  <2>1. Close /\ cur' = cur /\ Render(view)
    BY <1>3 DEF MessageEnd
  <2>2. view' \in {"landing", "conversation"} /\ stale' \subseteq Sessions
    BY <1>0, <2>1, RenderTyped
  <2> QED
    BY <1>3, <2>1, <2>2, CloseTyped DEF MessageEnd, TypeOK, server, local
<1>4. CASE ErrorEvent(m)
  <2>1. GivenUp(m) /\ cur' = cur /\ Render(view)
    BY <1>4 DEF ErrorEvent
  <2>2. view' \in {"landing", "conversation"} /\ stale' \subseteq Sessions
    BY <1>0, <2>1, RenderTyped
  <2> QED
    BY <1>4, <2>1, <2>2, GivenUpTyped DEF ErrorEvent, TypeOK, server, local
<1>5. CASE BodyEnd(m)
  <2>1. Close /\ cur' = cur /\ Render(view) /\ BodyEnds(m)
    BY <1>5 DEF BodyEnd
  <2>2. view' \in {"landing", "conversation"} /\ stale' \subseteq Sessions
    BY <1>0, <2>1, RenderTyped
  <2>3. budget' \in [Spent -> Nat]
    BY <2>1, SpendTyped DEF BodyEnds, TypeOK, Spent
  <2> QED
    BY <1>5, <2>1, <2>2, <2>3, CloseTyped DEF BodyEnd, TypeOK, server
<1>6. CASE Finish(m)
  <2>1. cur' = cur /\ Render(view)
    BY <1>6 DEF Finish
  <2>2. view' \in {"landing", "conversation"} /\ stale' \subseteq Sessions
    BY <1>0, <2>1, RenderTyped
  <2> QED
    BY <1>6, <2>1, <2>2 DEF Finish, TypeOK, server, refs, local
<1> QED
  BY <1>1, <1>2, <1>3, <1>4, <1>5, <1>6 DEF Read

LEMMA FrameTyped ==
  ASSUME TypeOK, Frame \/ CommandAnswer \/ (\E s \in Sessions : FetchHistory(s))
  PROVE  TypeOK'
<1>0. view \in {"landing", "conversation"} /\ stale \subseteq Sessions /\ cur \in Sessions \cup {Nobody}
  BY DEF TypeOK
<1>1. CASE Pump
  <2>1. cur' = cur /\ Render(view)
    BY <1>1 DEF Pump
  <2>2. view' \in {"landing", "conversation"} /\ stale' \subseteq Sessions
    BY <1>0, <2>1, RenderTyped
  <2> QED
    BY <1>1, <2>1, <2>2 DEF Pump, TypeOK, server, local
<1>2. CASE FrameFlush
  <2>1. Flushed /\ cur' = cur /\ Render(view)
    BY <1>2 DEF FrameFlush
  <2>2. view' \in {"landing", "conversation"} /\ stale' \subseteq Sessions
    BY <1>0, <2>1, RenderTyped
  <2> QED
    BY <1>2, <2>1, <2>2, FlushedTyped DEF FrameFlush, TypeOK, server, local
<1>3. CASE CommandAnswer
  <2>1. cur' = cur /\ Render("conversation")
    BY <1>3 DEF CommandAnswer
  <2>2. view' \in {"landing", "conversation"} /\ stale' \subseteq Sessions
    BY <1>0, <2>1, RenderTyped
  <2> QED
    BY <1>3, <2>1, <2>2 DEF CommandAnswer, TypeOK, server, refs
<1>4. ASSUME NEW s \in Sessions, FetchHistory(s) PROVE TypeOK'
  BY <1>4 DEF FetchHistory, TypeOK, server, refs, local
<1> QED
  BY <1>1, <1>2, <1>3, <1>4 DEF Frame

LEMMA UserTyped ==
  ASSUME TypeOK, User \/ Cleared \/ Replay \/ (\E m \in Msgs : Send(m)) \/ (\E s \in Sessions : SelectSession(s))
  PROVE  TypeOK'
<1>0. /\ view \in {"landing", "conversation"} /\ cur \in Sessions \cup {Nobody} /\ budget \in [Spent -> Nat]
      /\ Nobody \in Sessions \cup {Nobody}
  BY DEF TypeOK
<1>1. CASE Stop
  <2>1. Abort(cur, view) /\ Spend("stops")
    BY <1>1 DEF Stop
  <2>2. budget' \in [Spent -> Nat]
    BY <1>0, <2>1, SpendTyped DEF Spent
  <2> QED
    BY <1>0, <1>1, <2>1, <2>2, AbortTyped DEF Stop, TypeOK, server
<1>2. ASSUME NEW s \in Sessions, SelectSession(s) PROVE TypeOK'
  <2>1. Abort(s, "conversation") /\ Spend("choices") /\ s \in Sessions \cup {Nobody}
    BY <1>2 DEF SelectSession
  <2>2. budget' \in [Spent -> Nat]
    BY <1>0, <2>1, SpendTyped DEF Spent
  <2> QED
    BY <1>0, <1>2, <2>1, <2>2, AbortTyped DEF SelectSession, TypeOK, server
<1>3. CASE BackToLanding
  <2>1. Abort(Nobody, "landing") /\ Spend("choices")
    BY <1>3 DEF BackToLanding
  <2>2. budget' \in [Spent -> Nat]
    BY <1>0, <2>1, SpendTyped DEF Spent
  <2> QED
    BY <1>0, <1>3, <2>1, <2>2, AbortTyped DEF BackToLanding, TypeOK, server
<1>4. CASE Cleared
  BY <1>0, <1>4, AbortTyped DEF Cleared, TypeOK, server
<1>5. CASE SlashCommand
  <2>1. budget' \in [Spent -> Nat]
    BY <1>0, <1>5, SpendTyped DEF SlashCommand, Spent
  <2>2. commands' \in Nat
    BY <1>5 DEF SlashCommand, TypeOK
  <2>3. clearing' \in BOOLEAN
    BY <1>5, Zenon DEF SlashCommand, TypeOK
  <2> QED
    BY <1>5, <2>1, <2>2, <2>3 DEF SlashCommand, TypeOK, server, refs, shown
<1>6. CASE LoadPage
  <2>1. budget' \in [Spent -> Nat]
    BY <1>0, <1>6, SpendTyped DEF LoadPage, Spent
  <2>2. send' \in [Msgs -> {"none", "posted", "refreshing", "reposted", "reading", "ended", "errored", "done", "over"}]
    BY <1>6 DEF LoadPage, TypeOK
  <2>3. /\ hist' \in [Sessions -> SUBSET Entries] /\ buffer' \in Seq(Msgs) /\ replay' \in Seq(Msgs)
        /\ commands' \in Nat
    BY <1>6 DEF LoadPage, TypeOK
  <2>4. clearing' \in BOOLEAN
    BY <1>6, Zenon DEF LoadPage
  <2> QED
    BY <1>6, <2>1, <2>2, <2>3, <2>4 DEF LoadPage, TypeOK, server
<1>7. ASSUME NEW m \in Msgs, Send(m) PROVE TypeOK'
  BY <1>0, <1>7, BeginTyped DEF Send, TypeOK, local
<1>8. CASE Replay
  <2>1. Head(replay) \in Msgs /\ replay' \in Seq(Msgs)
    BY <1>8 DEF Replay, TypeOK
  <2>2. Begin(Head(replay), Nobody)
    BY <1>8 DEF Replay
  <2> QED
    BY <1>0, <1>8, <2>1, <2>2, BeginTyped DEF Replay, TypeOK
<1> QED
  BY <1>1, <1>2, <1>3, <1>4, <1>5, <1>6, <1>7, <1>8 DEF User

LEMMA TypeOKNext == TypeOK /\ [Next]_vars => TypeOK'
<1> SUFFICES ASSUME TypeOK, [Next]_vars PROVE TypeOK'
  OBVIOUS
<1>1. CASE UNCHANGED vars
  BY <1>1 DEF vars, server, refs, shown, local, TypeOK
<1> QED
  BY <1>1, ServeTyped, FetchTyped, ReadTyped, FrameTyped, UserTyped DEF Next

LEMMA TypeOKInit == Init => TypeOK
<1> SUFFICES ASSUME Init PROVE TypeOK
  OBVIOUS
<1>1. budget \in [Spent -> Nat] /\ buffer \in Seq(Msgs) /\ replay \in Seq(Msgs) /\ commands \in Nat
  BY ChatAssumption DEF Init
<1> QED
  BY <1>1 DEF Init, TypeOK

\* Every reachable state is well typed.
THEOREM TypeCorrect == Spec => []TypeOK
  BY TypeOKInit, TypeOKNext, PTL DEF Spec

-----------------------------------------------------------------------------
(* One voice.  A send that was not aborted and still runs is the one whose *)
(* controller is on record, so only its text comes into the queue.         *)

Running == {"posted", "refreshing", "reposted", "reading", "ended", "errored"}

Alone ==
    /\ \A m \in Msgs \ aborted : send[m] \in Running => m = ctrl
    /\ ctrl # Nobody => full \subseteq {ctrl}
    /\ \A x, y \in full : x = y
    /\ queued \cup bubble \subseteq full

\* The steps that start a send or abort one.
LEMMA BeginAlone ==
  ASSUME TypeOK, Alone, NEW m \in Msgs, NEW s, Begin(m, s)
  PROVE  Alone'
  BY ChatAssumption DEF TypeOK, Alone, Begin, AbortCurrent, Running

LEMMA AbortAlone ==
  ASSUME TypeOK, Alone, NEW s, NEW base, Abort(s, base), send' = send, full' \in {full, {}}
  PROVE  Alone'
  BY DEF TypeOK, Alone, Abort, AbortCurrent, Running

LEMMA AloneNext ==
  ASSUME TypeOK, Alone, [Next]_vars
  PROVE  Alone'
<1>0. /\ ctrl \in Msgs \cup {Nobody}
      /\ send \in [Msgs -> {"none", "posted", "refreshing", "reposted", "reading", "ended", "errored", "done", "over"}]
  BY DEF TypeOK
<1>1. ASSUME NEW m \in Msgs, Serve(m) PROVE Alone'
  BY <1>1 DEF Serve, Refuse, Accept, Write, SaveReply, Alone, refs, shown
<1>2. ASSUME NEW m \in Msgs, AbortError(m) \/ Denied(m) \/ Refreshed(m) PROVE Alone'
  BY <1>0, <1>2 DEF AbortError, Denied, Refreshed, Going, Alone, Running, refs, shown
<1>3. ASSUME NEW m \in Msgs, AuthExpired(m) \/ NotOk(m) \/ NetworkFails(m) \/ ErrorEvent(m) PROVE Alone'
  <2>1. /\ \A x \in Msgs \ {m} : send'[x] = send[x]
        /\ send'[m] = "over" \/ (m \notin aborted /\ send[m] = "reading")
    BY <1>0, <1>3 DEF AuthExpired, NotOk, NetworkFails, ErrorEvent, Going, Running
  <2>2. bubble' = {} /\ queued' \in {queued, {}} /\ full' = full /\ ctrl' = ctrl /\ aborted' = aborted
    BY <1>3 DEF AuthExpired, NotOk, NetworkFails, ErrorEvent, GivenUp
  <2> QED
    BY <2>1, <2>2 DEF Alone, Running
<1>4. ASSUME NEW m \in Msgs, MessageStart(m) \/ Finish(m) PROVE Alone'
  BY <1>0, <1>4 DEF MessageStart, Finish, Going, Alone, Running, refs, shown
<1>5. ASSUME NEW m \in Msgs, ContentDelta(m) PROVE Alone'
  <2>1. m = ctrl /\ m # Nobody
    BY <1>5, ChatAssumption DEF ContentDelta, Going, Alone, Running
  <2> QED
    BY <1>5, <2>1 DEF ContentDelta, Alone
<1>6. ASSUME NEW m \in Msgs, MessageEnd(m) \/ BodyEnd(m) PROVE Alone'
  <2>1. bubble' \in {bubble, {}} /\ queued' = queued /\ full' = full /\ ctrl' = ctrl /\ aborted' = aborted
    BY <1>6 DEF MessageEnd, BodyEnd, Close, Flushed
  <2>2. m = ctrl
    BY <1>6 DEF MessageEnd, BodyEnd, Going, Alone, Running
  <2>3. \A x \in Msgs \ {m} : send'[x] = send[x]
    BY <1>0, <1>6 DEF MessageEnd, BodyEnd
  <2> QED
    BY <2>1, <2>2, <2>3 DEF Alone
<1>7. CASE Frame
  BY <1>7 DEF Frame, Pump, FrameFlush, Flushed, Alone
<1>8. ASSUME (\E s \in Sessions : FetchHistory(s)) \/ CommandAnswer \/ SlashCommand PROVE Alone'
  BY <1>8 DEF FetchHistory, CommandAnswer, SlashCommand, Alone, refs, shown
<1>9. CASE LoadPage
  BY <1>0, <1>9 DEF LoadPage, Alone, Running, TypeOK
<1>10. ASSUME NEW s \in Sessions, SelectSession(s) PROVE Alone'
  BY <1>10, AbortAlone DEF SelectSession
<1>11. CASE Stop \/ BackToLanding \/ Cleared
  BY <1>11, AbortAlone DEF Stop, BackToLanding, Cleared
<1>12. ASSUME NEW m \in Msgs, Send(m) PROVE Alone'
  BY <1>12, BeginAlone DEF Send
<1>13. CASE Replay
  <2>1. Head(replay) \in Msgs /\ Begin(Head(replay), Nobody)
    BY <1>13 DEF Replay, TypeOK
  <2> QED
    BY <2>1, BeginAlone
<1>14. CASE UNCHANGED vars
  BY <1>14 DEF vars, refs, shown, Alone
<1> QED
  BY <1>1, <1>2, <1>3, <1>4, <1>5, <1>6, <1>7, <1>8, <1>9, <1>10, <1>11, <1>12, <1>13, <1>14 DEF Next, Fetch, Read, User

\* The text on the page is of one reply.
THEOREM OneReplySpeaks == Spec => []OneVoice
<1>1. Init => TypeOK /\ Alone
  BY TypeOKInit DEF Init, Alone, Running
<1>2. TypeOK /\ Alone /\ [Next]_vars => (TypeOK /\ Alone)'
  BY TypeOKNext, AloneNext
<1>3. Alone => OneVoice
  <2> SUFFICES ASSUME Alone PROVE Cardinality(full) <= 1
    BY DEF Alone, OneVoice
  <2>1. CASE full = {}
    BY <2>1, FS_EmptySet
  <2>2. ASSUME NEW x \in full PROVE Cardinality(full) <= 1
    <3>1. full = {x}
      BY DEF Alone
    <3>2. Cardinality({x}) = 1
      BY FS_Singleton
    <3> QED
      BY <3>1, <3>2
  <2> QED
    BY <2>1, <2>2
<1> QED
  BY <1>1, <1>2, <1>3, PTL DEF Spec

-----------------------------------------------------------------------------
(* No double reply.  A reply becomes an optimistic message when the queue  *)
(* is empty and its stream has ended, and no text comes after that, unless *)
(* the message is sent anew.  A message in the buffer, or in the replay,   *)
(* is there once, and its send has given up before it had a reply.         *)

Ended       == {"ended", "done", "over"}
Within(m, q) == \E i \in 1 .. Len(q) : q[i] = m
Kept(m)     == Within(m, buffer) \/ Within(m, replay)
NoRepeat(q) == \A i, j \in 1 .. Len(q) : q[i] = q[j] => i = j

\* What is told to the caller is the end of the current send.
Told ==
    /\ completion \in {Nobody, ctrl}
    /\ closed /\ completion # Nobody => send[completion] \in Ended

Final == \A m \in Msgs : Reply(m) \in opt => send[m] \in Ended /\ m \notin bubble \cup queued

Queue ==
    /\ \A m \in Msgs : Kept(m) => send[m] = "over" /\ Reply(m) \notin opt /\ completion # m
    /\ NoRepeat(buffer) /\ NoRepeat(replay)
    /\ \A m \in Msgs : ~(Within(m, buffer) /\ Within(m, replay))

Settled == Told /\ Final /\ Queue

LEMMA RepliesDiffer ==
  /\ \A m, x : Reply(m) = Reply(x) <=> m = x
  /\ \A m, x : Reply(m) # Typed(x)
  /\ \A m : Reply(m) \notin Locals
<1>1. \A m : Reply(m).of = m /\ Reply(m).role = "assistant" /\ Typed(m).role = "user"
  BY DEF Reply, Typed
<1>2. \A l \in Locals : l.role = "local"
  BY DEF Locals
<1> QED
  BY <1>1, <1>2

\* A step that leaves the text alone, and moves a send only on, or to its end.
Quiet == /\ UNCHANGED <<completion, ctrl, closed, queued, bubble, opt, buffer, replay>>
         /\ \A x \in Msgs : \/ send'[x] = send[x]
                            \/ send[x] \in {"posted", "refreshing", "reposted", "reading"}
                            \/ send[x] # "none" /\ send'[x] = "over"

LEMMA QuietSettled ==
  ASSUME TypeOK, Settled, Quiet
  PROVE  Settled'
<1>1. \A x \in Msgs : /\ send[x] \in Ended => send'[x] \in Ended
                      /\ send[x] = "over" => send'[x] = "over"
  BY DEF Quiet, Ended
<1>2. Told'
  BY <1>1 DEF Quiet, Settled, Told, TypeOK
<1>3. Final'
  BY <1>1 DEF Quiet, Settled, Final
<1>4. Queue'
  BY <1>1 DEF Quiet, Settled, Queue, Kept, Within, NoRepeat
<1> QED
  BY <1>2, <1>3, <1>4 DEF Settled

\* A send that gives up; it may go to the buffer.
LEMMA GivenUpSettled ==
  ASSUME TypeOK, Settled, NEW m \in Msgs, AuthExpired(m) \/ NotOk(m) \/ NetworkFails(m) \/ ErrorEvent(m)
  PROVE  Settled'
<1>1. /\ completion' = Nobody /\ ctrl' = ctrl /\ bubble' = {} /\ opt' = opt /\ queued' \subseteq queued
      /\ replay' = replay
  BY DEF AuthExpired, NotOk, NetworkFails, ErrorEvent, GivenUp, Completed, local
<1>2. /\ send[m] \in {"posted", "refreshing", "reposted", "reading"} /\ send'[m] \in {"over", "errored"}
      /\ \A x \in Msgs \ {m} : send'[x] = send[x]
      /\ buffer' = buffer \/ (buffer' = Append(buffer, m) /\ send'[m] = "over")
  BY DEF AuthExpired, NotOk, NetworkFails, ErrorEvent, Going, TypeOK, local
<1>3. Told' /\ Final'
  BY <1>1, <1>2 DEF Settled, Told, Final, Ended
<1>4. ~Kept(m) /\ Reply(m) \notin opt
  BY <1>2 DEF Settled, Queue, Final, Ended
<1>5. \A x \in Msgs : completion' # x
  BY <1>1, ChatAssumption
<1>6. ASSUME buffer' = buffer PROVE Queue'
  BY <1>1, <1>2, <1>4, <1>5, <1>6 DEF Settled, Queue, Kept, Within, NoRepeat
<1>7. ASSUME buffer' = Append(buffer, m) /\ send'[m] = "over"
      PROVE  Queue'
  <2>1. buffer \in Seq(Msgs)
    BY DEF TypeOK
  <2>2. /\ Len(buffer') = Len(buffer) + 1 /\ buffer'[Len(buffer) + 1] = m /\ Len(buffer) \in Nat
        /\ \A i \in 1 .. Len(buffer) : buffer'[i] = buffer[i]
    BY <1>7, <2>1
  <2>3. \A i \in 1 .. Len(buffer') : i \in 1 .. Len(buffer) \/ i = Len(buffer) + 1
    BY <2>2
  <2>4. \A x \in Msgs : Within(x, buffer') <=> Within(x, buffer) \/ x = m
    BY <2>2, <2>3 DEF Within
  <2>5. ~Within(m, buffer) /\ ~Within(m, replay)
    BY <1>4 DEF Kept
  <2>6. NoRepeat(buffer')
    BY <2>2, <2>3, <2>5 DEF Settled, Queue, NoRepeat, Within
  <2>7. \A x \in Msgs : Kept(x)' <=> Kept(x) \/ x = m
    BY <1>1, <2>4 DEF Kept
  <2>8. \A x \in Msgs : Kept(x)' => send'[x] = "over" /\ Reply(x) \notin opt' /\ completion' # x
    BY <1>1, <1>2, <1>4, <1>5, <1>7, <2>7 DEF Settled, Queue
  <2>9. NoRepeat(replay') /\ \A x \in Msgs : ~(Within(x, buffer') /\ Within(x, replay'))
    BY <1>1, <2>4, <2>5 DEF Settled, Queue
  <2> QED
    BY <2>6, <2>8, <2>9 DEF Queue
<1> QED
  BY <1>2, <1>3, <1>6, <1>7 DEF Settled

\* The end of a stream, and the frame that finds it.
LEMMA FlushedSettled ==
  ASSUME TypeOK, Settled, Flushed, queued = {}, queued' = queued, ctrl' = ctrl, buffer' = buffer, replay' = replay,
         completion # Nobody => send'[completion] \in Ended,
         \A x \in Msgs : \/ send'[x] = send[x]
                         \/ send[x] \notin {"none", "over"} /\ send'[x] \in Ended
  PROVE  Settled'
<1>1. completion' = Nobody /\ closed' = FALSE /\ bubble' = {} /\ (opt' = opt \/ (completion # Nobody /\ opt' = opt \cup {Reply(completion)}))
  BY DEF Flushed, Completed
<1>2. \A x \in Msgs : Reply(x) \in opt' => Reply(x) \in opt \/ (x = completion /\ completion # Nobody)
  BY <1>1, RepliesDiffer
<1>3. Told'
  BY <1>1 DEF Told
<1>4. Final'
  BY <1>1, <1>2 DEF Settled, Final
<1>5. Queue'
  <2>1. \A x \in Msgs : Kept(x)' <=> Kept(x)
    BY DEF Kept
  <2>2. \A x \in Msgs : completion' # x
    BY <1>1, ChatAssumption
  <2> QED
    BY <1>2, <2>1, <2>2 DEF Settled, Queue, Within, NoRepeat
<1> QED
  BY <1>3, <1>4, <1>5 DEF Settled

LEMMA CloseSettled ==
  ASSUME TypeOK, Alone, Settled, NEW m \in Msgs, MessageEnd(m) \/ BodyEnd(m)
  PROVE  Settled'
<1>1. /\ send[m] \in {"reading", "ended", "errored"} /\ send'[m] \in Ended /\ m = ctrl
      /\ \A x \in Msgs \ {m} : send'[x] = send[x]
  BY DEF MessageEnd, BodyEnd, Going, TypeOK, Ended, Alone, Running
<1>2. queued' = queued /\ ctrl' = ctrl /\ buffer' = buffer /\ replay' = replay /\ Close
  BY DEF MessageEnd, BodyEnd, local
<1>3. completion # Nobody => send'[completion] \in Ended
  BY <1>1 DEF Settled, Told
<1>4. CASE queued = {}
  BY <1>1, <1>2, <1>3, <1>4, FlushedSettled DEF Close
<1>5. CASE queued # {}
  <2>1. closed' = TRUE /\ UNCHANGED <<completion, bubble, opt>>
    BY <1>2, <1>5 DEF Close
  <2>2. Told'
    BY <1>2, <1>3, <2>1 DEF Settled, Told
  <2>3. Final'
    BY <1>1, <1>2, <2>1 DEF Settled, Final
  <2>4. Queue'
    BY <1>1, <1>2, <2>1 DEF Settled, Queue, Kept, Within, NoRepeat
  <2> QED
    BY <2>2, <2>3, <2>4 DEF Settled
<1> QED
  BY <1>4, <1>5

LEMMA FrameSettled ==
  ASSUME TypeOK, Settled, Frame
  PROVE  Settled'
<1>1. CASE FrameFlush
  <2>1. completion # Nobody => send'[completion] \in Ended
    BY <1>1 DEF FrameFlush, Settled, Told
  <2> QED
    BY <1>1, <2>1, FlushedSettled DEF FrameFlush, local
<1>2. CASE Pump
  <2>1. /\ UNCHANGED <<completion, ctrl, closed, opt, buffer, replay, send>>
        /\ queued' \cup bubble' \subseteq queued \cup bubble
    BY <1>2 DEF Pump, local
  <2> QED
    BY <2>1 DEF Settled, Told, Final, Queue, Kept, Within, NoRepeat
<1> QED
  BY <1>1, <1>2 DEF Frame

\* Text that comes, and optimistic messages that go, or are answers of commands.
LEMMA TextSettled ==
  ASSUME TypeOK, Settled, (\E m \in Msgs : ContentDelta(m) \/ Finish(m)) \/ CommandAnswer
  PROVE  Settled'
<1>1. ASSUME NEW m \in Msgs, ContentDelta(m) PROVE Settled'
  <2>1. Reply(m) \notin opt
    BY <1>1 DEF ContentDelta, Going, Settled, Final, Ended
  <2>2. /\ UNCHANGED <<completion, ctrl, closed, opt, buffer, replay, send, bubble>>
        /\ queued' = queued \cup {m}
    BY <1>1 DEF ContentDelta, local
  <2> QED
    BY <2>1, <2>2 DEF Settled, Told, Final, Queue, Kept, Within, NoRepeat
<1>2. ASSUME NEW m \in Msgs, Finish(m) PROVE Settled'
  BY <1>2 DEF Finish, refs, local, Settled, Told, Final, Queue, Kept, Within, NoRepeat
<1>3. CASE CommandAnswer
  <2>1. /\ UNCHANGED <<completion, ctrl, closed, buffer, replay, send, bubble, queued>>
        /\ opt' = opt \cup Locals
    BY <1>3 DEF CommandAnswer, refs
  <2>2. \A m \in Msgs : Reply(m) \in opt' <=> Reply(m) \in opt
    BY <2>1, RepliesDiffer
  <2> QED
    BY <2>1, <2>2 DEF Settled, Told, Final, Queue, Kept, Within, NoRepeat
<1> QED
  BY <1>1, <1>2, <1>3

LEMMA AbortSettled ==
  ASSUME TypeOK, Settled, NEW s, NEW base, Abort(s, base), send' = send, buffer' = buffer, replay' = replay
  PROVE  Settled'
<1>1. ctrl' = Nobody /\ completion' = Nobody /\ closed' = FALSE /\ queued' = {} /\ bubble' = {} /\ opt' = {}
  BY DEF Abort
<1> QED
  BY <1>1, ChatAssumption DEF Settled, Told, Final, Queue, Kept, Within, NoRepeat

\* A message that is sent, or sent anew, is not in the buffer and has no reply.
LEMMA BeginSettled ==
  ASSUME TypeOK, Settled, NEW m \in Msgs, NEW s, Begin(m, s), Reply(m) \notin opt, buffer' = buffer,
         \A x \in Msgs : Kept(x)' => Kept(x) /\ x # m,
         NoRepeat(replay'), \A x \in Msgs : Within(x, replay') => Within(x, replay)
  PROVE  Settled'
<1>1. /\ ctrl' = m /\ completion' = m /\ closed' = FALSE /\ queued' = {} /\ bubble' = {}
      /\ opt' = opt \cup {Typed(m)} /\ \A x \in Msgs \ {m} : send'[x] = send[x]
  BY DEF Begin, TypeOK
<1>2. \A x \in Msgs : Reply(x) \in opt' <=> Reply(x) \in opt
  BY <1>1, RepliesDiffer
<1>3. Told'
  BY <1>1 DEF Told
<1>4. Final'
  BY <1>1, <1>2 DEF Settled, Final
<1>5. Queue'
  BY <1>1, <1>2 DEF Settled, Queue
<1> QED
  BY <1>3, <1>4, <1>5 DEF Settled

LEMMA SendSettled ==
  ASSUME TypeOK, Settled, (\E m \in Msgs : Send(m)) \/ Replay
  PROVE  Settled'
<1>1. ASSUME NEW m \in Msgs, Send(m) PROVE Settled'
  <2>1. Begin(m, cur) /\ send[m] = "none" /\ buffer' = buffer /\ replay' = replay
    BY <1>1 DEF Send, local
  <2>2. ~Kept(m) /\ Reply(m) \notin opt
    BY <2>1 DEF Settled, Queue, Final, Ended
  <2>3. \A x \in Msgs : Kept(x)' <=> Kept(x)
    BY <2>1 DEF Kept
  <2>4. NoRepeat(replay')
    BY <2>1 DEF Settled, Queue
  <2> QED
    BY <2>1, <2>2, <2>3, <2>4, BeginSettled
<1>2. CASE Replay
  <2> DEFINE m == Head(replay)
  <2>1. replay \in Seq(Msgs) /\ replay # <<>> /\ replay' = Tail(replay) /\ buffer' = buffer /\ Begin(m, Nobody)
    BY <1>2 DEF Replay, TypeOK
  <2>2. /\ m \in Msgs /\ m = replay[1] /\ Len(replay) \in Nat \ {0} /\ Len(replay') = Len(replay) - 1
        /\ \A i \in 1 .. Len(replay') : replay'[i] = replay[i + 1] /\ i + 1 \in 2 .. Len(replay)
    BY <2>1
  <2> HIDE DEF m
  <2>3. Within(m, replay)
    <3>1. 1 \in 1 .. Len(replay)
      BY <2>2
    <3> QED
      BY <2>2, <3>1 DEF Within
  <2>4. \A x \in Msgs : Within(x, replay') => Within(x, replay) /\ x # m
    <3> SUFFICES ASSUME NEW x \in Msgs, NEW i \in 1 .. Len(replay'), replay'[i] = x
        PROVE  Within(x, replay) /\ x # m
      BY DEF Within
    <3>1. replay[i + 1] = x /\ i + 1 \in 1 .. Len(replay) /\ i + 1 # 1 /\ 1 \in 1 .. Len(replay)
      BY <2>2
    <3> QED
      BY <2>2, <3>1 DEF Within, Settled, Queue, NoRepeat
  <2>5. NoRepeat(replay')
    <3> SUFFICES ASSUME NEW i \in 1 .. Len(replay'), NEW j \in 1 .. Len(replay'), replay'[i] = replay'[j]
        PROVE  i = j
      BY DEF NoRepeat
    <3>1. replay[i + 1] = replay[j + 1] /\ i + 1 \in 1 .. Len(replay) /\ j + 1 \in 1 .. Len(replay)
      BY <2>2
    <3>2. i + 1 = j + 1
      BY <3>1 DEF Settled, Queue, NoRepeat
    <3> QED
      BY <2>2, <3>2
  <2>6. ~Within(m, buffer) /\ Reply(m) \notin opt
    BY <2>2, <2>3 DEF Settled, Queue, Kept
  <2>7. \A x \in Msgs : Kept(x)' => Kept(x) /\ x # m
    BY <2>1, <2>4, <2>6 DEF Kept
  <2> QED
    BY <2>1, <2>2, <2>4, <2>5, <2>6, <2>7, BeginSettled
<1> QED
  BY <1>1, <1>2

LEMMA LoadSettled ==
  ASSUME TypeOK, Settled, LoadPage
  PROVE  Settled'
<1>1. /\ ctrl' = Nobody /\ completion' = Nobody /\ queued' = {} /\ bubble' = {} /\ opt' = {}
      /\ buffer' = <<>> /\ replay' = buffer
      /\ \A x \in Msgs : send[x] = "over" => send'[x] = "over"
  BY DEF LoadPage
<1>2. \A x : ~Within(x, <<>>)
  BY DEF Within
<1>3. NoRepeat(<<>>)
  BY DEF NoRepeat
<1>4. \A x \in Msgs : Kept(x)' => Kept(x) /\ completion' # x
  BY <1>1, <1>2, ChatAssumption DEF Kept
<1> QED
  BY <1>1, <1>2, <1>3, <1>4 DEF Settled, Told, Final, Queue

LEMMA SettledNext ==
  ASSUME TypeOK, Alone, Settled, [Next]_vars
  PROVE  Settled'
<1>0. send \in [Msgs -> {"none", "posted", "refreshing", "reposted", "reading", "ended", "errored", "done", "over"}]
  BY DEF TypeOK
<1>1. ASSUME NEW m \in Msgs, Serve(m) PROVE Quiet
  BY <1>1 DEF Serve, Refuse, Accept, Write, SaveReply, Quiet, refs, shown, local
<1>2. ASSUME NEW m \in Msgs, AbortError(m) \/ Denied(m) \/ Refreshed(m) \/ MessageStart(m) PROVE Quiet
  BY <1>0, <1>2 DEF AbortError, Denied, Refreshed, MessageStart, Going, Quiet, refs, shown, local
<1>3. ASSUME (\E s \in Sessions : FetchHistory(s)) \/ SlashCommand PROVE Quiet
  BY <1>3 DEF FetchHistory, SlashCommand, Quiet, refs, shown, local
<1>4. ASSUME NEW s \in Sessions, SelectSession(s) PROVE Settled'
  BY <1>4, AbortSettled DEF SelectSession
<1>5. CASE Stop \/ BackToLanding \/ Cleared
  BY <1>5, AbortSettled DEF Stop, BackToLanding, Cleared
<1>6. UNCHANGED vars => Quiet
  BY DEF vars, refs, shown, local, Quiet
<1> QED
  BY <1>1, <1>2, <1>3, <1>4, <1>5, <1>6, QuietSettled, GivenUpSettled, CloseSettled, FrameSettled, TextSettled,
     SendSettled, LoadSettled DEF Next, Fetch, Read, User

\* The reply that was streamed is not on the page twice: as an optimistic
\* message, and in the bubble.
THEOREM RepliesOnce == Spec => []NoDoubleReply
<1>1. Init => TypeOK /\ Alone /\ Settled
  <2> SUFFICES ASSUME Init PROVE Alone /\ Settled
    BY TypeOKInit
  <2>1. Alone
    BY DEF Init, Alone, Running
  <2>2. \A x : ~Within(x, <<>>)
    BY DEF Within
  <2> QED
    BY <2>1, <2>2 DEF Init, Settled, Told, Final, Queue, Kept, NoRepeat
<1>2. TypeOK /\ Alone /\ Settled /\ [Next]_vars => (TypeOK /\ Alone /\ Settled)'
  BY TypeOKNext, AloneNext, SettledNext
<1>3. Settled => NoDoubleReply
  BY DEF Settled, Final, NoDoubleReply
<1> QED
  BY <1>1, <1>2, <1>3, PTL DEF Spec

-----------------------------------------------------------------------------
(* Replies are shown.  A reply that ended regularly is in the history of   *)
(* its session on the server.  While the page streams, the refetch is      *)
(* still to come; a page that does not stream has asked for it, or shows   *)
(* it, because the stream's end, or the choice of the session, did ask.    *)

EndedWell == {"ended", "done"}

\* What the server has recorded of a message.
Recorded(m) ==
    /\ at[m] \in {"started", "written", "saved", "broken"} => chatOf[m] # Nobody /\ Typed(m) \in saved
    /\ at[m] = "saved" => Reply(m) \in saved
    /\ send[m] \in EndedWell => at[m] = "saved"

Reset  == phase # "streaming" => bubble = {}
Opened == cur # Nobody => view = "conversation"

\* The send that reads shows that it does, unless the state was reset under it.
Reads == ~cut => \A m \in Msgs \ aborted : send[m] = "reading" => phase = "streaming"

\* No text comes after the end of the stream has been seen.
ClosedLast == closed => \A m \in Msgs \ aborted : send[m] \notin {"posted", "refreshing", "reposted", "reading"}

Loaded(m) == cur \in stale \/ {Typed(m), Reply(m)} \subseteq hist[cur]
Caught == ~cut /\ cur # Nobody /\ phase # "streaming"
          => \A m \in Msgs : send[m] \in EndedWell /\ chatOf[m] = cur => Loaded(m)

ShownInv == (\A m \in Msgs : Recorded(m)) /\ Reset /\ Opened /\ Reads /\ ClosedLast /\ Caught

\* A session that is opened, or whose stream ends, has its messages fetched.
LEMMA RenderFetches ==
  ASSUME TypeOK, NEW base, Render(base), Opened, base \in {view, "conversation"} \/ cur' # cur \/ cur = Nobody
  PROVE  /\ Opened' /\ stale \subseteq stale'
         /\ cur' # Nobody /\ phase' # "streaming" /\ bubble' = {} /\ (cur' # cur \/ phase = "streaming") => cur' \in stale'
  BY DEF Render, Refetches, Opened

\* Every step that renders: a stream that ends is caught, and what was caught stays so.
LEMMA CaughtStep ==
  ASSUME TypeOK, Caught, Opened', Reset', stale \subseteq stale', hist' = hist, chatOf' = chatOf, cut => cut',
         cur' # Nobody /\ phase' # "streaming" /\ bubble' = {} /\ (cur' # cur \/ phase = "streaming") => cur' \in stale',
         \A m \in Msgs : send'[m] \in EndedWell => send[m] \in EndedWell \/ phase = "streaming" \/ cut'
  PROVE  Caught'
<1> SUFFICES ASSUME ~cut', cur' # Nobody, phase' # "streaming", NEW m \in Msgs, send'[m] \in EndedWell, chatOf'[m] = cur'
    PROVE  Loaded(m)'
  BY DEF Caught
<1>1. CASE cur' # cur \/ phase = "streaming"
  BY <1>1 DEF Reset, Loaded
<1>2. CASE cur' = cur /\ phase # "streaming"
  <2>1. send[m] \in EndedWell /\ chatOf[m] = cur
    BY <1>2
  <2>2. Loaded(m)
    BY <1>2, <2>1 DEF Caught
  <2> QED
    BY <1>2, <2>2 DEF Loaded
<1> QED
  BY <1>1, <1>2

LEMMA ServeShown ==
  ASSUME TypeOK, ShownInv, NEW m \in Msgs, Serve(m)
  PROVE  ShownInv'
<1>1. UNCHANGED <<send, aborted, closed, bubble, phase, cur, view, stale, hist, cut>>
  BY DEF Serve, Refuse, Accept, Write, SaveReply, refs, shown, local
<1>2. /\ \A x \in Msgs \ {m} : at'[x] = at[x] /\ chatOf'[x] = chatOf[x]
      /\ saved \subseteq saved' /\ at[m] # "saved" /\ send[m] \notin EndedWell
  BY DEF Serve, Refuse, Accept, Write, SaveReply, TypeOK, ShownInv, Recorded
<1>3. ASSUME NEW x \in Msgs \ {m} PROVE Recorded(x)'
  BY <1>1, <1>2, <1>3 DEF ShownInv, Recorded
<1>4. Recorded(m)'
  <2>0. Recorded(m) /\ send'[m] \notin EndedWell
    BY <1>1, <1>2 DEF ShownInv
  <2>1. CASE Refuse(m)
    BY <2>0, <2>1 DEF Refuse, Recorded, TypeOK
  <2>2. CASE Accept(m)
    <3>1. asks[m] \in Sessions \cup {Nobody} /\ m # Nobody
      BY ChatAssumption DEF TypeOK
    <3> QED
      BY <2>0, <2>2, <3>1 DEF Accept, Recorded, TypeOK
  <2>3. CASE Write(m)
    BY <2>0, <2>3 DEF Write, Recorded, TypeOK
  <2>4. CASE SaveReply(m)
    BY <2>0, <2>4 DEF SaveReply, Recorded, TypeOK, Reply
  <2> QED
    BY <2>1, <2>2, <2>3, <2>4 DEF Serve
<1>5. Caught'
  BY <1>1, <1>2 DEF ShownInv, Caught, Loaded
<1> QED
  BY <1>1, <1>3, <1>4, <1>5 DEF ShownInv, Reset, Opened, Reads, ClosedLast

\* The steps of a request that show nothing yet.
LEMMA RequestShown ==
  ASSUME TypeOK, ShownInv, NEW m \in Msgs, AbortError(m) \/ Denied(m) \/ Refreshed(m)
  PROVE  ShownInv'
<1>1. UNCHANGED <<chatOf, saved, aborted, closed, bubble, phase, cur, view, stale, hist, cut>>
  BY DEF AbortError, Denied, Refreshed, server, refs, shown, local
<1>2. /\ \A x \in Msgs \ {m} : at'[x] = at[x] /\ send'[x] = send[x]
      /\ \/ send'[m] = "over" /\ at' = at
         \/ send'[m] = "refreshing" /\ at' = at /\ m \notin aborted /\ send[m] = "posted"
         \/ send'[m] = "reposted" /\ at'[m] = "asked" /\ m \notin aborted /\ send[m] = "refreshing"
  BY DEF AbortError, Denied, Refreshed, Going, TypeOK, server
<1>3. \A x \in Msgs : Recorded(x)'
  BY <1>1, <1>2 DEF ShownInv, Recorded, EndedWell
<1>4. Reads' /\ ClosedLast'
  BY <1>1, <1>2 DEF ShownInv, Reads, ClosedLast
<1>5. Caught'
  BY <1>1, <1>2 DEF ShownInv, Caught, Loaded, EndedWell
<1> QED
  BY <1>1, <1>3, <1>4, <1>5 DEF ShownInv, Reset, Opened

\* A send that gives up is the one that reads, or leaves its mark.
LEMMA GivenUpShown ==
  ASSUME TypeOK, Alone, ShownInv, NEW m \in Msgs, AuthExpired(m) \/ NotOk(m) \/ NetworkFails(m) \/ ErrorEvent(m)
  PROVE  ShownInv'
<1>1. /\ UNCHANGED <<at, chatOf, saved, aborted, ctrl, hist, cur>> /\ Render(view)
      /\ phase' = "idle" /\ bubble' = {} /\ closed' \in {closed, FALSE}
  BY DEF AuthExpired, NotOk, NetworkFails, ErrorEvent, GivenUp, server
<1>2. /\ \A x \in Msgs \ {m} : send'[x] = send[x]
      /\ send'[m] \in {"over", "errored"}
      /\ (cut => cut') /\ (m = ctrl \/ cut')
  <2>1. CASE AuthExpired(m)
    <3>1. (cut => cut') /\ (m = ctrl \/ cut')
      BY <2>1, Zenon DEF AuthExpired
    <3> QED
      BY <2>1, <3>1 DEF AuthExpired, TypeOK
  <2>2. CASE NetworkFails(m)
    <3>1. cut => cut'
      BY <2>2, Zenon DEF NetworkFails
    <3> QED
      BY <2>2, <3>1 DEF NetworkFails, Going, TypeOK, Alone, Running
  <2>3. CASE NotOk(m) \/ ErrorEvent(m)
    BY <2>3 DEF NotOk, ErrorEvent, Going, TypeOK, local, Alone, Running
  <2> QED
    BY <2>1, <2>2, <2>3
<1>3. \A x \in Msgs : Recorded(x)'
  BY <1>1, <1>2 DEF ShownInv, Recorded, EndedWell
<1>4. Reads'
  BY <1>1, <1>2 DEF Reads, Alone, Running
<1>5. ClosedLast'
  BY <1>1, <1>2 DEF ShownInv, ClosedLast
<1>6. /\ Opened' /\ stale \subseteq stale'
      /\ cur' # Nobody /\ phase' # "streaming" /\ bubble' = {} /\ (cur' # cur \/ phase = "streaming") => cur' \in stale'
  BY <1>1, RenderFetches DEF ShownInv
<1>7. Reset' /\ \A x \in Msgs : send'[x] \in EndedWell => send[x] \in EndedWell
  BY <1>1, <1>2 DEF Reset, EndedWell
<1>8. Caught'
  BY <1>1, <1>2, <1>6, <1>7, CaughtStep DEF ShownInv
<1> QED
  BY <1>3, <1>4, <1>5, <1>6, <1>7, <1>8 DEF ShownInv

\* A stream begins, or brings text.
LEMMA StreamShown ==
  ASSUME TypeOK, Alone, ShownInv, (\E m \in Msgs : MessageStart(m) \/ ContentDelta(m)) \/ Pump
  PROVE  ShownInv'
<1>1. UNCHANGED <<at, chatOf, saved, aborted, closed, hist, cut>> /\ Render(view) /\ phase' = "streaming"
  BY DEF MessageStart, ContentDelta, Pump, server, refs, local
<1>2. \A x \in Msgs : send'[x] = send[x] \/ (x \notin aborted /\ send[x] \in {"posted", "reposted"} /\ send'[x] = "reading")
  BY DEF MessageStart, ContentDelta, Pump, Going, TypeOK
<1>3. \A x \in Msgs : Recorded(x)'
  BY <1>1, <1>2 DEF ShownInv, Recorded, EndedWell
<1>4. ClosedLast'
  BY <1>1, <1>2 DEF ShownInv, ClosedLast
<1>5. Opened'
  BY <1>1, RenderFetches DEF ShownInv
<1> QED
  BY <1>1, <1>3, <1>4, <1>5 DEF ShownInv, Reset, Reads, Caught

\* The end of a stream is seen by the send that read it.
LEMMA CloseShown ==
  ASSUME TypeOK, Alone, ShownInv, NEW m \in Msgs, MessageEnd(m) \/ BodyEnd(m)
  PROVE  ShownInv'
<1>1. UNCHANGED <<at, chatOf, saved, aborted, ctrl, queued, hist, cur, cut>> /\ Render(view) /\ Close
  BY DEF MessageEnd, BodyEnd, server, local
<1>2. /\ m = ctrl /\ m \notin aborted /\ \A x \in Msgs \ {m} : send'[x] = send[x]
      /\ send'[m] \in {"ended", "done", "over"}
  BY DEF MessageEnd, BodyEnd, Going, TypeOK, Alone, Running
<1>3. send'[m] \in EndedWell => at[m] = "saved" /\ (send[m] = "ended" \/ send[m] = "reading")
  BY DEF MessageEnd, BodyEnd, Going, TypeOK, EndedWell, ShownInv, Recorded
<1>4. \A x \in Msgs : Recorded(x)'
  BY <1>1, <1>2, <1>3 DEF ShownInv, Recorded
<1>5. Reads' /\ ClosedLast'
  <2>1. \A x \in Msgs \ aborted : send'[x] \notin {"posted", "refreshing", "reposted", "reading"}
    BY <1>2 DEF Alone, Running
  <2> QED
    BY <1>1, <2>1 DEF Reads, ClosedLast
<1>6. Reset' /\ (phase' # phase => phase' = "idle")
  BY <1>1 DEF Close, Flushed, Reset, ShownInv
<1>7. \A x \in Msgs : send'[x] \in EndedWell => send[x] \in EndedWell \/ phase = "streaming" \/ cut'
  <2>1. send[m] = "reading" => cut \/ phase = "streaming"
    BY <1>2 DEF ShownInv, Reads
  <2> QED
    BY <1>1, <1>2, <1>3, <2>1 DEF EndedWell
<1>8. /\ Opened' /\ stale \subseteq stale'
      /\ cur' # Nobody /\ phase' # "streaming" /\ bubble' = {} /\ (cur' # cur \/ phase = "streaming") => cur' \in stale'
  BY <1>1, RenderFetches DEF ShownInv
<1>9. Caught'
  BY <1>1, <1>6, <1>7, <1>8, CaughtStep DEF ShownInv
<1> QED
  BY <1>4, <1>5, <1>6, <1>8, <1>9 DEF ShownInv

\* The frame that finds the queue empty, the completion and the answer of a command.
LEMMA RenderShown ==
  ASSUME TypeOK, ShownInv, FrameFlush \/ (\E m \in Msgs : Finish(m)) \/ CommandAnswer
  PROVE  ShownInv'
<1>1. /\ UNCHANGED <<at, chatOf, saved, send, aborted, hist, cur, cut>>
      /\ closed' \in {closed, FALSE} /\ (Render(view) \/ Render("conversation"))
      /\ \/ phase' = "idle" /\ bubble' = {} /\ closed
         \/ UNCHANGED <<phase, bubble, closed>>
  BY DEF FrameFlush, Flushed, Finish, CommandAnswer, server, refs, local
<1>2. \A x \in Msgs : Recorded(x)'
  BY <1>1 DEF ShownInv, Recorded
<1>3. Reads' /\ ClosedLast' /\ Reset'
  BY <1>1 DEF ShownInv, Reads, ClosedLast, Reset
<1>4. /\ Opened' /\ stale \subseteq stale'
      /\ cur' # Nobody /\ phase' # "streaming" /\ bubble' = {} /\ (cur' # cur \/ phase = "streaming") => cur' \in stale'
  BY <1>1, RenderFetches DEF ShownInv
<1>5. Caught'
  BY <1>1, <1>3, <1>4, CaughtStep DEF ShownInv
<1> QED
  BY <1>2, <1>3, <1>4, <1>5 DEF ShownInv

LEMMA AbortShown ==
  ASSUME TypeOK, Alone, ShownInv, NEW s, NEW base, Abort(s, base), base \in {view, "conversation"} \/ s # cur \/ cur = Nobody,
         UNCHANGED <<at, chatOf, saved, send, hist, cut>>
  PROVE  ShownInv'
<1>1. /\ closed' = FALSE /\ phase' = "idle" /\ bubble' = {} /\ cur' = s /\ Render(base)
      /\ \A x \in Msgs \ aborted' : x \notin aborted /\ x # ctrl
  BY ChatAssumption DEF Abort, AbortCurrent
<1>2. \A x \in Msgs : Recorded(x)'
  BY DEF ShownInv, Recorded
<1>3. Reads' /\ ClosedLast' /\ Reset'
  BY <1>1 DEF Reads, ClosedLast, Reset, Alone, Running
<1>4. /\ Opened' /\ stale \subseteq stale'
      /\ cur' # Nobody /\ phase' # "streaming" /\ bubble' = {} /\ (cur' # cur \/ phase = "streaming") => cur' \in stale'
  BY <1>1, RenderFetches DEF ShownInv
<1>5. Caught'
  BY <1>1, <1>3, <1>4, CaughtStep DEF ShownInv
<1> QED
  BY <1>2, <1>3, <1>4, <1>5 DEF ShownInv

LEMMA BeginShown ==
  ASSUME TypeOK, Alone, ShownInv, NEW m \in Msgs, NEW s, Begin(m, s), send[m] \notin EndedWell,
         UNCHANGED <<chatOf, saved, hist, cut>>
  PROVE  ShownInv'
<1>1. /\ closed' = FALSE /\ phase' = "sending" /\ bubble' = {} /\ cur' = cur /\ Render("conversation")
      /\ \A x \in Msgs \ aborted' : x = m \/ (x \notin aborted /\ x # ctrl)
      /\ send'[m] = "posted" /\ at'[m] = "asked"
      /\ \A x \in Msgs \ {m} : send'[x] = send[x] /\ at'[x] = at[x]
  BY ChatAssumption DEF Begin, AbortCurrent, TypeOK
<1>2. \A x \in Msgs : Recorded(x)'
  BY <1>1 DEF ShownInv, Recorded, EndedWell
<1>3. Reads' /\ ClosedLast' /\ Reset'
  BY <1>1 DEF Reads, ClosedLast, Reset, Alone, Running
<1>4. /\ Opened' /\ stale \subseteq stale'
      /\ cur' # Nobody /\ phase' # "streaming" /\ bubble' = {} /\ (cur' # cur \/ phase = "streaming") => cur' \in stale'
  BY <1>1, RenderFetches DEF ShownInv
<1>5. \A x \in Msgs : send'[x] \in EndedWell => send[x] \in EndedWell
  BY <1>1 DEF EndedWell
<1>6. Caught'
  BY <1>1, <1>3, <1>4, <1>5, CaughtStep DEF ShownInv
<1> QED
  BY <1>2, <1>3, <1>4, <1>6 DEF ShownInv

LEMMA FetchShown ==
  ASSUME TypeOK, ShownInv, NEW s \in Sessions, FetchHistory(s)
  PROVE  ShownInv'
<1>1. /\ UNCHANGED <<at, chatOf, saved, send, aborted, closed, bubble, phase, cur, view, cut>>
      /\ stale' = stale \ {s}
      /\ hist' = [hist EXCEPT ![s] = {x \in saved : chatOf[x.of] = s}]
  BY DEF FetchHistory, server, refs, local
<1>2. Caught'
  <2> SUFFICES ASSUME ~cut', cur' # Nobody, phase' # "streaming",
                      NEW m \in Msgs, send'[m] \in EndedWell, chatOf'[m] = cur'
      PROVE  Loaded(m)'
    BY DEF Caught
  <2>1. Loaded(m) /\ Recorded(m) /\ send[m] \in EndedWell /\ chatOf[m] = cur
    BY <1>1 DEF ShownInv, Caught
  <2>2. hist \in [Sessions -> SUBSET Entries] /\ Typed(m).of = m /\ Reply(m).of = m
    BY DEF TypeOK, Typed, Reply
  <2>3. CASE cur = s
    <3>1. {Typed(m), Reply(m)} \subseteq {x \in saved : chatOf[x.of] = s}
      BY <2>1, <2>2, <2>3 DEF Recorded
    <3>2. hist'[s] = {x \in saved : chatOf[x.of] = s}
      BY <1>1, <2>2
    <3> QED
      BY <1>1, <2>3, <3>1, <3>2 DEF Loaded
  <2>4. CASE cur # s
    <3>1. hist'[cur] = hist[cur]
      BY <1>1, <2>2, <2>4
    <3> QED
      BY <1>1, <2>1, <2>4, <3>1 DEF Loaded
  <2> QED
    BY <2>3, <2>4
<1> QED
  BY <1>1, <1>2 DEF ShownInv, Recorded, Reset, Opened, Reads, ClosedLast

LEMMA ShownNext ==
  ASSUME TypeOK, Alone, Settled, ShownInv, [Next]_vars
  PROVE  ShownInv'
<1>1. ASSUME NEW m \in Msgs, Send(m) PROVE ShownInv'
  BY <1>1, BeginShown DEF Send, EndedWell, local
<1>2. CASE Replay
  <2>1. replay # <<>> /\ replay \in Seq(Msgs) /\ Begin(Head(replay), Nobody) /\ UNCHANGED <<chatOf, saved, hist, cut>>
    BY <1>2 DEF Replay, TypeOK
  <2>2. Head(replay) \in Msgs /\ Head(replay) = replay[1] /\ 1 \in 1 .. Len(replay)
    BY <2>1
  <2>3. send[Head(replay)] = "over"
    BY <2>2 DEF Settled, Queue, Kept, Within
  <2> QED
    BY <2>1, <2>2, <2>3, BeginShown DEF EndedWell
<1>3. ASSUME NEW s \in Sessions, SelectSession(s) PROVE ShownInv'
  BY <1>3, AbortShown DEF SelectSession, server
<1>4. CASE Stop
  BY <1>4, AbortShown DEF Stop, server
<1>5. CASE BackToLanding \/ Cleared
  <2>1. Nobody # cur \/ cur = Nobody
    OBVIOUS
  <2> QED
    BY <1>5, <2>1, AbortShown DEF BackToLanding, Cleared, server
<1>6. CASE LoadPage
  <2>1. /\ UNCHANGED <<at, chatOf, saved>> /\ closed' = FALSE /\ bubble' = {} /\ cur' = Nobody
        /\ \A x \in Msgs : send'[x] \in {"none", "done", "over"} /\ (send'[x] \in EndedWell => send[x] \in EndedWell)
    BY <1>6 DEF LoadPage, server, EndedWell
  <2> QED
    BY <2>1 DEF ShownInv, Recorded, Reset, Opened, Reads, ClosedLast, Caught
<1>7. CASE SlashCommand \/ UNCHANGED vars
  BY <1>7 DEF SlashCommand, vars, server, refs, shown, local,
     ShownInv, Recorded, Reset, Opened, Reads, ClosedLast, Caught, Loaded
<1> QED
  BY <1>1, <1>2, <1>3, <1>4, <1>5, <1>6, <1>7, ServeShown, RequestShown, GivenUpShown, StreamShown, CloseShown,
     RenderShown, FetchShown DEF Next, Fetch, Read, User, Frame

\* A settled conversation shows every reply of its session that has ended
\* regularly, unless the stream's state was reset under it.
THEOREM EveryReplyShown == Spec => []RepliesAreShown
<1>1. Init => TypeOK /\ Alone /\ Settled /\ ShownInv
  <2> SUFFICES ASSUME Init PROVE Alone /\ Settled /\ ShownInv
    BY TypeOKInit
  <2>1. Alone
    BY DEF Init, Alone, Running
  <2>2. \A x : ~Within(x, <<>>)
    BY DEF Within
  <2>3. Settled
    BY <2>2 DEF Init, Settled, Told, Final, Queue, Kept, NoRepeat
  <2>4. ShownInv
    BY DEF Init, ShownInv, Recorded, Reset, Opened, Reads, ClosedLast, Caught, EndedWell
  <2> QED
    BY <2>1, <2>3, <2>4
<1>2. TypeOK /\ Alone /\ Settled /\ ShownInv /\ [Next]_vars => (TypeOK /\ Alone /\ Settled /\ ShownInv)'
  BY TypeOKNext, AloneNext, SettledNext, ShownNext
<1>3. TypeOK /\ ShownInv => RepliesAreShown
  <2> SUFFICES ASSUME TypeOK, ShownInv, phase = "idle", cur # Nobody, cur \notin stale, ~cut,
                      NEW m \in Msgs, send[m] = "done", chatOf[m] = cur
      PROVE  {Typed(m), Reply(m)} \subseteq Visible
    BY DEF RepliesAreShown
  <2>1. {Typed(m), Reply(m)} \subseteq hist[cur] /\ bubble = {}
    BY DEF ShownInv, Caught, Loaded, Reset, EndedWell
  <2> QED
    BY <2>1 DEF Visible
<1> QED
  BY <1>1, <1>2, <1>3, PTL DEF Spec

===============================================================================
