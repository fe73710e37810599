----------------------------- MODULE ChatClient -----------------------------
(***************************************************************************)
(* The chat of a project: useChatStream, which sends a message and reads   *)
(* the streamed reply, and CockpitLayout, which keeps the optimistic       *)
(* messages, the view and the buffer of messages an expired login has kept *)
(* from being sent.  Every send has its own fetch, AbortController and     *)
(* completion, but all share the refs of the hook: the controller, the     *)
(* completion, the text still to be shown and the whole text.  A send that *)
(* was superseded stops at its next await, except while it waits for the   *)
(* refresh of its token.  The text goes to the bubble a slice per frame,   *)
(* so the end of the stream is handled when the queue is empty.            *)
(*                                                                         *)
(* A reply is one piece of text, which may be shown in several slices; the *)
(* fetch of a history is one step.                                         *)
(***************************************************************************)
EXTENDS Naturals, Sequences, FiniteSets

CONSTANTS
    Msgs,          \* messages, each typed once
    Chats,         \* chat sessions that exist already
    Budgets        \* what may happen how often: tokens that expire, requests and streams that
                   \* fail, uses of the stop button, choices of a session, page loads, slash commands

Nobody == "none"
Spent  == {"expiries", "faults", "stops", "choices", "loads", "commands"}

ASSUME ChatAssumption ==
    /\ Nobody \notin Msgs \cup Chats /\ Msgs \cap Chats = {}
    /\ Budgets \subseteq [Spent -> Nat]

VARIABLES
    at,         \* the request on the server
    chatOf,     \* the session the server has put the message in
    saved,      \* messages and replies in chat_messages
    send,       \* the call of sendMessage
    asks,       \* the session_id it sends
    aborted,    \* sends whose controller was aborted
    ctrl,       \* the send of abortControllerRef
    completion, \* the send of completionRef
    closed,     \* streamClosedRef
    full,       \* replies whose text is in fullTextRef
    queued,     \* those with text in queuedText
    bubble,     \* those with text in streamingText
    phase,      \* the flags sending and streaming
    cur,        \* currentSessionId
    opt,        \* optimisticMessages
    finishing,  \* completions that wait for their refetches
    hist,       \* cached messages of each session
    stale,      \* sessions whose messages are being fetched
    view,       \* viewMode
    buffer,     \* pending_chat_messages in localStorage, oldest first
    replay,     \* those taken from it whose timer is set
    commands,   \* slash commands waiting for the server
    clearing,   \* /clear waiting for its session
    cut,        \* a stream's state was reset with text left: its read failed, or the
                \* login of a send before it had expired
    budget      \* what the bounds have left

server == <<at, chatOf, saved>>
refs   == <<ctrl, completion, closed, full, queued>>
shown  == <<bubble, phase, cur, opt, view, stale>>
local  == <<buffer, replay, commands, clearing, cut, budget>>
vars   == <<server, send, asks, aborted, refs, shown, finishing, hist, local>>

-----------------------------------------------------------------------------
Sessions == Chats \cup Msgs         \* a new session is named after its first message
Typed(m) == [role |-> "user", of |-> m]
Entries  == [role : {"user", "assistant"}, of : Msgs]
Locals   == {[role |-> "local", of |-> Nobody]}

Init ==
    /\ at = [m \in Msgs |-> "none"] /\ chatOf = [m \in Msgs |-> Nobody] /\ saved = {}
    /\ send = [m \in Msgs |-> "none"] /\ asks = [m \in Msgs |-> Nobody] /\ aborted = {}
    /\ ctrl = Nobody /\ completion = Nobody /\ closed = FALSE
    /\ full = {} /\ queued = {} /\ bubble = {}
    /\ phase = "idle" /\ cur = Nobody /\ opt = {} /\ finishing = {}
    /\ hist = [s \in Sessions |-> {}] /\ stale = {} /\ view = "landing"
    /\ buffer = <<>> /\ replay = <<>> /\ commands = 0 /\ clearing = FALSE
    /\ cut = FALSE /\ budget \in Budgets

\* The input takes text unless a request is on its way, and shows the stop button meanwhile.
MayType == phase # "sending"
MayStop == phase # "idle"

\* The messages the conversation shows next to the bubble: the history, what is
\* optimistic, and not the finished twin of the bubble's reply.
Visible == ((IF cur = Nobody THEN {} ELSE hist[cur]) \cup opt)
           \ {[role |-> "assistant", of |-> m] : m \in bubble}

Spend(what) == budget[what] > 0 /\ budget' = [budget EXCEPT ![what] = @ - 1]

-----------------------------------------------------------------------------
(* What the page does with a change of its state. *)

\* Mutant: the messages are fetched only when the session changes.
RefetchesOnSwitch(base) == cur' # cur \/ base # view

\* MessagesView fetches the session's messages when it is mounted, when the
\* session changes, and when the stream ends.
Refetches(base) == cur' # cur \/ base # view \/ phase = "streaming" \/ bubble # {}

\* The effects, given the view the handler asks for; a new query is fetched,
\* unless it was less than 30 seconds ago.
Render(base) ==
    LET v == IF cur' # Nobody \/ phase' # "idle" \/ opt' # {} THEN "conversation" ELSE base
        open == v = "conversation" /\ cur' # Nobody
    IN
    /\ view' = v
    /\ IF open /\ phase' # "streaming" /\ bubble' = {} /\ Refetches(v)
       THEN stale' = stale \cup {cur'}
       ELSE \/ stale' = stale
            \/ open /\ (cur' # cur \/ v # view) /\ stale' = stale \cup {cur'}

\* Mutant: the finished reply keeps the id of the bubble.
StreamingReply(m) == [role |-> "streaming", of |-> m]

Reply(m) == [role |-> "assistant", of |-> m]

\* The callback of handleSend: a reply with text stays on the page as an
\* optimistic message, and everything optimistic goes when the refetch is done.
Completed(m, success) ==
    /\ opt' = IF success /\ full # {} THEN opt \cup {Reply(m)} ELSE opt
    /\ finishing' = finishing \cup {m}

\* Mutant: the flags stay set.
CallerTold(m) ==
    /\ completion' = Nobody /\ UNCHANGED <<phase, bubble>>
    /\ Completed(m, FALSE)

\* The stream's state is reset, and the caller of this send is told.
GivenUp(m) ==
    /\ completion' = Nobody
    /\ phase' = "idle" /\ bubble' = {}
    /\ Completed(m, FALSE)

\* flushCompletionIfReady, with the queue empty.
Flushed ==
    /\ closed' = FALSE /\ phase' = "idle" /\ bubble' = {} /\ completion' = Nobody
    /\ IF completion = Nobody THEN UNCHANGED <<opt, finishing>> ELSE Completed(completion, TRUE)

\* Mutant: the reader finishes the reply, whatever is left in the queue.
CloseAtOnce == Flushed

\* The reader has seen the end of the stream.
Close ==
    IF queued = {} THEN Flushed
    ELSE /\ closed' = TRUE
         /\ UNCHANGED <<completion, phase, bubble, opt, finishing>>

-----------------------------------------------------------------------------
(* Sending. *)

\* Mutant: the send before goes on.
AbortNothing(next) == aborted' = aborted \ {next}

AbortCurrent(next) == aborted' = (aborted \cup ({ctrl} \ {Nobody})) \ {next}

\* handleSend and sendMessage up to its first await.
Begin(m, session) ==
    /\ send' = [send EXCEPT ![m] = "posted"] /\ at' = [at EXCEPT ![m] = "asked"]
    /\ asks' = [asks EXCEPT ![m] = session]
    /\ AbortCurrent(m)
    /\ ctrl' = m /\ completion' = m /\ closed' = FALSE /\ full' = {} /\ queued' = {}
    /\ bubble' = {} /\ phase' = "sending" /\ cur' = cur
    /\ opt' = opt \cup {Typed(m)}
    /\ Render("conversation")

\* The input accepts a message while a reply is streaming.
Send(m) ==
    /\ send[m] = "none" /\ MayType
    /\ Begin(m, cur)
    /\ UNCHANGED <<chatOf, saved, finishing, hist, local>>

\* The timers of the replay hold the handleSend of the first render, with no session.
Replay ==
    /\ replay # <<>>
    /\ replay' = Tail(replay)
    /\ Begin(Head(replay), Nobody)
    /\ UNCHANGED <<chatOf, saved, finishing, hist, buffer, commands, clearing, cut, budget>>

\* A fetch or a read of an aborted send rejects.
AbortError(m) ==
    /\ m \in aborted /\ send[m] \in {"posted", "reposted", "reading", "ended", "errored"}
    /\ send' = [send EXCEPT ![m] = "over"]
    /\ UNCHANGED <<server, asks, aborted, refs, shown, finishing, hist, local>>

Going(m, pcs) == m \notin aborted /\ send[m] \in pcs

Denied(m) ==
    /\ Going(m, {"posted"}) /\ at[m] = "refused"
    /\ send' = [send EXCEPT ![m] = "refreshing"]
    /\ UNCHANGED <<server, asks, aborted, refs, shown, finishing, hist, local>>

\* The second fetch; an aborted controller rejects it at once.
Refreshed(m) ==
    /\ send[m] = "refreshing"
    /\ IF m \in aborted
       THEN send' = [send EXCEPT ![m] = "over"] /\ at' = at
       ELSE send' = [send EXCEPT ![m] = "reposted"] /\ at' = [at EXCEPT ![m] = "asked"]
    /\ UNCHANGED <<chatOf, saved, asks, aborted, refs, shown, finishing, hist, local>>

\* No token, or still 401: the message is buffered, the user's stop notwithstanding.
AuthExpired(m) ==
    /\ \/ send[m] = "refreshing"
       \/ Going(m, {"reposted"}) /\ at[m] = "refused"
    /\ send' = [send EXCEPT ![m] = "over"]
    /\ buffer' = Append(buffer, m)
    /\ cut' = (cut \/ ctrl # m)
    /\ GivenUp(m) /\ cur' = cur /\ Render(view)
    /\ UNCHANGED <<server, asks, aborted, ctrl, closed, full, queued, hist, replay, commands, clearing, budget>>

NotOk(m) ==
    /\ Going(m, {"posted", "reposted"}) /\ at[m] = "failed"
    /\ send' = [send EXCEPT ![m] = "over"]
    /\ GivenUp(m) /\ cur' = cur /\ Render(view)
    /\ UNCHANGED <<server, asks, aborted, ctrl, closed, full, queued, hist, local>>

\* The catch: the text still queued is not dropped.
NetworkFails(m) ==
    /\ Going(m, {"posted", "reposted", "reading"}) /\ Spend("faults")
    /\ send' = [send EXCEPT ![m] = "over"]
    /\ cut' = (cut \/ send[m] = "reading")
    /\ GivenUp(m) /\ cur' = cur /\ Render(view)
    /\ UNCHANGED <<server, asks, aborted, ctrl, closed, full, queued, hist, buffer, replay, commands, clearing>>

-----------------------------------------------------------------------------
(* The server. *)

Refuse(m) ==
    /\ at[m] = "asked"
    /\ \/ Spend("expiries") /\ at' = [at EXCEPT ![m] = "refused"]
       \/ Spend("faults") /\ at' = [at EXCEPT ![m] = "failed"]
    /\ UNCHANGED <<chatOf, saved, send, asks, aborted, refs, shown, finishing, hist,
                   buffer, replay, commands, clearing, cut>>

\* The user's message is committed before the stream starts, aborted or not.
Accept(m) ==
    /\ at[m] = "asked"
    /\ at' = [at EXCEPT ![m] = "started"]
    /\ chatOf' = [chatOf EXCEPT ![m] = IF asks[m] = Nobody THEN m ELSE asks[m]]
    /\ saved' = saved \cup {Typed(m)}
    /\ UNCHANGED <<send, asks, aborted, refs, shown, finishing, hist, local>>

Write(m) ==
    /\ at[m] = "started"
    /\ at' = [at EXCEPT ![m] = "written"]
    /\ UNCHANGED <<chatOf, saved, send, asks, aborted, refs, shown, finishing, hist, local>>

\* What was collected is saved before message_end is sent, and also after an
\* error or when the client has gone.
SaveReply(m) ==
    /\ \/ at[m] = "written" /\ at' = [at EXCEPT ![m] = "saved"] /\ budget' = budget
       \/ at[m] \in {"started", "written"} /\ Spend("faults") /\ at' = [at EXCEPT ![m] = "broken"]
    /\ saved' = IF at[m] = "written" THEN saved \cup {[role |-> "assistant", of |-> m]} ELSE saved
    /\ UNCHANGED <<chatOf, send, asks, aborted, refs, shown, finishing, hist,
                   buffer, replay, commands, clearing, cut>>

-----------------------------------------------------------------------------
(* Reading the stream. *)

MessageStart(m) ==
    /\ Going(m, {"posted", "reposted"}) /\ at[m] \in {"started", "written", "saved", "broken"}
    /\ send' = [send EXCEPT ![m] = "reading"]
    /\ phase' = "streaming" /\ cur' = chatOf[m]
    /\ UNCHANGED <<bubble, opt>> /\ Render(view)
    /\ UNCHANGED <<server, asks, aborted, refs, finishing, hist, local>>

ContentDelta(m) ==
    /\ Going(m, {"reading"}) /\ at[m] \in {"written", "saved", "broken"} /\ m \notin full
    /\ \/ at[m] # "broken"
       \/ Reply(m) \in saved
    /\ full' = full \cup {m} /\ queued' = queued \cup {m}
    /\ phase' = "streaming" /\ UNCHANGED <<bubble, cur, opt>> /\ Render(view)
    /\ UNCHANGED <<server, send, asks, aborted, ctrl, completion, closed, finishing, hist, local>>

MessageEnd(m) ==
    /\ Going(m, {"reading"}) /\ at[m] = "saved" /\ m \in full
    /\ send' = [send EXCEPT ![m] = "ended"]
    /\ Close /\ cur' = cur /\ Render(view)
    /\ UNCHANGED <<server, asks, aborted, ctrl, full, queued, hist, local>>

ErrorEvent(m) ==
    /\ Going(m, {"reading"}) /\ at[m] = "broken"
    /\ send' = [send EXCEPT ![m] = "errored"]
    /\ queued' = {} /\ closed' = FALSE
    /\ GivenUp(m) /\ cur' = cur /\ Render(view)
    /\ UNCHANGED <<server, asks, aborted, ctrl, full, hist, local>>

\* After the last event, or in the middle, when the server goes away.
BodyEnds(m) == \/ send[m] \in {"ended", "errored"} /\ budget' = budget
               \/ send[m] = "reading" /\ Spend("faults")

BodyEnd(m) ==
    /\ Going(m, {"reading", "ended", "errored"}) /\ BodyEnds(m)
    /\ send' = [send EXCEPT ![m] = IF @ = "ended" THEN "done" ELSE "over"]
    /\ Close /\ cur' = cur /\ Render(view)
    /\ UNCHANGED <<server, asks, aborted, ctrl, full, queued, hist, buffer, replay, commands, clearing, cut>>

\* A frame shows a slice of the queue.
Pump ==
    /\ queued # {}
    /\ bubble' = bubble \cup queued /\ phase' = "streaming"
    /\ \/ queued' = {}
       \/ bubble # bubble' /\ queued' = queued
    /\ UNCHANGED <<cur, opt>> /\ Render(view)
    /\ UNCHANGED <<server, send, asks, aborted, ctrl, completion, closed, full, finishing, hist, local>>

\* A frame finds the queue empty.
FrameFlush ==
    /\ queued = {} /\ closed
    /\ Flushed /\ cur' = cur /\ Render(view)
    /\ UNCHANGED <<server, send, asks, aborted, ctrl, full, queued, hist, local>>

-----------------------------------------------------------------------------
(* The finally of the completion, and the history. *)

Finish(m) ==
    /\ m \in finishing
    /\ finishing' = finishing \ {m}
    /\ opt' = {} /\ UNCHANGED <<bubble, phase, cur>> /\ Render(view)
    /\ UNCHANGED <<server, send, asks, aborted, refs, hist, local>>

FetchHistory(s) ==
    /\ s \in stale
    /\ stale' = stale \ {s}
    /\ hist' = [hist EXCEPT ![s] = {x \in saved : chatOf[x.of] = s}]
    /\ UNCHANGED <<server, send, asks, aborted, refs, bubble, phase, cur, opt, view, finishing, local>>

-----------------------------------------------------------------------------
(* The user. *)

\* abort() and setOptimisticMessages([]), with the session and the view that follow.
Abort(session, base) ==
    /\ AbortCurrent(Nobody)
    /\ ctrl' = Nobody /\ completion' = Nobody /\ closed' = FALSE /\ queued' = {}
    /\ phase' = "idle" /\ bubble' = {} /\ opt' = {}
    /\ finishing' = IF completion = Nobody THEN finishing ELSE finishing \cup {completion}
    /\ cur' = session
    /\ Render(base)

Stop ==
    /\ MayStop /\ Spend("stops")
    /\ Abort(cur, view) /\ full' = full
    /\ UNCHANGED <<server, send, asks, hist, buffer, replay, commands, clearing, cut>>

SelectSession(s) ==
    /\ view = "landing" /\ Spend("choices") /\ s \in Chats \cup ({chatOf[m] : m \in Msgs} \ {Nobody})
    /\ Abort(s, "conversation") /\ full' = full
    /\ UNCHANGED <<server, send, asks, hist, buffer, replay, commands, clearing, cut>>

BackToLanding ==
    /\ view = "conversation" /\ Spend("choices")
    /\ Abort(Nobody, "landing") /\ full' = {}
    /\ UNCHANGED <<server, send, asks, hist, buffer, replay, commands, clearing, cut>>

\* A slash command runs here, with what is cached or fetched.
SlashCommand ==
    /\ MayType /\ Spend("commands")
    /\ \/ commands' = commands + 1 /\ clearing' = clearing
       \/ commands' = commands /\ ~clearing /\ clearing' = TRUE
    /\ UNCHANGED <<server, send, asks, aborted, refs, shown, finishing, hist, buffer, replay, cut>>

\* Its answer is an optimistic message of the chat that is open by now.
CommandAnswer ==
    /\ commands > 0 /\ commands' = commands - 1
    /\ opt' = opt \cup Locals /\ UNCHANGED <<bubble, phase, cur>> /\ Render("conversation")
    /\ UNCHANGED <<server, send, asks, aborted, refs, finishing, hist, buffer, replay, clearing, cut, budget>>

\* /clear goes back to the landing view when the server has answered.
Cleared ==
    /\ clearing /\ clearing' = FALSE
    /\ Abort(Nobody, "landing") /\ full' = {}
    /\ UNCHANGED <<server, send, asks, hist, buffer, replay, commands, cut, budget>>

\* A page load, also after a login: the buffer is taken and its replay begins.
LoadPage ==
    /\ Spend("loads")
    /\ aborted' = {}
    /\ send' = [m \in Msgs |-> IF send[m] \in {"none", "done"} THEN send[m] ELSE "over"]
    /\ ctrl' = Nobody /\ completion' = Nobody /\ closed' = FALSE /\ full' = {} /\ queued' = {}
    /\ bubble' = {} /\ phase' = "idle" /\ cur' = Nobody /\ opt' = {} /\ finishing' = {}
    /\ hist' = [s \in Sessions |-> {}] /\ stale' = {} /\ view' = "landing"
    /\ buffer' = <<>> /\ replay' = buffer /\ commands' = 0 /\ clearing' = FALSE
    /\ UNCHANGED <<server, asks, cut>>

-----------------------------------------------------------------------------
Serve(m)  == Refuse(m) \/ Accept(m) \/ Write(m) \/ SaveReply(m)
Fetch(m)  == AbortError(m) \/ Denied(m) \/ Refreshed(m) \/ AuthExpired(m) \/ NotOk(m) \/ NetworkFails(m)
Read(m)   == MessageStart(m) \/ ContentDelta(m) \/ MessageEnd(m) \/ ErrorEvent(m) \/ BodyEnd(m)
Frame     == Pump \/ FrameFlush
User      == Stop \/ BackToLanding \/ SlashCommand \/ LoadPage

Next ==
    \/ \E m \in Msgs : Send(m) \/ Serve(m) \/ Fetch(m) \/ Read(m) \/ Finish(m)
    \/ \E s \in Sessions : SelectSession(s) \/ FetchHistory(s)
    \/ Frame \/ Replay \/ CommandAnswer \/ Cleared \/ User

Spec == Init /\ [][Next]_vars

\* The server and the page's event loop go on; the user need not do anything.
Fairness == /\ \A m \in Msgs : WF_vars(Serve(m)) /\ WF_vars(Fetch(m) \/ Read(m))
            /\ WF_vars(Frame)

FairSpec == Spec /\ Fairness

-----------------------------------------------------------------------------
\* Every variable has its type.
TypeOK ==
    /\ at \in [Msgs -> {"none", "asked", "refused", "failed", "started", "written", "saved", "broken"}]
    /\ chatOf \in [Msgs -> Sessions \cup {Nobody}] /\ saved \subseteq Entries
    /\ send \in [Msgs -> {"none", "posted", "refreshing", "reposted", "reading", "ended", "errored", "done", "over"}]
    /\ asks \in [Msgs -> Sessions \cup {Nobody}] /\ aborted \subseteq Msgs
    /\ ctrl \in Msgs \cup {Nobody} /\ completion \in Msgs \cup {Nobody}
    /\ closed \in BOOLEAN /\ clearing \in BOOLEAN
    /\ full \subseteq Msgs /\ queued \subseteq Msgs /\ bubble \subseteq Msgs
    /\ phase \in {"idle", "sending", "streaming"} /\ view \in {"landing", "conversation"}
    /\ cur \in Sessions \cup {Nobody}
    /\ opt \subseteq Entries \cup Locals /\ finishing \subseteq Msgs
    /\ hist \in [Sessions -> SUBSET Entries] /\ stale \subseteq Sessions
    /\ buffer \in Seq(Msgs) /\ replay \in Seq(Msgs) /\ commands \in Nat
    /\ cut \in BOOLEAN /\ budget \in [Spent -> Nat]

\* The text on the page is of one reply, although every send writes to the same refs.
OneVoice == Cardinality(full) <= 1 /\ queued \cup bubble \subseteq full

\* The "double response": a finished reply is not in the bubble as well.
NoDoubleReply == \A m \in Msgs : Reply(m) \in opt => m \notin bubble \cup queued

\* A settled conversation shows every reply of its session that has ended
\* regularly, unless the stream's state was reset under it.
RepliesAreShown ==
    phase = "idle" /\ queued = {} /\ ~closed /\ cur # Nobody /\ cur \notin stale /\ ~cut
    => \A m \in Msgs : send[m] = "done" /\ chatOf[m] = cur => {Typed(m), Reply(m)} \subseteq Visible

\* Every send ends, and with it the stop button: unless the network failed in
\* the middle of a reply, and left text in the queue.
StreamEnds == phase # "idle" ~> phase = "idle" \/ cut

-----------------------------------------------------------------------------
(* Not kept by the code. *)

\* StreamEnds without the exception: the catch leaves text in the queue, whose
\* frames show the bubble and the stop button again.
EveryStreamEnds == phase # "idle" ~> phase = "idle"

\* An optimistic message is visible until the history has it, unless the user
\* stops it or leaves, or sending it has failed: the refetch that the finally
\* waits for matches no query.
VisibleUntilHistory ==
    [][\A x \in opt \ (opt' \cup Locals) :
          ctrl = x.of /\ ctrl' = ctrl /\ send'[x.of] # "over"
          => chatOf[x.of] # Nobody /\ x \in hist[chatOf[x.of]]]_vars

\* A replayed message does not cut another send short: their timers do not wait
\* for each other's replies.
ReplaysDoNotCollide ==
    [][Len(replay') < Len(replay) /\ replay' = Tail(replay)
       => \A m \in aborted' \ aborted : send[m] \in {"done", "over"}]_vars

=============================================================================
