------------------------------- MODULE TaskEdits -------------------------------
(***************************************************************************)
(* The status of a project's tasks, seen from one page: its status panel,  *)
(* the dialog with the task cards and the timeline, the briefing and the   *)
(* stale notice, all of them copies in the query cache; and the requests   *)
(* that change them.  A card shows its new status before the PATCH is      *)
(* answered.  The chat's tool changes a task for the assistant and leaves  *)
(* a token in Redis, with which a card of the chat can undo the change.    *)
(*                                                                         *)
(* A request reads the latest version, appends the next one, and fails on  *)
(* the unique index if it is taken (the row lock of the PATCH, of which    *)
(* StateVersions speaks, changes no outcome here).  The git commit comes   *)
(* after the commit of the database, the briefing of a PATCH after both.   *)
(***************************************************************************)
EXTENDS Naturals, Sequences, FiniteSets

CONSTANTS
    Tasks,
    MaxReqs,    \* bound on the requests
    Plans       \* how the tasks are when a session starts, what may happen in it, and the
                \* bounds on its requests and on its failures

Reqs     == 1 .. MaxReqs
Outsider == MaxReqs + 1     \* who deletes a document with a task
NoReq    == 0
Ops      == {"toggle", "tool", "undo", "dismiss"}
Doings   == Ops \cup {"detail", "outside", "loss", "gitFault", "fetchFault", "refocus"}
Statuses == {"open", "done", "blocked", "gone"}
Queries  == {"state", "history", "project"}

ASSUME TasksAssumption ==
    /\ Tasks # {} /\ MaxReqs \in Nat
    /\ Plans \subseteq [tasks : [Tasks -> Statuses], does : SUBSET Doings, reqs : 0 .. MaxReqs, faults : Nat]

VARIABLES
    log,        \* the versions
    git,        \* those in the git history
    briefing,   \* briefing_state_version
    dismissed,  \* stale_dismissed_at is after the last activity
    token,      \* the undo tokens
    req,        \* the requests
    copy,       \* the page's copy
    fetch,      \* the fetches of the queries
    answer,     \* what they bring
    invalid,    \* the history is to be fetched when the dialog opens
    card,       \* the cards of the tool's changes
    detail,     \* detailOpen
    behind,     \* queries whose copy the page cannot know to be old
    faults,     \* failures so far
    plan        \* the member of Plans this session follows

server == <<log, git, briefing, dismissed, token>>
cache  == <<copy, fetch, answer, invalid>>
vars   == <<server, req, cache, card, detail, behind, faults, plan>>

-----------------------------------------------------------------------------
Versions == 1 .. MaxReqs + 2
States   == [Tasks -> Statuses]
Entry    == [tasks : States, by : 0 .. Outsider]
Pcs      == {"idle", "sent", "got", "spent", "read", "committed", "gitted", "ok", "refused", "failed"}
Req      == [op : Ops, pc : Pcs, task : Tasks, status : Statuses, old : Statuses \cup {"none"},
             of : Reqs \cup {NoReq}, base : Versions \cup {0}, ver : Versions \cup {0},
             prev : States, client : {"waits", "answered", "gone"}]
Copies   == [tasks : States, entries : Versions \cup {0}, briefing : Versions, dismissed : BOOLEAN]

Latest == log[Len(log)].tasks
Server == [tasks |-> Latest, entries |-> Len(log), briefing |-> briefing, dismissed |-> dismissed]

Blank  == [t \in Tasks |-> "gone"]
Unused == [op |-> "toggle", pc |-> "idle", task |-> CHOOSE t \in Tasks : TRUE, status |-> "done", old |-> "none",
           of |-> NoReq, base |-> 0, ver |-> 0, prev |-> Blank, client |-> "waits"]
Nothing == [tasks |-> Blank, entries |-> 0, briefing |-> 1, dismissed |-> FALSE]

Init ==
    /\ plan \in Plans
    /\ log = <<[tasks |-> plan.tasks, by |-> 0]>> /\ git = {1} /\ briefing = 1 /\ dismissed = FALSE
    /\ token = [r \in Reqs |-> "none"] /\ req = [r \in Reqs |-> Unused]
    /\ copy = [Server EXCEPT !.entries = 0]
    /\ fetch = [q \in Queries |-> "idle"] /\ answer = Nothing /\ invalid = TRUE
    /\ card = [r \in Reqs |-> "none"] /\ detail = FALSE
    /\ behind = {} /\ faults = 0

Unspent(r)  == r <= plan.reqs /\ req[r].pc = "idle" /\ \A s \in 1 .. r - 1 : req[s].pc # "idle"
At(r, S, pc) == req[r].op \in S /\ req[r].pc = pc
Goes(r, pc) == req' = [req EXCEPT ![r].pc = pc]
Fault(f)    == f \in plan.does /\ faults < plan.faults /\ faults' = faults + 1

-----------------------------------------------------------------------------
(* What the page shows. *)

\* The cards of the dialog: done tasks have none.
Cards(s)    == {t \in Tasks : s[t] \in {"open", "blocked"}}
\* The number in the status panel, and the rows of the timeline.
Glance(c)   == Cardinality(Cards(c.tasks))
Timeline(c) == 1 .. c.entries
\* The briefing, and the notice until it is dismissed.
Briefing(c) == c.briefing
Notice(c)   == ~c.dismissed

Panel(q, c) == CASE q = "state"   -> <<c.tasks, Glance(c)>>
                 [] q = "history" -> Timeline(c)
                 [] q = "project" -> <<Briefing(c), Notice(c)>>

\* The fields of a query.
Taken(q, from, c) == CASE q = "state"   -> [c EXCEPT !.tasks = from.tasks]
                       [] q = "history" -> [c EXCEPT !.entries = from.entries]
                       [] q = "project" -> [c EXCEPT !.briefing = from.briefing, !.dismissed = from.dismissed]

-----------------------------------------------------------------------------
(* The query cache.  Only the dialog shows the history. *)

Mounted == IF detail THEN Queries ELSE Queries \ {"history"}

\* A fetch under way is dropped, and another one starts where the query is shown.
Invalidate(qs) ==
    LET again == qs \cap Mounted IN
    /\ fetch' = [q \in Queries |-> IF q \in again THEN "sent" ELSE fetch[q]]
    /\ answer' = [answer EXCEPT !.tasks = IF "state" \in again THEN Blank ELSE @,
                                !.entries = IF "history" \in again THEN 0 ELSE @,
                                !.briefing = IF "project" \in again THEN 1 ELSE @,
                                !.dismissed = IF "project" \in again THEN FALSE ELSE @]
    /\ invalid' = (invalid \/ "history" \in qs)

Read(q) ==
    /\ fetch[q] = "sent"
    /\ fetch' = [fetch EXCEPT ![q] = "answered"]
    /\ answer' = Taken(q, Server, answer)
    /\ behind' = behind \ ({q} \cap Mounted)
    /\ UNCHANGED <<plan, server, req, copy, invalid, card, detail, faults>>

Receive(q) ==
    /\ fetch[q] = "answered"
    /\ fetch' = [fetch EXCEPT ![q] = "idle"]
    /\ copy' = Taken(q, answer, copy) /\ answer' = Taken(q, Nothing, answer)
    /\ invalid' = (invalid /\ q # "history")
    /\ UNCHANGED <<plan, server, req, card, detail, behind, faults>>

\* The old copy stays.
FetchFails(q) ==
    /\ fetch[q] = "sent" /\ Fault("fetchFault")
    /\ fetch' = [fetch EXCEPT ![q] = "idle"]
    /\ behind' = behind \cup {q}
    /\ UNCHANGED <<plan, server, req, copy, answer, invalid, card, detail>>

\* The window has the focus again: what is shown and old is fetched.
Refocus ==
    /\ Fault("refocus")
    /\ fetch' = [q \in Queries |-> IF q \in Mounted /\ fetch[q] = "idle" THEN "sent" ELSE fetch[q]]
    /\ UNCHANGED <<plan, server, req, copy, answer, invalid, card, detail, behind>>

OpenDetail ==
    /\ "detail" \in plan.does /\ ~detail /\ detail' = TRUE
    /\ fetch' = [fetch EXCEPT !["history"] = IF @ = "idle" /\ invalid THEN "sent" ELSE @]
    /\ UNCHANGED <<plan, server, req, copy, answer, invalid, card, behind, faults>>

\* A fetch of the history goes on, and takes the mark of an invalidation away.
CloseDetail ==
    /\ detail /\ detail' = FALSE
    /\ behind' = IF fetch["history"] = "idle" THEN behind ELSE behind \cup {"history"}
    /\ UNCHANGED <<plan, server, req, cache, card, faults>>

-----------------------------------------------------------------------------
(* The page sends its requests, and hears of them. *)

\* The optimistic status takes the card away, and its disabled button with it.
Toggle(r, t) ==
    /\ Unspent(r) /\ "toggle" \in plan.does /\ detail /\ t \in Cards(copy.tasks)
    /\ req' = [req EXCEPT ![r] = [Unused EXCEPT !.pc = "sent", !.task = t, !.prev = copy.tasks]]
    /\ copy' = [copy EXCEPT !.tasks[t] = "done"]
    /\ fetch' = [fetch EXCEPT !["state"] = "idle", !["history"] = "idle"]
    /\ answer' = Taken("state", Nothing, Taken("history", Nothing, answer))
    /\ UNCHANGED <<plan, server, invalid, card, detail, behind, faults>>

\* Mutant: only a success refetches.
RefetchedOnSuccess(ok) == IF ok THEN {"state", "history"} ELSE {}

\* onSettled; the key of the history starts with that of the state.
Refetched(ok) == {"state", "history"}

\* onError puts all of the snapshot back.
Settled(r, ok) ==
    /\ copy' = IF ok THEN copy ELSE [copy EXCEPT !.tasks = req[r].prev]
    /\ Invalidate(Refetched(ok))

Settle(r) ==
    /\ req[r].op = "toggle" /\ req[r].pc \in {"ok", "failed"} /\ req[r].client = "waits"
    /\ req' = [req EXCEPT ![r].client = "answered", ![r].prev = Blank]
    /\ Settled(r, req[r].pc = "ok")
    /\ UNCHANGED <<plan, server, card, detail, behind, faults>>

\* The page gives up; the server goes on.
LoseToggle(r) ==
    /\ req[r].op = "toggle" /\ req[r].pc # "idle" /\ req[r].client = "waits" /\ Fault("loss")
    /\ req' = [req EXCEPT ![r].client = "gone", ![r].prev = Blank]
    /\ Settled(r, FALSE)
    /\ UNCHANGED <<plan, server, card, detail, behind>>

\* The assistant calls its tool.
CallTool(r, t, s) ==
    /\ Unspent(r) /\ "tool" \in plan.does /\ s # "gone"
    /\ req' = [req EXCEPT ![r] = [Unused EXCEPT !.op = "tool", !.pc = "sent", !.task = t, !.status = s]]
    /\ UNCHANGED <<plan, server, cache, card, detail, behind, faults>>

\* The event mutation_card; the stream may be gone.
ShowCard(r) ==
    /\ At(r, {"tool"}, "ok") /\ req[r].client = "waits"
    /\ \/ /\ req' = [req EXCEPT ![r].client = "answered"] /\ card' = [card EXCEPT ![r] = "active"]
          /\ faults' = faults
       \/ req' = [req EXCEPT ![r].client = "gone"] /\ card' = card /\ Fault("loss")
    /\ UNCHANGED <<plan, server, cache, detail, behind>>

\* The window of the card starts after that of the token.
CardExpires(r) ==
    /\ card[r] = "active" /\ token[r] # "live"
    /\ card' = [card EXCEPT ![r] = "over"]
    /\ UNCHANGED <<plan, server, req, cache, detail, behind, faults>>

Undos(r) == {u \in Reqs : req[u].op = "undo" /\ req[u].of = r}

\* Mutant: the button is not disabled while it loads.
MayUndoTwice(r) == card[r] = "active"

MayUndo(r) == card[r] = "active" /\ \A u \in Undos(r) : req[u].client # "waits"

Undo(u, r) ==
    /\ Unspent(u) /\ "undo" \in plan.does /\ MayUndo(r)
    /\ req' = [req EXCEPT ![u] = [Unused EXCEPT !.op = "undo", !.pc = "sent", !.task = req[r].task, !.of = r]]
    /\ UNCHANGED <<plan, server, cache, card, detail, behind, faults>>

\* A refusal is a 200 too.
Undone(u) == req[u].pc \in {"ok", "refused"}

HearUndo(u) ==
    /\ req[u].op = "undo" /\ req[u].pc \in {"ok", "refused", "failed"} /\ req[u].client = "waits"
    /\ req' = [req EXCEPT ![u].client = "answered"]
    /\ card' = IF Undone(u) THEN [card EXCEPT ![req[u].of] = "undone"] ELSE card
    /\ UNCHANGED <<plan, server, cache, detail, behind, faults>>

LoseUndo(u) ==
    /\ req[u].op = "undo" /\ req[u].pc # "idle" /\ req[u].client = "waits" /\ Fault("loss")
    /\ req' = [req EXCEPT ![u].client = "gone"]
    /\ UNCHANGED <<plan, server, cache, card, detail, behind>>

Dismiss(r) ==
    /\ Unspent(r) /\ "dismiss" \in plan.does /\ Notice(copy)
    /\ \A s \in Reqs : ~(req[s].op = "dismiss" /\ req[s].client = "waits")
    /\ req' = [req EXCEPT ![r] = [Unused EXCEPT !.op = "dismiss", !.pc = "sent"]]
    /\ UNCHANGED <<plan, server, cache, card, detail, behind, faults>>

\* All queries of the project have its key in front, the optimistic ones too.
Dismissed(r) ==
    /\ At(r, {"dismiss"}, "ok") /\ req[r].client = "waits"
    /\ req' = [req EXCEPT ![r].client = "answered"]
    /\ Invalidate(Queries)
    /\ UNCHANGED <<plan, server, copy, card, detail, behind, faults>>

-----------------------------------------------------------------------------
(* The server. *)

ServeDismiss(r) ==
    /\ At(r, {"dismiss"}, "sent")
    /\ dismissed' = TRUE /\ Goes(r, "ok")
    /\ UNCHANGED <<plan, log, git, briefing, token, cache, card, detail, behind, faults>>

\* GET, then DELETE.
GetToken(u) ==
    /\ At(u, {"undo"}, "sent")
    /\ Goes(u, IF token[req[u].of] = "live" THEN "got" ELSE "failed")
    /\ UNCHANGED <<plan, server, cache, card, detail, behind, faults>>

SpendToken(u) ==
    /\ At(u, {"undo"}, "got")
    /\ token' = [token EXCEPT ![req[u].of] = "over"]
    /\ Goes(u, "spent")
    /\ UNCHANGED <<plan, log, git, briefing, dismissed, cache, card, detail, behind, faults>>

Expire(r) ==
    /\ token[r] = "live"
    /\ token' = [token EXCEPT ![r] = "over"]
    /\ UNCHANGED <<plan, log, git, briefing, dismissed, req, cache, card, detail, behind, faults>>

\* A task that is gone is a 404, an error of the tool, or a refused undo.
ReadTask(r) ==
    /\ At(r, {"toggle", "tool"}, "sent") \/ At(r, {"undo"}, "spent")
    /\ LET old == Latest[req[r].task] IN
       req' = IF old = "gone"
              THEN [req EXCEPT ![r].pc = IF @ = "spent" THEN "refused" ELSE "failed"]
              ELSE [req EXCEPT ![r].pc = "read", ![r].base = Len(log), ![r].old = old]
    /\ UNCHANGED <<plan, server, cache, card, detail, behind, faults>>

\* Mutant: the undo takes the wrong field of what the token stands for.
WrittenToken(r) == IF req[r].op = "undo" THEN token[req[r].of] ELSE req[r].status

\* The status a request writes.
Written(r) == IF req[r].op = "undo" THEN req[req[r].of].old ELSE req[r].status

\* Those whose copy will be old for ever, unless they are fetched for another reason.
Untold(r) == IF req[r].op = "toggle" /\ req[r].client = "waits" THEN {} ELSE {"state", "history"}

\* The tool and its undo bring the briefing up to date in their transaction.
Commit(r) ==
    LET v == Len(log) + 1 IN
    /\ req[r].pc = "read"
    /\ IF Len(log) = req[r].base
       THEN /\ log' = Append(log, [tasks |-> [Latest EXCEPT ![req[r].task] = Written(r)], by |-> r])
            /\ req' = [req EXCEPT ![r].pc = "committed", ![r].ver = v]
            /\ briefing' = IF req[r].op = "toggle" THEN briefing ELSE v
            /\ behind' = behind \cup Untold(r) \cup (IF briefing' = briefing THEN {} ELSE {"project"})
       ELSE Goes(r, "failed") /\ UNCHANGED <<log, briefing, behind>>
    /\ UNCHANGED <<plan, git, dismissed, token, cache, card, detail, faults>>

GitCommit(r) ==
    /\ req[r].pc = "committed"
    /\ git' = git \cup {req[r].ver}
    /\ Goes(r, IF req[r].op = "undo" THEN "ok" ELSE "gitted")
    /\ UNCHANGED <<plan, log, briefing, dismissed, token, cache, card, detail, behind, faults>>

\* Mutant: a failing git commit is logged only.
GitFailsQuietly(r) ==
    /\ req[r].pc = "committed" /\ Fault("gitFault")
    /\ Goes(r, IF req[r].op = "undo" THEN "ok" ELSE "gitted")
    /\ UNCHANGED <<plan, server, cache, card, detail, behind>>

\* The edit stays, and its request ends with a 500.
GitFails(r) ==
    /\ req[r].pc = "committed" /\ Fault("gitFault")
    /\ Goes(r, "failed")
    /\ UNCHANGED <<plan, server, cache, card, detail, behind>>

\* A PATCH renders the briefing of its version, older or not.
Brief(r) ==
    /\ At(r, {"toggle"}, "gitted")
    /\ briefing' = req[r].ver /\ behind' = behind \cup {"project"}
    /\ Goes(r, "ok")
    /\ UNCHANGED <<plan, log, git, dismissed, token, cache, card, detail, faults>>

SetToken(r) ==
    /\ At(r, {"tool"}, "gitted")
    /\ token' = [token EXCEPT ![r] = "live"]
    /\ Goes(r, "ok")
    /\ UNCHANGED <<plan, log, git, briefing, dismissed, cache, card, detail, behind, faults>>

\* Somebody deletes the only document of a task: the event of it arrives.
RemoveTask(t) ==
    /\ "outside" \in plan.does /\ Latest[t] # "gone"
    /\ \A v \in 1 .. Len(log) : log[v].by # Outsider
    /\ log' = Append(log, [tasks |-> [Latest EXCEPT ![t] = "gone"], by |-> Outsider])
    /\ git' = git \cup {Len(log) + 1}
    /\ Invalidate({"state", "history"})
    /\ UNCHANGED <<plan, briefing, dismissed, token, req, copy, card, detail, behind, faults>>

-----------------------------------------------------------------------------
Serve(r) == \/ ServeDismiss(r) \/ GetToken(r) \/ SpendToken(r) \/ ReadTask(r) \/ Commit(r)
            \/ GitCommit(r) \/ Brief(r) \/ SetToken(r)
Hear(r)  == Settle(r) \/ ShowCard(r) \/ HearUndo(r) \/ Dismissed(r)
Use(r)   == \/ \E t \in Tasks : Toggle(r, t) \/ \E s \in Statuses : CallTool(r, t, s)
            \/ \E s \in Reqs : Undo(r, s)
            \/ Dismiss(r)
Fail(r)  == LoseToggle(r) \/ LoseUndo(r) \/ GitFails(r)
Pass(r)  == Expire(r) \/ CardExpires(r)

Next ==
    \/ \E r \in Reqs : Use(r) \/ Serve(r) \/ Hear(r) \/ Fail(r) \/ Pass(r)
    \/ \E q \in Queries : Read(q) \/ Receive(q) \/ FetchFails(q)
    \/ \E t \in Tasks : RemoveTask(t)
    \/ Refocus \/ OpenDetail \/ CloseDetail

Spec == Init /\ [][Next]_vars

-----------------------------------------------------------------------------
\* Every variable has its type.
TypeOK ==
    /\ log \in Seq(Entry) /\ Len(log) \in Versions /\ git \subseteq Versions
    /\ briefing \in Versions /\ dismissed \in BOOLEAN
    /\ token \in [Reqs -> {"none", "live", "over"}]
    /\ req \in [Reqs -> Req]
    /\ copy \in Copies /\ answer \in Copies
    /\ fetch \in [Queries -> {"idle", "sent", "answered"}] /\ invalid \in BOOLEAN
    /\ card \in [Reqs -> {"none", "active", "undone", "over"}]
    /\ detail \in BOOLEAN /\ behind \subseteq Queries /\ faults \in Nat /\ plan \in Plans

Quiet == /\ \A q \in Queries : fetch[q] = "idle"
         /\ \A r \in Reqs : req[r].op \in {"toggle", "dismiss"} /\ req[r].pc # "idle" => req[r].client # "waits"

\* When the page waits for nothing, it shows what the server has, whichever
\* snapshots were put back and whichever answers crossed, unless it cannot know.
PanelAgrees == Quiet => \A q \in Mounted \ behind : Panel(q, copy) = Panel(q, Server)

\* An edit that was acknowledged is in the log and in the git history.
AcknowledgedInGit == \A r \in Reqs :
    req[r].op # "dismiss" /\ req[r].pc = "ok" => log[req[r].ver].by = r /\ req[r].ver \in git

\* A change is undone once, unless an answer was lost and the button was
\* pressed again: GET and DELETE do not exclude each other.
UndoneOnce == \A r \in Reqs :
    \/ Cardinality({u \in Undos(r) : req[u].ver # 0}) <= 1
    \/ \E u \in Undos(r) : req[u].client = "gone"

=============================================================================
