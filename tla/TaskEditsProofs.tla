---------------------------- MODULE TaskEditsProofs ----------------------------
(***************************************************************************)
(* What the requests of TaskEdits promise for every set of tasks and every *)
(* number of requests, whatever is lost and however they cross.            *)
(***************************************************************************)
EXTENDS TaskEdits, FiniteSetTheorems, SequenceTheorems, TLAPS

-----------------------------------------------------------------------------
(* What the requests refer to.                                             *)

\* An undo is about a change whose card was shown; a request that has found its
\* task knows the old status.
Linked == \A r \in Reqs :
    /\ req[r].pc = "idle" => req[r].op = "toggle" /\ req[r].ver = 0
    /\ req[r].op = "dismiss" => req[r].pc \in {"sent", "ok"}
    /\ req[r].op = "undo" => req[r].of \in Reqs /\ card[req[r].of] # "none"
    /\ card[r] # "none" => req[r].op = "tool" /\ req[r].pc = "ok" /\ req[r].client # "waits"
    /\ req[r].op = "tool" /\ req[r].pc = "ok" => token[r] # "none"
    /\ req[r].op # "dismiss" /\ req[r].pc \in {"read", "committed", "gitted", "ok"} => req[r].old \in Statuses

\* A request that has committed has written the version it says.
Wrote == \A r \in Reqs : req[r].op # "dismiss" =>
    /\ req[r].pc \in {"committed", "gitted", "ok"} => req[r].ver \in 1 .. Len(log) /\ log[req[r].ver].by = r
    /\ req[r].pc \in {"gitted", "ok"} => req[r].ver \in git

\* Every version but the first one is somebody's only one.
Once == \A v \in 2 .. Len(log) :
    /\ log[v].by \in 1 .. Outsider
    /\ log[v].by \in Reqs => req[log[v].by].pc \in {"committed", "gitted", "ok", "failed"}
    /\ \A w \in 2 .. Len(log) : log[v].by = log[w].by => v = w

Typed == TypeOK /\ Linked /\ Wrote /\ Once

LEMMA UnusedTyped == Unused \in Req /\ Blank \in States /\ Nothing \in Copies
  BY TasksAssumption DEF Unused, Req, Pcs, Ops, Statuses, Blank, States, Nothing, Copies, Versions, NoReq, Reqs

LEMMA LatestTyped ==
  ASSUME TypeOK
  PROVE  Len(log) \in Nat \ {0} /\ Latest \in States /\ Server \in Copies
<1>1. Len(log) \in 1 .. MaxReqs + 2 /\ log \in Seq(Entry) /\ MaxReqs \in Nat
  BY TasksAssumption DEF TypeOK, Versions
<1>2. log[Len(log)] \in Entry
  BY <1>1
<1> QED
  BY <1>1, <1>2 DEF Latest, Entry, Server, Copies, Versions, TypeOK

\* Whoever has not written a version finds room for one.
LEMMA RoomLeft ==
  ASSUME TypeOK, Once, NEW x \in 1 .. Outsider, \A v \in 2 .. Len(log) : log[v].by # x
  PROVE  Len(log) + 1 \in Versions
<1> DEFINE S == 2 .. Len(log)
           T == (1 .. Outsider) \ {x}
           f == [v \in S |-> log[v].by]
<1>1. Len(log) \in Nat \ {0} /\ MaxReqs \in Nat /\ Outsider = MaxReqs + 1
  BY LatestTyped, TasksAssumption DEF Outsider
<1>2. f \in [S -> T]
  BY DEF Once
<1>3. \A v, w \in S : v # w => f[v] # f[w]
  BY DEF Once
<1>4. IsFiniteSet(S) /\ Cardinality(S) = Len(log) - 1
  <2>1. IsFiniteSet(2 .. Len(log)) /\ Cardinality(2 .. Len(log)) = IF 2 > Len(log) THEN 0 ELSE Len(log) - 2 + 1
    BY <1>1, FS_Interval
  <2> QED
    BY <1>1, <2>1
<1>5. IsFiniteSet(1 .. Outsider) /\ Cardinality(1 .. Outsider) = Outsider
  <2>1. IsFiniteSet(1 .. Outsider) /\ Cardinality(1 .. Outsider) = IF 1 > Outsider THEN 0 ELSE Outsider - 1 + 1
    BY <1>1, FS_Interval
  <2> QED
    BY <1>1, <2>1
<1>6. IsFiniteSet(T) /\ Cardinality(T) = MaxReqs
  <2>1. IsFiniteSet(T) /\ Cardinality(T) = Outsider - 1
    BY <1>5, FS_RemoveElement
  <2> QED
    BY <1>1, <2>1
<1>7. ~(Cardinality(T) < Cardinality(S))
  <2> SUFFICES ASSUME Cardinality(T) < Cardinality(S) PROVE FALSE
    OBVIOUS
  <2> HIDE DEF S, T, f
  <2>1. \E v, w \in S : v # w /\ f[v] = f[w]
    BY <1>2, <1>4, <1>6, FS_PigeonHole
  <2> QED
    BY <1>3, <2>1
<1> QED
  BY <1>1, <1>4, <1>6, <1>7 DEF Versions

-----------------------------------------------------------------------------
(* Types. *)

LEMMA TakenTyped ==
  ASSUME NEW q \in Queries, NEW a \in Copies, NEW c \in Copies
  PROVE  Taken(q, a, c) \in Copies
<1>1. CASE q = "state"
  BY <1>1 DEF Taken, Copies
<1>2. CASE q = "history"
  BY <1>2 DEF Taken, Copies
<1>3. CASE q = "project"
  BY <1>3 DEF Taken, Copies
<1> QED
  BY <1>1, <1>2, <1>3 DEF Queries

LEMMA InvalidateTyped ==
  ASSUME TypeOK, NEW qs \in SUBSET Queries, Invalidate(qs)
  PROVE  /\ fetch' \in [Queries -> {"idle", "sent", "answered"}]
         /\ answer' \in Copies /\ invalid' \in BOOLEAN
<1>1. fetch' \in [Queries -> {"idle", "sent", "answered"}] /\ invalid' \in BOOLEAN
  BY DEF Invalidate, TypeOK
<1>2. Blank \in States /\ 1 \in Versions /\ 0 \in Versions \cup {0}
  BY UnusedTyped, TasksAssumption DEF Versions
<1>3. answer' \in Copies
  BY <1>2 DEF Invalidate, TypeOK, Copies
<1> QED
  BY <1>1, <1>3

\* The steps of the cache.
LEMMA CacheTyped ==
  ASSUME TypeOK,
         (\E q \in Queries : Read(q) \/ Receive(q) \/ FetchFails(q)) \/ Refocus \/ OpenDetail \/ CloseDetail
  PROVE  TypeOK'
<1>1. ASSUME NEW q \in Queries, Read(q) PROVE TypeOK'
  <2>1. Taken(q, Server, answer) \in Copies
    BY LatestTyped, TakenTyped DEF TypeOK
  <2> QED
    BY <1>1, <2>1 DEF Read, TypeOK, server, Queries
<1>2. ASSUME NEW q \in Queries, Receive(q) PROVE TypeOK'
  <2>1. Taken(q, answer, copy) \in Copies /\ Taken(q, Nothing, answer) \in Copies
    BY UnusedTyped, TakenTyped DEF TypeOK
  <2> QED
    BY <1>2, <2>1 DEF Receive, TypeOK, server, Queries
<1>3. ASSUME NEW q \in Queries, FetchFails(q) PROVE TypeOK'
  BY <1>3 DEF FetchFails, Fault, TypeOK, server
<1>4. CASE Refocus
  BY <1>4 DEF Refocus, Fault, TypeOK, server
<1>5. CASE OpenDetail
  BY <1>5 DEF OpenDetail, TypeOK, server, Queries
<1>6. CASE CloseDetail
  BY <1>6 DEF CloseDetail, TypeOK, server, cache, Queries
<1> QED
  BY <1>1, <1>2, <1>3, <1>4, <1>5, <1>6

LEMMA ReqTyped ==
  ASSUME TypeOK, NEW r \in Reqs
  PROVE  /\ req[r] \in Req
         /\ req[r].pc \in Pcs /\ req[r].op \in Ops /\ req[r].task \in Tasks /\ req[r].prev \in States
         /\ req[r].ver \in Versions \cup {0} /\ req[r].base \in Versions \cup {0}
  BY DEF TypeOK, Req

\* The requests the page sends.
LEMMA UseTyped ==
  ASSUME TypeOK, NEW r \in Reqs, Use(r)
  PROVE  TypeOK'
<1>0. copy.tasks \in States
  BY DEF TypeOK, Copies
<1>1. ASSUME NEW t \in Tasks, Toggle(r, t) PROVE TypeOK'
  <2>1. [Unused EXCEPT !.pc = "sent", !.task = t, !.prev = copy.tasks] \in Req
    BY <1>0, UnusedTyped DEF Req, Pcs
  <2>2. Taken("history", Nothing, answer) \in Copies
    BY UnusedTyped, TakenTyped DEF TypeOK, Queries
  <2>3. Taken("state", Nothing, Taken("history", Nothing, answer)) \in Copies
    BY <2>2, UnusedTyped, TakenTyped DEF Queries
  <2>4. [copy EXCEPT !.tasks[t] = "done"] \in Copies
    BY <1>0 DEF TypeOK, Copies, States, Statuses
  <2> QED
    BY <1>1, <2>1, <2>3, <2>4 DEF Toggle, TypeOK, server
<1>2. ASSUME NEW t \in Tasks, NEW s \in Statuses, CallTool(r, t, s) PROVE TypeOK'
  <2>1. [Unused EXCEPT !.op = "tool", !.pc = "sent", !.task = t, !.status = s] \in Req
    BY UnusedTyped DEF Req, Pcs, Ops
  <2> QED
    BY <1>2, <2>1 DEF CallTool, TypeOK, server, cache
<1>3. ASSUME NEW s \in Reqs, Undo(r, s) PROVE TypeOK'
  <2>0. req[s].task \in Tasks
    BY ReqTyped
  <2>1. [Unused EXCEPT !.op = "undo", !.pc = "sent", !.task = req[s].task, !.of = s] \in Req
    BY <2>0, UnusedTyped DEF Req, Pcs, Ops
  <2> QED
    BY <1>3, <2>1 DEF Undo, TypeOK, server, cache
<1>4. CASE Dismiss(r)
  <2>1. [Unused EXCEPT !.op = "dismiss", !.pc = "sent"] \in Req
    BY UnusedTyped DEF Req, Pcs, Ops
  <2> QED
    BY <1>4, <2>1 DEF Dismiss, TypeOK, server, cache
<1> QED
  BY <1>1, <1>2, <1>3, <1>4 DEF Use

\* The answers the page hears, or does not.
LEMMA HearTyped ==
  ASSUME TypeOK, Linked, NEW r \in Reqs, Hear(r) \/ Fail(r) \/ Pass(r)
  PROVE  TypeOK'
<1>0. req[r] \in Req /\ req[r].prev \in States /\ Blank \in States
  BY ReqTyped, UnusedTyped
<1>1. ASSUME NEW ok \in BOOLEAN, Settled(r, ok) PROVE
        /\ copy' \in Copies /\ answer' \in Copies /\ invalid' \in BOOLEAN
        /\ fetch' \in [Queries -> {"idle", "sent", "answered"}]
  <2>1. Refetched(ok) \in SUBSET Queries
    BY DEF Refetched, Queries
  <2>2. copy' \in Copies
    BY <1>0, <1>1 DEF Settled, TypeOK, Copies
  <2> QED
    BY <1>1, <2>1, <2>2, InvalidateTyped DEF Settled
<1>2. CASE Settle(r)
  <2>1. [req[r] EXCEPT !.client = "answered", !.prev = Blank] \in Req
    BY <1>0 DEF Req
  <2> QED
    BY <1>1, <1>2, <2>1 DEF Settle, TypeOK, server
<1>3. CASE LoseToggle(r)
  <2>1. [req[r] EXCEPT !.client = "gone", !.prev = Blank] \in Req
    BY <1>0 DEF Req
  <2>2. faults' \in Nat
    BY <1>3 DEF LoseToggle, Fault, TypeOK
  <2> QED
    BY <1>1, <1>3, <2>1, <2>2 DEF LoseToggle, TypeOK, server
<1>4. CASE ShowCard(r)
  <2>1. /\ [req[r] EXCEPT !.client = "answered"] \in Req
        /\ [req[r] EXCEPT !.client = "gone"] \in Req
    BY <1>0 DEF Req
  <2>2. faults' \in Nat
    BY <1>4 DEF ShowCard, Fault, TypeOK
  <2>3. req' \in [Reqs -> Req] /\ card' \in [Reqs -> {"none", "active", "undone", "over"}]
    BY <1>4, <2>1 DEF ShowCard, TypeOK
  <2> QED
    BY <1>4, <2>2, <2>3 DEF ShowCard, TypeOK, server, cache
<1>5. CASE HearUndo(r)
  <2>1. req[r].of \in Reqs
    BY <1>5 DEF HearUndo, Linked
  <2> QED
    BY <1>0, <1>5, <2>1 DEF HearUndo, TypeOK, server, cache, Req
<1>6. CASE Dismissed(r)
  <2>1. Queries \in SUBSET Queries
    OBVIOUS
  <2> QED
    BY <1>0, <1>6, <2>1, InvalidateTyped DEF Dismissed, TypeOK, server, Req
<1>7. CASE LoseUndo(r)
  <2>1. [req[r] EXCEPT !.client = "gone"] \in Req
    BY <1>0 DEF Req
  <2>2. faults' \in Nat
    BY <1>7 DEF LoseUndo, Fault, TypeOK
  <2> QED
    BY <1>7, <2>1, <2>2 DEF LoseUndo, TypeOK, server, cache
<1>8. CASE GitFails(r)
  <2>1. faults' \in Nat
    BY <1>8 DEF GitFails, Fault, TypeOK
  <2>2. req' \in [Reqs -> Req]
    BY <1>0, <1>8 DEF GitFails, Goes, TypeOK, Req, Pcs
  <2> QED
    BY <1>8, <2>1, <2>2 DEF GitFails, TypeOK, server, cache
<1>9. CASE Expire(r) \/ CardExpires(r)
  BY <1>9 DEF Expire, CardExpires, TypeOK, server, cache
<1> QED
  BY <1>2, <1>3, <1>4, <1>5, <1>6, <1>7, <1>8, <1>9 DEF Hear, Fail, Pass

\* The status a request writes is one.
LEMMA WrittenTyped ==
  ASSUME TypeOK, Linked, NEW r \in Reqs, req[r].pc = "read"
  PROVE  Written(r) \in Statuses
<1>1. CASE req[r].op = "undo"
  BY <1>1 DEF Written, Linked
<1>2. CASE req[r].op # "undo"
  BY <1>2, ReqTyped DEF Written, Req
<1> QED
  BY <1>1, <1>2

LEMMA ServeTyped ==
  ASSUME Typed, NEW r \in Reqs, Serve(r)
  PROVE  TypeOK'
<1>0. TypeOK /\ req[r] \in Req /\ Latest \in States /\ Len(log) \in Nat \ {0} /\ Len(log) \in Versions
  BY ReqTyped, LatestTyped DEF Typed, TypeOK
<1>1. CASE ServeDismiss(r)
  BY <1>0, <1>1 DEF ServeDismiss, Goes, TypeOK, cache, Req, Pcs
<1>2. CASE GetToken(r)
  BY <1>0, <1>2 DEF GetToken, Goes, TypeOK, server, cache, Req, Pcs
<1>3. CASE SpendToken(r)
  BY <1>0, <1>3 DEF SpendToken, Goes, TypeOK, cache, Req, Pcs
<1>4. CASE ReadTask(r)
  <2>1. Latest[req[r].task] \in Statuses
    BY <1>0 DEF States, Req
  <2> DEFINE found == [req[r] EXCEPT !.pc = "read", !.base = Len(log), !.old = Latest[req[r].task]]
  <2>2. /\ [req[r] EXCEPT !.pc = "refused"] \in Req
        /\ [req[r] EXCEPT !.pc = "failed"] \in Req
    BY <1>0 DEF Req, Pcs
  <2>3. found \in Req
    BY <1>0, <2>1 DEF Req, Pcs
  <2>4. \/ req' = [req EXCEPT ![r] = [req[r] EXCEPT !.pc = "refused"]]
        \/ req' = [req EXCEPT ![r] = [req[r] EXCEPT !.pc = "failed"]]
        \/ req' = [req EXCEPT ![r] = found]
    BY <1>0, <1>4 DEF ReadTask, TypeOK
  <2> HIDE DEF found
  <2>5. req' \in [Reqs -> Req]
    BY <1>0, <2>2, <2>3, <2>4 DEF TypeOK
  <2> QED
    BY <1>0, <1>4, <2>5 DEF ReadTask, TypeOK, server, cache
<1>5. CASE Commit(r)
  <2>1. CASE Len(log) = req[r].base
    <3>1. \A v \in 2 .. Len(log) : log[v].by # r
      BY <1>5 DEF Commit, Typed, Once
    <3>2. r \in 1 .. Outsider /\ r \in 0 .. Outsider
      BY TasksAssumption DEF Reqs, Outsider
    <3>3. Len(log) + 1 \in Versions
      BY <3>1, <3>2, RoomLeft DEF Typed
    <3>4. [tasks |-> [Latest EXCEPT ![req[r].task] = Written(r)], by |-> r] \in Entry
      BY <1>0, <1>5, <3>2, WrittenTyped DEF Typed, Entry, States, Commit
    <3>5. log' \in Seq(Entry) /\ Len(log') \in Versions
      <4> DEFINE e == [tasks |-> [Latest EXCEPT ![req[r].task] = Written(r)], by |-> r]
      <4>1. log' = Append(log, e) /\ e \in Entry
        BY <1>5, <2>1, <3>4 DEF Commit
      <4> HIDE DEF e
      <4>2. log \in Seq(Entry)
        BY <1>0 DEF TypeOK
      <4> QED
        BY <1>0, <3>3, <4>1, <4>2
    <3>6. req' \in [Reqs -> Req]
      <4>1. req' = [req EXCEPT ![r] = [@ EXCEPT !.pc = "committed", !.ver = Len(log) + 1]]
        BY <1>0, <1>5, <2>1 DEF Commit, TypeOK
      <4>2. [req[r] EXCEPT !.pc = "committed", !.ver = Len(log) + 1] \in Req
        BY <1>0, <3>3 DEF Req, Pcs
      <4> QED
        BY <1>0, <4>1, <4>2 DEF TypeOK
    <3>7. briefing' \in Versions /\ behind' \subseteq Queries
      <4>1. briefing' = briefing \/ briefing' = Len(log) + 1
        BY <1>5, <2>1 DEF Commit
      <4>2. behind' \subseteq behind \cup {"state", "history", "project"}
        BY <1>5, <2>1 DEF Commit, Untold
      <4> QED
        BY <1>0, <3>3, <4>1, <4>2 DEF TypeOK, Queries
    <3> QED
      BY <1>0, <1>5, <3>5, <3>6, <3>7 DEF Commit, TypeOK, cache
  <2>2. CASE Len(log) # req[r].base
    <3>1. [req[r] EXCEPT !.pc = "failed"] \in Req
      BY <1>0 DEF Req, Pcs
    <3>2. req' \in [Reqs -> Req]
      BY <1>0, <1>5, <2>2, <3>1 DEF Commit, Goes, TypeOK
    <3> QED
      BY <1>0, <1>5, <2>2, <3>2 DEF Commit, TypeOK, cache
  <2> QED
    BY <2>1, <2>2
<1>6. CASE GitCommit(r)
  <2>1. req[r].ver \in Versions
    <3>1. req[r].ver \in 1 .. Len(log)
      <4>1. req[r].op # "dismiss"
        BY <1>6 DEF GitCommit, Typed, Linked
      <4> QED
        BY <1>6, <4>1 DEF GitCommit, Typed, Wrote
    <3> QED
      BY <1>0, <3>1, TasksAssumption DEF Versions
  <2> QED
    BY <1>0, <1>6, <2>1 DEF GitCommit, Goes, TypeOK, cache, Req, Pcs
<1>7. CASE Brief(r)
  <2>1. req[r].ver \in 1 .. Len(log)
    BY <1>7 DEF Brief, At, Typed, Wrote
  <2>2. req[r].ver \in Versions
    BY <1>0, <2>1, TasksAssumption DEF Versions
  <2> QED
    BY <1>0, <1>7, <2>2 DEF Brief, Goes, TypeOK, cache, Req, Pcs, Queries
<1>8. CASE SetToken(r)
  BY <1>0, <1>8 DEF SetToken, Goes, TypeOK, cache, Req, Pcs
<1> QED
  BY <1>1, <1>2, <1>3, <1>4, <1>5, <1>6, <1>7, <1>8 DEF Serve

LEMMA RemoveTyped ==
  ASSUME Typed, NEW t \in Tasks, RemoveTask(t)
  PROVE  TypeOK'
<1>0. TypeOK /\ Latest \in States /\ Len(log) \in Nat \ {0}
  BY LatestTyped DEF Typed
<1>1. Outsider \in 1 .. Outsider /\ Outsider \in 0 .. Outsider
  BY TasksAssumption DEF Outsider
<1>2. Len(log) + 1 \in Versions
  BY <1>0, <1>1, RoomLeft DEF Typed, RemoveTask
<1>3. [tasks |-> [Latest EXCEPT ![t] = "gone"], by |-> Outsider] \in Entry
  BY <1>0, <1>1 DEF Entry, States, Statuses
<1>4. log' \in Seq(Entry) /\ Len(log') \in Versions /\ git' \subseteq Versions
  BY <1>0, <1>2, <1>3 DEF RemoveTask, TypeOK
<1>5. {"state", "history"} \in SUBSET Queries
  BY DEF Queries
<1> QED
  BY <1>0, <1>4, <1>5, InvalidateTyped DEF RemoveTask, TypeOK

LEMMA TypeOKNext == Typed /\ [Next]_vars => TypeOK'
<1> SUFFICES ASSUME Typed, [Next]_vars PROVE TypeOK'
  OBVIOUS
<1>1. CASE UNCHANGED vars
  BY <1>1 DEF vars, server, cache, Typed, TypeOK
<1> QED
  BY <1>1, CacheTyped, UseTyped, HearTyped, ServeTyped, RemoveTyped DEF Typed, Next


-----------------------------------------------------------------------------
(* What a step does to a request, a card, a token and the log.             *)

\* All of a request but what its page knows of it.
Same(r) == /\ req'[r].op = req[r].op /\ req'[r].pc = req[r].pc /\ req'[r].of = req[r].of
           /\ req'[r].ver = req[r].ver /\ req'[r].old = req[r].old
           /\ req[r].client # "waits" => req'[r].client # "waits"

Sent(r) == /\ req[r].pc = "idle" /\ req'[r].pc = "sent" /\ req'[r].ver = 0 /\ req'[r].client = "waits"
           /\ req'[r].op = "undo" => req'[r].of \in Reqs /\ MayUndo(req'[r].of)

LEMMA ReqMoves ==
  ASSUME TypeOK, [Next]_vars, NEW r \in Reqs
  PROVE  Same(r) \/ Sent(r) \/ Serve(r) \/ GitFails(r)
<1>0. req \in [Reqs -> Req]
  BY DEF TypeOK
<1>1. ASSUME NEW s \in Reqs, Use(s) PROVE Same(r) \/ Sent(r)
  <2>1. ASSUME NEW t \in Tasks, Toggle(s, t) PROVE Same(r) \/ Sent(r)
    BY <1>0, <2>1 DEF Toggle, Unspent, Unused, Same, Sent
  <2>2. ASSUME NEW t \in Tasks, NEW x \in Statuses, CallTool(s, t, x) PROVE Same(r) \/ Sent(r)
    BY <1>0, <2>2 DEF CallTool, Unspent, Unused, Same, Sent
  <2>3. ASSUME NEW u \in Reqs, Undo(s, u) PROVE Same(r) \/ Sent(r)
    BY <1>0, <2>3 DEF Undo, Unspent, Unused, Same, Sent
  <2>4. CASE Dismiss(s)
    BY <1>0, <2>4 DEF Dismiss, Unspent, Unused, Same, Sent
  <2> QED
    BY <1>1, <2>1, <2>2, <2>3, <2>4 DEF Use
<1>2. ASSUME NEW s \in Reqs, Hear(s) \/ LoseToggle(s) \/ LoseUndo(s) \/ Pass(s) PROVE Same(r)
  <2>1. CASE Settle(s) \/ LoseToggle(s)
    <3>1. PICK x \in {"answered", "gone"} : req' = [req EXCEPT ![s] = [@ EXCEPT !.client = x, !.prev = Blank]]
      BY <1>0, <2>1 DEF Settle, LoseToggle
    <3>2. req[r] \in Req /\ req'[r] \in {req[r], [req[r] EXCEPT !.client = x, !.prev = Blank]}
      BY <1>0, <3>1
    <3>3. [req[r] EXCEPT !.client = x, !.prev = Blank].client # "waits"
      BY <3>2 DEF Req
    <3> QED
      BY <3>2, <3>3 DEF Same, Req
  <2>2. CASE ShowCard(s)
    BY <1>0, <2>2 DEF ShowCard, Same, Req
  <2>3. CASE HearUndo(s) \/ LoseUndo(s)
    BY <1>0, <2>3 DEF HearUndo, LoseUndo, Same, Req
  <2>4. CASE Dismissed(s)
    BY <1>0, <2>4 DEF Dismissed, Same
  <2>5. CASE Pass(s)
    BY <1>0, <2>5 DEF Pass, Expire, CardExpires, Same
  <2> QED
    BY <1>2, <2>1, <2>2, <2>3, <2>4, <2>5 DEF Hear
<1>3. ASSUME NEW s \in Reqs \ {r}, Serve(s) \/ GitFails(s) PROVE Same(r)
  BY <1>0, <1>3 DEF Serve, ServeDismiss, GetToken, SpendToken, ReadTask, Commit, GitCommit, Brief, SetToken, GitFails,
                    Goes, Same
<1>4. CASE req' = req
  BY <1>0, <1>4 DEF Same
<1>5. ASSUME (\E q \in Queries : Read(q) \/ Receive(q) \/ FetchFails(q)) \/ Refocus \/ OpenDetail \/ CloseDetail
             \/ \E t \in Tasks : RemoveTask(t)
      PROVE  req' = req
  BY <1>5 DEF Read, Receive, FetchFails, Refocus, OpenDetail, CloseDetail, RemoveTask
<1> QED
  BY <1>1, <1>2, <1>3, <1>4, <1>5 DEF Next, Fail, vars

LEMMA LogMoves ==
  ASSUME TypeOK, [Next]_vars
  PROVE  \/ log' = log
         \/ \E r \in Reqs : Commit(r) /\ Len(log) = req[r].base
         \/ \E t \in Tasks : RemoveTask(t)
<1>1. ASSUME NEW r \in Reqs, Use(r) \/ Hear(r) \/ Fail(r) \/ Pass(r) PROVE log' = log
  BY <1>1 DEF Use, Toggle, CallTool, Undo, Dismiss, Hear, Settle, ShowCard, HearUndo, Dismissed, Fail, LoseToggle,
              LoseUndo, GitFails, Pass, Expire, CardExpires, server
<1>2. ASSUME NEW r \in Reqs, Serve(r) PROVE log' = log \/ (Commit(r) /\ Len(log) = req[r].base)
  BY <1>2 DEF Serve, ServeDismiss, GetToken, SpendToken, ReadTask, Commit, GitCommit, Brief, SetToken, server
<1>3. ASSUME (\E q \in Queries : Read(q) \/ Receive(q) \/ FetchFails(q)) \/ Refocus \/ OpenDetail \/ CloseDetail
      PROVE  log' = log
  BY <1>3 DEF Read, Receive, FetchFails, Refocus, OpenDetail, CloseDetail, server
<1>4. CASE UNCHANGED vars
  BY <1>4 DEF vars, server
<1> QED
  BY <1>1, <1>2, <1>3, <1>4 DEF Next

LEMMA GitGrows ==
  ASSUME [Next]_vars
  PROVE  git \subseteq git'
<1>1. ASSUME NEW r \in Reqs, Use(r) \/ Hear(r) \/ Fail(r) \/ Pass(r) PROVE git' = git
  BY <1>1 DEF Use, Toggle, CallTool, Undo, Dismiss, Hear, Settle, ShowCard, HearUndo, Dismissed, Fail, LoseToggle,
              LoseUndo, GitFails, Pass, Expire, CardExpires, server
<1>2. ASSUME NEW r \in Reqs, Serve(r) PROVE git \subseteq git'
  BY <1>2 DEF Serve, ServeDismiss, GetToken, SpendToken, ReadTask, Commit, GitCommit, Brief, SetToken, server
<1>3. ASSUME (\E q \in Queries : Read(q) \/ Receive(q) \/ FetchFails(q)) \/ Refocus \/ OpenDetail \/ CloseDetail
             \/ \E t \in Tasks : RemoveTask(t)
      PROVE  git \subseteq git'
  BY <1>3 DEF Read, Receive, FetchFails, Refocus, OpenDetail, CloseDetail, RemoveTask, server
<1>4. CASE UNCHANGED vars
  BY <1>4 DEF vars, server
<1> QED
  BY <1>1, <1>2, <1>3, <1>4 DEF Next

\* A card and a token come to a change once, and no token comes back.
CardStep(r) ==
    /\ card[r] # "none" => card'[r] # "none"
    /\ card'[r] # "none" => card[r] # "none" \/ (req[r].op = "tool" /\ req[r].pc = "ok" /\ req'[r].client # "waits")
    /\ token[r] # "none" => token'[r] # "none"
    /\ token'[r] = "live" => token[r] = "live" \/ (req[r].op = "tool" /\ req[r].pc = "gitted")
    /\ card'[r] = "active" => card[r] = "active" \/ (req[r].op = "tool" /\ req[r].client = "waits")

LEMMA CardMoves ==
  ASSUME TypeOK, Linked, [Next]_vars, NEW r \in Reqs
  PROVE  CardStep(r)
<1>0. /\ card \in [Reqs -> {"none", "active", "undone", "over"}] /\ token \in [Reqs -> {"none", "live", "over"}]
      /\ req \in [Reqs -> Req]
  BY DEF TypeOK
<1>1. ASSUME NEW s \in Reqs, Use(s) PROVE UNCHANGED <<card, token>>
  BY <1>1 DEF Use, Toggle, CallTool, Undo, Dismiss, server
<1>2. ASSUME NEW s \in Reqs, ShowCard(s) PROVE CardStep(r)
  BY <1>0, <1>2 DEF ShowCard, At, server, CardStep, Req
<1>3. ASSUME NEW s \in Reqs, HearUndo(s) PROVE CardStep(r)
  <2>1. \/ card' = card
        \/ card' = [card EXCEPT ![req[s].of] = "undone"] /\ card[req[s].of] # "none"
    BY <1>3 DEF HearUndo, Linked
  <2> QED
    BY <1>0, <1>3, <2>1 DEF HearUndo, server, CardStep
<1>4. ASSUME NEW s \in Reqs, Settle(s) \/ Dismissed(s) \/ Fail(s) PROVE UNCHANGED <<card, token>>
  BY <1>4 DEF Settle, Dismissed, Fail, LoseToggle, LoseUndo, GitFails, server
<1>5. ASSUME NEW s \in Reqs, Pass(s) PROVE CardStep(r)
  BY <1>0, <1>5 DEF Pass, Expire, CardExpires, CardStep, server
<1>6. ASSUME NEW s \in Reqs, SpendToken(s) \/ SetToken(s) PROVE CardStep(r)
  BY <1>0, <1>6 DEF SpendToken, SetToken, At, CardStep
<1>7. ASSUME NEW s \in Reqs, Serve(s) PROVE UNCHANGED <<card, token>> \/ SpendToken(s) \/ SetToken(s)
  BY <1>7 DEF Serve, ServeDismiss, GetToken, ReadTask, Commit, GitCommit, Brief, server
<1>8. ASSUME (\E q \in Queries : Read(q) \/ Receive(q) \/ FetchFails(q)) \/ Refocus \/ OpenDetail \/ CloseDetail
             \/ \E t \in Tasks : RemoveTask(t)
      PROVE  UNCHANGED <<card, token>>
  BY <1>8 DEF Read, Receive, FetchFails, Refocus, OpenDetail, CloseDetail, RemoveTask, server
<1>9. CASE UNCHANGED <<card, token>>
  BY <1>9 DEF CardStep
<1>10. UNCHANGED vars => UNCHANGED <<card, token>>
  BY DEF vars, server
<1> QED
  BY <1>1, <1>2, <1>3, <1>4, <1>5, <1>6, <1>7, <1>8, <1>9, <1>10 DEF Next, Hear

\* The server goes through its steps in order.
Served(r) ==
    /\ req'[r].op = req[r].op /\ req'[r].of = req[r].of /\ req'[r].client = req[r].client
    /\ req[r].op = "dismiss" => req[r].pc = "sent" /\ req'[r].pc = "ok"
    /\ req[r].op # "dismiss" =>
          /\ req[r].pc = "sent" => req'[r].pc \in {"got", "read", "failed"}
          /\ req[r].pc = "got" => req'[r].pc = "spent"
          /\ req[r].pc = "spent" => req'[r].pc \in {"read", "refused"}
          /\ req[r].pc = "read" => req'[r].pc \in {"committed", "failed"}
          /\ req[r].pc = "committed" => req'[r].pc \in {"gitted", "ok", "failed"}
          /\ req[r].pc = "gitted" => req'[r].pc = "ok"
          /\ req[r].pc \in {"sent", "got", "spent", "read", "committed", "gitted"}
    /\ req'[r].pc = "read" => req'[r].old \in Statuses
    /\ req'[r].pc # "read" => req'[r].old = req[r].old
    /\ IF req'[r].pc = "committed" THEN Commit(r) /\ Len(log) = req[r].base /\ req'[r].ver = Len(log) + 1
                                   ELSE req'[r].ver = req[r].ver
    /\ req[r].pc = "committed" /\ req'[r].pc # "failed" => req[r].ver \in git'
    /\ req[r].op = "tool" /\ req'[r].pc = "ok" => token'[r] = "live"
    /\ req[r].op = "undo" => /\ req'[r].pc = "got" => token[req[r].of] = "live"
                             /\ req'[r].pc = "spent" => token'[req[r].of] # "live"
                             /\ req[r].pc = "sent" => req'[r].pc \in {"got", "failed"}
                             /\ req'[r].pc = "failed" /\ req[r].pc = "sent" => token[req[r].of] # "live"

LEMMA ServeMoves ==
  ASSUME TypeOK, Linked, NEW r \in Reqs, Serve(r) \/ GitFails(r)
  PROVE  Served(r)
<1>0. /\ req[r] \in Req /\ req \in [Reqs -> Req] /\ token \in [Reqs -> {"none", "live", "over"}]
      /\ req[r].op = "dismiss" => req[r].pc \in {"sent", "ok"}
      /\ req[r].op = "undo" => req[r].of \in Reqs
  BY ReqTyped DEF TypeOK, Linked
<1>1. CASE ServeDismiss(r)
  BY <1>0, <1>1 DEF ServeDismiss, At, Goes, Served, Req
<1>2. CASE GetToken(r)
  BY <1>0, <1>2 DEF GetToken, At, Goes, Served, Req
<1>3. CASE SpendToken(r)
  BY <1>0, <1>3 DEF SpendToken, At, Goes, Served, Req
<1>4. CASE ReadTask(r)
  <2>1. Latest[req[r].task] \in Statuses
    BY LatestTyped, ReqTyped DEF States
  <2>2. CASE Latest[req[r].task] = "gone"
    BY <1>0, <1>4, <2>2 DEF ReadTask, At, Served, Req
  <2>3. CASE Latest[req[r].task] # "gone"
    <3>1. req'[r] = [req[r] EXCEPT !.pc = "read", !.base = Len(log), !.old = Latest[req[r].task]]
      BY <1>0, <1>4, <2>3 DEF ReadTask
    <3> QED
      BY <1>0, <1>4, <2>1, <3>1 DEF ReadTask, At, Served, Req
  <2> QED
    BY <2>2, <2>3
<1>5. CASE Commit(r)
  <2>1. CASE Len(log) = req[r].base
    <3>1. req'[r] = [req[r] EXCEPT !.pc = "committed", !.ver = Len(log) + 1] /\ req[r].pc = "read"
      BY <1>0, <1>5, <2>1 DEF Commit
    <3> QED
      BY <1>0, <1>5, <2>1, <3>1 DEF Served, Req
  <2>2. CASE Len(log) # req[r].base
    BY <1>0, <1>5, <2>2 DEF Commit, Goes, Served, Req
  <2> QED
    BY <2>1, <2>2
<1>6. CASE GitCommit(r)
  BY <1>0, <1>6 DEF GitCommit, Goes, Served, Req
<1>7. CASE Brief(r)
  BY <1>0, <1>7 DEF Brief, At, Goes, Served, Req
<1>8. CASE SetToken(r)
  BY <1>0, <1>8 DEF SetToken, At, Goes, Served, Req
<1>9. CASE GitFails(r)
  <2>1. req[r].pc = "committed" /\ req'[r] = [req[r] EXCEPT !.pc = "failed"]
    BY <1>0, <1>9 DEF GitFails, Goes
  <2> QED
    BY <1>0, <2>1 DEF Served, Req
<1> QED
  BY <1>1, <1>2, <1>3, <1>4, <1>5, <1>6, <1>7, <1>8, <1>9 DEF Serve

LEMMA LinkedNext ==
  ASSUME TypeOK, Linked, [Next]_vars
  PROVE  Linked'
<1> SUFFICES ASSUME NEW r \in Reqs
    PROVE  /\ req'[r].pc = "idle" => req'[r].op = "toggle" /\ req'[r].ver = 0
           /\ req'[r].op = "dismiss" => req'[r].pc \in {"sent", "ok"}
           /\ req'[r].op = "undo" => req'[r].of \in Reqs /\ card'[req'[r].of] # "none"
           /\ card'[r] # "none" => req'[r].op = "tool" /\ req'[r].pc = "ok" /\ req'[r].client # "waits"
           /\ req'[r].op = "tool" /\ req'[r].pc = "ok" => token'[r] # "none"
           /\ req'[r].op # "dismiss" /\ req'[r].pc \in {"read", "committed", "gitted", "ok"} => req'[r].old \in Statuses
  BY DEF Linked
<1>0. req[r].pc \in Pcs /\ CardStep(r) /\ (\A x \in Reqs : CardStep(x))
  BY ReqTyped, CardMoves
<1>1. CASE Same(r)
  <2>1. card'[r] # "none" => req[r].op = "tool" /\ req[r].pc = "ok" /\ req'[r].client # "waits"
    BY <1>0, <1>1 DEF Linked, CardStep, Same
  <2>2. req[r].op = "undo" => req[r].of \in Reqs /\ card'[req[r].of] # "none"
    BY <1>0 DEF Linked, CardStep
  <2>3. req[r].op = "tool" /\ req[r].pc = "ok" => token'[r] # "none"
    BY <1>0 DEF Linked, CardStep
  <2> QED
    BY <1>1, <2>1, <2>2, <2>3 DEF Linked, Same
<1>2. CASE Sent(r)
  <2>1. card'[r] = "none"
    BY <1>0, <1>2 DEF Linked, CardStep, Sent
  <2>2. req'[r].op = "undo" => req'[r].of \in Reqs /\ card'[req'[r].of] # "none"
    BY <1>0, <1>2 DEF Sent, MayUndo, CardStep
  <2> QED
    BY <1>2, <2>1, <2>2 DEF Sent
<1>3. CASE Serve(r) \/ GitFails(r)
  <2>1. Served(r)
    BY <1>3, ServeMoves
  <2>2. card'[r] = "none"
    BY <1>0, <2>1 DEF Linked, CardStep, Served
  <2>3. req[r].op = "undo" => req[r].of \in Reqs /\ card'[req[r].of] # "none"
    BY <1>0 DEF Linked, CardStep
  <2>4. req'[r].op # "dismiss" /\ req'[r].pc \in {"read", "committed", "gitted", "ok"} => req'[r].old \in Statuses
    BY <2>1 DEF Linked, Served
  <2> QED
    BY <2>1, <2>2, <2>3, <2>4 DEF Served
<1> QED
  BY <1>1, <1>2, <1>3, ReqMoves

LEMMA WroteNext ==
  ASSUME TypeOK, Linked, Wrote, [Next]_vars
  PROVE  Wrote'
<1>0. Len(log) \in Nat \ {0} /\ log \in Seq(Entry)
  BY LatestTyped DEF TypeOK
<1>1. ASSUME NEW v \in 1 .. Len(log) PROVE v \in 1 .. Len(log') /\ log'[v] = log[v]
  <2>1. ASSUME NEW e, log' = Append(log, e) PROVE v \in 1 .. Len(log') /\ log'[v] = log[v]
    BY <1>0, <2>1
  <2>2. log' = log \/ \E e : log' = Append(log, e)
    BY LogMoves DEF Commit, RemoveTask
  <2> QED
    BY <2>1, <2>2
<1>2. ASSUME NEW r \in Reqs, req'[r].op # "dismiss"
      PROVE  /\ req'[r].pc \in {"committed", "gitted", "ok"} => req'[r].ver \in 1 .. Len(log') /\ log'[req'[r].ver].by = r
             /\ req'[r].pc \in {"gitted", "ok"} => req'[r].ver \in git'
  <2>1. CASE Same(r)
    BY <1>1, <1>2, <2>1, GitGrows DEF Wrote, Same
  <2>2. CASE Sent(r)
    BY <2>2 DEF Sent
  <2>3. CASE Serve(r) \/ GitFails(r)
    <3>1. Served(r)
      BY <2>3, ServeMoves
    <3>2. CASE req'[r].pc = "committed"
      <4>1. Commit(r) /\ Len(log) = req[r].base /\ req'[r].ver = Len(log) + 1
        BY <3>1, <3>2 DEF Served
      <4>2. PICK x : log' = Append(log, [tasks |-> x, by |-> r])
        BY <4>1 DEF Commit
      <4>3. Len(log') = Len(log) + 1 /\ log'[Len(log) + 1] = [tasks |-> x, by |-> r]
        BY <1>0, <4>2
      <4> QED
        BY <1>0, <3>2, <4>1, <4>3
    <3>3. CASE req'[r].pc \in {"gitted", "ok"}
      <4>1. req[r].pc \in {"committed", "gitted"} /\ req[r].op # "dismiss" /\ req'[r].ver = req[r].ver
        BY <1>2, <3>1, <3>3 DEF Served
      <4>2. req[r].ver \in 1 .. Len(log) /\ log[req[r].ver].by = r
        BY <4>1 DEF Wrote
      <4>3. req[r].ver \in git'
        BY <3>1, <3>3, <4>1, GitGrows DEF Wrote, Served
      <4> QED
        BY <1>1, <4>1, <4>2, <4>3
    <3> QED
      BY <3>2, <3>3
  <2> QED
    BY <2>1, <2>2, <2>3, ReqMoves
<1> QED
  BY <1>2 DEF Wrote

LEMMA OnceNext ==
  ASSUME TypeOK, Linked, Once, [Next]_vars
  PROVE  Once'
<1>0. Len(log) \in Nat \ {0} /\ log \in Seq(Entry) /\ MaxReqs \in Nat /\ Outsider = MaxReqs + 1
  BY LatestTyped, TasksAssumption DEF TypeOK, Outsider
<1>1. ASSUME NEW r \in Reqs, req[r].pc \in {"committed", "gitted", "ok", "failed"}
      PROVE  req'[r].pc \in {"committed", "gitted", "ok", "failed"}
  BY <1>1, ReqMoves, ServeMoves DEF Same, Sent, Served
<1>2. CASE log' = log
  BY <1>1, <1>2 DEF Once
<1>3. ASSUME NEW x \in 1 .. Outsider, NEW e, log' = Append(log, e), e.by = x,
             \A v \in 2 .. Len(log) : log[v].by # x,
             x \in Reqs => req'[x].pc \in {"committed", "gitted", "ok", "failed"}
      PROVE  Once'
  <2>1. Len(log') = Len(log) + 1 /\ log'[Len(log) + 1] = e /\ \A v \in 1 .. Len(log) : log'[v] = log[v]
    BY <1>0, <1>3
  <2>2. \A v \in 2 .. Len(log') : v \in 2 .. Len(log) \/ v = Len(log) + 1
    BY <1>0, <2>1
  <2>3. ASSUME NEW v \in 2 .. Len(log'), v # Len(log) + 1 PROVE v \in 2 .. Len(log) /\ log'[v] = log[v]
    BY <1>0, <2>1, <2>2, <2>3
  <2>4. ASSUME NEW v \in 2 .. Len(log')
        PROVE  /\ log'[v].by \in 1 .. Outsider
               /\ log'[v].by \in Reqs => req'[log'[v].by].pc \in {"committed", "gitted", "ok", "failed"}
    BY <1>1, <1>3, <2>1, <2>3 DEF Once
  <2>5. ASSUME NEW v \in 2 .. Len(log'), NEW w \in 2 .. Len(log'), log'[v].by = log'[w].by
        PROVE  v = w
    <3>1. CASE v # Len(log) + 1 /\ w # Len(log) + 1
      BY <2>3, <2>5, <3>1 DEF Once
    <3>2. CASE v = Len(log) + 1 /\ w # Len(log) + 1
      BY <1>3, <2>1, <2>3, <2>5, <3>2
    <3>3. CASE v # Len(log) + 1 /\ w = Len(log) + 1
      BY <1>3, <2>1, <2>3, <2>5, <3>3
    <3> QED
      BY <3>1, <3>2, <3>3
  <2> QED
    BY <2>4, <2>5 DEF Once
<1>4. ASSUME NEW r \in Reqs, Commit(r), Len(log) = req[r].base PROVE Once'
  <2>1. PICK y : log' = Append(log, [tasks |-> y, by |-> r])
    BY <1>4 DEF Commit
  <2>2. req[r].pc = "read" /\ req'[r].pc = "committed"
    BY <1>4, ReqTyped DEF Commit, TypeOK, Req
  <2>3. r \in 1 .. Outsider
    BY <1>0 DEF Reqs
  <2>4. \A v \in 2 .. Len(log) : log[v].by # r
    BY <2>2 DEF Once
  <2> QED
    BY <1>3, <2>1, <2>2, <2>3, <2>4
<1>5. ASSUME NEW t \in Tasks, RemoveTask(t) PROVE Once'
  <2>1. PICK y : log' = Append(log, [tasks |-> y, by |-> Outsider])
    BY <1>5 DEF RemoveTask
  <2>2. \A v \in 2 .. Len(log) : log[v].by # Outsider
    BY <1>0, <1>5 DEF RemoveTask
  <2>3. Outsider \in 1 .. Outsider /\ Outsider \notin Reqs
    BY <1>0 DEF Reqs
  <2> QED
    BY <1>3, <2>1, <2>2, <2>3
<1> QED
  BY <1>2, <1>4, <1>5, LogMoves

LEMMA TypedNext == Typed /\ [Next]_vars => Typed'
  BY TypeOKNext, LinkedNext, WroteNext, OnceNext DEF Typed

LEMMA TypedInit == Init => Typed
<1> SUFFICES ASSUME Init PROVE Typed
  OBVIOUS
<1>1. plan.tasks \in States /\ MaxReqs \in Nat /\ plan \in Plans
  BY TasksAssumption DEF Init, States
<1>2. [tasks |-> plan.tasks, by |-> 0] \in Entry
  BY <1>1 DEF Entry, Outsider
<1>3. log = <<[tasks |-> plan.tasks, by |-> 0]>>
  BY DEF Init
<1>4. log \in Seq(Entry) /\ Len(log) = 1
  BY <1>2, <1>3
<1>5. 1 \in Versions /\ Latest = plan.tasks
  BY <1>1, <1>3 DEF Versions, Latest
<1>6. copy \in Copies
  BY <1>1, <1>5 DEF Init, Server, Copies
<1>7. TypeOK
  BY <1>4, <1>5, <1>6, UnusedTyped DEF Init, TypeOK
<1>8. Linked /\ Wrote
  BY DEF Init, Unused, Linked, Wrote
<1>9. Once
  BY <1>4 DEF Once
<1> QED
  BY <1>7, <1>8, <1>9 DEF Typed

\* Every reachable state is well typed: the log has room for all who write one
\* version each.
THEOREM TypeCorrect == Spec => []TypeOK
<1>1. Typed => TypeOK
  BY DEF Typed
<1> QED
  BY <1>1, TypedInit, TypedNext, PTL DEF Spec

\* An edit that was acknowledged is in the log and in the git history.
THEOREM AcknowledgedEdits == Spec => []AcknowledgedInGit
<1>1. Typed => AcknowledgedInGit
  BY DEF Typed, Wrote, AcknowledgedInGit
<1> QED
  BY <1>1, TypedInit, TypedNext, PTL DEF Spec

-----------------------------------------------------------------------------
(* Undos.  The button is disabled until an undo is answered, and gone      *)
(* unless it has failed; one that has failed has used up the token.  So of *)
(* two undos of a change, if no answer was lost, one comes to nothing.     *)

Known(r)     == \A u \in Undos(r) : req[u].client # "gone"
Fruitless(u) == req[u].ver = 0 /\ req[u].pc \in {"sent", "failed"}

\* The token of an undo is used up when the undo has got it, or has failed.
Spends == \A u \in Reqs : req[u].op = "undo" =>
    /\ req[u].client = "answered" => req[u].pc \in {"ok", "refused", "failed"}
    /\ req[u].pc \in {"spent", "read", "refused", "committed", "gitted", "ok", "failed"} => token[req[u].of] # "live"

\* One undo at a time, and no other one once one has not failed.
InTurn == \A r \in Reqs : Known(r) =>
    /\ \A u \in Undos(r) : req[u].client = "answered" /\ card[r] = "active" => req[u].pc = "failed"
    /\ \A u, w \in Undos(r) : u # w => /\ req[u].client = "answered" \/ req[w].client = "answered"
                                       /\ Fruitless(u) \/ Fruitless(w)

\* What the page hears of an undo.
Heard(u) ==
    /\ req[u].client # "waits" => req'[u].client = req[u].client
    /\ req'[u].client = "answered" =>
          \/ req[u].client = "answered"
          \/ req[u].pc = "failed"
          \/ req[u].pc \in {"ok", "refused"} /\ card'[req[u].of] = "undone"

LEMMA UndoHeard ==
  ASSUME TypeOK, Linked, [Next]_vars, NEW u \in Reqs, req[u].op = "undo"
  PROVE  Heard(u)
<1>0. /\ req \in [Reqs -> Req] /\ req[u] \in Req /\ req[u].of \in Reqs /\ req[u].pc # "idle"
      /\ card \in [Reqs -> {"none", "active", "undone", "over"}]
  BY DEF TypeOK, Linked
<1>1. ASSUME NEW s \in Reqs, Use(s) PROVE req'[u] = req[u]
  BY <1>0, <1>1 DEF Use, Toggle, CallTool, Undo, Dismiss, Unspent
<1>2. ASSUME NEW s \in Reqs, Serve(s) \/ GitFails(s) PROVE Heard(u)
  <2>1. CASE s = u
    BY <1>2, <2>1, ServeMoves DEF Served, Heard
  <2>2. CASE s # u
    <3>1. req'[u] = req[u]
      BY <1>0, <1>2, <2>2 DEF Serve, ServeDismiss, GetToken, SpendToken, ReadTask, Commit, GitCommit, Brief, SetToken,
                              GitFails, Goes
    <3> QED
      BY <3>1 DEF Heard
  <2> QED
    BY <2>1, <2>2
<1>3. ASSUME NEW s \in Reqs, HearUndo(s) PROVE Heard(u)
  <2>1. CASE s = u
    BY <1>0, <1>3, <2>1 DEF HearUndo, Undone, Heard
  <2>2. CASE s # u
    BY <1>0, <1>3, <2>2 DEF HearUndo, Heard
  <2> QED
    BY <2>1, <2>2
<1>4. ASSUME NEW s \in Reqs, LoseUndo(s) PROVE Heard(u)
  BY <1>0, <1>4 DEF LoseUndo, Heard, Req
<1>5. ASSUME NEW s \in Reqs, Settle(s) \/ LoseToggle(s) \/ ShowCard(s) \/ Dismissed(s) PROVE req'[u] = req[u]
  BY <1>0, <1>5 DEF Settle, LoseToggle, ShowCard, Dismissed, At
<1>6. ASSUME NEW s \in Reqs, Pass(s) PROVE req' = req
  BY <1>6 DEF Pass, Expire, CardExpires
<1>7. ASSUME (\E q \in Queries : Read(q) \/ Receive(q) \/ FetchFails(q)) \/ Refocus \/ OpenDetail \/ CloseDetail
             \/ \E t \in Tasks : RemoveTask(t)
      PROVE  req' = req
  BY <1>7 DEF Read, Receive, FetchFails, Refocus, OpenDetail, CloseDetail, RemoveTask
<1>8. CASE req'[u] = req[u]
  BY <1>8 DEF Heard
<1>9. UNCHANGED vars => req' = req
  BY DEF vars
<1> QED
  BY <1>1, <1>2, <1>3, <1>4, <1>5, <1>6, <1>7, <1>8, <1>9 DEF Next, Hear, Fail

LEMMA OneChanges ==
  ASSUME TypeOK, [Next]_vars, NEW u \in Reqs, NEW w \in Reqs, u # w
  PROVE  req'[u] = req[u] \/ req'[w] = req[w]
<1>0. req \in [Reqs -> Req]
  BY DEF TypeOK
<1>1. ASSUME NEW s \in Reqs, Use(s) \/ Serve(s) PROVE \E x : req' = [req EXCEPT ![s] = x]
  BY <1>0, <1>1 DEF Use, Toggle, CallTool, Undo, Dismiss,
                    Serve, ServeDismiss, GetToken, SpendToken, ReadTask, Commit, GitCommit, Brief, SetToken, Goes
<1>2. ASSUME NEW s \in Reqs, Hear(s) \/ Fail(s) \/ Pass(s) PROVE \E x : req' = [req EXCEPT ![s] = x]
  BY <1>0, <1>2 DEF Hear, Settle, ShowCard, HearUndo, Dismissed, Fail, LoseToggle, LoseUndo, GitFails, Goes,
                    Pass, Expire, CardExpires
<1>3. ASSUME (\E q \in Queries : Read(q) \/ Receive(q) \/ FetchFails(q)) \/ Refocus \/ OpenDetail \/ CloseDetail
             \/ \E t \in Tasks : RemoveTask(t)
      PROVE  req' = req
  BY <1>3 DEF Read, Receive, FetchFails, Refocus, OpenDetail, CloseDetail, RemoveTask
<1>4. ASSUME NEW s \in Reqs, NEW x, req' = [req EXCEPT ![s] = x] PROVE req'[u] = req[u] \/ req'[w] = req[w]
  BY <1>0, <1>4
<1>5. UNCHANGED vars => req' = req
  BY DEF vars
<1> QED
  BY <1>1, <1>2, <1>3, <1>4, <1>5 DEF Next

LEMMA SpendsNext ==
  ASSUME TypeOK, Linked, Spends, [Next]_vars
  PROVE  Spends'
<1> SUFFICES ASSUME NEW u \in Reqs, req'[u].op = "undo"
    PROVE  /\ req'[u].client = "answered" => req'[u].pc \in {"ok", "refused", "failed"}
           /\ req'[u].pc \in {"spent", "read", "refused", "committed", "gitted", "ok", "failed"}
                 => token'[req'[u].of] # "live"
  BY DEF Spends
<1>1. CASE Sent(u)
  BY <1>1 DEF Sent
<1>2. CASE req[u].op = "undo"
  <2>1. req[u].of \in Reqs /\ (token[req[u].of] # "live" => token'[req[u].of] # "live")
    BY <1>2, CardMoves DEF Linked, CardStep
  <2>2. Heard(u) /\ req[u].pc # "idle"
    BY <1>2, UndoHeard DEF Linked
  <2>3. CASE Same(u)
    BY <1>2, <2>1, <2>2, <2>3 DEF Spends, Same, Heard
  <2>4. CASE Serve(u) \/ GitFails(u)
    <3>1. Served(u)
      BY <2>4, ServeMoves
    <3>2. req'[u].client # "answered"
      BY <1>2, <3>1 DEF Served, Spends
    <3>3. req'[u].pc \in {"spent", "read", "refused", "committed", "gitted", "ok", "failed"} => token'[req[u].of] # "live"
      BY <1>2, <2>1, <3>1 DEF Served, Spends
    <3> QED
      BY <3>1, <3>2, <3>3 DEF Served
  <2> QED
    BY <2>2, <2>3, <2>4, ReqMoves DEF Sent
<1> QED
  BY <1>1, <1>2, ReqMoves, ServeMoves DEF Same, Served

LEMMA InTurnNext ==
  ASSUME TypeOK, Linked, Spends, InTurn, [Next]_vars
  PROVE  InTurn'
<1> SUFFICES ASSUME NEW r \in Reqs, Known(r)'
    PROVE  /\ \A u \in Undos(r)' : req'[u].client = "answered" /\ card'[r] = "active" => req'[u].pc = "failed"
           /\ \A u, w \in Undos(r)' : u # w => /\ req'[u].client = "answered" \/ req'[w].client = "answered"
                                               /\ Fruitless(u)' \/ Fruitless(w)'
  BY DEF InTurn
<1>1. ASSUME NEW u \in Undos(r) PROVE u \in Undos(r)' /\ Heard(u) /\ req[u].pc # "idle" /\ card[r] # "none"
  <2>1. u \in Reqs /\ req[u].op = "undo" /\ req[u].of = r
    BY DEF Undos
  <2>2. req[u].pc # "idle" /\ Heard(u) /\ card[r] # "none"
    BY <2>1, UndoHeard DEF Linked
  <2>3. Same(u) \/ Served(u)
    BY <2>1, <2>2, ReqMoves, ServeMoves DEF Sent
  <2> QED
    BY <2>1, <2>2, <2>3 DEF Undos, Same, Served
<1>2. Known(r)
  BY <1>1 DEF Known, Heard
<1>3. ASSUME NEW u \in Undos(r)', u \notin Undos(r)
      PROVE  Sent(u) /\ MayUndo(r) /\ Fruitless(u)' /\ req'[u].client = "waits"
  <2>1. u \in Reqs /\ req'[u].op = "undo" /\ req'[u].of = r
    BY DEF Undos
  <2>2. ~(Same(u) \/ Served(u))
    BY <1>3, <2>1 DEF Undos, Same, Served
  <2>3. Sent(u)
    BY <2>1, <2>2, ReqMoves, ServeMoves
  <2> QED
    BY <2>1, <2>3 DEF Sent, Fruitless
<1>4. ASSUME NEW u \in Undos(r)', req'[u].client = "answered", card'[r] = "active" PROVE req'[u].pc = "failed"
  <2>1. u \in Undos(r)
    BY <1>3, <1>4
  <2>2. u \in Reqs /\ Heard(u) /\ req[u].op = "undo" /\ req[u].of = r /\ card[r] # "none"
    BY <1>1, <2>1 DEF Undos
  <2>3. card[r] = "active"
    BY <1>4, <2>2, CardMoves DEF CardStep, Linked
  <2>4. req[u].pc = "failed"
    BY <1>2, <1>4, <2>1, <2>2, <2>3 DEF InTurn, Heard
  <2> QED
    BY <2>2, <2>4, ReqMoves, ServeMoves DEF Same, Sent, Served
<1>5. ASSUME NEW u \in Undos(r), NEW w \in Undos(r), u # w, Fruitless(u) PROVE Fruitless(u)'
  <2>1. u \in Reqs /\ w \in Reqs /\ req[u].op = "undo" /\ req[w].op = "undo" /\ req[u].of = r /\ req[w].of = r
    BY DEF Undos
  <2>2. CASE Same(u)
    BY <1>5, <2>2 DEF Same, Fruitless
  <2>3. CASE Serve(u) \/ GitFails(u)
    <3>1. Served(u) /\ req[u].pc = "sent"
      BY <1>5, <2>1, <2>3, ServeMoves DEF Served, Fruitless
    <3>2. req[u].client # "answered"
      BY <2>1, <3>1 DEF Spends
    <3>3. req[w].client = "answered"
      BY <1>2, <1>5, <3>2 DEF InTurn
    <3>4. token[r] # "live"
      BY <2>1, <3>3 DEF Spends
    <3> QED
      BY <1>5, <2>1, <3>1, <3>4 DEF Served, Fruitless
  <2> QED
    BY <1>1, <1>5, <2>1, <2>2, <2>3, ReqMoves DEF Sent
<1>6. ASSUME NEW u \in Undos(r)', NEW w \in Undos(r)', u # w, u \in Undos(r)
      PROVE  /\ req'[u].client = "answered" \/ req'[w].client = "answered"
             /\ Fruitless(u)' \/ Fruitless(w)'
  <2>1. CASE w \in Undos(r)
    <3>1. req[u].client = "answered" \/ req[w].client = "answered"
      BY <1>2, <1>6, <2>1 DEF InTurn
    <3>2. Fruitless(u) \/ Fruitless(w)
      BY <1>2, <1>6, <2>1 DEF InTurn
    <3>3. \A x \in Undos(r) : req[x].client = "answered" => req'[x].client = "answered"
      BY <1>1 DEF Heard
    <3> QED
      BY <1>5, <1>6, <2>1, <3>1, <3>2, <3>3
  <2>2. CASE w \notin Undos(r)
    <3>1. MayUndo(r) /\ Fruitless(w)'
      BY <1>3, <2>2
    <3>2. req[u].client = "answered"
      <4>1. req[u].client \in {"waits", "answered", "gone"}
        BY <1>6 DEF Undos, TypeOK, Req
      <4> QED
        BY <1>2, <1>6, <3>1, <4>1 DEF MayUndo, Known
    <3>3. req'[u].client = "answered"
      BY <1>1, <1>6, <3>2 DEF Heard
    <3> QED
      BY <3>1, <3>3
  <2> QED
    BY <2>1, <2>2
<1>7. ASSUME NEW u \in Undos(r)', NEW w \in Undos(r)', u # w PROVE u \in Undos(r) \/ w \in Undos(r)
  BY <1>3, <1>7, OneChanges DEF Undos, Sent
<1> QED
  BY <1>4, <1>6, <1>7

\* A change is undone once, unless an answer was lost: one at most of the undos
\* of a change whose answers have all come writes a version.
THEOREM UndosComeOnce == Spec => []UndoneOnce
<1> DEFINE Inv == Typed /\ Spends /\ InTurn
<1>1. Init => Inv
  <2> SUFFICES ASSUME Init PROVE Spends /\ InTurn
    BY TypedInit
  <2>1. \A r \in Reqs : req[r].op = "toggle"
    BY DEF Init, Unused
  <2> QED
    BY <2>1 DEF Spends, InTurn, Undos
<1>2. Inv /\ [Next]_vars => Inv'
  BY TypedNext, SpendsNext, InTurnNext DEF Typed
<1>3. Inv => UndoneOnce
  <2> SUFFICES ASSUME Inv, NEW r \in Reqs, Known(r)
      PROVE  Cardinality({u \in Undos(r) : req[u].ver # 0}) <= 1
    BY DEF UndoneOnce, Known
  <2> DEFINE S == {u \in Undos(r) : req[u].ver # 0}
  <2>1. \A u, w \in S : u = w
    BY DEF InTurn, Fruitless
  <2>2. CASE S = {}
    BY <2>2, FS_EmptySet
  <2>3. ASSUME NEW u \in S PROVE Cardinality(S) <= 1
    <3>1. S = {u}
      BY <2>1
    <3>2. Cardinality({u}) = 1
      BY FS_Singleton
    <3> QED
      BY <3>1, <3>2
  <2> QED
    BY <2>2, <2>3
<1> QED
  BY <1>1, <1>2, <1>3, PTL DEF Spec

-----------------------------------------------------------------------------
(* The panels.  A query that the page need not know to be old is fetched,  *)
(* or its answer or its copy is what the server has, or the answer to a    *)
(* request of the page will have it fetched.                               *)

\* What a panel shows of a query.
Current(q, c) == CASE q = "state"   -> c.tasks = Latest
                   [] q = "history" -> c.entries = Len(log)
                   [] q = "project" -> c.briefing = briefing /\ c.dismissed = dismissed

Awaits(r, op) == req[r].op = op /\ req[r].pc # "idle" /\ req[r].client = "waits"
Awaited(op)   == \E r \in Reqs : Awaits(r, op)

\* The request whose answer has a query fetched.
EditFor(q) == IF q = "project" THEN "dismiss" ELSE "toggle"

Fresh(q) ==
    \/ fetch[q] = "sent"
    \/ fetch[q] = "answered" /\ Current(q, answer)
    \/ fetch[q] = "idle" /\ (Current(q, copy) \/ (q = "history" /\ invalid /\ ~detail))

Covered == \A q \in Queries \ behind : Fresh(q) \/ Awaited(EditFor(q))

\* A fetch that goes on when the dialog has been closed.
LeftOpen == ~detail /\ fetch["history"] # "idle" => "history" \in behind

DismissalsWait == \A r \in Reqs : At(r, {"dismiss"}, "sent") => req[r].client = "waits"

PanelInv == Covered /\ LeftOpen /\ DismissalsWait

LEMMA TakenCurrent ==
  ASSUME NEW q \in Queries, NEW p \in Queries, NEW a \in Copies, NEW c \in Copies
  PROVE  /\ Current(q, Taken(q, a, c)) <=> Current(q, a)
         /\ p # q => (Current(p, Taken(q, a, c)) <=> Current(p, c))
<1>1. CASE q = "state"
  BY <1>1 DEF Taken, Current, Copies, Queries
<1>2. CASE q = "history"
  BY <1>2 DEF Taken, Current, Copies, Queries
<1>3. CASE q = "project"
  BY <1>3 DEF Taken, Current, Copies, Queries
<1> QED
  BY <1>1, <1>2, <1>3 DEF Queries

\* What does not concern a query leaves it as it was.
LEMMA FreshStays ==
  ASSUME NEW q \in Queries, Fresh(q), fetch'[q] = fetch[q], Current(q, answer) => Current(q, answer)',
         Current(q, copy) => Current(q, copy)', q = "history" => (invalid => invalid') /\ detail' = detail
  PROVE  Fresh(q)'
  BY DEF Fresh

\* An invalidated query is fetched, or will be when the dialog opens.
LEMMA InvalidatedFresh ==
  ASSUME TypeOK, NEW qs \in SUBSET Queries, Invalidate(qs), NEW q \in qs, detail' = detail,
         ~detail /\ fetch["history"] # "idle" => q # "history"
  PROVE  Fresh(q)'
<1>0. q \in Queries /\ fetch \in [Queries -> {"idle", "sent", "answered"}]
  BY DEF TypeOK
<1>1. CASE q \in Mounted
  <2>1. fetch'[q] = "sent"
    BY <1>0, <1>1 DEF Invalidate
  <2> QED
    BY <2>1 DEF Fresh
<1>2. CASE q \notin Mounted
  <2>1. q = "history" /\ ~detail /\ fetch[q] = "idle"
    BY <1>0, <1>2 DEF Mounted
  <2>2. fetch'[q] = "idle" /\ invalid'
    BY <1>0, <1>2, <2>1 DEF Invalidate
  <2> QED
    BY <2>1, <2>2 DEF Fresh
<1> QED
  BY <1>1, <1>2

\* The project's query stays as it is when those of its state are invalidated.
LEMMA ProjectStays ==
  ASSUME TypeOK, TypeOK', Invalidate({"state", "history"}), Fresh("project"), UNCHANGED <<briefing, dismissed>>,
         copy'.briefing = copy.briefing, copy'.dismissed = copy.dismissed
  PROVE  Fresh("project")'
<1>1. fetch'["project"] = fetch["project"]
  BY DEF Invalidate, Queries, TypeOK
<1>2. answer'.briefing = answer.briefing /\ answer'.dismissed = answer.dismissed
  BY DEF Invalidate, Queries, TypeOK, Copies
<1>3. "project" \in Queries
  BY DEF Queries
<1> QED
  BY <1>1, <1>2, <1>3, FreshStays DEF Current

\* A request that the page sends leaves the others, and what the page knows.
LEMMA UseChanges ==
  ASSUME TypeOK, NEW s \in Reqs, Use(s)
  PROVE  /\ behind' = behind /\ detail' = detail
         /\ \A r \in Reqs : req[r].pc # "idle" => req'[r] = req[r]
         /\ fetch' = fetch \/ detail
<1>0. req \in [Reqs -> Req]
  BY DEF TypeOK
<1>1. ASSUME NEW t \in Tasks, Toggle(s, t)
      PROVE  /\ behind' = behind /\ detail' = detail /\ detail
             /\ \A r \in Reqs : req[r].pc # "idle" => req'[r] = req[r]
  BY <1>0, <1>1 DEF Toggle, Unspent
<1>2. ASSUME NEW t \in Tasks, NEW x \in Statuses, CallTool(s, t, x)
      PROVE  /\ behind' = behind /\ detail' = detail /\ fetch' = fetch
             /\ \A r \in Reqs : req[r].pc # "idle" => req'[r] = req[r]
  BY <1>0, <1>2 DEF CallTool, Unspent, cache
<1>3. ASSUME NEW u \in Reqs, Undo(s, u)
      PROVE  /\ behind' = behind /\ detail' = detail /\ fetch' = fetch
             /\ \A r \in Reqs : req[r].pc # "idle" => req'[r] = req[r]
  BY <1>0, <1>3 DEF Undo, Unspent, cache
<1>4. ASSUME Dismiss(s)
      PROVE  /\ behind' = behind /\ detail' = detail /\ fetch' = fetch
             /\ \A r \in Reqs : req[r].pc # "idle" => req'[r] = req[r]
  BY <1>0, <1>4 DEF Dismiss, Unspent, cache
<1> QED
  BY <1>1, <1>2, <1>3, <1>4 DEF Use

LEMMA BehindShrinks ==
  ASSUME TypeOK, [Next]_vars, NEW q \in behind, q \notin behind'
  PROVE  Read(q) /\ q \in Mounted
<1>1. ASSUME NEW r \in Reqs, Use(r) \/ Hear(r) \/ Fail(r) \/ Pass(r) PROVE behind' = behind
  BY <1>1, UseChanges DEF Hear, Settle, ShowCard, HearUndo, Dismissed, Fail, LoseToggle, LoseUndo, GitFails,
                          Pass, Expire, CardExpires
<1>2. ASSUME NEW r \in Reqs, Serve(r) PROVE behind \subseteq behind'
  BY <1>2 DEF Serve, ServeDismiss, GetToken, SpendToken, ReadTask, Commit, GitCommit, Brief, SetToken
<1>3. ASSUME (\E p \in Queries : Receive(p) \/ FetchFails(p)) \/ Refocus \/ OpenDetail \/ CloseDetail
             \/ \E t \in Tasks : RemoveTask(t)
      PROVE  behind \subseteq behind'
  BY <1>3 DEF Receive, FetchFails, Refocus, OpenDetail, CloseDetail, RemoveTask
<1>4. UNCHANGED vars => behind' = behind
  BY DEF vars
<1>5. PICK p \in Queries : Read(p)
  BY <1>1, <1>2, <1>3, <1>4 DEF Next
<1> QED
  BY <1>5 DEF Read

\* A request of the page waits until the page hears of it, or gives up.
LEMMA AwaitedStays ==
  ASSUME TypeOK, [Next]_vars, NEW op \in {"toggle", "dismiss"}, Awaited(op)
  PROVE  \/ Awaited(op)'
         \/ op = "toggle" /\ \E r \in Reqs : Settle(r) \/ LoseToggle(r)
         \/ op = "dismiss" /\ \E r \in Reqs : Dismissed(r)
<1>0. req \in [Reqs -> Req]
  BY DEF TypeOK
<1>1. PICK r \in Reqs : Awaits(r, op)
  BY DEF Awaited
<1> SUFFICES ASSUME \A s \in Reqs : op = "toggle" => ~Settle(s) /\ ~LoseToggle(s),
                    \A s \in Reqs : op = "dismiss" => ~Dismissed(s)
             PROVE  Awaits(r, op)'
  BY DEF Awaited
<1>2. CASE req' = req
  BY <1>1, <1>2 DEF Awaits
<1>3. ASSUME NEW s \in Reqs, Use(s) PROVE Awaits(r, op)'
  <2>1. req'[r] = req[r]
    BY <1>1, <1>3, UseChanges DEF Awaits
  <2> QED
    BY <1>1, <2>1 DEF Awaits
<1>4. ASSUME NEW s \in Reqs, Hear(s) \/ LoseToggle(s) \/ LoseUndo(s) PROVE Awaits(r, op)'
  <2>1. req'[r] = req[r]
    BY <1>0, <1>1, <1>4 DEF Hear, Settle, ShowCard, HearUndo, Dismissed, LoseToggle, LoseUndo, At, Awaits
  <2> QED
    BY <1>1, <2>1 DEF Awaits
<1>5. ASSUME NEW s \in Reqs, Serve(s) \/ GitFails(s) PROVE Awaits(r, op)'
  <2>1. CASE s # r
    <3>1. req'[r] = req[r]
      BY <1>0, <1>5, <2>1 DEF Serve, ServeDismiss, GetToken, SpendToken, ReadTask, Commit, GitCommit, Brief, SetToken,
                              GitFails, Goes
    <3> QED
      BY <1>1, <3>1 DEF Awaits
  <2>2. CASE s = r
    <3>1. /\ req'[r].op = req[r].op /\ req'[r].client = req[r].client /\ req'[r].pc # "idle"
      <4>1. CASE ReadTask(r)
        <5>1. \/ req'[r] = [req[r] EXCEPT !.pc = "failed"]
              \/ req'[r] = [req[r] EXCEPT !.pc = "refused"]
              \/ req'[r] = [req[r] EXCEPT !.pc = "read", !.base = Len(log), !.old = Latest[req[r].task]]
          BY <1>0, <4>1 DEF ReadTask
        <5> QED
          BY <1>0, <5>1 DEF Req
      <4>2. CASE Commit(r)
        <5>1. \/ req'[r] = [req[r] EXCEPT !.pc = "failed"]
              \/ req'[r] = [req[r] EXCEPT !.pc = "committed", !.ver = Len(log) + 1]
          BY <1>0, <4>2 DEF Commit, Goes
        <5> QED
          BY <1>0, <5>1 DEF Req
      <4>3. CASE ~ReadTask(r) /\ ~Commit(r)
        BY <1>0, <1>5, <2>2, <4>3 DEF Serve, ServeDismiss, GetToken, SpendToken, GitCommit, Brief, SetToken,
                                      GitFails, Goes, Req
      <4> QED
        BY <4>1, <4>2, <4>3
    <3> QED
      BY <1>1, <3>1 DEF Awaits
  <2> QED
    BY <2>1, <2>2
<1>6. ASSUME (\E q \in Queries : Read(q) \/ Receive(q) \/ FetchFails(q)) \/ Refocus \/ OpenDetail \/ CloseDetail
             \/ (\E t \in Tasks : RemoveTask(t)) \/ \E s \in Reqs : Pass(s)
      PROVE  req' = req
  BY <1>6 DEF Read, Receive, FetchFails, Refocus, OpenDetail, CloseDetail, RemoveTask, Pass, Expire, CardExpires
<1> QED
  BY <1>2, <1>3, <1>4, <1>5, <1>6 DEF Next, Fail, vars

\* The steps of the page.
LEMMA FreshPage ==
  ASSUME TypeOK, TypeOK', LeftOpen, NEW r \in Reqs, Use(r) \/ Hear(r) \/ Fail(r) \/ Pass(r),
         NEW q \in Queries \ behind, Fresh(q)
  PROVE  Fresh(q)' \/ Awaited(EditFor(q))'
<1>0. req \in [Reqs -> Req] /\ answer \in Copies /\ Nothing \in Copies /\ copy \in Copies
  BY UnusedTyped DEF TypeOK
<1>1. CASE UNCHANGED <<log, briefing, dismissed, cache, detail>>
  BY <1>1, FreshStays DEF cache, Current, Latest
<1>3. ASSUME NEW t \in Tasks, Toggle(r, t) PROVE Fresh(q)' \/ Awaited(EditFor(q))'
  <2>1. CASE q # "project"
    <3>1. req'[r].op = "toggle" /\ req'[r].pc = "sent" /\ req'[r].client = "waits"
      BY <1>0, <1>3 DEF Toggle, Unused
    <3>2. Awaits(r, "toggle")'
      BY <3>1 DEF Awaits
    <3> QED
      BY <2>1, <3>2 DEF Awaited, EditFor
  <2>2. CASE q = "project"
    <3>1. fetch'[q] = fetch[q] /\ copy'.briefing = copy.briefing /\ copy'.dismissed = copy.dismissed
      BY <1>0, <1>3, <2>2 DEF Toggle, TypeOK, Copies
    <3>2. Taken("history", Nothing, answer) \in Copies /\ "state" \in Queries /\ "history" \in Queries
      BY <1>0, TakenTyped DEF Queries
    <3>3. Current(q, answer') <=> Current(q, answer)
      BY <1>0, <1>3, <2>2, <3>2, TakenCurrent DEF Toggle
    <3>4. UNCHANGED <<briefing, dismissed>>
      BY <1>3 DEF Toggle, server
    <3> QED
      BY <2>2, <3>1, <3>3, <3>4, FreshStays DEF Current
  <2> QED
    BY <2>1, <2>2
<1>4. ASSUME NEW ok \in BOOLEAN, Settled(r, ok), UNCHANGED <<server, detail>> PROVE Fresh(q)'
  <2>1. Invalidate({"state", "history"})
    BY <1>4 DEF Settled, Refetched
  <2>2. CASE q \in {"state", "history"}
    BY <1>4, <2>1, <2>2, InvalidatedFresh DEF LeftOpen, Queries
  <2>3. CASE q = "project"
    <3>1. copy'.briefing = copy.briefing /\ copy'.dismissed = copy.dismissed
      BY <1>0, <1>4 DEF Settled, Copies
    <3> QED
      BY <1>4, <2>1, <2>3, <3>1, ProjectStays DEF server
  <2> QED
    BY <2>2, <2>3 DEF Queries
<1>5. CASE Settle(r)
  BY <1>4, <1>5 DEF Settle
<1>6. CASE LoseToggle(r)
  BY <1>4, <1>6 DEF LoseToggle
<1>7. CASE Dismissed(r)
  <2>1. Invalidate(Queries) /\ detail' = detail
    BY <1>7 DEF Dismissed
  <2> QED
    BY <2>1, InvalidatedFresh DEF LeftOpen
<1>8. ASSUME NEW t \in Tasks, NEW s \in Statuses, CallTool(r, t, s) PROVE UNCHANGED <<log, briefing, dismissed, cache, detail>>
  BY <1>8 DEF CallTool, server
<1>9. ASSUME NEW s \in Reqs, Undo(r, s) PROVE UNCHANGED <<log, briefing, dismissed, cache, detail>>
  BY <1>9 DEF Undo, server
<1>10. ASSUME Dismiss(r) \/ ShowCard(r) \/ HearUndo(r) \/ LoseUndo(r) \/ GitFails(r) \/ Pass(r)
       PROVE  UNCHANGED <<log, briefing, dismissed, cache, detail>>
  BY <1>10 DEF Dismiss, ShowCard, HearUndo, LoseUndo, GitFails, Pass, Expire, CardExpires, server
<1> QED
  BY <1>1, <1>3, <1>5, <1>6, <1>7, <1>8, <1>9, <1>10 DEF Use, Hear, Fail

\* The steps of the server: an edit that nobody waits for leaves the page behind.
LEMMA FreshServe ==
  ASSUME TypeOK, DismissalsWait, NEW r \in Reqs, Serve(r), NEW q \in Queries \ behind', Fresh(q)
  PROVE  Fresh(q)' \/ Awaited(EditFor(q))'
<1>0. req \in [Reqs -> Req] /\ req[r] \in Req
  BY DEF TypeOK
<1>1. CASE UNCHANGED <<log, briefing, dismissed, cache, detail>>
  BY <1>1, FreshStays DEF cache, Current, Latest
<1>2. CASE ServeDismiss(r)
  <2>1. CASE q = "project"
    <3>1. req'[r].op = "dismiss" /\ req'[r].pc = "ok" /\ req'[r].client = "waits"
      BY <1>0, <1>2 DEF ServeDismiss, At, Goes, DismissalsWait
    <3> QED
      BY <2>1, <3>1 DEF Awaited, Awaits, EditFor
  <2>2. CASE q # "project"
    BY <1>2, <2>2, FreshStays DEF ServeDismiss, cache, Current, Latest, Queries
  <2> QED
    BY <2>1, <2>2
<1>3. CASE Commit(r)
  <2>1. CASE Len(log) # req[r].base
    BY <1>1, <1>3, <2>1 DEF Commit
  <2>2. CASE Len(log) = req[r].base /\ q = "project"
    <3>1. briefing' = briefing /\ UNCHANGED <<dismissed, cache, detail>>
      BY <1>3, <2>2 DEF Commit
    <3> QED
      BY <2>2, <3>1, FreshStays DEF cache, Current
  <2>3. CASE Len(log) = req[r].base /\ q # "project"
    <3>1. Untold(r) = {}
      BY <1>3, <2>3 DEF Commit, Untold, Queries
    <3>2. req[r].op = "toggle" /\ req[r].client = "waits"
      BY <3>1 DEF Untold
    <3>3. req'[r] = [req[r] EXCEPT !.pc = "committed", !.ver = Len(log) + 1]
      BY <1>0, <1>3, <2>3 DEF Commit
    <3>4. Awaits(r, "toggle")'
      BY <1>0, <3>2, <3>3 DEF Awaits, Req
    <3> QED
      BY <2>3, <3>4 DEF Awaited, EditFor
  <2> QED
    BY <2>1, <2>2, <2>3
<1>4. CASE Brief(r)
  BY <1>4, FreshStays DEF Brief, cache, Current, Latest, Queries
<1>5. CASE GetToken(r) \/ SpendToken(r) \/ ReadTask(r) \/ GitCommit(r) \/ SetToken(r)
  BY <1>1, <1>5 DEF GetToken, SpendToken, ReadTask, GitCommit, SetToken, server
<1> QED
  BY <1>2, <1>3, <1>4, <1>5 DEF Serve

\* The steps of the cache, and somebody's deletion.
LEMMA FreshCache ==
  ASSUME TypeOK, TypeOK', LeftOpen, NEW q \in Queries \ (behind \cup behind'), Fresh(q),
         \/ \E p \in Queries : Read(p) \/ Receive(p) \/ FetchFails(p)
         \/ Refocus \/ OpenDetail \/ CloseDetail \/ \E t \in Tasks : RemoveTask(t)
  PROVE  Fresh(q)'
<1>0. /\ fetch \in [Queries -> {"idle", "sent", "answered"}] /\ answer \in Copies /\ Nothing \in Copies
      /\ copy \in Copies /\ Server \in Copies
  BY UnusedTyped, LatestTyped DEF TypeOK
<1>1. ASSUME NEW p \in Queries, Read(p) PROVE Fresh(q)'
  <2>1. answer' = Taken(p, Server, answer) /\ fetch' = [fetch EXCEPT ![p] = "answered"]
    BY <1>1 DEF Read
  <2>2. UNCHANGED <<log, briefing, dismissed, copy, invalid, detail>>
    BY <1>1 DEF Read, server
  <2>3. CASE p = q
    <3>1. Current(q, Server)
      BY DEF Current, Server, Queries
    <3>2. Current(q, answer') /\ fetch'[q] = "answered"
      BY <1>0, <2>1, <2>3, <3>1, TakenCurrent
    <3> QED
      BY <2>2, <3>2 DEF Fresh, Current, Latest
  <2>4. CASE p # q
    <3>1. (Current(q, answer') <=> Current(q, answer)) /\ fetch'[q] = fetch[q]
      BY <1>0, <2>1, <2>4, TakenCurrent
    <3> QED
      BY <2>2, <3>1, FreshStays DEF Current, Latest
  <2> QED
    BY <2>3, <2>4
<1>2. ASSUME NEW p \in Queries, Receive(p) PROVE Fresh(q)'
  <2>1. /\ copy' = Taken(p, answer, copy) /\ answer' = Taken(p, Nothing, answer)
        /\ fetch' = [fetch EXCEPT ![p] = "idle"] /\ fetch[p] = "answered"
    BY <1>2 DEF Receive
  <2>2. UNCHANGED <<log, briefing, dismissed, detail>> /\ (p # "history" => invalid' = invalid)
    BY <1>2 DEF Receive, server, TypeOK
  <2>3. CASE p = q
    <3>1. Current(q, answer)
      BY <2>1, <2>3 DEF Fresh
    <3>2. Current(q, copy') /\ fetch'[q] = "idle"
      BY <1>0, <2>1, <2>3, <3>1, TakenCurrent
    <3> QED
      BY <2>2, <3>2 DEF Fresh, Current, Latest
  <2>4. CASE p # q
    <3>1. /\ Current(q, answer') <=> Current(q, answer)
          /\ Current(q, copy') <=> Current(q, copy)
          /\ fetch'[q] = fetch[q]
      BY <1>0, <2>1, <2>4, TakenCurrent
    <3>2. /\ Current(q, answer) => Current(q, answer)'
          /\ Current(q, copy) => Current(q, copy)'
      BY <2>2, <3>1 DEF Current, Latest
    <3> QED
      BY <2>2, <2>4, <3>1, <3>2, FreshStays
  <2> QED
    BY <2>3, <2>4
<1>3. ASSUME NEW p \in Queries, FetchFails(p) PROVE Fresh(q)'
  <2>1. UNCHANGED <<log, briefing, dismissed, copy, answer, invalid, detail>> /\ fetch'[q] = fetch[q]
    BY <1>0, <1>3 DEF FetchFails, server
  <2> QED
    BY <2>1, FreshStays DEF Current, Latest
<1>4. CASE Refocus
  <2>1. UNCHANGED <<log, briefing, dismissed, copy, answer, invalid, detail>>
    BY <1>4 DEF Refocus, server
  <2>2. fetch'[q] = "sent" \/ fetch'[q] = fetch[q]
    BY <1>4 DEF Refocus
  <2> QED
    BY <2>1, <2>2, FreshStays DEF Fresh, Current, Latest
<1>5. CASE OpenDetail
  <2>1. UNCHANGED <<log, briefing, dismissed, copy, answer, invalid>>
    BY <1>5 DEF OpenDetail, server
  <2>2. q # "history" => fetch'[q] = fetch[q]
    BY <1>0, <1>5 DEF OpenDetail
  <2>3. q = "history" => fetch'[q] = IF fetch[q] = "idle" /\ invalid THEN "sent" ELSE fetch[q]
    BY <1>0, <1>5 DEF OpenDetail
  <2>4. /\ Current(q, answer) => Current(q, answer)'
        /\ Current(q, copy) => Current(q, copy)'
    BY <2>1 DEF Current, Latest
  <2>5. CASE q # "history"
    BY <2>1, <2>2, <2>4, <2>5 DEF Fresh
  <2>6. CASE q = "history"
    BY <2>1, <2>3, <2>4, <2>6 DEF Fresh
  <2> QED
    BY <2>5, <2>6
<1>6. CASE CloseDetail
  <2>1. UNCHANGED <<log, briefing, dismissed, copy, answer, invalid, fetch>> /\ detail
    BY <1>6 DEF CloseDetail, server, cache
  <2> QED
    BY <2>1 DEF Fresh, Current, Latest
<1>7. ASSUME NEW t \in Tasks, RemoveTask(t) PROVE Fresh(q)'
  <2>1. Invalidate({"state", "history"}) /\ UNCHANGED <<briefing, dismissed, copy, detail>>
    BY <1>7 DEF RemoveTask
  <2>2. CASE q = "project"
    BY <2>1, <2>2, ProjectStays
  <2>3. CASE q \in {"state", "history"}
    BY <2>1, <2>3, InvalidatedFresh DEF LeftOpen, Queries
  <2> QED
    BY <2>2, <2>3 DEF Queries
<1> QED
  BY <1>1, <1>2, <1>3, <1>4, <1>5, <1>6, <1>7

LEMMA CoveredNext ==
  ASSUME TypeOK, TypeOK', PanelInv, [Next]_vars
  PROVE  Covered'
<1> SUFFICES ASSUME NEW q \in Queries \ behind' PROVE Fresh(q)' \/ Awaited(EditFor(q))'
  BY DEF Covered
<1>1. CASE q \in behind
  <2>1. Read(q)
    BY <1>1, BehindShrinks
  <2>2. answer' = Taken(q, Server, answer) /\ fetch'[q] = "answered" /\ UNCHANGED <<log, briefing, dismissed>>
    BY <2>1 DEF Read, TypeOK, server
  <2>3. Current(q, Server)
    BY DEF Current, Server, Queries
  <2>4. Current(q, answer')
    BY <2>2, <2>3, TakenCurrent, LatestTyped DEF TypeOK
  <2> QED
    BY <2>2, <2>4 DEF Fresh, Current, Latest
<1>2. CASE q \notin behind /\ Fresh(q)
  <2>1. CASE UNCHANGED vars
    BY <1>2, <2>1, FreshStays DEF vars, server, cache, Current, Latest
  <2> QED
    BY <1>2, <2>1, FreshPage, FreshServe, FreshCache DEF Next, PanelInv
<1>3. CASE q \notin behind /\ Awaited(EditFor(q))
  <2>1. CASE Awaited(EditFor(q))'
    BY <2>1
  <2>2. ASSUME NEW r \in Reqs, Settle(r) \/ LoseToggle(r), q # "project" PROVE Fresh(q)'
    <3>1. Invalidate({"state", "history"}) /\ detail' = detail
      BY <2>2 DEF Settle, LoseToggle, Settled, Refetched
    <3> QED
      BY <1>3, <2>2, <3>1, InvalidatedFresh DEF PanelInv, LeftOpen, Queries
  <2>3. ASSUME NEW r \in Reqs, Dismissed(r) PROVE Fresh(q)'
    <3>1. Invalidate(Queries) /\ detail' = detail
      BY <2>3 DEF Dismissed
    <3> QED
      BY <1>3, <3>1, InvalidatedFresh DEF PanelInv, LeftOpen
  <2>4. EditFor(q) \in {"toggle", "dismiss"} /\ (EditFor(q) = "toggle" => q # "project")
    BY DEF EditFor
  <2> QED
    BY <1>3, <2>1, <2>2, <2>3, <2>4, AwaitedStays
<1> QED
  BY <1>1, <1>2, <1>3 DEF PanelInv, Covered

LEMMA LeftOpenNext ==
  ASSUME TypeOK, LeftOpen, [Next]_vars
  PROVE  LeftOpen'
<1>0. fetch \in [Queries -> {"idle", "sent", "answered"}] /\ "history" \in Queries
  BY DEF TypeOK, Queries
<1>1. CASE "history" \in behind /\ "history" \notin behind'
  <2>1. Read("history") /\ "history" \in Mounted
    BY <1>1, BehindShrinks
  <2> QED
    BY <2>1 DEF Read, Mounted, LeftOpen
<1>2. CASE fetch'["history"] = fetch["history"] /\ detail' = detail
  BY <1>1, <1>2 DEF LeftOpen
<1>3. ASSUME NEW qs \in SUBSET Queries, Invalidate(qs), detail' = detail PROVE LeftOpen'
  <2>1. ~detail => fetch'["history"] = fetch["history"]
    BY <1>0, <1>3 DEF Invalidate, Mounted
  <2> QED
    BY <1>1, <1>3, <2>1 DEF LeftOpen
<1>4. ASSUME NEW r \in Reqs, Use(r) PROVE LeftOpen'
  BY <1>2, <1>4, UseChanges DEF LeftOpen
<1>5. ASSUME NEW r \in Reqs, Hear(r) \/ Fail(r) \/ Pass(r) PROVE LeftOpen'
  <2>1. CASE Settle(r) \/ LoseToggle(r)
    BY <1>3, <2>1 DEF Settle, LoseToggle, Settled, Refetched, Queries
  <2>2. CASE Dismissed(r)
    BY <1>3, <2>2 DEF Dismissed
  <2> QED
    BY <1>2, <1>5, <2>1, <2>2 DEF Hear, ShowCard, HearUndo, Fail, LoseUndo, GitFails, Pass, Expire, CardExpires, cache
<1>6. ASSUME NEW r \in Reqs, Serve(r) PROVE LeftOpen'
  BY <1>2, <1>6 DEF Serve, ServeDismiss, GetToken, SpendToken, ReadTask, Commit, GitCommit, Brief, SetToken, cache
<1>7. ASSUME NEW q \in Queries, Read(q) \/ Receive(q) \/ FetchFails(q) PROVE LeftOpen'
  <2>1. detail' = detail
    BY <1>7 DEF Read, Receive, FetchFails
  <2>2. fetch'["history"] # "idle" => fetch["history"] # "idle"
    BY <1>0, <1>7 DEF Read, Receive, FetchFails
  <2> QED
    BY <1>1, <2>1, <2>2 DEF LeftOpen
<1>8. CASE Refocus
  BY <1>0, <1>2, <1>8 DEF Refocus, Mounted, LeftOpen
<1>9. CASE OpenDetail
  BY <1>9 DEF OpenDetail, LeftOpen
<1>10. CASE CloseDetail
  BY <1>10 DEF CloseDetail, LeftOpen, cache
<1>11. ASSUME NEW t \in Tasks, RemoveTask(t) PROVE LeftOpen'
  BY <1>3, <1>11 DEF RemoveTask, Queries
<1>12. CASE UNCHANGED vars
  BY <1>2, <1>12 DEF vars, cache
<1> QED
  BY <1>4, <1>5, <1>6, <1>7, <1>8, <1>9, <1>10, <1>11, <1>12 DEF Next

\* The page hears of a dismissal once that is stored.
LEMMA WaitsOn ==
  ASSUME TypeOK, [Next]_vars, NEW r \in Reqs, At(r, {"dismiss"}, "sent"), req[r].client = "waits"
  PROVE  req'[r].client = "waits"
<1>0. req \in [Reqs -> Req] /\ req[r] \in Req
  BY DEF TypeOK
<1>1. ASSUME NEW s \in Reqs, Use(s) \/ Hear(s) \/ LoseToggle(s) \/ LoseUndo(s) \/ Pass(s) PROVE req'[r] = req[r]
  <2>1. ASSUME Use(s) PROVE req'[r] = req[r]
    BY <2>1, UseChanges DEF At
  <2> QED
    BY <1>0, <1>1, <2>1 DEF Hear, Settle, ShowCard, HearUndo, Dismissed, LoseToggle, LoseUndo, Pass, Expire,
                            CardExpires, At
<1>2. ASSUME NEW s \in Reqs, Serve(s) \/ GitFails(s) PROVE req'[r].client = "waits"
  BY <1>0, <1>2 DEF Serve, ServeDismiss, GetToken, SpendToken, ReadTask, Commit, GitCommit, Brief, SetToken,
                    GitFails, Goes, At, Req
<1>3. ASSUME (\E q \in Queries : Read(q) \/ Receive(q) \/ FetchFails(q)) \/ Refocus \/ OpenDetail \/ CloseDetail
             \/ \E t \in Tasks : RemoveTask(t)
      PROVE  req' = req
  BY <1>3 DEF Read, Receive, FetchFails, Refocus, OpenDetail, CloseDetail, RemoveTask
<1> QED
  BY <1>1, <1>2, <1>3 DEF Next, Fail, vars

LEMMA DismissalsNext ==
  ASSUME TypeOK, Linked, DismissalsWait, [Next]_vars
  PROVE  DismissalsWait'
<1> SUFFICES ASSUME NEW r \in Reqs, req'[r].op = "dismiss", req'[r].pc = "sent" PROVE req'[r].client = "waits"
  BY DEF DismissalsWait, At
<1>1. CASE Sent(r)
  BY <1>1 DEF Sent
<1>2. CASE Serve(r) \/ GitFails(r)
  BY <1>2, ServeMoves DEF Served
<1>3. CASE Same(r)
  <2>1. req[r].op = "dismiss" /\ req[r].pc = "sent" /\ req[r].client = "waits"
    BY <1>3 DEF Same, DismissalsWait, At
  <2> QED
    BY <2>1, WaitsOn DEF At
<1> QED
  BY <1>1, <1>2, <1>3, ReqMoves

LEMMA PanelNext ==
  ASSUME TypeOK, TypeOK', Linked, PanelInv, [Next]_vars
  PROVE  PanelInv'
  BY CoveredNext, LeftOpenNext, DismissalsNext DEF PanelInv

\* When the page waits for nothing, its panels show what the server has,
\* whichever optimistic statuses were put back and whichever answers and
\* deletions crossed, but for the queries that nothing has told the page of.
THEOREM PanelsAgree == Spec => []PanelAgrees
<1> DEFINE Inv == Typed /\ PanelInv
<1>1. Init => Inv
  <2> SUFFICES ASSUME Init PROVE PanelInv
    BY TypedInit
  <2>1. \A q \in Queries : fetch[q] = "idle"
    BY DEF Init
  <2>2. \A q \in Queries : Fresh(q)
    BY <2>1 DEF Init, Server, Fresh, Current, Queries
  <2>3. LeftOpen
    BY <2>1 DEF LeftOpen, Queries
  <2>4. DismissalsWait
    BY DEF Init, Unused, DismissalsWait, At
  <2> QED
    BY <2>2, <2>3, <2>4 DEF PanelInv, Covered
<1>2. Inv /\ [Next]_vars => Inv'
  BY TypedNext, PanelNext DEF Typed
<1>3. Inv => PanelAgrees
  <2> SUFFICES ASSUME Inv, Quiet, NEW q \in Mounted \ behind PROVE Panel(q, copy) = Panel(q, Server)
    BY DEF PanelAgrees
  <2>1. q \in Queries /\ (q = "history" => detail)
    BY DEF Mounted, Queries
  <2>2. fetch[q] = "idle" /\ ~Awaited(EditFor(q))
    BY <2>1 DEF Quiet, Awaited, Awaits, EditFor
  <2>3. Current(q, copy)
    BY <2>1, <2>2 DEF PanelInv, Covered, Fresh
  <2>4. Server.tasks = Latest /\ Server.entries = Len(log) /\ Server.briefing = briefing /\ Server.dismissed = dismissed
    BY DEF Server
  <2> QED
    BY <2>1, <2>3, <2>4 DEF Current, Panel, Glance, Timeline, Briefing, Notice, Queries
<1> QED
  BY <1>1, <1>2, <1>3, PTL DEF Spec

===============================================================================
