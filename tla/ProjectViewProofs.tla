--------------------------- MODULE ProjectViewProofs ---------------------------
(***************************************************************************)
(* What the view of ProjectView promises for every set of documents and    *)
(* reconnect loops, every bound on retries, deletes and failures, and      *)
(* every mixture of what may happen in a session.                          *)
(***************************************************************************)
EXTENDS ProjectView, SequenceTheorems, TLAPS

-----------------------------------------------------------------------------
(* Types.  A loop that has not given up has retries left. *)

LoopStates == [pc : {"off", "fetch", "open", "backoff", "gone", "denied"},
               retries : 0 .. MaxRetries + 1, subscribed : BOOLEAN, aborted : BOOLEAN]
Told       == [event : Events, doc : Docs]
Runs       == {"none", "queued", "running", "merged"}
Requests   == {"none", "sent", "forced", "checked", "created", "unqueued", "duplicate", "refused"}

RetriesLeft == \A l \in Loops : loop[l].pc # "gone" => loop[l].retries <= MaxRetries

TypeInv == TypeOK /\ RetriesLeft

LEMMA NothingTyped == Nothing \in Copy
  BY DEF Nothing, Copy, Rows, Maybe, Statuses, Active, Finished

LEMMA InvalidateTyped ==
  ASSUME TypeOK, NEW qs, Invalidate(qs)
  PROVE  /\ reading' \in [Queries -> {"idle", "sent", "answered"}] /\ answer' \in Copy
         /\ \A q \in Queries : reading'[q] = IF q \in qs THEN "sent" ELSE reading[q]
         /\ answer'.rows = (IF "documents" \in qs THEN Nothing.rows ELSE answer.rows)
         /\ answer'.commits = (IF "state" \in qs THEN Nothing.commits ELSE answer.commits)
<1>1. answer \in Copy /\ reading \in [Queries -> {"idle", "sent", "answered"}] /\ Nothing \in Copy
  BY NothingTyped DEF TypeOK
<1>2. answer'.rows \in Rows /\ answer'.commits \in Nat
  BY <1>1 DEF Invalidate, Copy
<1>3. answer' \in Copy
  BY <1>1, <1>2 DEF Invalidate, Copy
<1> QED
  BY <1>1, <1>3 DEF Invalidate

LEMMA PublishTyped ==
  ASSUME TypeOK, NEW e \in Events, NEW d \in Docs, Publish(e, d)
  PROVE  chan' \in [Loops -> Seq(Told)] /\ missed' \in BOOLEAN
<1>1. chan \in [Loops -> Seq(Told)] /\ [event |-> e, doc |-> d] \in Told
  BY DEF TypeOK, Told
<1>2. chan' \in [Loops -> Seq(Told)]
  BY <1>1 DEF Publish
<1>3. missed' \in BOOLEAN
  BY Zenon DEF Publish, TypeOK
<1> QED
  BY <1>2, <1>3

LEMMA StoreTyped ==
  ASSUME NEW e \in Events, NEW old \in Maybe(Statuses)
  PROVE  StoreStatus(e, old) \in Maybe(Statuses)
  BY DEF StoreStatus, Events, Maybe, Statuses, Active, Finished

LEMMA StreamTyped ==
  ASSUME TypeInv, NEW l \in Loops, StreamStep(l) \/ RenewToken(l)
  PROVE  TypeInv'
<1>0. MaxRetries \in Nat /\ loop \in [Loops -> LoopStates]
  BY ViewAssumption DEF TypeInv, TypeOK, LoopStates
<1> USE DEF TypeInv
<1>1. CASE Open(l)
  <2>1. loop' \in [Loops -> LoopStates] /\ RetriesLeft'
    <3> DEFINE o == [loop[l] EXCEPT !.pc = "open"]
               r == [o EXCEPT !.retries = 0]
    <3>1. loop' = [loop EXCEPT ![l] = r]
      BY <1>0, <1>1 DEF Open
    <3>2. o \in LoopStates
      BY <1>0 DEF LoopStates
    <3> HIDE DEF o
    <3>3. r \in LoopStates /\ r.retries = 0
      BY <1>0, <3>2 DEF LoopStates
    <3> HIDE DEF r
    <3> QED
      BY <1>0, <3>1, <3>3 DEF RetriesLeft
  <2> QED
    BY <1>1, <2>1 DEF Open, TypeOK, server, uploads, deletes, queries, LoopStates
<1>2. CASE Subscribe(l)
  <2>1. loop' \in [Loops -> LoopStates] /\ RetriesLeft'
    BY <1>0, <1>2 DEF Subscribe, LoopStates, RetriesLeft
  <2> QED
    BY <1>2, <2>1 DEF Subscribe, TypeOK, server, uploads, deletes, queries, LoopStates
<1>3. CASE LoopEnds(l)
  <2>1. loop' \in [Loops -> LoopStates] /\ RetriesLeft'
    <3>1. loop[l].retries \in Nat /\ loop[l].retries <= MaxRetries
      BY <1>0, <1>3 DEF LoopEnds, RetriesLeft, LoopStates
    <3>2. [pc |-> IF GiveUp(loop[l].retries + 1) THEN "gone" ELSE "backoff",
           retries |-> loop[l].retries + 1, subscribed |-> FALSE, aborted |-> FALSE] \in LoopStates
      BY <1>0, <3>1 DEF LoopStates
    <3> QED
      BY <1>0, <1>3, <3>1, <3>2 DEF LoopEnds, RetriesLeft, GiveUp
  <2>2. missed' \in BOOLEAN
    BY <1>3, Zenon DEF LoopEnds, TypeOK
  <2>3. chan' \in [Loops -> Seq(Told)]
    <3>1. chan \in [Loops -> Seq(Told)]
      BY DEF TypeOK, Told
    <3>2. chan' = [chan EXCEPT ![l] = <<>>]
      BY <1>3 DEF LoopEnds
    <3>3. <<>> \in Seq(Told)
      OBVIOUS
    <3> QED
      BY <3>1, <3>2, <3>3
  <2>4. faults' \in Nat /\ conn' \in {"connecting", "open", "disconnected"}
    BY <1>3 DEF LoopEnds, TypeOK
  <2> QED
    BY <1>3, <2>1, <2>2, <2>3, <2>4 DEF LoopEnds, TypeOK, server, uploads, deletes, queries, LoopStates, Told
<1>4. CASE Reconnect(l)
  <2>1. loop' \in [Loops -> LoopStates] /\ RetriesLeft'
    BY <1>0, <1>4 DEF Reconnect, LoopStates, RetriesLeft
  <2> QED
    BY <1>4, <2>1 DEF Reconnect, TypeOK, server, uploads, deletes, queries, LoopStates
<1>5. CASE Denied(l)
  <2>1. loop' \in [Loops -> LoopStates] /\ RetriesLeft'
    BY <1>0, <1>5 DEF Denied, LoopStates, RetriesLeft
  <2> QED
    BY <1>5, <2>1 DEF Denied, TypeOK, server, uploads, deletes, queries, LoopStates
<1>6. CASE HandleEvent(l)
  <2>1. chan[l] \in Seq(Told) /\ chan[l] # <<>> /\ chan \in [Loops -> Seq(Told)]
    BY <1>6 DEF HandleEvent, TypeOK, Told
  <2>2. Head(chan[l]) \in Told /\ Tail(chan[l]) \in Seq(Told)
    BY <2>1
  <2>3. Head(chan[l]).event \in Events /\ Head(chan[l]).doc \in Docs
    BY <2>2 DEF Told
  <2>4. live' \in [Docs -> Maybe(Statuses)]
    BY <1>6, <2>3, StoreTyped DEF HandleEvent, SetStatus, TypeOK
  <2>5. reading' \in [Queries -> {"idle", "sent", "answered"}] /\ answer' \in Copy
    BY <1>6, InvalidateTyped DEF HandleEvent
  <2>6. chan' \in [Loops -> Seq(Told)]
    BY <1>6, <2>1, <2>2 DEF HandleEvent
  <2> QED
    BY <1>6, <2>4, <2>5, <2>6 DEF HandleEvent, TypeOK, server, uploads, deletes, stream, Told, RetriesLeft
<1>7. CASE RenewToken(l)
  <2>1. NewLoop \in LoopStates /\ NewLoop.retries = 0
    BY <1>0 DEF NewLoop, LoopStates
  <2>2. loop' \in [Loops -> LoopStates] /\ RetriesLeft'
    <3>1. \A m \in Loops : \/ m = l /\ loop'[m] = NewLoop
                           \/ loop'[m] = [loop[m] EXCEPT !.aborted = TRUE]
                           \/ loop'[m] = loop[m]
      BY <1>7 DEF RenewToken
    <3>2. \A m \in Loops : loop'[m] \in LoopStates /\ (loop'[m].pc # "gone" => loop'[m].retries <= MaxRetries)
      <4> SUFFICES ASSUME NEW m \in Loops
          PROVE  loop'[m] \in LoopStates /\ (loop'[m].pc # "gone" => loop'[m].retries <= MaxRetries)
        OBVIOUS
      <4> DEFINE r == [loop[m] EXCEPT !.aborted = TRUE]
      <4>1. r \in LoopStates /\ r.pc = loop[m].pc /\ r.retries = loop[m].retries /\ loop[m] \in LoopStates
        BY <1>0 DEF LoopStates
      <4>2. loop'[m] \in {NewLoop, r, loop[m]}
        BY <3>1
      <4> HIDE DEF r
      <4> QED
        BY <1>0, <2>1, <4>1, <4>2 DEF RetriesLeft
    <3>3. loop' = [m \in Loops |-> loop'[m]]
      BY <1>7 DEF RenewToken
    <3> QED
      BY <3>2, <3>3 DEF RetriesLeft
  <2> QED
    BY <1>7, <2>2 DEF RenewToken, TypeOK, server, uploads, deletes, queries, LoopStates
<1> QED
  BY <1>1, <1>2, <1>3, <1>4, <1>5, <1>6, <1>7 DEF StreamStep

LEMMA QueryTyped ==
  ASSUME TypeInv, NEW q \in Queries, QueryStep(q) \/ FetchFails(q)
  PROVE  TypeInv'
<1> USE DEF TypeInv
<1>1. cache \in Copy /\ answer \in Copy /\ Nothing \in Copy
  BY NothingTyped DEF TypeOK
<1>2. CASE Answer(q)
  <2>1. ServerRows \in Rows /\ commits \in Nat
    BY DEF ServerRows, Rows, TypeOK, Maybe
  <2>2. answer' \in Copy /\ reading' \in [Queries -> {"idle", "sent", "answered"}]
    BY <1>1, <1>2, <2>1 DEF Answer, Copy, TypeOK
  <2> QED
    BY <1>2, <2>2 DEF Answer, TypeOK, server, uploads, deletes, stream, RetriesLeft
<1>3. CASE Receive(q)
  <2>1. answer' \in Copy /\ cache' \in Copy /\ reading' \in [Queries -> {"idle", "sent", "answered"}]
    BY <1>1, <1>3 DEF Receive, Copy, TypeOK
  <2> QED
    BY <1>3, <2>1 DEF Receive, TypeOK, server, uploads, deletes, stream, RetriesLeft
<1>4. CASE FetchFails(q)
  <2>1. faults' \in Nat /\ missed' = TRUE
    BY <1>4 DEF FetchFails, TypeOK
  <2>2. reading' \in [Queries -> {"idle", "sent", "answered"}]
    BY <1>4 DEF FetchFails, TypeOK
  <2> QED
    BY <1>4, <2>1, <2>2 DEF FetchFails, TypeOK, server, uploads, deletes, RetriesLeft
<1> QED
  BY <1>2, <1>3, <1>4 DEF QueryStep

LEMMA RunTyped ==
  ASSUME TypeInv, NEW d \in Docs, RunStep(d) \/ MarkCancelled(d)
  PROVE  TypeInv'
<1> USE DEF TypeInv
<1>0. /\ {"processing", "done", "completed_partial", "failed", "cancelled"} \subseteq Maybe(Statuses)
      /\ {"started", "state", "complete", "failed", "cancelled"} \subseteq Events
  BY DEF Maybe, Statuses, Active, Finished, Events
<1>1. row' \in Rows /\ run' \in [Docs -> Runs] /\ commits' \in Nat /\ since' \in [Docs -> Nat] /\ marking' \subseteq Docs
  <2>1. row \in Rows /\ run \in [Docs -> Runs] /\ commits \in Nat /\ since \in [Docs -> Nat] /\ marking \subseteq Docs
    BY DEF TypeOK, Runs
  <2>2. CASE StartRun(d) \/ MergeState(d)
    BY <1>0, <2>1, <2>2 DEF StartRun, MergeState, Rows, Runs
  <2>3. CASE Complete(d)
    BY <1>0, <2>1, <2>3 DEF Complete, Rows, Runs
  <2>4. CASE FailRun(d)
    BY <1>0, <2>1, <2>4 DEF FailRun, Rows, Runs
  <2>5. CASE StopRun(d) \/ MarkCancelled(d)
    BY <1>0, <2>1, <2>5 DEF StopRun, MarkCancelled, Rows, Runs
  <2> QED
    BY <2>2, <2>3, <2>4, <2>5 DEF RunStep
<1>2. chan' \in [Loops -> Seq(Told)] /\ missed' \in BOOLEAN
  BY <1>0, PublishTyped DEF RunStep, StartRun, MergeState, Complete, FailRun, StopRun, MarkCancelled
<1>3. UNCHANGED <<session, archived, flagged, uploads, deletes, live, queries, stream>>
  BY DEF RunStep, StartRun, MergeState, Complete, FailRun, StopRun, MarkCancelled
<1> QED
  BY <1>1, <1>2, <1>3 DEF TypeOK, uploads, deletes, queries, stream, RetriesLeft, Runs, Told

LEMMA UploadTyped ==
  ASSUME TypeInv, NEW d \in Docs, UploadStep(d) \/ StartUpload(d) \/ StopUpload(d)
  PROVE  TypeInv'
<1> USE DEF TypeInv
<1>1. CASE StoreUpload(d)
  <2>1. "pending" \in Maybe(Statuses) /\ "queued" \in Events
    BY DEF Maybe, Statuses, Active, Events
  <2>2. row' \in Rows /\ run' \in [Docs -> Runs] /\ req' \in [Docs -> Requests]
    BY <1>1, <2>1 DEF StoreUpload, TypeOK, Rows, Runs, Requests
  <2>3. chan' \in [Loops -> Seq(Told)] /\ missed' \in BOOLEAN
    BY <1>1, <2>1, PublishTyped DEF StoreUpload
  <2> QED
    BY <1>1, <2>2, <2>3 DEF StoreUpload, TypeOK, deletes, queries, stream, RetriesLeft, Runs, Told, Requests
<1>2. CASE UploadDone(d)
  <2>1. reading' \in [Queries -> {"idle", "sent", "answered"}] /\ answer' \in Copy
    BY <1>2, InvalidateTyped DEF UploadDone
  <2> QED
    BY <1>2, <2>1 DEF UploadDone, TypeOK, server, deletes, stream, RetriesLeft
<1>3. CASE ~StoreUpload(d) /\ ~UploadDone(d)
  <2>1. UNCHANGED <<session, server, deletes, live, queries, chan, missed, stream>>
    BY <1>3 DEF UploadStep, StartUpload, CheckUpload, RefuseUpload, UploadDuplicate, UploadFails, StopUpload, IgnoreAnswer
  <2>2. up' \in [Docs -> {"none", "uploading", "done", "error"}] /\ req' \in [Docs -> Requests]
    BY <1>3 DEF UploadStep, StartUpload, CheckUpload, RefuseUpload, UploadDuplicate, UploadFails, StopUpload, IgnoreAnswer,
                TypeOK, Requests
  <2> QED
    BY <2>1, <2>2 DEF TypeOK, server, deletes, queries, stream, RetriesLeft, Requests
<1> QED
  BY <1>1, <1>2, <1>3

LEMMA DeleteTyped ==
  ASSUME TypeInv, NEW d \in Docs, DeleteStep(d) \/ RequestDelete(d)
  PROVE  TypeInv'
<1> USE DEF TypeInv
<1>0. toasts \in [Docs -> Seq(Toast)] /\ timerOf \in [Docs -> Nat] /\ toasts[d] \in Seq(Toast)
  BY DEF TypeOK
<1>1. CASE RequestDelete(d)
  <2>1. [timer |-> "armed", undone |-> FALSE] \in Toast
    BY DEF Toast
  <2>2. toasts' \in [Docs -> Seq(Toast)] /\ timerOf' \in [Docs -> Nat]
    BY <1>0, <1>1, <2>1 DEF RequestDelete
  <2>3. cache' \in Copy
    BY <1>1 DEF RequestDelete, TypeOK, Copy, Rows, Maybe
  <2> QED
    BY <1>1, <2>2, <2>3 DEF RequestDelete, TypeOK, server, uploads, stream, RetriesLeft
<1>2. ASSUME NEW i \in DOMAIN toasts[d], SendDelete(d, i) PROVE TypeInv'
  <2>1. toasts[d][i] \in Toast
    BY <1>0, <1>2
  <2>2. [toasts[d][i] EXCEPT !.timer = "fired"] \in Toast
    BY <2>1 DEF Toast
  <2>3. [toasts[d] EXCEPT ![i] = [toasts[d][i] EXCEPT !.timer = "fired"]] \in Seq(Toast)
    BY <1>0, <1>2, <2>2
  <2>4. toasts' \in [Docs -> Seq(Toast)] /\ timerOf' \in [Docs -> Nat] /\ deleting' \in [Docs -> Nat]
    BY <1>0, <1>2, <2>3 DEF SendDelete, TypeOK
  <2> QED
    BY <1>2, <2>4 DEF SendDelete, TypeOK, server, uploads, queries, stream, RetriesLeft
<1>3. ASSUME NEW i \in DOMAIN toasts[d], Undo(d, i) PROVE TypeInv'
  <2> DEFINE t == [toasts[d] EXCEPT ![i].undone = TRUE]
             k == timerOf[d]
             u == [t EXCEPT ![k].timer = "cleared"]
  <2>1. toasts[d][i] \in Toast /\ i \in DOMAIN toasts[d]
    BY <1>0, <1>3
  <2>2. [toasts[d][i] EXCEPT !.undone = TRUE] \in Toast
    BY <2>1 DEF Toast
  <2>3. t \in Seq(Toast)
    BY <1>0, <2>1, <2>2
  <2>4. u \in Seq(Toast)
    <3> HIDE DEF t
    <3>1. CASE k \in DOMAIN t
      <4>1. t[k] \in Toast
        BY <2>3, <3>1
      <4>2. [t[k] EXCEPT !.timer = "cleared"] \in Toast
        BY <4>1 DEF Toast
      <4> QED
        BY <2>3, <3>1, <4>2
    <3>2. CASE k \notin DOMAIN t
      <4>1. DOMAIN u = DOMAIN t /\ \A x \in DOMAIN t : u[x] = t[x]
        BY <3>2
      <4>2. t = [x \in DOMAIN t |-> t[x]] /\ u = [x \in DOMAIN u |-> u[x]]
        BY <2>3
      <4>3. u = t
        BY <4>1, <4>2, Zenon
      <4> QED
        BY <2>3, <4>3
    <3> QED
      BY <3>1, <3>2
  <2>5. toasts' = [toasts EXCEPT ![d] = IF k = 0 THEN t ELSE u] /\ timerOf' = [timerOf EXCEPT ![d] = 0]
        /\ restoring' = [restoring EXCEPT ![d] = @ + 1]
    BY <1>3 DEF Undo
  <2> HIDE DEF t, k, u
  <2>6. toasts' \in [Docs -> Seq(Toast)] /\ timerOf' \in [Docs -> Nat] /\ restoring' \in [Docs -> Nat]
    BY <1>0, <2>3, <2>4, <2>5 DEF TypeOK
  <2> QED
    BY <1>3, <2>6 DEF Undo, TypeOK, server, uploads, queries, stream, RetriesLeft
<1>4. CASE Archive(d)
  <2>1. deleting' \in [Docs -> Nat] /\ archived' \subseteq Docs /\ commits' \in Nat /\ since' \in [Docs -> Nat]
    BY <1>4 DEF Archive, TypeOK
  <2>2. chan' \in [Loops -> Seq(Told)] /\ missed' \in BOOLEAN
    BY <1>4, PublishTyped DEF Archive, Events
  <2> QED
    BY <1>4, <2>1, <2>2 DEF Archive, TypeOK, uploads, queries, stream, RetriesLeft, Told
<1>5. CASE DeleteFails(d)
  <2>1. deleting' \in [Docs -> Nat] /\ faults' \in Nat
    BY <1>5 DEF DeleteFails, TypeOK
  <2> QED
    BY <1>5, <2>1 DEF DeleteFails, TypeOK, server, uploads, queries, RetriesLeft
<1>6. CASE Restore(d)
  <2>1. reading' \in [Queries -> {"idle", "sent", "answered"}] /\ answer' \in Copy
    BY <1>6, InvalidateTyped DEF Restore
  <2>2. restoring' \in [Docs -> Nat] /\ run' \in [Docs -> Runs] /\ archived' \subseteq Docs /\ flagged' \subseteq Docs
    BY <1>6 DEF Restore, TypeOK, Runs
  <2>3. row' \in Rows
    BY <1>6 DEF Restore, TypeOK, Rows, Maybe, Statuses, Active
  <2> QED
    BY <1>6, <2>1, <2>2, <2>3 DEF Restore, TypeOK, uploads, stream, RetriesLeft, Runs
<1> QED
  BY <1>1, <1>2, <1>3, <1>4, <1>5, <1>6 DEF DeleteStep

LEMMA PageTyped ==
  ASSUME TypeInv, ShowTab \/ CancelAll
  PROVE  TypeInv'
<1> USE DEF TypeInv
<1>1. CASE ShowTab
  <2>1. reading' \in [Queries -> {"idle", "sent", "answered"}] /\ answer' \in Copy
    BY <1>1, InvalidateTyped DEF ShowTab
  <2>2. loop \in [Loops -> LoopStates] /\ ctrl \in Loops /\ loop[ctrl].aborted \in BOOLEAN
    BY DEF TypeOK, LoopStates
  <2> DEFINE a == loop[ctrl].aborted \/ loop[ctrl].pc \in {"fetch", "open"}
  <2>3. loop' = [loop EXCEPT ![ctrl] = [loop[ctrl] EXCEPT !.aborted = a]] /\ a \in BOOLEAN
    BY <1>1 DEF ShowTab
  <2> HIDE DEF a
  <2>4. loop' \in [Loops -> LoopStates] /\ RetriesLeft'
    BY <2>2, <2>3 DEF LoopStates, RetriesLeft
  <2>5. UNCHANGED <<session, server, uploads, deletes, live, cache, chan, missed, current, ctrl, conn>> /\ faults' \in Nat
    BY <1>1 DEF ShowTab, TypeOK
  <2> QED
    BY <2>1, <2>4, <2>5 DEF TypeOK, server, uploads, deletes, LoopStates
<1>2. CASE CancelAll
  <2>1. flagged' \subseteq Docs /\ marking' \subseteq Docs
    BY <1>2 DEF CancelAll, TypeOK
  <2> QED
    BY <1>2, <2>1 DEF CancelAll, TypeOK, uploads, deletes, queries, stream, RetriesLeft
<1> QED
  BY <1>1, <1>2

LEMMA TypeNext == TypeInv /\ [Next]_vars => TypeInv'
<1> SUFFICES ASSUME TypeInv, [Next]_vars PROVE TypeInv'
  OBVIOUS
<1>1. CASE UNCHANGED vars
  BY <1>1 DEF vars, server, uploads, deletes, queries, stream, TypeInv, TypeOK, RetriesLeft
<1> QED
  BY <1>1, StreamTyped, QueryTyped, RunTyped, UploadTyped, DeleteTyped, PageTyped DEF Next, User

LEMMA TypeInit == Init => TypeInv
<1> SUFFICES ASSUME Init PROVE TypeInv
  OBVIOUS
<1>1. session \in Session /\ session \in Sessions /\ MaxRetries \in Nat /\ FirstLoop \in Loops
  BY ViewAssumption DEF Init, FirstLoop
<1>2. row \in Rows
  BY <1>1 DEF Init, Session, Rows, Maybe, Statuses, Active, Finished
<1>3. loop \in [Loops -> LoopStates] /\ RetriesLeft
  <2>1. NewLoop \in LoopStates /\ [NewLoop EXCEPT !.pc = "off"] \in LoopStates
        /\ NewLoop.retries = 0 /\ [NewLoop EXCEPT !.pc = "off"].retries = 0
    <3>1. NewLoop \in LoopStates /\ NewLoop.retries = 0
      BY <1>1 DEF NewLoop, LoopStates
    <3> QED
      BY <3>1 DEF LoopStates
  <2>2. loop = [l \in Loops |-> IF l = FirstLoop THEN NewLoop ELSE [NewLoop EXCEPT !.pc = "off"]]
    BY DEF Init
  <2>3. \A l \in Loops : loop[l] \in LoopStates /\ loop[l].retries = 0
    BY <2>1, <2>2
  <2> QED
    BY <1>1, <2>2, <2>3 DEF RetriesLeft
<1>4. cache \in Copy /\ answer \in Copy
  BY NothingTyped DEF Init
<1>5. toasts \in [Docs -> Seq(Toast)] /\ chan \in [Loops -> Seq(Told)]
  BY DEF Init
<1> QED
  BY <1>1, <1>2, <1>3, <1>4, <1>5 DEF Init, TypeInv, TypeOK, Maybe, Queries, LoopStates, Told

\* Every reachable state is well typed; a loop counts no further than one past its retries.
THEOREM TypeCorrect == Spec => []TypeOK
<1>1. TypeInv => TypeOK
  BY DEF TypeInv
<1> QED
  BY <1>1, TypeInit, TypeNext, PTL DEF Spec

-----------------------------------------------------------------------------
(* The view.  What the server has changed is in an event on its way to     *)
(* some loop, or in a fetch that has not read yet, or the client has it.   *)
(* A loop that is not subscribed has nothing on its way, so the last event *)
(* about a document is the same for every loop that has not handled it.    *)

Telling      == {"queued", "started", "complete", "failed", "archived"}
Tells(e, d)  == e.doc = d /\ e.event \in Telling
Renews(e, d) == e.doc = d /\ e.event \in {"complete", "archived"}
Pending(d)   == \E l \in Loops : \E i \in 1 .. Len(chan[l]) : Tells(chan[l][i], d)
Renewed(d)   == \E l \in Loops : \E i \in 1 .. Len(chan[l]) : Renews(chan[l][i], d)

Unread == \A l \in Loops : /\ ~loop[l].subscribed => chan[l] = <<>>
                           /\ loop[l].subscribed => loop[l].pc \in {"fetch", "open"}

\* What a run, a cancel request or a copy is about has a row.
Real == \A d \in Docs : run[d] # "none" \/ d \in marking \/ cache.rows[d] # "none" \/ answer.rows[d] # "none"
                        => row[d] # "none"

PanelTrue(d) ==
    /\ since[d] <= commits
    /\ \/ Renewed(d)
       \/ /\ reading["state"] = "answered" => answer.commits >= since[d]
          /\ reading["state"] = "idle" => cache.commits >= since[d]

Same(d, rows) == /\ rows[d] # "none" => Listed(d)
                 /\ row[d] \in Finished => rows[d] \in {"none", row[d]}
Wanted(d)     == \E i \in DOMAIN toasts[d] : ~toasts[d][i].undone

ListTrue(d) ==
    \/ Pending(d) \/ restoring[d] > 0
    \/ /\ reading["documents"] = "answered" => Same(d, answer.rows) /\ (Listed(d) => answer.rows[d] # "none")
       /\ reading["documents"] = "idle" => Same(d, cache.rows) /\ (Listed(d) /\ cache.rows[d] = "none" => Wanted(d))

\* What the store may hold of a document: its end, or nothing if it was deleted, or not touched yet.
TrueOf(d, s) == row[d] \in Finished
                => s = AsShown(row[d]) \/ (s = "none" /\ (d \in archived \/ AsShown(row[d]) = row[d]))

Status(e)      == StoreStatus(e, "none")
LastTrue(q, d) == \A i \in 1 .. Len(q) : Tells(q[i], d) /\ (\A j \in i + 1 .. Len(q) : ~Tells(q[j], d))
                                         => TrueOf(d, Status(q[i].event))
StoreTrue(d)   == (\A l \in Loops : LastTrue(chan[l], d)) /\ (Pending(d) \/ TrueOf(d, live[d]))

ViewTrue == \A d \in Docs : PanelTrue(d) /\ ListTrue(d) /\ StoreTrue(d)
ViewInv  == Unread /\ Real /\ (~missed => ViewTrue)

-----------------------------------------------------------------------------
(* Events that are published. *)

\* Every loop gets the event, or has nothing to read; and some loop gets it.
LEMMA Published ==
  ASSUME TypeOK, Unread, NEW e \in Events, NEW d \in Docs, Publish(e, d), loop' = loop, ~missed'
  PROVE  /\ ~missed /\ Unread'
         /\ \A l \in Loops : \/ chan'[l] = Append(chan[l], [event |-> e, doc |-> d])
                             \/ chan[l] = <<>> /\ chan'[l] = <<>>
         /\ \E l \in Loops : chan'[l] = Append(chan[l], [event |-> e, doc |-> d])
<1>1. ~missed /\ Subscribers # {}
  BY Zenon DEF Publish
<1>2. /\ \A l \in Subscribers : chan'[l] = Append(chan[l], [event |-> e, doc |-> d])
      /\ \A l \in Loops \ Subscribers : chan'[l] = chan[l]
  BY DEF Publish, Subscribers
<1>3. \A l \in Loops : l \in Subscribers <=> loop[l].subscribed
  BY DEF Subscribers
<1>4. Unread' /\ \A l \in Loops \ Subscribers : chan[l] = <<>>
  BY <1>2, <1>3 DEF Unread
<1>5. PICK l \in Loops : l \in Subscribers
  BY <1>1 DEF Subscribers
<1> QED
  BY <1>1, <1>2, <1>4, <1>5

\* What was on its way still is, and the event as well.
LEMMA PublishedPending ==
  ASSUME TypeOK, Unread, NEW e \in Events, NEW d \in Docs, Publish(e, d), loop' = loop, ~missed', NEW x \in Docs
  PROVE  /\ Pending(x) => Pending(x)'
         /\ Renewed(x) => Renewed(x)'
         /\ e \in Telling => Pending(d)'
         /\ e \in {"complete", "archived"} => Renewed(d)'
<1> DEFINE m == [event |-> e, doc |-> d]
<1>1. /\ \A l \in Loops : chan'[l] = Append(chan[l], m) \/ (chan[l] = <<>> /\ chan'[l] = <<>>)
      /\ \E l \in Loops : chan'[l] = Append(chan[l], m)
  BY Published
<1>2. \A l \in Loops : chan[l] \in Seq(Told)
  BY DEF TypeOK, Told
<1>3. m.event = e /\ m.doc = d
  OBVIOUS
<1> HIDE DEF m
<1>4. ASSUME NEW l \in Loops, NEW i \in 1 .. Len(chan[l])
      PROVE  i \in 1 .. Len(chan'[l]) /\ chan'[l][i] = chan[l][i]
  BY <1>1, <1>2
<1>5. \E l \in Loops : \E i \in 1 .. Len(chan'[l]) : chan'[l][i] = m
  <2>1. PICK l \in Loops : chan'[l] = Append(chan[l], m)
    BY <1>1
  <2>2. Len(chan'[l]) \in 1 .. Len(chan'[l]) /\ chan'[l][Len(chan'[l])] = m
    BY <1>2, <2>1
  <2> QED
    BY <2>2
<1>6. (Pending(x) => Pending(x)') /\ (Renewed(x) => Renewed(x)')
  BY <1>4 DEF Pending, Renewed
<1>7. (e \in Telling => Pending(d)') /\ (e \in {"complete", "archived"} => Renewed(d)')
  BY <1>3, <1>5 DEF Pending, Renewed, Tells, Renews
<1> QED
  BY <1>6, <1>7

\* The last event about a document is true of it.
LEMMA PublishedLast ==
  ASSUME TypeOK, Unread, NEW e \in Events, NEW d \in Docs, Publish(e, d), loop' = loop, ~missed', NEW x \in Docs,
         \A l \in Loops : LastTrue(chan[l], x),
         x = d /\ e \in Telling => TrueOf(x, Status(e))',
         ~(x = d /\ e \in Telling) => \A s : TrueOf(x, s) => TrueOf(x, s)'
  PROVE  \A l \in Loops : LastTrue(chan[l], x)'
<1> SUFFICES ASSUME NEW l \in Loops, NEW i \in 1 .. Len(chan'[l]), Tells(chan'[l][i], x),
                    \A j \in i + 1 .. Len(chan'[l]) : ~Tells(chan'[l][j], x)
    PROVE  TrueOf(x, Status(chan[l][i].event))'
  BY DEF LastTrue
<1> DEFINE m == [event |-> e, doc |-> d]
<1>1. chan'[l] = Append(chan[l], m)
  BY Published
<1>2. chan[l] \in Seq(Told)
  BY DEF TypeOK, Told
<1>3. m.event = e /\ m.doc = d
  OBVIOUS
<1> HIDE DEF m
<1>4. /\ Len(chan[l]) \in Nat /\ Len(chan'[l]) = Len(chan[l]) + 1 /\ chan'[l][Len(chan[l]) + 1] = m
      /\ \A j \in 1 .. Len(chan[l]) : chan'[l][j] = chan[l][j]
  BY <1>1, <1>2
<1>5. CASE i = Len(chan[l]) + 1
  <2>1. x = d /\ e \in Telling /\ chan'[l][i].event = e
    BY <1>3, <1>4, <1>5 DEF Tells
  <2> QED
    BY <2>1 DEF TrueOf
<1>6. CASE i # Len(chan[l]) + 1
  <2>1. i \in 1 .. Len(chan[l]) /\ chan'[l][i] = chan[l][i]
    BY <1>4, <1>6
  <2>2. ~Tells(m, x)
    <3>1. Len(chan[l]) + 1 \in i + 1 .. Len(chan'[l])
      BY <1>4, <2>1
    <3>2. ~Tells(chan'[l][Len(chan[l]) + 1], x)
      BY <3>1
    <3> QED
      BY <1>4, <3>2
  <2>3. ~(x = d /\ e \in Telling)
    BY <1>3, <2>2 DEF Tells
  <2>4. \A j \in i + 1 .. Len(chan[l]) : ~Tells(chan[l][j], x)
    BY <1>4, <2>1
  <2>5. Tells(chan[l][i], x)
    BY <2>1
  <2>6. TrueOf(x, Status(chan[l][i].event))
    BY <2>1, <2>4, <2>5 DEF LastTrue
  <2>7. PICK s : s = Status(chan[l][i].event) /\ s = Status(chan'[l][i].event)
    BY <2>1
  <2>8. TrueOf(x, s) => TrueOf(x, s)'
    BY <2>3
  <2> QED
    BY <2>6, <2>7, <2>8 DEF TrueOf
<1> QED
  BY <1>5, <1>6

\* A step of the server that tells of one document: what it changes in the
\* list, in the state or in the store is in the event.
LEMMA PublishView ==
  ASSUME TypeInv, ViewInv, NEW e \in Events, NEW d \in Docs, Publish(e, d), loop' = loop, Real',
         UNCHANGED <<toasts, restoring, live, queries>>,
         \A x \in Docs \ {d} : row'[x] = row[x] /\ (x \in archived' <=> x \in archived) /\ since'[x] = since[x],
         commits \in Nat, commits' \in Nat, commits <= commits', since[d] \in Nat,
         since'[d] = since[d] \/ (since'[d] = commits' /\ e \in {"complete", "archived"}),
         e \in Telling => TrueOf(d, Status(e))',
         e \notin Telling => /\ (Listed(d)' <=> Listed(d)) /\ (d \in archived' <=> d \in archived)
                             /\ (row'[d] \in Finished => row'[d] = row[d])
  PROVE  ViewInv'
<1>0. TypeOK /\ Unread
  BY DEF TypeInv, ViewInv
<1>1. CASE missed'
  <2>1. Unread'
    <3>1. \A l \in Loops : chan'[l] = IF l \in Subscribers THEN Append(chan[l], [event |-> e, doc |-> d]) ELSE chan[l]
      BY DEF Publish
    <3> QED
      BY <1>0, <3>1 DEF Unread, Subscribers
  <2> QED
    BY <1>1, <2>1 DEF ViewInv
<1>2. CASE ~missed'
  <2>1. ~missed /\ Unread' /\ ViewTrue
    BY <1>0, <1>2, Published DEF ViewInv
  <2>2. UNCHANGED <<cache, reading, answer, toasts, restoring, live>>
    BY DEF queries
  <2>3. ASSUME NEW x \in Docs PROVE (PanelTrue(x) /\ ListTrue(x) /\ StoreTrue(x))'
    <3>0. /\ PanelTrue(x) /\ ListTrue(x) /\ StoreTrue(x)
          /\ Pending(x) => Pending(x)'
          /\ Renewed(x) => Renewed(x)'
          /\ e \in Telling => Pending(d)'
          /\ e \in {"complete", "archived"} => Renewed(d)'
      BY <1>0, <1>2, <2>1, PublishedPending DEF ViewTrue
    <3>1. PanelTrue(x)'
      <4>0. since[x] \in Nat /\ since[x] <= commits
        BY <1>0, <3>0 DEF PanelTrue, TypeOK
      <4>1. since'[x] <= commits'
        BY <4>0
      <4>2. CASE since'[x] = since[x]
        BY <2>2, <3>0, <4>0, <4>1, <4>2 DEF PanelTrue
      <4>3. CASE since'[x] # since[x]
        BY <3>0, <4>1, <4>3 DEF PanelTrue
      <4> QED
        BY <4>2, <4>3
    <3>2. ListTrue(x)'
      <4>1. CASE x = d /\ e \in Telling
        BY <3>0, <4>1 DEF ListTrue
      <4>2. CASE ~(x = d /\ e \in Telling)
        <5>1. (Listed(x)' <=> Listed(x)) /\ (row'[x] \in Finished => row'[x] = row[x])
          BY <4>2 DEF Listed
        <5>2. (Same(x, answer.rows) => Same(x, answer.rows)') /\ (Same(x, cache.rows) => Same(x, cache.rows)')
          BY <2>2, <5>1 DEF Same
        <5>3. Wanted(x) => Wanted(x)'
          BY <2>2 DEF Wanted
        <5> QED
          BY <2>2, <3>0, <5>1, <5>2, <5>3 DEF ListTrue
      <4> QED
        BY <4>1, <4>2
    <3>3. ~(x = d /\ e \in Telling) => \A s : TrueOf(x, s) => TrueOf(x, s)'
      BY DEF TrueOf
    <3>4. StoreTrue(x)'
      <4>1. \A l \in Loops : LastTrue(chan[l], x)'
        BY <1>0, <1>2, <3>0, <3>3, PublishedLast DEF StoreTrue
      <4>2. Pending(x)' \/ TrueOf(x, live[x])'
        BY <2>2, <3>0, <3>3 DEF StoreTrue
      <4> QED
        BY <4>1, <4>2 DEF StoreTrue
    <3> QED
      BY <3>1, <3>2, <3>4
  <2> QED
    BY <2>1, <2>3 DEF ViewInv, ViewTrue
<1> QED
  BY <1>1, <1>2

-----------------------------------------------------------------------------
(* The steps of the server, of the stream, of the queries and of the user. *)

\* Nothing of the view changes but whether the loops are subscribed.
LEMMA SameView ==
  ASSUME ViewInv, UNCHANGED <<row, archived, commits, since, toasts, restoring, live, cache, reading, answer>>,
         Unread', Real', ~missed' => ~missed /\ chan' = chan
  PROVE  ViewInv'
<1> SUFFICES ASSUME ~missed', NEW d \in Docs PROVE (PanelTrue(d) /\ ListTrue(d) /\ StoreTrue(d))'
  BY DEF ViewInv, ViewTrue
<1>1. PanelTrue(d) /\ ListTrue(d) /\ StoreTrue(d) /\ chan' = chan
  BY DEF ViewInv, ViewTrue
<1>2. (Pending(d)' <=> Pending(d)) /\ (Renewed(d)' <=> Renewed(d))
  BY <1>1 DEF Pending, Renewed
<1>3. PanelTrue(d)'
  BY <1>1, <1>2 DEF PanelTrue
<1>4. ListTrue(d)'
  BY <1>1, <1>2 DEF ListTrue, Same, Listed, Wanted
<1>5. StoreTrue(d)'
  BY <1>1, <1>2 DEF StoreTrue, LastTrue, TrueOf
<1> QED
  BY <1>3, <1>4, <1>5

LEMMA RunView ==
  ASSUME TypeInv, ViewInv, NEW d \in Docs, RunStep(d) \/ MarkCancelled(d)
  PROVE  ViewInv'
<1>1. /\ row \in [Docs -> Maybe(Statuses)] /\ run \in [Docs -> Runs] /\ since \in [Docs -> Nat] /\ commits \in Nat
      /\ since[d] \in Nat /\ commits' \in Nat /\ commits <= commits'
  BY DEF TypeInv, TypeOK, Rows, Runs, RunStep, StartRun, MergeState, Complete, FailRun, StopRun, MarkCancelled
<1>2. /\ loop' = loop /\ UNCHANGED <<toasts, restoring, live, queries, archived>>
      /\ \A x \in Docs \ {d} : row'[x] = row[x] /\ since'[x] = since[x]
  BY <1>1 DEF RunStep, StartRun, MergeState, Complete, FailRun, StopRun, MarkCancelled, deletes, stream
<1>3. row[d] # "none"
  BY DEF ViewInv, Real, RunStep, StartRun, MergeState, Complete, FailRun, StopRun, MarkCancelled, Busy
<1>4. row'[d] # "none"
  BY <1>1, <1>3 DEF RunStep, StartRun, MergeState, Complete, FailRun, StopRun, MarkCancelled
<1>5. Real'
  <2>1. /\ \A x \in Docs \ {d} : run'[x] = run[x] /\ (x \in marking' => x \in marking)
        /\ UNCHANGED <<cache, answer>>
    BY <1>1 DEF RunStep, StartRun, MergeState, Complete, FailRun, StopRun, MarkCancelled, queries
  <2> QED
    BY <1>2, <1>4, <2>1 DEF ViewInv, Real
<1>6. {"started", "state", "complete", "failed", "cancelled"} \subseteq Events
  BY DEF Events
<1>7. CASE StartRun(d)
  <2>1. Publish("started", d) /\ row'[d] = "processing" /\ since' = since
    BY <1>1, <1>7 DEF StartRun
  <2>2. TrueOf(d, Status("started"))'
    BY <2>1 DEF TrueOf, Finished
  <2> QED
    BY <1>1, <1>2, <1>5, <1>6, <2>1, <2>2, PublishView DEF Telling
<1>8. CASE MergeState(d)
  <2>1. Publish("state", d) /\ row' = row /\ since' = since
    BY <1>8 DEF MergeState
  <2>2. Listed(d)' <=> Listed(d)
    BY <1>2, <2>1 DEF Listed
  <2>3. "state" \notin Telling
    BY DEF Telling
  <2> QED
    BY <1>1, <1>2, <1>5, <1>6, <2>1, <2>2, <2>3, PublishView
<1>9. CASE Complete(d)
  <2>1. Publish("complete", d) /\ row'[d] \in {"done", "completed_partial"} /\ since'[d] = commits'
    BY <1>1, <1>9 DEF Complete
  <2>2. TrueOf(d, Status("complete"))'
    BY <2>1 DEF TrueOf, Status, StoreStatus, AsShown
  <2> QED
    BY <1>1, <1>2, <1>5, <1>6, <2>1, <2>2, PublishView DEF Telling
<1>10. CASE FailRun(d)
  <2>1. Publish("failed", d) /\ row'[d] = "failed" /\ since' = since
    BY <1>1, <1>10 DEF FailRun
  <2>2. TrueOf(d, Status("failed"))'
    BY <2>1 DEF TrueOf, Status, StoreStatus, AsShown
  <2> QED
    BY <1>1, <1>2, <1>5, <1>6, <2>1, <2>2, PublishView DEF Telling
<1>11. CASE StopRun(d) \/ MarkCancelled(d)
  <2>1. Publish("cancelled", d) /\ row'[d] = "cancelled" /\ since' = since
    BY <1>1, <1>11 DEF StopRun, MarkCancelled
  <2>2. (Listed(d)' <=> Listed(d)) /\ row'[d] \notin Finished
    BY <1>2, <1>3, <2>1 DEF Listed, Finished
  <2>3. "cancelled" \notin Telling
    BY DEF Telling
  <2> QED
    BY <1>1, <1>2, <1>5, <1>6, <2>1, <2>2, <2>3, PublishView
<1> QED
  BY <1>7, <1>8, <1>9, <1>10, <1>11 DEF RunStep

LEMMA StoreUploadView ==
  ASSUME TypeInv, ViewInv, NEW d \in Docs, StoreUpload(d)
  PROVE  ViewInv'
<1>1. /\ row \in [Docs -> Maybe(Statuses)] /\ run \in [Docs -> Runs] /\ commits \in Nat /\ since[d] \in Nat
      /\ commits <= commits
  BY DEF TypeInv, TypeOK, Rows, Runs
<1>2. /\ loop' = loop /\ UNCHANGED <<toasts, restoring, live, queries, archived, since, commits, marking, cache, answer>>
      /\ \A x \in Docs \ {d} : row'[x] = row[x] /\ run'[x] = run[x]
      /\ row'[d] = "pending" /\ Publish("queued", d)
  BY <1>1 DEF StoreUpload, deletes, stream, queries
<1>3. Real'
  BY <1>2 DEF ViewInv, Real
<1>4. TrueOf(d, Status("queued"))'
  BY <1>2 DEF TrueOf, Finished
<1>5. "queued" \in Telling /\ "queued" \in Events
  BY DEF Telling, Events
<1> QED
  BY <1>1, <1>2, <1>3, <1>4, <1>5, PublishView

LEMMA ArchiveView ==
  ASSUME TypeInv, ViewInv, NEW d \in Docs, Archive(d)
  PROVE  ViewInv'
<1>1. commits \in Nat /\ since \in [Docs -> Nat] /\ since[d] \in Nat
  BY DEF TypeInv, TypeOK
<1>2. /\ loop' = loop /\ UNCHANGED <<toasts, restoring, live, queries, row, run, marking, cache, answer>>
      /\ archived' = archived \cup {d} /\ commits' = commits + 1 /\ since' = [since EXCEPT ![d] = commits + 1]
      /\ Publish("archived", d)
  BY DEF Archive, stream, queries
<1>3. Real'
  BY <1>2 DEF ViewInv, Real
<1>4. TrueOf(d, Status("archived"))'
  BY <1>2 DEF TrueOf, Status, StoreStatus
<1>5. "archived" \in Telling /\ "archived" \in Events
  BY DEF Telling, Events
<1>6. /\ \A x \in Docs \ {d} : row'[x] = row[x] /\ (x \in archived' <=> x \in archived) /\ since'[x] = since[x]
      /\ commits' \in Nat /\ commits <= commits' /\ since'[d] = commits'
  BY <1>1, <1>2
<1> QED
  BY <1>1, <1>2, <1>3, <1>4, <1>5, <1>6, PublishView

\* Restoring refetches both queries at once.
LEMMA RestoreView ==
  ASSUME TypeInv, ViewInv, NEW d \in Docs, Restore(d)
  PROVE  ViewInv'
<1>1. /\ row \in [Docs -> Maybe(Statuses)] /\ run \in [Docs -> Runs]
  BY DEF TypeInv, TypeOK, Rows, Runs
<1>2. /\ UNCHANGED <<loop, chan, missed, live, toasts, since, commits, cache, marking>>
      /\ reading'["documents"] = "sent" /\ reading'["state"] = "sent" /\ answer'.rows = Nothing.rows
  BY InvalidateTyped DEF Restore, TypeInv, stream, Queries
<1>3. /\ \A x \in Docs \ {d} : row'[x] = row[x] /\ run'[x] = run[x] /\ (x \in archived' <=> x \in archived)
      /\ row'[d] = "pending"
  BY <1>1 DEF Restore
<1>4. Unread'
  BY <1>2 DEF ViewInv, Unread
<1>5. Real'
  BY <1>2, <1>3 DEF ViewInv, Real, Nothing
<1>6. ASSUME ~missed', NEW x \in Docs PROVE (PanelTrue(x) /\ ListTrue(x) /\ StoreTrue(x))'
  <2>1. PanelTrue(x) /\ StoreTrue(x)
    BY <1>2, <1>6 DEF ViewInv, ViewTrue
  <2>2. \A s : TrueOf(x, s) => TrueOf(x, s)'
    BY <1>3 DEF TrueOf, Finished
  <2>3. PanelTrue(x)' /\ ListTrue(x)'
    BY <1>2, <2>1 DEF PanelTrue, ListTrue
  <2>4. \A l \in Loops : LastTrue(chan[l], x)'
    BY <1>2, <2>1, <2>2 DEF StoreTrue, LastTrue
  <2>5. Pending(x)' \/ TrueOf(x, live[x])'
    BY <1>2, <2>1, <2>2 DEF StoreTrue, Pending
  <2> QED
    BY <2>3, <2>4, <2>5 DEF StoreTrue
<1> QED
  BY <1>4, <1>5, <1>6 DEF ViewInv, ViewTrue

\* The delete hides the document, the undo asks for it: until then the list may lack it.
LEMMA ToastView ==
  ASSUME TypeInv, ViewInv, NEW d \in Docs,
         RequestDelete(d) \/ DeleteFails(d) \/ (\E i \in DOMAIN toasts[d] : SendDelete(d, i) \/ Undo(d, i))
  PROVE  ViewInv'
<1>0. /\ toasts \in [Docs -> Seq(Toast)] /\ restoring \in [Docs -> Nat] /\ cache \in Copy /\ timerOf \in [Docs -> Nat]
      /\ toasts[d] \in Seq(Toast)
  BY DEF TypeInv, TypeOK
<1>1. UNCHANGED <<row, archived, run, marking, commits, since, loop, live, reading, answer, chan, missed>>
  BY DEF RequestDelete, DeleteFails, SendDelete, Undo, server, stream, queries
<1>2. /\ \A x \in Docs \ {d} : toasts'[x] = toasts[x] /\ cache'.rows[x] = cache.rows[x] /\ restoring'[x] = restoring[x]
      /\ cache'.commits = cache.commits
      /\ restoring'[d] \in Nat /\ restoring'[d] >= restoring[d] /\ cache'.rows[d] \in {cache.rows[d], "none"}
  <2>1. CASE RequestDelete(d)
    <3>1. cache' = [cache EXCEPT !.rows[d] = "none"] /\ restoring' = restoring
          /\ toasts' = [toasts EXCEPT ![d] = Append(toasts[d], [timer |-> "armed", undone |-> FALSE])]
      BY <2>1 DEF RequestDelete
    <3>2. /\ \A x \in Docs \ {d} : cache'.rows[x] = cache.rows[x]
          /\ cache'.commits = cache.commits /\ cache'.rows[d] = "none"
      BY <1>0, <3>1 DEF Copy, Rows
    <3> QED
      BY <1>0, <3>1, <3>2
  <2>2. CASE DeleteFails(d)
    BY <1>0, <2>2 DEF DeleteFails, queries
  <2>3. ASSUME NEW i \in DOMAIN toasts[d], SendDelete(d, i) \/ Undo(d, i)
        PROVE  /\ \A x \in Docs \ {d} : toasts'[x] = toasts[x] /\ restoring'[x] = restoring[x]
               /\ cache' = cache /\ restoring'[d] \in Nat /\ restoring'[d] >= restoring[d]
    BY <1>0, <2>3 DEF SendDelete, Undo, queries
  <2> QED
    BY <2>1, <2>2, <2>3
<1>3. \/ cache'.rows[d] = cache.rows[d] /\ (Wanted(d) => Wanted(d)')
      \/ Wanted(d)'
      \/ restoring'[d] > 0
  <2>1. CASE RequestDelete(d)
    <3>1. /\ toasts'[d] = Append(toasts[d], [timer |-> "armed", undone |-> FALSE])
      BY <1>0, <2>1 DEF RequestDelete
    <3>2. Len(toasts[d]) + 1 \in DOMAIN toasts'[d] /\ toasts'[d][Len(toasts[d]) + 1] = [timer |-> "armed", undone |-> FALSE]
      BY <1>0, <3>1
    <3> QED
      BY <3>2 DEF Wanted
  <2>2. CASE DeleteFails(d)
    BY <2>2 DEF DeleteFails, queries, Wanted
  <2>3. ASSUME NEW i \in DOMAIN toasts[d], SendDelete(d, i)
        PROVE  cache'.rows[d] = cache.rows[d] /\ (Wanted(d) => Wanted(d)')
    <3>1. toasts'[d] = [toasts[d] EXCEPT ![i].timer = "fired"] /\ cache' = cache
      BY <1>0, <2>3 DEF SendDelete, queries
    <3>2. DOMAIN toasts'[d] = DOMAIN toasts[d] /\ \A j \in DOMAIN toasts[d] : toasts'[d][j].undone = toasts[d][j].undone
      BY <1>0, <3>1 DEF Toast
    <3> QED
      BY <3>1, <3>2 DEF Wanted
  <2>4. ASSUME NEW i \in DOMAIN toasts[d], Undo(d, i) PROVE restoring'[d] > 0
    BY <1>0, <2>4 DEF Undo
  <2> QED
    BY <2>1, <2>2, <2>3, <2>4
<1>4. Unread'
  BY <1>1 DEF ViewInv, Unread
<1>5. Real'
  <2>1. \A x \in Docs : cache'.rows[x] # "none" => cache.rows[x] # "none"
    BY <1>2
  <2> QED
    BY <1>1, <2>1 DEF ViewInv, Real
<1>6. ASSUME ~missed', NEW x \in Docs PROVE (PanelTrue(x) /\ ListTrue(x) /\ StoreTrue(x))'
  <2>1. PanelTrue(x) /\ ListTrue(x) /\ StoreTrue(x)
    BY <1>1, <1>6 DEF ViewInv, ViewTrue
  <2>2. PanelTrue(x)' /\ StoreTrue(x)'
    BY <1>1, <1>2, <2>1 DEF PanelTrue, StoreTrue, Renewed, Pending, LastTrue, TrueOf
  <2>3. (Pending(x)' <=> Pending(x)) /\ (Listed(x)' <=> Listed(x)) /\ (Same(x, answer.rows) => Same(x, answer.rows)')
    BY <1>1 DEF Pending, Listed, Same
  <2>4. Same(x, cache.rows) => Same(x, cache.rows)'
    BY <1>1, <1>2 DEF Same, Listed
  <2>5. restoring[x] > 0 => restoring'[x] > 0
    <3>1. restoring[x] \in Nat /\ restoring[d] \in Nat
      BY <1>0
    <3> QED
      BY <1>2, <3>1
  <2>6. CASE x # d
    <3>1. Wanted(x) => Wanted(x)'
      BY <1>2, <2>6 DEF Wanted
    <3> QED
      BY <1>1, <1>2, <2>1, <2>2, <2>3, <2>4, <2>5, <2>6, <3>1 DEF ListTrue
  <2>7. CASE x = d
    BY <1>1, <1>2, <1>3, <2>1, <2>2, <2>3, <2>4, <2>5, <2>7 DEF ListTrue
  <2> QED
    BY <2>6, <2>7
<1> QED
  BY <1>4, <1>5, <1>6 DEF ViewInv, ViewTrue

\* A fetch brings what the server has; it is repeated when an event, or the user, asks for it.
LEMMA QueryView ==
  ASSUME TypeInv, ViewInv, NEW q \in Queries, QueryStep(q)
  PROVE  ViewInv'
<1>0. /\ cache \in Copy /\ answer \in Copy /\ reading \in [Queries -> {"idle", "sent", "answered"}]
      /\ q \in {"documents", "state"} /\ "documents" \in Queries /\ "state" \in Queries
      /\ "documents" # "state" /\ row \in [Docs -> Maybe(Statuses)]
  BY DEF TypeInv, TypeOK, Queries, Rows
<1>1. UNCHANGED <<row, archived, run, marking, commits, since, toasts, restoring, loop, live, chan, missed>>
  BY DEF QueryStep, Answer, Receive, server, deletes, stream
<1>2. \A d \in Docs : /\ (Pending(d)' <=> Pending(d)) /\ (Renewed(d)' <=> Renewed(d)) /\ (Listed(d)' <=> Listed(d))
                      /\ (Wanted(d)' <=> Wanted(d)) /\ (StoreTrue(d) => StoreTrue(d)')
  BY <1>1 DEF Pending, Renewed, Listed, Wanted, StoreTrue, LastTrue, TrueOf
<1>3. Unread'
  BY <1>1 DEF ViewInv, Unread
<1>4. \A d \in Docs : /\ ServerRows[d] = (IF Listed(d) THEN row[d] ELSE "none") /\ Same(d, ServerRows)
                      /\ (Listed(d) => ServerRows[d] # "none") /\ (ServerRows[d] # "none" => row[d] # "none")
  BY DEF ServerRows, Same, Listed
<1> SUFFICES /\ Real'
             /\ \A d \in Docs : ~missed' /\ PanelTrue(d) /\ ListTrue(d) => PanelTrue(d)' /\ ListTrue(d)'
  BY <1>1, <1>2, <1>3 DEF ViewInv, ViewTrue
<1>5. CASE q = "documents" /\ Answer(q)
  <2>1. /\ cache' = cache /\ answer'.rows = ServerRows /\ answer'.commits = answer.commits
        /\ reading'["documents"] = "answered" /\ reading'["state"] = reading["state"]
    BY <1>0, <1>5 DEF Answer, Copy
  <2>2. Real'
    BY <1>1, <1>4, <2>1 DEF ViewInv, Real
  <2>3. ASSUME NEW d \in Docs, PanelTrue(d), ListTrue(d) PROVE PanelTrue(d)' /\ ListTrue(d)'
    <3>1. Same(d, answer.rows)' /\ (Listed(d)' => answer'.rows[d] # "none")
      BY <1>1, <1>2, <1>4, <2>1 DEF Same, Listed
    <3> QED
      BY <1>1, <1>2, <2>1, <2>3, <3>1 DEF PanelTrue, ListTrue
  <2> QED
    BY <2>2, <2>3
<1>6. CASE q = "state" /\ Answer(q)
  <2>1. /\ cache' = cache /\ answer'.rows = answer.rows /\ answer'.commits = commits
        /\ reading'["state"] = "answered" /\ reading'["documents"] = reading["documents"]
    BY <1>0, <1>6 DEF Answer, Copy
  <2>2. Real'
    BY <1>1, <2>1 DEF ViewInv, Real
  <2>3. ASSUME NEW d \in Docs, PanelTrue(d), ListTrue(d) PROVE PanelTrue(d)' /\ ListTrue(d)'
    <3>1. PanelTrue(d)'
      BY <1>1, <1>2, <2>1, <2>3 DEF PanelTrue
    <3>2. ListTrue(d)'
      BY <1>1, <1>2, <2>1, <2>3 DEF ListTrue, Same
    <3> QED
      BY <3>1, <3>2
  <2> QED
    BY <2>2, <2>3
<1>7. CASE q = "documents" /\ Receive(q)
  <2>1. /\ cache'.rows = answer.rows /\ cache'.commits = cache.commits
        /\ answer'.rows = Nothing.rows /\ answer'.commits = answer.commits
        /\ reading["documents"] = "answered" /\ reading'["documents"] = "idle" /\ reading'["state"] = reading["state"]
    BY <1>0, <1>7 DEF Receive, Copy
  <2>2. Real'
    BY <1>1, <2>1 DEF ViewInv, Real, Nothing
  <2>3. ASSUME NEW d \in Docs, PanelTrue(d), ListTrue(d) PROVE PanelTrue(d)' /\ ListTrue(d)'
    <3>1. PanelTrue(d)'
      BY <1>1, <1>2, <2>1, <2>3 DEF PanelTrue
    <3>2. Same(d, answer.rows) => Same(d, cache.rows)'
      BY <1>1, <2>1 DEF Same, Listed
    <3>3. ListTrue(d)'
      BY <1>1, <1>2, <2>1, <2>3, <3>2 DEF ListTrue
    <3> QED
      BY <3>1, <3>3
  <2> QED
    BY <2>2, <2>3
<1>8. CASE q = "state" /\ Receive(q)
  <2>1. /\ cache'.rows = cache.rows /\ cache'.commits = answer.commits
        /\ answer'.rows = answer.rows
        /\ reading["state"] = "answered" /\ reading'["state"] = "idle" /\ reading'["documents"] = reading["documents"]
    BY <1>0, <1>8 DEF Receive, Copy
  <2>2. Real'
    BY <1>1, <2>1 DEF ViewInv, Real
  <2>3. ASSUME NEW d \in Docs, PanelTrue(d), ListTrue(d) PROVE PanelTrue(d)' /\ ListTrue(d)'
    <3>1. PanelTrue(d)'
      BY <1>1, <1>2, <2>1, <2>3 DEF PanelTrue
    <3>2. ListTrue(d)'
      BY <1>1, <1>2, <2>1, <2>3 DEF ListTrue, Same
    <3> QED
      BY <3>1, <3>2
  <2> QED
    BY <2>2, <2>3
<1> QED
  BY <1>0, <1>5, <1>6, <1>7, <1>8 DEF QueryStep

\* The queries of qs are asked anew.
LEMMA InvalidateView ==
  ASSUME TypeInv, ViewInv, NEW qs, Invalidate(qs), Unread', ~missed' => ~missed, chan' = chan, live' = live,
         UNCHANGED <<row, archived, run, marking, commits, since, toasts, restoring, cache>>
  PROVE  ViewInv'
<1>0. "documents" \in Queries /\ "state" \in Queries
  BY DEF Queries
<1>1. /\ \A q \in Queries : reading'[q] = IF q \in qs THEN "sent" ELSE reading[q]
      /\ answer'.rows = (IF "documents" \in qs THEN Nothing.rows ELSE answer.rows)
      /\ answer'.commits = (IF "state" \in qs THEN Nothing.commits ELSE answer.commits)
  BY InvalidateTyped DEF TypeInv
<1>2. Real'
  BY <1>1 DEF ViewInv, Real, Nothing
<1>3. ASSUME ~missed', NEW d \in Docs PROVE (PanelTrue(d) /\ ListTrue(d) /\ StoreTrue(d))'
  <2>1. PanelTrue(d) /\ ListTrue(d) /\ StoreTrue(d)
    BY <1>3 DEF ViewInv, ViewTrue
  <2>2. (Pending(d)' <=> Pending(d)) /\ (Renewed(d)' <=> Renewed(d)) /\ (Listed(d)' <=> Listed(d))
    BY DEF Pending, Renewed, Listed
  <2>3. PanelTrue(d)'
    BY <1>0, <1>1, <2>1, <2>2 DEF PanelTrue
  <2>4. ListTrue(d)'
    BY <1>0, <1>1, <2>1, <2>2 DEF ListTrue, Same, Wanted
  <2>5. StoreTrue(d)'
    BY <2>1, <2>2 DEF StoreTrue, LastTrue, TrueOf
  <2> QED
    BY <2>3, <2>4, <2>5
<1> QED
  BY <1>2, <1>3 DEF ViewInv, ViewTrue

\* The first event of a loop is handled.
LEMMA HandleView ==
  ASSUME TypeInv, ViewInv, NEW l \in Loops, HandleEvent(l)
  PROVE  ViewInv'
<1> DEFINE e == Head(chan[l])
<1>0. chan \in [Loops -> Seq(Told)] /\ live \in [Docs -> Maybe(Statuses)]
  BY DEF TypeInv, TypeOK, Told
<1>1. /\ chan[l] # <<>> /\ SetStatus(e) /\ Invalidate(Touched(e.event)) /\ chan' = [chan EXCEPT ![l] = Tail(chan[l])]
      /\ UNCHANGED <<row, archived, run, marking, commits, since, toasts, restoring, loop, cache, missed>>
  BY DEF HandleEvent, server, deletes, stream
<1>2. /\ e = chan[l][1] /\ e \in Told /\ Len(chan[l]) \in Nat \ {0} /\ Len(chan'[l]) = Len(chan[l]) - 1
      /\ \A i \in 1 .. Len(chan'[l]) : i + 1 \in 1 .. Len(chan[l]) /\ chan'[l][i] = chan[l][i + 1]
      /\ \A k \in Loops \ {l} : chan'[k] = chan[k]
  <2>1. chan[l] \in Seq(Told) /\ chan[l] # <<>> /\ chan'[l] = Tail(chan[l])
    BY <1>0, <1>1
  <2>2. /\ e = chan[l][1] /\ e \in Told /\ Len(chan[l]) \in Nat \ {0} /\ Len(chan'[l]) = Len(chan[l]) - 1
        /\ \A i \in 1 .. Len(chan'[l]) : i + 1 \in 1 .. Len(chan[l]) /\ chan'[l][i] = chan[l][i + 1]
    BY <2>1
  <2> QED
    BY <1>0, <1>1, <2>2
<1>3. /\ e.doc \in Docs /\ e.event \in Events /\ "documents" \in Queries /\ "state" \in Queries
  BY <1>2 DEF Told, Queries
<1> HIDE DEF e
<1>4. /\ e.event \in Telling => "documents" \in Touched(e.event) /\ \A old : StoreStatus(e.event, old) = Status(e.event)
      /\ e.event \notin Telling => \A old : StoreStatus(e.event, old) = old
      /\ e.event \in {"complete", "archived"} => "state" \in Touched(e.event)
  BY <1>3 DEF Telling, Touched, StoreStatus, Status, Events
<1>5. /\ \A q \in Queries : reading'[q] = IF q \in Touched(e.event) THEN "sent" ELSE reading[q]
      /\ answer'.rows = (IF "documents" \in Touched(e.event) THEN Nothing.rows ELSE answer.rows)
      /\ answer'.commits = (IF "state" \in Touched(e.event) THEN Nothing.commits ELSE answer.commits)
  BY <1>1, InvalidateTyped DEF TypeInv
<1>6. \A d \in Docs : live'[d] = IF Tells(e, d) THEN Status(e.event) ELSE live[d]
  BY <1>0, <1>1, <1>3, <1>4 DEF SetStatus, Tells
<1>7. Unread'
  <2>1. chan[l] # <<>> => loop[l].subscribed
    BY DEF ViewInv, Unread
  <2> QED
    BY <1>1, <1>2, <2>1 DEF ViewInv, Unread
<1>8. Real'
  BY <1>1, <1>5 DEF ViewInv, Real, Nothing
<1>9. ASSUME ~missed', NEW d \in Docs PROVE (PanelTrue(d) /\ ListTrue(d) /\ StoreTrue(d))'
  <2>1. PanelTrue(d) /\ ListTrue(d) /\ StoreTrue(d)
    BY <1>1, <1>9 DEF ViewInv, ViewTrue
  <2>2. ASSUME NEW k \in Loops, NEW i \in 1 .. Len(chan[k])
        PROVE  \/ k = l /\ i = 1 /\ chan[k][i] = e
               \/ \E j \in 1 .. Len(chan'[k]) : chan'[k][j] = chan[k][i]
    <3>1. CASE k = l /\ i # 1
      <4>1. i - 1 \in 1 .. Len(chan'[k]) /\ chan'[k][i - 1] = chan[k][i - 1 + 1] /\ i - 1 + 1 = i
        BY <1>2, <3>1
      <4> QED
        BY <4>1
    <3> QED
      BY <1>2, <3>1
  <2>3. (Pending(d) => Pending(d)' \/ Tells(e, d)) /\ (Renewed(d) => Renewed(d)' \/ Renews(e, d))
    BY <2>2 DEF Pending, Renewed
  <2>4. PanelTrue(d)'
    <3>1. Renews(e, d) => reading'["state"] = "sent"
      BY <1>3, <1>4, <1>5 DEF Renews
    <3>2. reading'["state"] = "sent" \/ (reading'["state"] = reading["state"] /\ answer'.commits = answer.commits)
      BY <1>3, <1>5
    <3> QED
      BY <1>1, <2>1, <2>3, <3>1, <3>2 DEF PanelTrue
  <2>5. ListTrue(d)'
    <3>1. Tells(e, d) => reading'["documents"] = "sent"
      BY <1>3, <1>4, <1>5 DEF Tells
    <3>2. reading'["documents"] = "sent" \/ (reading'["documents"] = reading["documents"] /\ answer'.rows = answer.rows)
      BY <1>3, <1>5
    <3>3. /\ (Listed(d)' <=> Listed(d)) /\ (Wanted(d) => Wanted(d)') /\ (Same(d, cache.rows) => Same(d, cache.rows)')
          /\ (answer'.rows = answer.rows /\ Same(d, answer.rows) => Same(d, answer.rows)')
      BY <1>1 DEF Listed, Wanted, Same
    <3> QED
      BY <1>1, <2>1, <2>3, <3>1, <3>2, <3>3 DEF ListTrue
  <2>6. ASSUME NEW k \in Loops PROVE LastTrue(chan[k], d)'
    <3>1. CASE k # l
      <4>1. chan'[k] = chan[k] /\ LastTrue(chan[k], d) /\ row' = row /\ archived' = archived
        BY <1>1, <1>2, <2>1, <3>1 DEF StoreTrue
      <4> QED
        BY <4>1 DEF LastTrue, TrueOf
    <3>2. CASE k = l
      <4> SUFFICES ASSUME NEW i \in 1 .. Len(chan'[l]), Tells(chan'[l][i], d),
                          \A j \in i + 1 .. Len(chan'[l]) : ~Tells(chan'[l][j], d)
          PROVE  TrueOf(d, Status(chan[l][i].event))'
        BY <3>2 DEF LastTrue
      <4>1. i + 1 \in 1 .. Len(chan[l]) /\ chan'[l][i] = chan[l][i + 1]
        BY <1>2
      <4>2. ASSUME NEW j \in i + 1 + 1 .. Len(chan[l]) PROVE ~Tells(chan[l][j], d)
        <5>1. j - 1 \in i + 1 .. Len(chan'[l]) /\ j - 1 \in 1 .. Len(chan'[l]) /\ j - 1 + 1 = j
          BY <1>2, <4>2
        <5>2. chan'[l][j - 1] = chan[l][j]
          BY <1>2, <5>1
        <5> QED
          BY <5>1, <5>2
      <4>3. TrueOf(d, Status(chan[l][i + 1].event))
        BY <2>1, <4>1, <4>2 DEF StoreTrue, LastTrue
      <4> QED
        BY <1>1, <4>1, <4>3 DEF TrueOf
    <3> QED
      BY <3>1, <3>2
  <2>7. Pending(d)' \/ TrueOf(d, live[d])'
    <3>1. CASE Tells(e, d)
      <4> SUFFICES ASSUME ~Pending(d)' PROVE TrueOf(d, live[d])'
        OBVIOUS
      <4>1. ASSUME NEW j \in 2 .. Len(chan[l]) PROVE ~Tells(chan[l][j], d)
        <5>1. j - 1 \in 1 .. Len(chan'[l]) /\ j - 1 + 1 = j
          BY <1>2, <4>1
        <5>2. chan'[l][j - 1] = chan[l][j]
          BY <1>2, <5>1
        <5> QED
          BY <5>1, <5>2 DEF Pending
      <4>2. TrueOf(d, Status(e.event))
        <5>1. 1 \in 1 .. Len(chan[l]) /\ chan[l][1] = e
          BY <1>2
        <5>2. \A j \in 1 + 1 .. Len(chan[l]) : ~Tells(chan[l][j], d)
          BY <4>1
        <5> QED
          BY <2>1, <3>1, <5>1, <5>2 DEF StoreTrue, LastTrue
      <4> QED
        BY <1>1, <1>6, <3>1, <4>2 DEF TrueOf
    <3>2. CASE ~Tells(e, d)
      BY <1>1, <1>6, <2>1, <2>3, <3>2 DEF StoreTrue, TrueOf
    <3> QED
      BY <3>1, <3>2
  <2> QED
    BY <2>4, <2>5, <2>6, <2>7 DEF StoreTrue
<1> QED
  BY <1>7, <1>8, <1>9 DEF ViewInv, ViewTrue

\* The loops come and go; one that ends with something to read marks it as missed.
LEMMA StreamView ==
  ASSUME TypeInv, ViewInv, NEW l \in Loops, StreamStep(l) \/ RenewToken(l)
  PROVE  ViewInv'
<1>0. loop \in [Loops -> LoopStates] /\ chan \in [Loops -> Seq(Told)]
  BY DEF TypeInv, TypeOK, LoopStates, Told
<1>1. CASE HandleEvent(l)
  BY <1>1, HandleView
<1>2. CASE Open(l) \/ Subscribe(l) \/ Reconnect(l) \/ Denied(l) \/ RenewToken(l)
  <2>1. /\ UNCHANGED <<row, archived, run, marking, commits, since, toasts, restoring, live, cache, reading, answer,
                       chan, missed>>
    BY <1>2 DEF Open, Subscribe, Reconnect, Denied, RenewToken, server, deletes, queries
  <2>2. \A k \in Loops : \/ loop'[k].subscribed = loop[k].subscribed
                            /\ (loop'[k].pc = loop[k].pc \/ loop'[k].pc = "open" \/ ~loop[k].subscribed)
                         \/ chan[k] = <<>> /\ ~loop'[k].subscribed
                         \/ loop'[k].subscribed /\ loop'[k].pc \in {"fetch", "open"}
    <3>1. CASE Open(l)
      BY <1>0, <3>1 DEF Open, LoopStates
    <3>2. CASE Subscribe(l)
      BY <1>0, <3>2 DEF Subscribe, LoopStates
    <3>3. CASE Reconnect(l) \/ Denied(l)
      <4>1. ~loop[l].subscribed
        BY <3>3 DEF Reconnect, Denied, ViewInv, Unread
      <4>2. /\ \A k \in Loops \ {l} : loop'[k] = loop[k]
            /\ loop'[l].subscribed = loop[l].subscribed
        BY <1>0, <3>3 DEF Reconnect, Denied, LoopStates
      <4> QED
        BY <4>1, <4>2
    <3>4. CASE RenewToken(l)
      <4>1. chan[l] = <<>>
        BY <3>4 DEF RenewToken, ViewInv, Unread
      <4>2. ~loop'[l].subscribed
        BY <3>4 DEF RenewToken, NewLoop
      <4>3. \A k \in Loops \ {l} : loop'[k] = [loop[k] EXCEPT !.aborted = TRUE] \/ loop'[k] = loop[k]
        BY <3>4 DEF RenewToken
      <4>4. \A k \in Loops \ {l} : loop'[k].subscribed = loop[k].subscribed /\ loop'[k].pc = loop[k].pc
        BY <1>0, <4>3 DEF LoopStates
      <4> QED
        BY <4>1, <4>2, <4>4
    <3> QED
      BY <1>2, <3>1, <3>2, <3>3, <3>4
  <2>3. Unread'
    BY <2>1, <2>2 DEF ViewInv, Unread
  <2>4. Real'
    BY <2>1 DEF ViewInv, Real
  <2> QED
    BY <2>1, <2>3, <2>4, SameView
<1>3. CASE LoopEnds(l)
  <2>1. UNCHANGED <<row, archived, run, marking, commits, since, toasts, restoring, live, cache, reading, answer>>
    BY <1>3 DEF LoopEnds, server, deletes, queries
  <2>2. /\ chan' = [chan EXCEPT ![l] = <<>>] /\ ~loop'[l].subscribed /\ \A k \in Loops \ {l} : loop'[k] = loop[k]
    BY <1>0, <1>3 DEF LoopEnds
  <2>3. ~missed' => ~missed /\ chan[l] = <<>>
    BY <1>3, Zenon DEF LoopEnds
  <2>4. ~missed' => chan' = chan
    BY <1>0, <2>2, <2>3
  <2>5. Unread'
    BY <1>0, <2>2 DEF ViewInv, Unread
  <2>6. Real'
    BY <2>1 DEF ViewInv, Real
  <2> QED
    BY <2>1, <2>3, <2>4, <2>5, <2>6, SameView
<1> QED
  BY <1>1, <1>2, <1>3 DEF StreamStep

LEMMA PageView ==
  ASSUME TypeInv, ViewInv, ShowTab \/ CancelAll \/ (\E q \in Queries : FetchFails(q))
  PROVE  ViewInv'
<1>1. CASE ShowTab
  <2>1. loop \in [Loops -> LoopStates]
    BY DEF TypeInv, TypeOK, LoopStates
  <2>2. \A k \in Loops : loop'[k].subscribed = loop[k].subscribed /\ loop'[k].pc = loop[k].pc
    BY <1>1, <2>1 DEF ShowTab, LoopStates
  <2>3. UNCHANGED <<chan, missed, live, row, archived, run, marking, commits, since, toasts, restoring, cache>>
    BY <1>1 DEF ShowTab, server, deletes
  <2>4. Unread' /\ Invalidate({"documents"})
    BY <1>1, <2>2, <2>3 DEF ViewInv, Unread, ShowTab
  <2> QED
    BY <2>3, <2>4, InvalidateView
<1>2. CASE CancelAll
  <2>1. /\ UNCHANGED <<row, archived, run, commits, since, toasts, restoring, live, cache, reading, answer, loop, chan, missed>>
        /\ marking' = marking \cup {d \in Docs : cache.rows[d] \in Active}
    BY <1>2 DEF CancelAll, deletes, queries, stream
  <2>2. Unread'
    BY <2>1 DEF ViewInv, Unread
  <2>3. Real'
    BY <2>1 DEF ViewInv, Real, Active
  <2> QED
    BY <2>1, <2>2, <2>3, SameView
<1>3. ASSUME NEW q \in Queries, FetchFails(q) PROVE ViewInv'
  <2>1. missed' = TRUE /\ UNCHANGED <<loop, chan, row, run, marking, cache, answer>>
    BY <1>3 DEF FetchFails, server
  <2>2. Unread' /\ Real'
    BY <2>1 DEF ViewInv, Unread, Real
  <2> QED
    BY <2>1, <2>2 DEF ViewInv
<1> QED
  BY <1>1, <1>2, <1>3

\* The upload item and its request are not part of the view.
LEMMA UploadView ==
  ASSUME TypeInv, ViewInv, NEW d \in Docs, UploadStep(d) \/ StartUpload(d) \/ StopUpload(d)
  PROVE  ViewInv'
<1>1. CASE StoreUpload(d)
  BY <1>1, StoreUploadView
<1>2. CASE UploadDone(d)
  <2>1. UNCHANGED <<loop, chan, missed, live, row, archived, run, marking, commits, since, toasts, restoring, cache>>
        /\ Invalidate({"documents"})
    BY <1>2 DEF UploadDone, server, deletes, stream
  <2>2. Unread'
    BY <2>1 DEF ViewInv, Unread
  <2> QED
    BY <2>1, <2>2, InvalidateView
<1>3. CASE ~StoreUpload(d) /\ ~UploadDone(d)
  <2>1. UNCHANGED <<server, deletes, live, queries, chan, missed, stream>>
    BY <1>3 DEF UploadStep, StartUpload, CheckUpload, RefuseUpload, UploadDuplicate, UploadFails, StopUpload, IgnoreAnswer
  <2>2. Unread' /\ Real'
    BY <2>1 DEF server, queries, stream, ViewInv, Unread, Real
  <2> QED
    BY <2>1, <2>2, SameView DEF server, deletes, queries
<1> QED
  BY <1>1, <1>2, <1>3

LEMMA ViewNext == TypeInv /\ ViewInv /\ [Next]_vars => ViewInv'
<1> SUFFICES ASSUME TypeInv, ViewInv, [Next]_vars PROVE ViewInv'
  OBVIOUS
<1>1. ASSUME NEW d \in Docs, DeleteStep(d) \/ RequestDelete(d) PROVE ViewInv'
  BY <1>1, ToastView, ArchiveView, RestoreView DEF DeleteStep
<1>2. CASE UNCHANGED vars
  <2>1. UNCHANGED <<server, deletes, live, queries, chan, missed, stream>>
    BY <1>2 DEF vars
  <2>2. Unread' /\ Real'
    BY <2>1 DEF server, queries, stream, ViewInv, Unread, Real
  <2> QED
    BY <2>1, <2>2, SameView DEF server, deletes, queries
<1> QED
  BY <1>1, <1>2, StreamView, QueryView, RunView, UploadView, PageView DEF Next, User

LEMMA ViewInit == Init => ViewInv
<1> SUFFICES ASSUME Init PROVE ViewInv
  OBVIOUS
<1>1. session \in Session /\ FirstLoop \in Loops
  BY ViewAssumption DEF Init, FirstLoop
<1>2. row \in [Docs -> {"none", "pending", "done"}]
  BY <1>1 DEF Init, Session
<1>3. Unread
  <2>1. \A l \in Loops : chan[l] = <<>>
    BY DEF Init
  <2>2. \A l \in Loops : ~loop[l].subscribed
    BY DEF Init, NewLoop
  <2> QED
    BY <2>1, <2>2 DEF Unread
<1>4. Real
  BY DEF Init, Real, Nothing
<1>5. ASSUME NEW d \in Docs PROVE PanelTrue(d) /\ ListTrue(d) /\ StoreTrue(d)
  <2>1. /\ since[d] = 0 /\ commits = 0 /\ reading["state"] = "sent" /\ reading["documents"] = "sent" /\ live[d] = "none"
        /\ \A l \in Loops : chan[l] = <<>>
    BY DEF Init, Queries
  <2>2. AsShown(row[d]) = row[d]
    BY <1>2 DEF AsShown
  <2>3. TrueOf(d, live[d])
    BY <2>1, <2>2 DEF TrueOf
  <2>4. \A l \in Loops : LastTrue(chan[l], d)
    BY <2>1 DEF LastTrue
  <2> QED
    BY <2>1, <2>3, <2>4 DEF PanelTrue, ListTrue, StoreTrue
<1> QED
  BY <1>3, <1>4, <1>5 DEF ViewInv, ViewTrue

LEMMA ViewAlways == Spec => [](TypeInv /\ ViewInv)
<1>1. Init => TypeInv /\ ViewInv
  BY TypeInit, ViewInit
<1>2. TypeInv /\ ViewInv /\ [Next]_vars => (TypeInv /\ ViewInv)'
  BY TypeNext, ViewNext
<1> QED
  BY <1>1, <1>2, PTL DEF Spec

\* A settled view has nothing left to read.
LEMMA SettledView ==
  ASSUME TypeInv, ViewInv, Settled, NEW d \in Docs
  PROVE  /\ since[d] <= cache.commits
         /\ Same(d, cache.rows) /\ (Listed(d) /\ cache.rows[d] = "none" => Wanted(d))
         /\ TrueOf(d, live[d])
<1>1. /\ \A l \in Loops : chan[l] = <<>>
      /\ reading["documents"] = "idle" /\ reading["state"] = "idle" /\ restoring[d] = 0
  BY DEF Settled, Queries
<1>2. ~Pending(d) /\ ~Renewed(d)
  BY <1>1 DEF Pending, Renewed
<1>3. PanelTrue(d) /\ ListTrue(d) /\ StoreTrue(d)
  BY DEF Settled, ViewInv, ViewTrue
<1>4. since[d] \in Nat /\ cache.commits \in Nat
  BY DEF TypeInv, TypeOK, Copy
<1> QED
  BY <1>1, <1>2, <1>3, <1>4 DEF PanelTrue, ListTrue, StoreTrue

\* A settled state panel is as new as the last finished or archived document,
\* although state_changed comes before the commit.
THEOREM PanelIsFresh == Spec => []PanelFresh
<1>1. TypeInv /\ ViewInv => PanelFresh
  <2> SUFFICES ASSUME TypeInv, ViewInv, Settled, NEW d \in Docs PROVE cache.commits >= since[d]
    BY DEF PanelFresh
  <2>1. since[d] \in Nat /\ cache.commits \in Nat
    BY DEF TypeInv, TypeOK, Copy
  <2> QED
    BY <2>1, SettledView
<1> QED
  BY <1>1, ViewAlways, PTL

\* A settled list holds the server's documents, but for those the user wants
\* deleted: also a document whose upload was stopped, or ended with a 503.
THEOREM ListIsServers == Spec => []ListAgrees
<1>1. TypeInv /\ ViewInv => ListAgrees
  BY SettledView DEF ListAgrees, Same, Wanted
<1> QED
  BY <1>1, ViewAlways, PTL

\* A settled view shows every finished document as finished, or as failed, in
\* its row, in its group and in the strip.
THEOREM FinishedIsShown == Spec => []ShowsFinished
<1>1. TypeInv /\ ViewInv => ShowsFinished
  <2> SUFFICES ASSUME TypeInv, ViewInv, Settled, NEW d \in Docs, row[d] \in Finished
      PROVE  /\ d \notin Strip \cup StillRunning
             /\ cache.rows[d] # "none" => Shown(d) = AsShown(row[d])
    BY DEF ShowsFinished
  <2>1. Same(d, cache.rows) /\ TrueOf(d, live[d])
    BY SettledView
  <2>2. AsShown(row[d]) \in {"done", "failed"}
    BY DEF Finished, AsShown
  <2>3. d \notin Strip
    BY <2>1, <2>2 DEF TrueOf, Strip, Counted, Active
  <2>4. CASE live[d] = AsShown(row[d])
    <3>1. Shown(d) = AsShown(row[d])
      BY <2>2, <2>4 DEF Shown
    <3> QED
      BY <2>2, <2>3, <3>1 DEF StillRunning, Finished, Maybe
  <2>5. CASE live[d] = "none" /\ (d \in archived \/ AsShown(row[d]) = row[d])
    <3>1. Shown(d) = cache.rows[d] /\ cache.rows[d] \in {"none", row[d]}
      BY <2>1, <2>5 DEF Shown, Same
    <3>2. cache.rows[d] # "none" => d \notin archived
      BY <2>1 DEF Same, Listed
    <3> QED
      BY <2>3, <2>5, <3>1, <3>2 DEF StillRunning, Maybe
  <2> QED
    BY <2>1, <2>4, <2>5 DEF TrueOf
<1> QED
  BY <1>1, ViewAlways, PTL

===============================================================================
