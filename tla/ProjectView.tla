----------------------------- MODULE ProjectView -----------------------------
(***************************************************************************)
(* What a user sees of a project's documents.  The browser keeps two       *)
(* copies of the server's data: the query cache, refetched whenever it is  *)
(* invalidated, and the pipeline store, fed by the project's event stream. *)
(* A document's row shows the store's status when there is one.  The       *)
(* stream is read by the loops of useProjectSSE: each effect run starts    *)
(* one, and all of them share cancelledRef and ctrlRef.  A renewed token   *)
(* runs the effect's cleanup and the effect in one go, so cancelledRef is  *)
(* false again before the old loop's rejection is handled: no loop ever    *)
(* sees it set, and the old one goes on.  Documents enter through the      *)
(* upload controls and leave through a delete that is sent only when its   *)
(* 30 seconds for undo are over.  The user stays on the project's page.    *)
(*                                                                         *)
(* The server is modelled as far as its events and answers go: a run       *)
(* publishes state_changed before the commit that makes the new state      *)
(* visible, and every other event after the commit it tells of.            *)
(***************************************************************************)
EXTENDS Naturals, Sequences, FiniteSets

CONSTANTS
    Docs,          \* files to upload; each is one row of documents
    Twins,         \* those with the same content
    Loops,         \* reconnect loops, one per run of the effect
    MaxRetries,    \* MAX_RETRIES
    MaxDeletes,    \* bound on delete requests for one document
    Sessions       \* what may happen in a session, the documents that are there when it starts,
                   \* and the bound on failures of the network and on tab switches

AllOps == {"upload", "stopUpload", "delete", "undo", "cancel", "showTab", "renewToken",
           "streamFault", "fetchFault", "deleteFault", "worker"}
Session == [does : SUBSET AllOps, has : [Docs -> {"none", "pending", "done"}], faults : Nat]

ASSUME ViewAssumption ==
    /\ Twins \subseteq Docs
    /\ Loops # {}
    /\ MaxRetries \in Nat /\ MaxDeletes \in Nat
    /\ Sessions \subseteq Session

VARIABLES
    row,        \* documents.processing_status
    archived,   \* documents.archived_at is set
    run,        \* where the document's pipeline run is
    flagged,    \* documents whose job has a cancel flag in Redis
    marking,    \* cancel requests that have set it and not yet written the row
    commits,    \* how often the project's state was changed
    since,      \* the last of these changes that was about the document
    up,         \* the upload item as the client has it
    req,        \* the upload request as the server and the network have it
    toasts,     \* the delete requests of each document, oldest first
    timerOf,    \* pendingDeletes: the toast whose timer is on record, or 0
    deleting,   \* DELETE requests on their way
    restoring,  \* restore requests on their way
    live,       \* pipelineStore.pipelines
    cache,      \* the query cache: rows and state
    reading,    \* the fetch of each query
    answer,     \* what the fetch is bringing
    loop,       \* the reconnect loops
    chan,       \* what is on its way to each loop
    current,    \* the loop of the last run of the effect
    ctrl,       \* the loop whose controller is in ctrlRef
    conn,       \* connectionState
    missed,     \* an event or an answer never reached the client
    faults,     \* failures so far
    session     \* the member of Sessions this one is

server   == <<row, archived, run, flagged, marking, commits, since>>
uploads  == <<up, req>>
deletes  == <<toasts, timerOf, deleting, restoring>>
queries  == <<cache, reading, answer>>
stream   == <<loop, current, ctrl, conn, faults>>
vars     == <<server, uploads, deletes, live, queries, chan, missed, stream, session>>

-----------------------------------------------------------------------------
Active   == {"pending", "processing"}
Finished == {"done", "completed_partial", "failed"}
Statuses == Active \cup Finished \cup {"cancelled"}
Maybe(S) == S \cup {"none"}
Queries  == {"documents", "state"}
Events   == {"queued", "started", "complete", "failed", "cancelled", "archived", "state"}
Rows     == [Docs -> Maybe(Statuses)]
Copy     == [rows : Rows, commits : Nat]
Nothing  == [rows |-> [d \in Docs |-> "none"], commits |-> 0]
Toast    == [timer : {"armed", "cleared", "fired"}, undone : BOOLEAN]

\* The documents GET /documents returns.
Listed(d)   == row[d] # "none" /\ d \notin archived
ServerRows  == [d \in Docs |-> IF Listed(d) THEN row[d] ELSE "none"]

\* The status a document's row shows.
Shown(d) == IF live[d] # "none" THEN live[d] ELSE cache.rows[d]

\* What the strip and the status bar are about: the store's pending and processing documents.
Counted(s)   == {d \in Docs : live[d] = s}
Strip        == UNION {Counted(s) : s \in Active}
\* A group of documents counts as processing what is neither done nor failed.
StillRunning == {d \in Docs : Shown(d) \notin Maybe(Finished)}
\* "verbinde neu", after three seconds.
Banner       == conn # "open"

\* How many loops an event reaches is decided when it is published.
Subscribers == {l \in Loops : loop[l].subscribed}

Publish(e, d) ==
    /\ chan' = [l \in Loops |->
                  IF l \in Subscribers THEN Append(chan[l], [event |-> e, doc |-> d])
                  ELSE chan[l]]
    /\ missed' = (missed \/ Subscribers = {})

\* connect() runs up to its fetch at once.
NewLoop   == [pc |-> "fetch", retries |-> 0, subscribed |-> FALSE, aborted |-> FALSE]
FirstLoop == CHOOSE l \in Loops : TRUE

Init ==
    /\ session \in Sessions
    /\ row = session.has
    /\ run = [d \in Docs |-> IF row[d] = "pending" THEN "queued" ELSE "none"]
    /\ archived = {} /\ flagged = {} /\ marking = {}
    /\ commits = 0 /\ since = [d \in Docs |-> 0]
    /\ up = [d \in Docs |-> "none"] /\ req = [d \in Docs |-> "none"]
    /\ toasts = [d \in Docs |-> <<>>] /\ timerOf = [d \in Docs |-> 0]
    /\ deleting = [d \in Docs |-> 0] /\ restoring = [d \in Docs |-> 0]
    /\ live = [d \in Docs |-> "none"]
    /\ cache = Nothing /\ answer = Nothing
    /\ reading = [q \in Queries |-> "sent"]
    /\ loop = [l \in Loops |-> IF l = FirstLoop THEN NewLoop ELSE [NewLoop EXCEPT !.pc = "off"]]
    /\ chan = [l \in Loops |-> <<>>]
    /\ current = FirstLoop /\ ctrl = FirstLoop /\ conn = "connecting"
    /\ missed = FALSE /\ faults = 0

-----------------------------------------------------------------------------
(* The query cache.  invalidateQueries drops a fetch in flight and starts  *)
(* another one, so an answer is never older than the last invalidation.    *)

Invalidate(qs) ==
    /\ reading' = [q \in Queries |-> IF q \in qs THEN "sent" ELSE reading[q]]
    /\ answer' = [rows    |-> IF "documents" \in qs THEN Nothing.rows ELSE answer.rows,
                  commits |-> IF "state" \in qs THEN Nothing.commits ELSE answer.commits]

\* The server reads what is committed.
Answer(q) ==
    /\ reading[q] = "sent"
    /\ reading' = [reading EXCEPT ![q] = "answered"]
    /\ answer' = IF q = "documents" THEN [answer EXCEPT !.rows = ServerRows]
                                    ELSE [answer EXCEPT !.commits = commits]
    /\ UNCHANGED <<session, server, uploads, deletes, live, cache, chan, missed, stream>>

Receive(q) ==
    /\ reading[q] = "answered"
    /\ reading' = [reading EXCEPT ![q] = "idle"]
    /\ cache' = IF q = "documents" THEN [cache EXCEPT !.rows = answer.rows]
                                   ELSE [cache EXCEPT !.commits = answer.commits]
    /\ answer' = IF q = "documents" THEN [answer EXCEPT !.rows = Nothing.rows]
                                    ELSE [answer EXCEPT !.commits = Nothing.commits]
    /\ UNCHANGED <<session, server, uploads, deletes, live, chan, missed, stream>>

\* After its one retry a failed fetch leaves the old data in place.
FetchFails(q) ==
    /\ "fetchFault" \in session.does
    /\ reading[q] = "sent" /\ faults < session.faults
    /\ faults' = faults + 1
    /\ reading' = [reading EXCEPT ![q] = "idle"]
    /\ missed' = TRUE
    /\ UNCHANGED <<session, server, uploads, deletes, live, cache, answer, chan, loop, current, ctrl, conn>>

-----------------------------------------------------------------------------
(* The stream. *)

\* The response is there: its body may lag behind, or the server's subscription.
Open(l) ==
    /\ loop[l].pc = "fetch" /\ ~loop[l].aborted
    /\ loop' = [loop EXCEPT ![l].pc = "open", ![l].retries = 0]
    /\ conn' = "open"
    /\ UNCHANGED <<session, server, uploads, deletes, live, queries, chan, missed, current, ctrl, faults>>

Subscribe(l) ==
    /\ loop[l].pc \in {"fetch", "open"} /\ ~loop[l].aborted /\ ~loop[l].subscribed
    /\ loop' = [loop EXCEPT ![l].subscribed = TRUE]
    /\ UNCHANGED <<session, server, uploads, deletes, live, queries, chan, missed, current, ctrl, conn, faults>>

\* Mutant: the last retry is not made.
GiveUpEarly(n) == n >= MaxRetries

GiveUp(n) == n > MaxRetries

\* The request or the stream ends: aborted, or for a fault of the network (a stall, too).
LoopEnds(l) ==
    LET n == loop[l].retries + 1 IN
    /\ loop[l].pc \in {"fetch", "open"}
    /\ \/ loop[l].aborted /\ faults' = faults
       \/ ~loop[l].aborted /\ "streamFault" \in session.does /\ faults < session.faults /\ faults' = faults + 1
    /\ loop' = [loop EXCEPT ![l] = [pc |-> IF GiveUp(n) THEN "gone" ELSE "backoff",
                                    retries |-> n, subscribed |-> FALSE, aborted |-> FALSE]]
    /\ conn' = IF GiveUp(n) THEN "disconnected" ELSE "connecting"
    /\ chan' = [chan EXCEPT ![l] = <<>>]
    /\ missed' = (missed \/ chan[l] # <<>>)
    /\ UNCHANGED <<session, server, uploads, deletes, live, queries, current, ctrl>>

Reconnect(l) ==
    /\ loop[l].pc = "backoff"
    /\ loop' = [loop EXCEPT ![l].pc = "fetch"]
    /\ ctrl' = l /\ conn' = "connecting"
    /\ UNCHANGED <<session, server, uploads, deletes, live, queries, chan, missed, current, faults>>

\* 401 or 403: a superseded token has expired.
Denied(l) ==
    /\ loop[l].pc = "fetch" /\ ~loop[l].aborted /\ ~loop[l].subscribed /\ l # current
    /\ loop' = [loop EXCEPT ![l].pc = "denied"]
    /\ conn' = "disconnected"
    /\ UNCHANGED <<session, server, uploads, deletes, live, queries, chan, missed, current, ctrl, faults>>

\* The tab becomes visible: the stream of the last controller is cut, the documents are refetched.
ShowTab ==
    /\ "showTab" \in session.does /\ faults < session.faults
    /\ faults' = faults + 1
    /\ loop' = [loop EXCEPT ![ctrl].aborted = (@ \/ loop[ctrl].pc \in {"fetch", "open"})]
    /\ Invalidate({"documents"})
    /\ UNCHANGED <<session, server, uploads, deletes, live, cache, chan, missed, current, ctrl, conn>>

\* The effect's cleanup and its next run.
RenewToken(l) ==
    /\ "renewToken" \in session.does /\ loop[l].pc = "off"
    /\ loop' = [m \in Loops |->
                  IF m = l THEN NewLoop
                  ELSE IF \/ m = ctrl /\ loop[m].pc \in {"fetch", "open"}
                          \/ m = current /\ loop[m].pc = "open"
                       THEN [loop[m] EXCEPT !.aborted = TRUE] ELSE loop[m]]
    /\ current' = l /\ ctrl' = l /\ conn' = "connecting"
    /\ UNCHANGED <<session, server, uploads, deletes, live, queries, chan, missed, faults>>

\* Mutant: a queued document refetches nothing.
TouchedLate(e) == IF e \in {"started", "failed"} THEN {"documents"} ELSE
                  IF e \in {"complete", "archived"} THEN Queries ELSE
                  IF e = "state" THEN {"state"} ELSE {}

\* Mutant: a finished document refetches the documents only.
TouchedDocuments(e) == IF e = "state" THEN {"state"} ELSE
                       IF e = "cancelled" THEN {} ELSE {"documents"}

\* The queries an event invalidates.
Touched(e) == CASE e \in {"queued", "started", "failed"} -> {"documents"}
                [] e \in {"complete", "archived"}        -> {"documents", "state"}
                [] e = "state"                           -> {"state"}
                [] OTHER                                 -> {}

\* Mutant: the status before the last one is kept when a run completes.
StoreNoCompletion(e, old) == IF e = "complete" THEN old ELSE
                             IF e = "queued" THEN "pending" ELSE
                             IF e = "started" THEN "processing" ELSE
                             IF e = "failed" THEN e ELSE IF e = "archived" THEN "none" ELSE old

\* Mutant: the event's name is stored.
StoreEvent(e, old) == IF e = "state" THEN old ELSE e

\* The status an event gives its document in the store; pipeline_cancelled has no case.
StoreStatus(e, old) == CASE e = "queued"   -> "pending"
                         [] e = "started"  -> "processing"
                         [] e = "complete" -> "done"
                         [] e = "failed"   -> "failed"
                         [] e = "archived" -> "none"
                         [] OTHER          -> old

SetStatus(e) == live' = [live EXCEPT ![e.doc] = StoreStatus(e.event, @)]

HandleEvent(l) ==
    /\ loop[l].pc = "open" /\ ~loop[l].aborted /\ chan[l] # <<>>
    /\ LET e == Head(chan[l]) IN
          /\ SetStatus(e)
          /\ Invalidate(Touched(e.event))
    /\ chan' = [chan EXCEPT ![l] = Tail(@)]
    /\ UNCHANGED <<session, server, uploads, deletes, cache, missed, stream>>

-----------------------------------------------------------------------------
(* Uploads. *)

Busy(d) == run[d] \in {"running", "merged"}   \* its run holds the lock of the row

StartUpload(d) ==
    /\ "upload" \in session.does /\ up[d] = "none" /\ req[d] = "none" /\ row[d] = "none"
    /\ up' = [up EXCEPT ![d] = "uploading"]
    /\ req' = [req EXCEPT ![d] = "sent"]
    /\ UNCHANGED <<session, server, deletes, live, queries, chan, missed, stream>>

\* The server looks for the same content, whatever has become of its document.
CheckUpload(d) ==
    /\ req[d] \in {"sent", "forced"}
    /\ req' = [req EXCEPT ![d] =
                  IF @ = "sent" /\ d \in Twins /\ \E o \in Twins \ {d} : row[o] # "none"
                  THEN "duplicate" ELSE "checked"]
    /\ UNCHANGED <<session, up, server, deletes, live, queries, chan, missed, stream>>

\* The type, the size or the missing provider, or the network.
RefuseUpload(d) ==
    /\ req[d] \in {"sent", "forced"}
    /\ req' = [req EXCEPT ![d] = "refused"]
    /\ UNCHANGED <<session, up, server, deletes, live, queries, chan, missed, stream>>

\* The row is committed and told of before the job is queued; queueing it may fail (503).
StoreUpload(d) ==
    /\ req[d] = "checked"
    /\ row' = [row EXCEPT ![d] = "pending"]
    /\ Publish("queued", d)
    /\ \/ run' = [run EXCEPT ![d] = "queued"] /\ req' = [req EXCEPT ![d] = "created"]
       \/ run' = run /\ req' = [req EXCEPT ![d] = "unqueued"]
    /\ UNCHANGED <<session, up, archived, flagged, marking, commits, since, deletes, live, queries, stream>>

UploadDone(d) ==
    /\ up[d] = "uploading" /\ req[d] = "created"
    /\ up' = [up EXCEPT ![d] = "done"]
    /\ req' = [req EXCEPT ![d] = "none"]
    /\ Invalidate({"documents"})
    /\ UNCHANGED <<session, server, deletes, live, cache, chan, missed, stream>>

\* window.confirm: upload it all the same, or drop the item.
UploadDuplicate(d) ==
    /\ up[d] = "uploading" /\ req[d] = "duplicate"
    /\ \/ up' = up /\ req' = [req EXCEPT ![d] = "forced"]
       \/ up' = [up EXCEPT ![d] = "none"] /\ req' = [req EXCEPT ![d] = "none"]
    /\ UNCHANGED <<session, server, deletes, live, queries, chan, missed, stream>>

UploadFails(d) ==
    /\ up[d] = "uploading" /\ req[d] \in {"refused", "unqueued"}
    /\ up' = [up EXCEPT ![d] = "error"]
    /\ req' = [req EXCEPT ![d] = "none"]
    /\ UNCHANGED <<session, server, deletes, live, queries, chan, missed, stream>>

\* An item of the drop zone has a button as long as it is uploaded.
Stoppable(d) == up[d] = "uploading"

\* The abort's rejection turns the item's status "cancelled" into "error" at
\* once; the request may have reached the server.
StopUpload(d) ==
    /\ "stopUpload" \in session.does /\ Stoppable(d)
    /\ up' = [up EXCEPT ![d] = "error"]
    /\ \/ req' = req
       \/ req[d] \in {"sent", "forced"} /\ req' = [req EXCEPT ![d] = "none"]
    /\ UNCHANGED <<session, server, deletes, live, queries, chan, missed, stream>>

\* The answer to an aborted request.
IgnoreAnswer(d) ==
    /\ up[d] # "uploading" /\ req[d] \in {"created", "unqueued", "duplicate", "refused"}
    /\ req' = [req EXCEPT ![d] = "none"]
    /\ UNCHANGED <<session, up, server, deletes, live, queries, chan, missed, stream>>

-----------------------------------------------------------------------------
(* Deletes.  The toast's timer is recorded under the document's id, so a   *)
(* second request for the same document replaces the record of the first.  *)

RequestDelete(d) ==
    /\ "delete" \in session.does
    /\ cache.rows[d] # "none" /\ Len(toasts[d]) < MaxDeletes
    /\ toasts' = [toasts EXCEPT ![d] = Append(@, [timer |-> "armed", undone |-> FALSE])]
    /\ timerOf' = [timerOf EXCEPT ![d] = Len(toasts[d]) + 1]
    /\ cache' = [cache EXCEPT !.rows[d] = "none"]
    /\ UNCHANGED <<session, server, uploads, deleting, restoring, live, reading, answer, chan, missed, stream>>

Fires(t) == t.timer = "armed" /\ ~t.undone

SendDelete(d, i) ==
    /\ Fires(toasts[d][i])
    /\ toasts' = [toasts EXCEPT ![d][i].timer = "fired"]
    /\ timerOf' = [timerOf EXCEPT ![d] = 0]
    /\ deleting' = [deleting EXCEPT ![d] = @ + 1]
    /\ UNCHANGED <<session, server, uploads, restoring, live, queries, chan, missed, stream>>

\* The timer on record is cleared, whichever toast's it is.
Undo(d, i) ==
    /\ "undo" \in session.does /\ ~toasts[d][i].undone
    /\ LET t == [toasts[d] EXCEPT ![i].undone = TRUE] IN
          toasts' = [toasts EXCEPT ![d] =
                        IF timerOf[d] = 0 THEN t ELSE [t EXCEPT ![timerOf[d]].timer = "cleared"]]
    /\ timerOf' = [timerOf EXCEPT ![d] = 0]
    /\ restoring' = [restoring EXCEPT ![d] = @ + 1]
    /\ UNCHANGED <<session, server, uploads, deleting, live, queries, chan, missed, stream>>

\* The soft delete writes a version of the state without the document.
Archive(d) ==
    /\ deleting[d] > 0 /\ ~Busy(d)
    /\ deleting' = [deleting EXCEPT ![d] = @ - 1]
    /\ archived' = archived \cup {d}
    /\ commits' = commits + 1 /\ since' = [since EXCEPT ![d] = commits + 1]
    /\ Publish("archived", d)
    /\ UNCHANGED <<session, row, run, flagged, marking, uploads, toasts, timerOf, restoring, live, queries, stream>>

\* Only a toast says so: the document stays hidden until the next fetch.
DeleteFails(d) ==
    /\ "deleteFault" \in session.does /\ deleting[d] > 0 /\ faults < session.faults
    /\ deleting' = [deleting EXCEPT ![d] = @ - 1]
    /\ faults' = faults + 1
    /\ UNCHANGED <<session, server, uploads, toasts, timerOf, restoring, live, queries, chan, missed, loop, current, ctrl, conn>>

\* Deleted or not, the document is processed anew; its answer refetches both queries.
Restore(d) ==
    /\ restoring[d] > 0 /\ ~Busy(d)
    /\ restoring' = [restoring EXCEPT ![d] = @ - 1]
    /\ row' = [row EXCEPT ![d] = "pending"] /\ archived' = archived \ {d}
    /\ run' = [run EXCEPT ![d] = "queued"] /\ flagged' = flagged \ {d}
    /\ Invalidate(Queries)
    /\ UNCHANGED <<session, marking, commits, since, uploads, toasts, timerOf, deleting, live, cache, chan, missed, stream>>

-----------------------------------------------------------------------------
(* The /cancel command: a DELETE with cancel_pipeline for every document   *)
(* the cached list shows as active; a second one for the same documents    *)
(* would change nothing.                                                   *)

CancelAll ==
    LET ds == {d \in Docs : cache.rows[d] \in Active} IN
    /\ "cancel" \in session.does /\ ~(ds \subseteq flagged)
    /\ flagged' = flagged \cup ds /\ marking' = marking \cup ds
    /\ UNCHANGED <<session, row, archived, run, commits, since, uploads, deletes, live, queries, chan, missed, stream>>

MarkCancelled(d) ==
    /\ d \in marking /\ ~Busy(d)
    /\ marking' = marking \ {d}
    /\ row' = [row EXCEPT ![d] = "cancelled"]
    /\ Publish("cancelled", d)
    /\ UNCHANGED <<session, archived, run, flagged, commits, since, uploads, deletes, live, queries, stream>>

-----------------------------------------------------------------------------
(* The run of a document, one of the project at a time. *)

StartRun(d) ==
    /\ "worker" \in session.does
    /\ run[d] = "queued" /\ d \notin flagged /\ \A o \in Docs : ~Busy(o)
    /\ run' = [run EXCEPT ![d] = "running"]
    /\ row' = [row EXCEPT ![d] = "processing"]
    /\ Publish("started", d)
    /\ UNCHANGED <<session, archived, flagged, marking, commits, since, uploads, deletes, live, queries, stream>>

\* Step 5 writes the version and tells of it; nobody else sees it before the commit.
MergeState(d) ==
    /\ run[d] = "running" /\ d \notin flagged
    /\ run' = [run EXCEPT ![d] = "merged"]
    /\ Publish("state", d)
    /\ UNCHANGED <<session, row, archived, flagged, marking, commits, since, uploads, deletes, live, queries, stream>>

Complete(d) ==
    /\ run[d] = "merged"
    /\ run' = [run EXCEPT ![d] = "none"]
    /\ \E s \in {"done", "completed_partial"} : row' = [row EXCEPT ![d] = s]
    /\ commits' = commits + 1 /\ since' = [since EXCEPT ![d] = commits + 1]
    /\ Publish("complete", d)
    /\ UNCHANGED <<session, archived, flagged, marking, uploads, deletes, live, queries, stream>>

\* The handler commits what the failed run has written so far.
FailRun(d) ==
    /\ Busy(d)
    /\ run' = [run EXCEPT ![d] = "none"]
    /\ row' = [row EXCEPT ![d] = "failed"]
    /\ \/ commits' = commits
       \/ run[d] = "merged" /\ commits' = commits + 1
    /\ Publish("failed", d)
    /\ UNCHANGED <<session, archived, flagged, marking, since, uploads, deletes, live, queries, stream>>

\* A run that finds its cancel flag rolls back.
StopRun(d) ==
    /\ d \in flagged
    /\ \/ "worker" \in session.does /\ run[d] = "queued" /\ \A o \in Docs : ~Busy(o)
       \/ Busy(d)
    /\ run' = [run EXCEPT ![d] = "none"]
    /\ row' = [row EXCEPT ![d] = "cancelled"]
    /\ Publish("cancelled", d)
    /\ UNCHANGED <<session, archived, flagged, marking, commits, since, uploads, deletes, live, queries, stream>>

-----------------------------------------------------------------------------
StreamStep(l) == Open(l) \/ Subscribe(l) \/ LoopEnds(l) \/ Reconnect(l) \/ Denied(l) \/ HandleEvent(l)
QueryStep(q)  == Answer(q) \/ Receive(q)
RunStep(d)    == StartRun(d) \/ MergeState(d) \/ Complete(d) \/ FailRun(d) \/ StopRun(d)
UploadStep(d) == CheckUpload(d) \/ RefuseUpload(d) \/ StoreUpload(d) \/ UploadDone(d)
                 \/ UploadDuplicate(d) \/ UploadFails(d) \/ IgnoreAnswer(d)
DeleteStep(d) == \/ \E i \in DOMAIN toasts[d] : SendDelete(d, i) \/ Undo(d, i)
                 \/ Archive(d) \/ DeleteFails(d) \/ Restore(d)
User(d)       == StartUpload(d) \/ StopUpload(d) \/ RequestDelete(d)

Next ==
    \/ \E l \in Loops : StreamStep(l) \/ RenewToken(l)
    \/ \E q \in Queries : QueryStep(q) \/ FetchFails(q)
    \/ \E d \in Docs : RunStep(d) \/ UploadStep(d) \/ DeleteStep(d) \/ MarkCancelled(d) \/ User(d)
    \/ ShowTab \/ CancelAll

Spec == Init /\ [][Next]_vars

\* The browser's event loop, the network and the server go on; nobody has to use the controls.
Fairness ==
    /\ \A l \in Loops : WF_vars(StreamStep(l)) /\ WF_vars(Subscribe(l)) /\ WF_vars(HandleEvent(l))
    /\ \A q \in Queries : WF_vars(Answer(q)) /\ WF_vars(Receive(q))
    /\ \A d \in Docs : WF_vars(RunStep(d)) /\ WF_vars(MarkCancelled(d)) /\ WF_vars(Archive(d)) /\ WF_vars(Restore(d))

FairSpec == Spec /\ Fairness

-----------------------------------------------------------------------------
\* Every variable has its type.
TypeOK ==
    /\ row \in Rows /\ archived \subseteq Docs /\ flagged \subseteq Docs /\ marking \subseteq Docs
    /\ run \in [Docs -> {"none", "queued", "running", "merged"}]
    /\ commits \in Nat /\ since \in [Docs -> Nat]
    /\ up \in [Docs -> {"none", "uploading", "done", "error"}]
    /\ req \in [Docs -> {"none", "sent", "forced", "checked", "created", "unqueued", "duplicate", "refused"}]
    /\ toasts \in [Docs -> Seq(Toast)] /\ timerOf \in [Docs -> Nat]
    /\ deleting \in [Docs -> Nat] /\ restoring \in [Docs -> Nat]
    /\ live \in [Docs -> Maybe(Statuses)]
    /\ cache \in Copy /\ answer \in Copy
    /\ reading \in [Queries -> {"idle", "sent", "answered"}]
    /\ loop \in [Loops -> [pc : {"off", "fetch", "open", "backoff", "gone", "denied"},
                           retries : 0 .. MaxRetries + 1,
                           subscribed : BOOLEAN, aborted : BOOLEAN]]
    /\ chan \in [Loops -> Seq([event : Events, doc : Docs])]
    /\ current \in Loops /\ ctrl \in Loops
    /\ conn \in {"connecting", "open", "disconnected"}
    /\ missed \in BOOLEAN /\ faults \in Nat /\ session \in Sessions

\* Nothing is on its way to the client, and nothing was lost before.
Settled == /\ ~missed
           /\ \A l \in Loops : chan[l] = <<>>
           /\ \A q \in Queries : reading[q] = "idle"
           /\ \A d \in Docs : restoring[d] = 0

\* What a row says of a finished document: the store knows no completed_partial.
AsShown(s) == IF s = "completed_partial" THEN "done" ELSE s

\* A settled view shows every finished document as finished, or as failed, in
\* its row, in its group and in the strip.
ShowsFinished == Settled => \A d \in Docs : row[d] \in Finished =>
    /\ d \notin Strip \cup StillRunning
    /\ cache.rows[d] # "none" => Shown(d) = AsShown(row[d])

\* A settled list holds the server's documents, but for those the user wants
\* deleted: also a document whose upload was stopped, or ended with a 503.
ListAgrees ==
    Settled => \A d \in Docs :
        /\ cache.rows[d] # "none" => Listed(d)
        /\ Listed(d) /\ cache.rows[d] = "none" => \E i \in DOMAIN toasts[d] : ~toasts[d][i].undone

\* A settled state panel is as new as the last finished or archived document,
\* although state_changed comes before the commit.
PanelFresh ==
    Settled => \A d \in Docs : row[d] \in {"done", "completed_partial"} \/ d \in archived
                               => cache.commits >= since[d]

\* Up to MaxRetries failures in a row do not end the stream: the one with the
\* valid token is open in the end, and the view says so, unless a superseded
\* loop was refused, or gave up, last.
Reconnects ==
    <>[](/\ loop[current].pc = "open"
         /\ ~Banner \/ \E l \in Loops \ {current} : loop[l].pc \in {"denied", "gone"})

-----------------------------------------------------------------------------
\* Not kept by the code, which ignores pipeline_cancelled: a cancelled
\* document's row says so.
CancelShown == Settled => \A d \in Docs : Listed(d) /\ row[d] = "cancelled" /\ run[d] = "none" => Shown(d) = "cancelled"

=============================================================================
