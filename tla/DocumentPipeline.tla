-------------------------- MODULE DocumentPipeline --------------------------
(***************************************************************************)
(* One project's document pipeline: the endpoints that queue, cancel and   *)
(* re-run documents (routers/documents.py), the ARQ job queue and worker   *)
(* (tasks/worker.py), and the nine-step run of tasks/pipeline.py with its  *)
(* Redis project lease, its PostgreSQL advisory lock and its transaction.  *)
(*                                                                         *)
(* A run is identified with its ARQ job.  What a run has written since its *)
(* last commit is private to it (tx); commit publishes it and releases the *)
(* row lock and the advisory lock, rollback drops it.  Redis keys and the  *)
(* git repository are not transactional and change at once.  Projects      *)
(* share nothing but worker slots, so one project is enough.               *)
(***************************************************************************)
EXTENDS Naturals, Sequences, FiniteSets

CONSTANTS
    Docs,         \* document rows the project may ever have
    Emails,       \* the documents that are .eml files
    Attachments,  \* rows that only an email's attachment can become
    Jobs,         \* ARQ job ids (an id is used again once nothing refers to it)
    Clients,      \* HTTP requests that can be in flight together
    NoDoc, NoJob,
    MaxTries,     \* WorkerSettings.max_tries
    MaxRunning,   \* WorkerSettings.max_jobs
    MaxRequests,  \* bound: requests the users send in a behaviour
    UserOps,      \* the operations the users ask for besides uploads
    Faults        \* what may go wrong, a subset of FaultKinds

FaultKinds ==
    { "step_error",  \* a step raises: unreadable file, LLM or git error
      "db_error",    \* a statement fails and aborts the transaction
      "timeout",     \* the job reaches WorkerSettings.job_timeout
      "shutdown",    \* the worker is told to stop
      "crash",       \* the worker dies
      "lapse",       \* a lease ends under a live run (lost heartbeats, a pause)
      "redis" }      \* a single Redis call fails

ASSUME ConstantsAssumption ==
    /\ Emails \subseteq Docs /\ Attachments \subseteq Docs
    /\ NoDoc \notin Docs /\ NoJob \notin Jobs
    /\ MaxTries \in Nat /\ MaxRunning \in Nat /\ MaxRequests \in Nat
    /\ Faults \subseteq FaultKinds
    /\ UserOps \subseteq {"cancel", "retry", "reprocess", "restore"}

VARIABLES
    status,     \* documents.processing_status ("absent": no such row yet)
    arqJob,     \* documents.arq_job_id
    rowLock,    \* the run whose open transaction has updated the document row
    rows,       \* project_state.triggered_by_document_id, by version
    changelog,  \* state_changelog: the document and the version it explains
    advisory,   \* the run that holds pg_advisory_xact_lock(project)
    git,        \* commits of state.json: the document and the version
    lease,      \* Redis project_lock:{project}: its owner, or Free
    cancelKeys, \* the jobs j with a Redis key cancel:{j}
    pc,         \* where each job is: in no queue, in the queue, or in its run
    jobDoc,     \* the argument of the job
    tries,      \* ARQ's job_try
    eff,        \* effective_job_id of the run
    tx,         \* what the run has read, and written but not committed
    req,        \* the request each client has in flight
    sent        \* how many requests the users have sent

rowVars    == <<status, arqJob, rowLock>>
stateVars  == <<rows, changelog, advisory, git>>
redisVars  == <<lease, cancelKeys>>
jobVars    == <<pc, jobDoc, tries, eff, tx>>
clientVars == <<req, sent>>
vars == <<status, arqJob, rowLock, rows, changelog, advisory, git, lease,
          cancelKeys, pc, jobDoc, tries, eff, tx, req, sent>>

-----------------------------------------------------------------------------
Statuses == {"absent", "pending", "processing", "done", "failed", "cancelled",
             "completed_partial"}
Terminal == {"done", "failed", "cancelled", "completed_partial"}

\* Where a run can be once it owns the project lease, in the order of the code.
InTransaction == {"attach", "merge", "persist", "changelog", "git", "enrich", "finish"}
Processing    == {"load", "start", "parse", "cancelled"} \cup InTransaction
Section       == Processing \cup {"unwind"}
Delivered     == Section \cup {"lock"}
Places        == {"free", "queued"} \cup Delivered

\* From pg_advisory_xact_lock to the end of the transaction.
Advised == {"merge", "persist", "changelog", "git", "enrich", "finish"}

\* The lease's value: process_document draws a new owner uuid for every try.
Owner(j) == [job |-> j, try |-> tries[j]]
Free     == [job |-> NoJob, try |-> 0]
Leases   == {Free} \cup [job : Jobs, try : Nat]

\* What a run holds in memory and in its transaction.
Txs == [ seen : Statuses,      \* the status it read before its first commit
         base : Nat,           \* the latest version it read
         existing : Nat,       \* the version of its document it found, or 0
         version : Nat,        \* the version it has written, or 0
         logged : BOOLEAN,     \* it has written the changelog entry
         partial : BOOLEAN ]   \* its embeddings failed
NoTx == [seen |-> "absent", base |-> 0, existing |-> 0, version |-> 0,
         logged |-> FALSE, partial |-> FALSE]

Ops      == {"idle", "cancel", "retry", "reprocess", "restore", "enqueue"}
Requests == [op : Ops, doc : Docs \cup {NoDoc}, job : Jobs \cup {NoJob}, seen : Statuses]
Idle     == [op |-> "idle", doc |-> NoDoc, job |-> NoJob, seen |-> "absent"]

Rows(d) == {v \in DOMAIN rows : rows[v] = d}

\* A job id is a fresh uuid: one that nothing in the system refers to.
Unreferenced(j) ==
    /\ j \notin cancelKeys
    /\ \A d \in Docs : arqJob[d] # j
    /\ \A c \in Clients : req[c].job # j
    /\ \A k \in Jobs : k # j => eff[k] # j
    /\ lease.job # j

FreshJobs == {j \in Jobs : pc[j] = "free" /\ Unreferenced(j)}

\* SQLAlchemy writes a column only if the value differs from the one it loaded.
Assigned(loaded, new, current) == IF loaded = new THEN current ELSE new

Init ==
    /\ status = [d \in Docs |-> "absent"]
    /\ arqJob = [d \in Docs |-> NoJob]
    /\ rowLock = [d \in Docs |-> NoJob]
    /\ rows = <<>>
    /\ changelog = {}
    /\ advisory = NoJob
    /\ git = {}
    /\ lease = Free
    /\ cancelKeys = {}
    /\ pc = [j \in Jobs |-> "free"]
    /\ jobDoc = [j \in Jobs |-> NoDoc]
    /\ tries = [j \in Jobs |-> 0]
    /\ eff = [j \in Jobs |-> NoJob]
    /\ tx = [j \in Jobs |-> NoTx]
    /\ req = [c \in Clients |-> Idle]
    /\ sent = 0

-----------------------------------------------------------------------------
(* Transactions, the queue and the lease.                                  *)

\* The row of the document is not updated by another open transaction.
RowFree(j) == rowLock[jobDoc[j]] \in {NoJob, j}

LockRow(j) == rowLock' = [rowLock EXCEPT ![jobDoc[j]] = j]

\* COMMIT and ROLLBACK release every lock of the transaction.
EndTransaction(j) ==
    /\ rowLock' = [d \in Docs |-> IF rowLock[d] = j THEN NoJob ELSE rowLock[d]]
    /\ advisory' = IF advisory = j THEN NoJob ELSE advisory
    /\ tx' = [tx EXCEPT ![j] = NoTx]

Rollback(j) == EndTransaction(j) /\ UNCHANGED <<rows, changelog>>

\* Mutant: the changelog entry names the version the merge started from.
CommitStateOffByOne(j) ==
    LET v == tx[j].version
    IN  /\ rows' = IF v = 0 THEN rows
                   ELSE IF v <= Len(rows) THEN [rows EXCEPT ![v] = jobDoc[j]]
                   ELSE Append(rows, jobDoc[j])
        /\ changelog' = IF tx[j].logged
                        THEN changelog \cup {[doc |-> jobDoc[j], version |-> tx[j].base]}
                        ELSE changelog
        /\ EndTransaction(j)

\* The project_state and state_changelog rows of the run become visible.
CommitState(j) ==
    LET v == tx[j].version
    IN  /\ rows' = IF v = 0 THEN rows
                   ELSE IF v <= Len(rows) THEN [rows EXCEPT ![v] = jobDoc[j]]
                   ELSE Append(rows, jobDoc[j])
        /\ changelog' = IF tx[j].logged
                        THEN changelog \cup {[doc |-> jobDoc[j], version |-> v]}
                        ELSE changelog
        /\ EndTransaction(j)

Goto(j, place) == pc' = [pc EXCEPT ![j] = place]

\* enqueue_job("process_document", d) under the id j.
Enqueue(j, d) ==
    /\ pc' = [pc EXCEPT ![j] = "queued"]
    /\ jobDoc' = [jobDoc EXCEPT ![j] = d]

\* ARQ forgets the job.
Forget(j) ==
    /\ pc' = [pc EXCEPT ![j] = "free"]
    /\ jobDoc' = [jobDoc EXCEPT ![j] = NoDoc]
    /\ tries' = [tries EXCEPT ![j] = 0]
    /\ eff' = [eff EXCEPT ![j] = NoJob]

\* Mutant: a plain DEL.
ReleaseAnyLease(j) == lease' = Free

\* _RELEASE_LUA: delete the key only if this run still owns it.
ReleaseLease(j) == lease' = IF lease = Owner(j) THEN Free ELSE lease

\* _check_cancel: a flag that is set stops the run; a failing GET is ignored.
CancelSeen(j)  == eff[j] \in cancelKeys
MayProceed(j)  == ~CancelSeen(j) \/ "redis" \in Faults

-----------------------------------------------------------------------------
(* ARQ: delivery.  A job's try is counted when a worker picks it up.       *)

DeliveredJobs == {j \in Jobs : pc[j] \in Delivered}

Deliver(j) ==
    /\ pc[j] = "queued"
    /\ tries[j] < MaxTries
    /\ Cardinality(DeliveredJobs) < MaxRunning
    /\ tries' = [tries EXCEPT ![j] = @ + 1]
    /\ Goto(j, "lock")
    /\ UNCHANGED <<rowVars, stateVars, redisVars, jobDoc, eff, tx, clientVars>>

\* After the last try ARQ drops the job without running it.
GiveUp(j) ==
    /\ pc[j] = "queued"
    /\ tries[j] = MaxTries
    /\ Forget(j)
    /\ UNCHANGED <<rowVars, stateVars, redisVars, tx, clientVars>>

\* process_document: SET NX of the project lease, with a new owner per try.
Acquire(j) ==
    /\ pc[j] = "lock"
    /\ lease = Free
    /\ lease' = Owner(j)
    /\ Goto(j, "load")
    /\ UNCHANGED <<rowVars, stateVars, cancelKeys, jobDoc, tries, eff, tx, clientVars>>

\* Mutant: a run that finds the lease taken ends without requeueing.
RequeueNothing(j) ==
    /\ pc[j] = "lock"
    /\ lease # Free
    /\ Forget(j)
    /\ UNCHANGED <<rowVars, stateVars, redisVars, tx, clientVars>>

\* Mutant: the finally block that releases the lease covers the requeueing too.
RequeueAndRelease(j) ==
    /\ pc[j] = "lock"
    /\ lease # Free
    /\ lease' = Free
    /\ \E k \in FreshJobs \cup (IF Unreferenced(j) THEN {j} ELSE {}) :
          /\ pc' = [pc EXCEPT ![j] = "free", ![k] = "queued"]
          /\ jobDoc' = [jobDoc EXCEPT ![j] = NoDoc, ![k] = jobDoc[j]]
          /\ tries' = [tries EXCEPT ![j] = 0]
    /\ UNCHANGED <<rowVars, stateVars, cancelKeys, eff, tx, clientVars>>

\* The lease is taken: the document goes back to the queue as another job.
Requeue(j) ==
    /\ pc[j] = "lock"
    /\ lease # Free
    /\ \E k \in FreshJobs \cup (IF Unreferenced(j) THEN {j} ELSE {}) :
          /\ pc' = [pc EXCEPT ![j] = "free", ![k] = "queued"]
          /\ jobDoc' = [jobDoc EXCEPT ![j] = NoDoc, ![k] = jobDoc[j]]
          /\ tries' = [tries EXCEPT ![j] = 0]
    /\ UNCHANGED <<rowVars, stateVars, redisVars, eff, tx, clientVars>>

\* SET NX, the requeueing or the first SELECT raises: nothing catches it.
LoseJob(j) ==
    /\ {"redis", "db_error"} \cap Faults # {}
    /\ pc[j] = "lock"
    /\ Forget(j)
    /\ UNCHANGED <<rowVars, stateVars, redisVars, tx, clientVars>>

-----------------------------------------------------------------------------
(* _process: the steps of a run.  Each looks for the cancel flag first.    *)

\* Mutant: the flag is looked up under the id of the document.
LoadDocumentId(j) ==
    /\ pc[j] = "load"
    /\ eff' = [eff EXCEPT ![j] = jobDoc[j]]
    /\ tx' = [tx EXCEPT ![j].seen = status[jobDoc[j]]]
    /\ Goto(j, "start")
    /\ UNCHANGED <<rowVars, stateVars, redisVars, jobDoc, tries, clientVars>>

\* Mutant: the flag is looked up under ARQ's job id, which a requeue changes.
LoadArqJob(j) ==
    /\ pc[j] = "load"
    /\ eff' = [eff EXCEPT ![j] = j]
    /\ tx' = [tx EXCEPT ![j].seen = status[jobDoc[j]]]
    /\ Goto(j, "start")
    /\ UNCHANGED <<rowVars, stateVars, redisVars, jobDoc, tries, clientVars>>

\* The run reads the document row, and from it the id its flag has.
Load(j) ==
    /\ pc[j] = "load"
    /\ eff' = [eff EXCEPT ![j] = IF arqJob[jobDoc[j]] # NoJob THEN arqJob[jobDoc[j]] ELSE j]
    /\ tx' = [tx EXCEPT ![j].seen = status[jobDoc[j]]]
    /\ Goto(j, "start")
    /\ UNCHANGED <<rowVars, stateVars, redisVars, jobDoc, tries, clientVars>>

Start(j) ==
    /\ pc[j] = "start"
    /\ MayProceed(j)
    /\ RowFree(j)
    /\ status' = [status EXCEPT ![jobDoc[j]] = Assigned(tx[j].seen, "processing", @)]
    /\ tx' = [tx EXCEPT ![j] = NoTx]
    /\ Goto(j, "parse")
    /\ UNCHANGED <<arqJob, rowLock, stateVars, redisVars, jobDoc, tries, eff, clientVars>>

\* Step 2.  The log entry is the first write of the long transaction.
Parse(j) ==
    /\ pc[j] = "parse"
    /\ MayProceed(j)
    /\ RowFree(j)
    /\ LockRow(j)
    /\ Goto(j, "attach")
    /\ UNCHANGED <<status, arqJob, stateVars, redisVars, jobDoc, tries, eff, tx, clientVars>>

\* An email's attachment becomes a document without arq_job_id and a job of its
\* own; its commit ends the parent's transaction: until the parent's next write (here
\* LoadState at the latest) a request can update its row.  A failing enqueue is swallowed.
Attach(j, a) ==
    /\ pc[j] = "attach"
    /\ jobDoc[j] \in Emails
    /\ status[a] = "absent"
    /\ status' = [status EXCEPT ![a] = "pending"]
    /\ rowLock' = [rowLock EXCEPT ![jobDoc[j]] = IF @ = j THEN NoJob ELSE @]
    /\ \/ \E k \in FreshJobs : Enqueue(k, a)
       \/ "redis" \in Faults /\ UNCHANGED <<pc, jobDoc>>
    /\ UNCHANGED <<arqJob, stateVars, redisVars, tries, eff, tx, clientVars>>

\* Mutant: no advisory lock.
LoadStateUnlocked(j) ==
    /\ pc[j] = "attach"
    /\ MayProceed(j)
    /\ RowFree(j)
    /\ advisory' = j
    /\ LockRow(j)
    /\ \E v \in (IF Rows(jobDoc[j]) = {} THEN {0} ELSE Rows(jobDoc[j])) :
          tx' = [tx EXCEPT ![j].base = Len(rows), ![j].existing = v]
    /\ Goto(j, "merge")
    /\ UNCHANGED <<status, arqJob, rows, changelog, git, redisVars, jobDoc, tries, eff, clientVars>>

\* Step 3 up to the LLM calls: take the advisory lock, then read the latest
\* version and any version this document has already triggered.
LoadState(j) ==
    /\ pc[j] = "attach"
    /\ MayProceed(j)
    /\ advisory = NoJob
    /\ RowFree(j)
    /\ advisory' = j
    /\ LockRow(j)
    /\ \E v \in (IF Rows(jobDoc[j]) = {} THEN {0} ELSE Rows(jobDoc[j])) :
          tx' = [tx EXCEPT ![j].base = Len(rows), ![j].existing = v]
    /\ Goto(j, "merge")
    /\ UNCHANGED <<status, arqJob, rows, changelog, git, redisVars, jobDoc, tries, eff, clientVars>>

\* Steps 3 and 4: the LLM calls return and the delta is merged in memory.
Merge(j) ==
    /\ pc[j] = "merge"
    /\ MayProceed(j)
    /\ Goto(j, "persist")
    /\ UNCHANGED <<rowVars, stateVars, redisVars, jobDoc, tries, eff, tx, clientVars>>

\* Mutant: every run writes the next version.
PersistNext(j) ==
    /\ pc[j] = "persist"
    /\ MayProceed(j)
    /\ tx' = [tx EXCEPT ![j].version = tx[j].base + 1]
    /\ Goto(j, "changelog")
    /\ UNCHANGED <<rowVars, stateVars, redisVars, jobDoc, tries, eff, clientVars>>

\* Step 5: overwrite the document's own version, or write the next one.
Persist(j) ==
    /\ pc[j] = "persist"
    /\ MayProceed(j)
    /\ tx' = [tx EXCEPT ![j].version = IF tx[j].existing # 0 THEN tx[j].existing
                                                           ELSE tx[j].base + 1]
    /\ Goto(j, "changelog")
    /\ UNCHANGED <<rowVars, stateVars, redisVars, jobDoc, tries, eff, clientVars>>

\* Step 6.
Changelog(j) ==
    /\ pc[j] = "changelog"
    /\ MayProceed(j)
    /\ tx' = [tx EXCEPT ![j].logged = TRUE]
    /\ Goto(j, "git")
    /\ UNCHANGED <<rowVars, stateVars, redisVars, jobDoc, tries, eff, clientVars>>

\* Mutant: a failing git commit is swallowed.
GitCommitBestEffort(j) ==
    /\ pc[j] = "git"
    /\ MayProceed(j)
    /\ git' \in {git, git \cup {[doc |-> jobDoc[j], version |-> tx[j].version]}}
    /\ Goto(j, "enrich")
    /\ UNCHANGED <<rowVars, rows, changelog, advisory, redisVars, jobDoc, tries, eff, tx, clientVars>>

\* Step 7: the commit is in the repository at once.
GitCommit(j) ==
    /\ pc[j] = "git"
    /\ MayProceed(j)
    /\ git' = git \cup {[doc |-> jobDoc[j], version |-> tx[j].version]}
    /\ Goto(j, "enrich")
    /\ UNCHANGED <<rowVars, rows, changelog, advisory, redisVars, jobDoc, tries, eff, tx, clientVars>>

\* Step 8: the embeddings may fail after their retries without failing the run.
Enrich(j) ==
    /\ pc[j] = "enrich"
    /\ MayProceed(j)
    /\ \E failed \in BOOLEAN : tx' = [tx EXCEPT ![j].partial = failed]
    /\ Goto(j, "finish")
    /\ UNCHANGED <<rowVars, stateVars, redisVars, jobDoc, tries, eff, clientVars>>

\* Mutant: a run whose embeddings failed is rolled back but still marked.
FinishPartialRollback(j) ==
    /\ pc[j] = "finish"
    /\ status' = [status EXCEPT ![jobDoc[j]] =
                     IF tx[j].partial THEN "completed_partial" ELSE "done"]
    /\ IF tx[j].partial THEN Rollback(j) ELSE CommitState(j)
    /\ Goto(j, "unwind")
    /\ UNCHANGED <<arqJob, git, redisVars, jobDoc, tries, eff, clientVars>>

\* Step 9: the only commit since step 3, and no look at the cancel flag.
Finish(j) ==
    /\ pc[j] = "finish"
    /\ status' = [status EXCEPT ![jobDoc[j]] =
                     IF tx[j].partial THEN "completed_partial" ELSE "done"]
    /\ CommitState(j)
    /\ Goto(j, "unwind")
    /\ UNCHANGED <<arqJob, git, redisVars, jobDoc, tries, eff, clientVars>>

\* Where a run looks for its flag.
Checkpoints == {"start", "parse", "attach", "merge", "persist", "changelog", "git", "enrich"}

\* CancelledPipeline: first roll back ...
ObserveCancel(j) ==
    /\ pc[j] \in Checkpoints
    /\ CancelSeen(j)
    /\ Rollback(j)
    /\ Goto(j, "cancelled")
    /\ UNCHANGED <<status, arqJob, git, redisVars, jobDoc, tries, eff, clientVars>>

\* ... then read the row again and mark it.
MarkCancelled(j) ==
    /\ pc[j] = "cancelled"
    /\ RowFree(j)
    /\ status' = [status EXCEPT ![jobDoc[j]] = "cancelled"]
    /\ Goto(j, "unwind")
    /\ UNCHANGED <<arqJob, rowLock, stateVars, redisVars, jobDoc, tries, eff, tx, clientVars>>

\* Where something other than the database raises.
CanRaise == {"parse", "merge", "git"}

\* except Exception: mark the document and commit what the run has written.
Fail(j) ==
    /\ "step_error" \in Faults
    /\ pc[j] \in CanRaise
    /\ RowFree(j)
    /\ status' = [status EXCEPT ![jobDoc[j]] = "failed"]
    /\ CommitState(j)
    /\ Goto(j, "unwind")
    /\ UNCHANGED <<arqJob, git, redisVars, jobDoc, tries, eff, clientVars>>

\* A failed statement leaves the transaction aborted: the commit of the handler
\* fails too, that failure is swallowed, and closing the session rolls back.
DbError(j) ==
    /\ "db_error" \in Faults
    /\ pc[j] \in Processing
    /\ Rollback(j)
    /\ Goto(j, "unwind")
    /\ UNCHANGED <<status, arqJob, git, redisVars, jobDoc, tries, eff, clientVars>>

\* finally: release the lease; a failing release is swallowed.  ARQ then ends
\* the job, whether it returned or raised.
Unwind(j) ==
    /\ pc[j] = "unwind"
    /\ \/ ReleaseLease(j)
       \/ "redis" \in Faults /\ UNCHANGED lease
    /\ Forget(j)
    /\ UNCHANGED <<rowVars, stateVars, cancelKeys, tx, clientVars>>

-----------------------------------------------------------------------------
(* What the environment does to runs, leases and keys.                     *)

\* The run behind the lease is still going.
OwnerLive == /\ lease # Free
             /\ pc[lease.job] \in Section
             /\ tries[lease.job] = lease.try

\* job_timeout cancels the coroutine: CancelledError is no Exception, so no
\* handler of _process runs; closing the session rolls back.
Timeout(j) ==
    /\ "timeout" \in Faults
    /\ pc[j] \in Processing
    /\ Rollback(j)
    /\ Goto(j, "unwind")
    /\ UNCHANGED <<status, arqJob, git, redisVars, jobDoc, tries, eff, clientVars>>

\* The transactions of every delivered run end and ARQ will deliver it again.
StopRuns ==
    /\ pc' = [j \in Jobs |-> IF pc[j] \in Delivered THEN "queued" ELSE pc[j]]
    /\ eff' = [j \in Jobs |-> NoJob]
    /\ tx' = [j \in Jobs |-> NoTx]
    /\ rowLock' = [d \in Docs |-> NoJob]
    /\ advisory' = NoJob
    /\ UNCHANGED <<status, arqJob, rows, changelog, git, cancelKeys, jobDoc, tries, clientVars>>

\* A worker told to stop cancels its runs; each still releases its lease.
Shutdown ==
    /\ "shutdown" \in Faults
    /\ DeliveredJobs # {}
    /\ lease' = IF OwnerLive THEN Free ELSE lease
    /\ StopRuns

\* A worker that dies releases nothing in Redis.
Crash ==
    /\ "crash" \in Faults
    /\ DeliveredJobs # {}
    /\ UNCHANGED lease
    /\ StopRuns

\* The TTL runs out.  While its owner runs, the heartbeat renews it in time
\* unless leases may lapse.
LeaseExpires ==
    /\ lease # Free
    /\ OwnerLive => "lapse" \in Faults
    /\ lease' = Free
    /\ UNCHANGED <<rowVars, stateVars, cancelKeys, jobVars, clientVars>>

\* A cancel key lives for an hour, longer than a job waits and runs.
CancelKeyExpires(k) ==
    /\ k \in cancelKeys
    /\ \A j \in Jobs : eff[j] # k /\ \A d \in Docs : jobDoc[j] = d => arqJob[d] # k
    /\ \A c \in Clients : req[c].op = "cancel" => arqJob[req[c].doc] # k
    /\ cancelKeys' = cancelKeys \ {k}
    /\ UNCHANGED <<rowVars, stateVars, lease, jobVars, clientVars>>

-----------------------------------------------------------------------------
(* The endpoints.  A request that updates a row waits for its lock, and what *)
(* it decided on may have changed by then.                                   *)

\* POST documents: the row is committed before the job is queued.
Upload(c, d) ==
    /\ req[c] = Idle /\ sent < MaxRequests
    /\ d \notin Attachments
    /\ status[d] = "absent"
    /\ \E j \in FreshJobs :
          /\ arqJob' = [arqJob EXCEPT ![d] = j]
          /\ req' = [req EXCEPT ![c] = [op |-> "enqueue", doc |-> d, job |-> j,
                                        seen |-> "absent"]]
    /\ status' = [status EXCEPT ![d] = "pending"]
    /\ sent' = sent + 1
    /\ UNCHANGED <<rowLock, stateVars, redisVars, jobVars>>

\* The request reads the row and checks that the status admits the operation.
Ask(c, d, op) ==
    /\ req[c] = Idle /\ sent < MaxRequests /\ op \in UserOps
    /\ status[d] # "absent"
    /\ req' = [req EXCEPT ![c] = [op |-> op, doc |-> d, job |-> NoJob,
                                  seen |-> status[d]]]
    /\ sent' = sent + 1

\* DELETE documents/{id}?cancel_pipeline=true: the flag is set before the row.
AskCancel(c, d) ==
    /\ Ask(c, d, "cancel")
    /\ cancelKeys' = IF arqJob[d] # NoJob THEN cancelKeys \cup {arqJob[d]} ELSE cancelKeys
    /\ UNCHANGED <<rowVars, stateVars, lease, jobVars>>

AskRetry(c, d) ==
    /\ status[d] \in {"failed", "cancelled"}
    /\ Ask(c, d, "retry")
    /\ UNCHANGED <<rowVars, stateVars, redisVars, jobVars>>

AskReprocess(c, d) ==
    /\ status[d] \in {"failed", "done"}
    /\ Ask(c, d, "reprocess")
    /\ UNCHANGED <<rowVars, stateVars, redisVars, jobVars>>

\* POST restore accepts a document in any status.
AskRestore(c, d) ==
    /\ Ask(c, d, "restore")
    /\ UNCHANGED <<rowVars, stateVars, redisVars, jobVars>>

CommitCancel(c) ==
    LET r == req[c] IN
    /\ r.op = "cancel"
    /\ rowLock[r.doc] = NoJob
    /\ status' = [status EXCEPT ![r.doc] = Assigned(r.seen, "cancelled", @)]
    /\ req' = [req EXCEPT ![c] = Idle]
    /\ UNCHANGED <<arqJob, rowLock, stateVars, redisVars, jobVars, sent>>

\* Retry and restore give the document a new job id; reprocess keeps the old one.
CommitRerun(c) ==
    LET r == req[c] IN
    /\ r.op \in {"retry", "reprocess", "restore"}
    /\ rowLock[r.doc] = NoJob
    /\ status' = [status EXCEPT ![r.doc] = Assigned(r.seen, "pending", @)]
    /\ \E j \in (IF r.op = "reprocess" THEN {NoJob} ELSE FreshJobs) :
          /\ arqJob' = [arqJob EXCEPT ![r.doc] = IF j = NoJob THEN @ ELSE j]
          /\ req' = [req EXCEPT ![c].op = "enqueue", ![c].job = j]
    /\ UNCHANGED <<rowLock, stateVars, redisVars, jobVars, sent>>

\* _enqueue_pipeline, after the commit.
SendJob(c) ==
    LET r == req[c] IN
    /\ r.op = "enqueue"
    /\ \E j \in (IF r.job # NoJob THEN {r.job} ELSE FreshJobs) : Enqueue(j, r.doc)
    /\ req' = [req EXCEPT ![c] = Idle]
    /\ UNCHANGED <<rowVars, stateVars, redisVars, tries, eff, tx, sent>>

\* 503 queue_unavailable: the row stays as it was committed.
SendFails(c) ==
    /\ "redis" \in Faults
    /\ req[c].op = "enqueue"
    /\ req' = [req EXCEPT ![c] = Idle]
    /\ UNCHANGED <<rowVars, stateVars, redisVars, jobVars, sent>>

-----------------------------------------------------------------------------
Run(j) ==
    \/ Load(j) \/ Start(j) \/ Parse(j) \/ (\E a \in Attachments : Attach(j, a))
    \/ LoadState(j) \/ Merge(j) \/ Persist(j) \/ Changelog(j) \/ GitCommit(j)
    \/ Enrich(j) \/ Finish(j) \/ ObserveCancel(j) \/ MarkCancelled(j) \/ Unwind(j)

Queue(j) == Deliver(j) \/ GiveUp(j) \/ Acquire(j) \/ Requeue(j)

Break(j) == LoseJob(j) \/ Fail(j) \/ DbError(j) \/ Timeout(j)

Environment == Shutdown \/ Crash \/ LeaseExpires \/ (\E k \in Jobs : CancelKeyExpires(k))

Endpoint(c) == CommitCancel(c) \/ CommitRerun(c) \/ SendJob(c) \/ SendFails(c)

User(c) == \E d \in Docs : \/ Upload(c, d) \/ AskCancel(c, d) \/ AskRetry(c, d)
                           \/ AskReprocess(c, d) \/ AskRestore(c, d)

Next == \/ \E j \in Jobs : Queue(j) \/ Run(j) \/ Break(j)
        \/ Environment
        \/ \E c \in Clients : Endpoint(c) \/ User(c)

Spec == Init /\ [][Next]_vars

-----------------------------------------------------------------------------
TypeOK ==
    /\ status \in [Docs -> Statuses]
    /\ arqJob \in [Docs -> Jobs \cup {NoJob}]
    /\ rowLock \in [Docs -> Jobs \cup {NoJob}]
    /\ rows \in Seq(Docs)
    /\ changelog \subseteq [doc : Docs, version : Nat]
    /\ git \subseteq [doc : Docs, version : Nat]
    /\ advisory \in Jobs \cup {NoJob}
    /\ lease \in Leases
    /\ cancelKeys \subseteq Jobs
    /\ pc \in [Jobs -> Places]
    /\ jobDoc \in [Jobs -> Docs \cup {NoDoc}]
    /\ tries \in [Jobs -> Nat]
    /\ eff \in [Jobs -> Jobs \cup {NoJob}]
    /\ tx \in [Jobs -> Txs]
    /\ req \in [Clients -> Requests]
    /\ sent \in Nat

\* pipeline.py:4-6: while leases do not lapse under a live run, at most one run
\* of the project is between acquiring the lease and releasing it, whatever
\* crashes, redeliveries and requeueings did before.
SerialRuns ==
    \A j, k \in Jobs : pc[j] \in Section /\ pc[k] \in Section => j = k

\* pipeline.py:200-206, 192-198: the lease of a live run goes away only when
\* that run ends, the worker stops, or the TTL runs out; never because an
\* earlier run whose lease had lapsed releases it.
LeaseOnlyByOwner ==
    [][OwnerLive /\ lease' # lease => \/ pc[lease.job] = "unwind"
                                      \/ LeaseExpires \/ Shutdown]_vars

\* pipeline.py:704-725: what a run read before its LLM calls (the latest
\* version, and whether its document already has one) is still so at its
\* commit, even when leases lapse and two runs are in progress.
NoStaleBase ==
    \A j \in Jobs : pc[j] \in Advised =>
        /\ tx[j].base = Len(rows)
        /\ IF tx[j].existing = 0 THEN Rows(jobDoc[j]) = {}
                                 ELSE tx[j].existing \in Rows(jobDoc[j])

\* pipeline.py:824-849: however often a document is retried, redelivered or
\* run twice at once, it triggers one version.
OneVersionPerDocument ==
    \A v, w \in DOMAIN rows : rows[v] = rows[w] => v = w

\* pipeline.py:884-897: every version has the changelog entry of its document,
\* on the failure path too.
VersionsExplained ==
    \A v \in DOMAIN rows : [doc |-> rows[v], version |-> v] \in changelog

\* models/document.py:18, 21-22: a document that shows as finished has its
\* version, the changelog entry and the git commit of that version.
FinishedIsDurable ==
    \A d \in Docs : status[d] \in {"done", "completed_partial"} =>
        \E v \in Rows(d) : [doc |-> d, version |-> v] \in changelog \cap git

-----------------------------------------------------------------------------
(* Inductive invariants behind the properties above.                       *)

\* Queued and running jobs and open requests name a document, and the job id
\* that a request has drawn is in no queue and in no other request.
JobsNamed ==
    /\ \A j \in Jobs : pc[j] # "free" => jobDoc[j] \in Docs
    /\ \A c \in Clients : req[c].op # "idle" => req[c].doc \in Docs
    /\ \A c \in Clients : req[c].job # NoJob =>
          /\ pc[req[c].job] = "free"
          /\ \A b \in Clients : req[b].job = req[c].job => b = c

\* pipeline.py:824-897: the version a run has staged is its document's own one
\* or the next one, it is staged only under the advisory lock, and from step 7
\* on its changelog entry is staged too.
StagedVersions == \A j \in Jobs :
    /\ pc[j] \in Advised => advisory = j
    /\ pc[j] \in {"changelog", "git", "enrich", "finish"} =>
          tx[j].version = IF tx[j].existing # 0 THEN tx[j].existing ELSE tx[j].base + 1
    /\ pc[j] \notin {"changelog", "git", "enrich", "finish"} => tx[j].version = 0
    /\ pc[j] \in {"git", "enrich", "finish"} => tx[j].logged

VersionInv == /\ TypeOK /\ JobsNamed /\ StagedVersions
              /\ NoStaleBase /\ OneVersionPerDocument /\ VersionsExplained

\* pipeline.py:366-372: the lease names every run between Acquire and Unwind.
LeaseHeld == \A j \in Jobs : pc[j] \in Section => lease = Owner(j)

-----------------------------------------------------------------------------
(* What users and documents are promised.                                  *)

\* Something will still move the document on: a job, or a request about to send one.
Carried(d) == \/ \E j \in Jobs : jobDoc[j] = d
              \/ \E c \in Clients : req[c].op = "enqueue" /\ req[c].doc = d

\* models/document.py:16-17: pending means queued and processing means that the
\* pipeline is running.  A document in either status without a job is stuck:
\* retry and reprocess refuse it.
NoOrphans ==
    \A d \in Docs : status[d] \in {"pending", "processing"} => Carried(d)

\* DELETE ?cancel_pipeline=true: a document the user cancelled is not finished
\* by the run that was in progress.
CancelSticks ==
    [][\A d \in Docs : status[d] = "cancelled" =>
           status'[d] \notin {"done", "completed_partial"}]_vars

\* Not kept by the code: road_to_perfection.md:484, a document that fails leaves
\* the state unchanged.
FailureLeavesState ==
    [][\A d \in Docs : status[d] # "failed" /\ status'[d] = "failed" =>
           UNCHANGED <<rows, changelog>>]_vars

\* A document that was queued reaches a terminal status.
Settles == \A d \in Docs :
    status[d] \in {"pending", "processing"} ~> status[d] \in Terminal

\* The worker's event loop and the API keep running their handlers; ARQ polls
\* its queue; Redis drops expired leases.  PostgreSQL serves lock waiters in
\* order, and a requeued job finds the lease free if it is so again and again.
\* Users and faults owe nothing.
Fairness ==
    /\ \A j \in Jobs : /\ WF_vars(Run(j) \/ Queue(j))
                       /\ SF_vars(Acquire(j) \/ LoadState(j) \/ Parse(j))
    /\ \A c \in Clients : SF_vars(CommitCancel(c) \/ CommitRerun(c) \/ SendJob(c))
    /\ WF_vars(LeaseExpires)

FairSpec == Spec /\ Fairness

=============================================================================
