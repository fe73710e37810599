# OpenPM: TLA+ models, model checking and proofs

OpenPM turns uploaded documents (PDF, mail, audio, images) into one JSON *project
state* per project: contacts, tasks, deadlines, decisions, blockers.  A FastAPI
backend and an ARQ worker share PostgreSQL, Redis, Qdrant and one git repository
per project; a Next.js frontend shows the state and follows the pipeline through
server-sent events.  This directory holds TLA+ modules translated from the source,
the TLC configurations that check them, and TLAPS proofs.

`src/...` below is the repository root.  Line numbers are those of the modelled
commit.

## 1. Inventory of the system

| Component | Source | State it keeps | Operations | What makes it correct | Module |
|---|---|---|---|---|---|
| Document pipeline | `backend/app/tasks/pipeline.py`, `tasks/worker.py`, `routers/documents.py` | `documents` rows, ARQ queue, Redis lease and cancel flags, advisory lock, open transaction | nine-step run, requeue, cancel, retry, reprocess, restore, upload, EML attachments | one run per project; a run never works on a stale version; one version per document; cancel wins; nothing is stuck | `DocumentPipeline` |
| State version log | `models/state.py`, `documents.py:541-785`, `state.py:98-182`, `chat.py:566-672`, `pipeline.py:699-856` | `project_state`, `state_changelog` | pipeline upsert, task PATCH, chat tool, soft delete, git revert, replace | versions without gaps, no lost edit, history not rewritten | `StateVersions`, `VersionLog` |
| Task edits and undo | `state.py:98-182`, `chat.py:566-672, 1228-1268`, `MutationCard.tsx` | versions, git, briefing, `undo:{token}` keys, cards | PATCH, tool call, undo, token and card expiry | what was acknowledged is in git; a change is undone once | `TaskEdits` |
| Optimistic task edits | `useOptimisticTask.ts`, `components/state`, `components/cockpit` | query cache | toggle, roll back, invalidate, refetch, dismiss | the page agrees with the server when it rests | `TaskEdits` |
| Pipeline view | `routers/events.py`, `useProjectSSE.ts`, `pipelineStore.ts`, `DocumentsPanel.tsx`, `StatusPanel.tsx` | reconnect loops, event store, query cache, pending deletes | publish, reconnect, reduce, refetch, delete and undo, cancel | the view converges; the stream comes back | `ProjectView` |
| Upload client | `lib/upload.ts`, `lib/uploadFlow.ts`, `DropZone.tsx` | upload items | upload, duplicate question, stop | an item ends; the list holds what was stored | `ProjectView` |
| Authentication | `auth.py`, `routers/auth.py`, `lib/authClient.ts`, `lib/api.ts`, `useTokenRefresh.ts`, `authStore.ts` | tokens, tabs' stores, localStorage, promise in flight, broadcasts | login, register, logout, refresh, 401 and repetition, reload | no lost wakeup, nobody is thrown out without cause, every request ends | `AuthClient` |
| Chat stream client | `useChatStream.ts`, `CockpitLayout.tsx`, `MessagesView.tsx`, `ConversationView.tsx`, `LandingView.tsx` | refs of the stream, optimistic messages, history, offline buffer | send, stream, frames, stop, switch, replay, slash commands | one reply in the bubble, none twice, none missing, the stop button goes away | `ChatClient` |
| Provider configuration | `services/provider_config.py`, `routers/app_settings.py`, `settings/page.tsx`, `onboarding/page.tsx` | `llm_provider_config`, the pages' lists and steps | create, update, delete, activate, refresh | at most one active provider, true lists, no edit lost | `ProviderSettings` |
| Chat agent | `routers/chat.py`, `chat_tools.py` | `chat_messages` | tool rounds, streaming | every question is stored with its answer | as seen by the client: `ChatClient`; its one writing tool: `TaskEdits` |
| Briefing | `services/briefing.py` | `projects.compiled_briefing` and its version | render on a new version | belongs to the latest state | its version: `TaskEdits` |
| Git history | `services/git_service.py` | one repository per project | commit | holds what the database holds | as a set of commits: `DocumentPipeline`, `TaskEdits` |
| Change sessions, state merge, stale deadlines, LLM access, embeddings | `services/change_session.py`, `state_manager.py`, `stale_notice.py`, `llm.py`, `qdrant_service.py` | | | | not modelled, section 11 |
| Projects, export, usage, storage, parsing, other UI, migrations | rest | | | | not modelled, section 11 |

How they interact: the API commits a document row and *then* queues an ARQ job; the
job's run talks to PostgreSQL in long transactions, to Redis at once, and to git at
once; the API influences a run only through the document row and the cancel flag;
every writer of the project state meets the others only in `project_state` and its
unique constraint.  A run tells the browser what it does through Redis channels that
keep nothing, so the browser combines events with refetches of its query cache.  Every
browser call passes through the refresh of an expired token, which tabs share.  The hard
behaviours are therefore interleavings of HTTP requests with a run across its `await`s,
the two lock layers (a lease that can lapse and a transaction lock that cannot), partial
commits, redelivery of jobs, effects outside the transaction (git, Redis, the queue),
events that are lost or overtake the commit they tell of, and client code that goes on
after an `await` with what it had read before.

## 2. Plan

Done, in this order (most important behaviour first):

1. `DocumentPipeline`: one document's run and everything that crosses it.
2. `StateVersions`, refining `VersionLog`: all writers of `project_state`.
3. `ProjectView`: what a user sees of documents while runs, deletes and uploads go on.
4. `AuthClient`, `ChatClient`: the two pieces of client code with the most shared
   mutable state across `await`s.
5. `ProviderSettings`, `TaskEdits`: server and page of one feature together, since their
   hazards are in the combination.
6. A proof module for each: all safety properties of the passing runs are theorems.

Left, should the project grow: time in the lease (when may it lapse under a live run?) and in
the rate-limit retries, which add up to more than `job_timeout`; `get_or_open` of change
sessions.

Every component has a module `X`, its instances `MCX` with one `.cfg` per run, and its
theorems in `XProofs` (those about the statuses of documents in `DocumentStatusProofs`).
In each module, an operator whose comment starts with "Mutant:" is a plausible bug in the
definition after it.  No module uses it: substituted for that
definition it makes TLC find the property violated that PROJECT.json pairs it with.
Definitions marked "not kept by the code" state what one would like to hold and what does
not; no run checks them, and the text below says why they fail.

## 3. DocumentPipeline

One project is modelled: projects share only worker slots.  A *run* is one delivery
of one ARQ job.

| Variable | In the code |
|---|---|
| `status`, `arqJob` | `documents.processing_status`, `documents.arq_job_id` |
| `rowLock` | the row lock an open transaction holds on a document row since its first UPDATE (the first flushed log entry after the commit at `pipeline.py:588`) |
| `rows` | `project_state`: for each version the document that triggered it |
| `changelog` | `state_changelog` |
| `advisory` | `pg_advisory_xact_lock` of the project (`pipeline.py:704`) |
| `git` | the commits of `state.json` |
| `lease` | Redis key `project_lock:{project}`; its value is the owner uuid drawn for every try (`pipeline.py:366`) |
| `cancelKeys` | Redis keys `cancel:{job}` |
| `pc`, `jobDoc`, `tries` | ARQ's queue and the place of each run in `process_document` / `_process` |
| `eff` | `effective_job_id` (`pipeline.py:579`) |
| `tx` | what the run has read, and written but not committed |
| `req`, `sent` | HTTP requests between their first read and their commit or enqueue |

`_process` awaits between its steps, so every step is an action of its own; what
happens between two awaits that others can see is one action.  Each step starts with
the cancel check (`MayProceed`; a failing GET counts as "not set"), waits for the row
lock or the advisory lock where the code's statement would block, and ends at the next
step's check.  The three handlers are `ObserveCancel`/`MarkCancelled`, `Fail` and
`Timeout` (the `CancelledError` that no handler catches).  `Fail` calls `CommitState`,
because the handler commits without a rollback; `DbError` is the same handler when the
transaction is already aborted.  SQLAlchemy writes a column only when its value
differs from the loaded one; `Assigned` models that for the status a request or a run
had read earlier.

External code is modelled from its use: ARQ (delivery at least once, `max_tries`,
`job_timeout`, a job id that is still queued is not queued twice), PostgreSQL (READ
COMMITTED, row locks, advisory lock, ROLLBACK), Redis keys with a TTL.

Bounds: `MaxTries` is 2 in the instances (3 in the code): one redelivery after a crash
and one job dropped after its last try.  `MaxRunning` is 2 (5 in the code): two runs
are what overlap takes.  Three jobs: the running one, a waiting one and the new id of a
requeue; ids are reused once nothing refers to them.  `MaxRequests` bounds the requests
users send, and is named in each cfg.  The proofs use none of these bounds.

| Run | Instance | Shows |
|---|---|---|
| `lapse` | two documents, raising steps, lapsing leases; 3 requests of every kind | `NoStaleBase`, `OneVersionPerDocument`, `VersionsExplained` although runs overlap; `NoOrphans`; `LeaseOnlyByOwner`: a run whose lease has lapsed does not release its successor's |
| `faults` | every fault but lapsing leases; 2 requests | `SerialRuns`: one run at a time through crashes, redelivery and requeueing; `FinishedIsDurable`: a finished document has its version, changelog entry and git commit |
| `cancel` | one document, two clients, 4 cancel and reprocess requests; raising steps, crashes, restarts, lapses | `CancelSticks`: the run in progress does not finish a cancelled document |
| `settles` | fairness; an email with an attachment, cancel and retry, raising steps | `Settles`: every queued document reaches a terminal status |

`CHECK_DEADLOCK FALSE` throughout: the users owe the system nothing, and once their
requests are used up and the queue is empty the system rests.

Fairness (`Fairness`): weak fairness of each run and of the queue (the worker's event
loop and ARQ's poll loop go on), weak fairness of the lease's TTL, strong fairness where
a run waits for a lock others take and release (PostgreSQL serves lock waiters in order;
a requeued job polls every two seconds) and for the requests, which wait for row locks.
No fairness is assumed for users or faults.

What the code does not keep, and where the checks stop for that reason:

* A step that fails after step 5 commits its half-finished transaction: `FailureLeavesState`
  (`src/road_to_perfection.md:484`) does not hold.  When the failing step was the git
  commit, that version is never in git.
* A run that reaches `job_timeout`, or whose job is dropped after `max_tries`, leaves its
  document in `processing` for ever, and retry and reprocess refuse it.  `NoOrphans` and
  `Settles` are therefore checked without these faults.
* Attachments of emails cannot be cancelled: they have no `arq_job_id`.  And cancel, retry,
  cancel: the first run's late `cancelled` mark admits a second retry, which renames the
  cancel flag under the retried run.  `CancelSticks` is therefore checked without attachments
  and without retries.

The README of the repository (`src/README.md:117`) still describes a ten-second batch of
uploads with Redis RENAME; the code has no such batch, and the model follows the code.

## 4. StateVersions

One project again.  A *writer* is one request or one run; each writes at most once, and
several of them overlap in every way their locks allow.  `kind` says which code it runs:

| Kind | Code | Protection |
|---|---|---|
| `pipeline` | a document's first run, `pipeline.py:699-856` | advisory lock from read to commit; `INSERT ... ON CONFLICT DO UPDATE` |
| `reprocess` | a further run (retry, reprocess, restore) | advisory lock; `UPDATE` of the version that `existing_for_doc` found |
| `patch` | `PATCH tasks`, `state.py:98-182` | `SELECT ... FOR UPDATE` of the latest row |
| `tool` | the chat agent's task edit, `chat.py:566-672` | none |
| `archive` | soft delete and the first half of replace, `documents.py:606-640, 745-785` | none |
| `revert` | `?strategy=git_revert`, `documents.py:541-583` | none |

| Variable | In the code |
|---|---|
| `rows` | `project_state`: position is the version; `state` and `triggered_by_document_id` |
| `base`, `existing`, `next`, `fact` | what the writer has read (latest version, `existing_for_doc`) and is going to write |
| `inserted` | the version in the unique index that its transaction has inserted and not committed |
| `locked` | the `project_state` row its transaction has locked |
| `advisory`, `docLock` | `pg_advisory_xact_lock`; the lock of the document row, which a run holds from its first log entry and a delete needs at its last flush (`archived_at`) |

A state is a set of facts: the documents that are in it and the task edits made to it.
`merge_state` adds a document, `remove_document_source` takes one out, a task edit adds
itself.  What these functions do inside a state is left out; that a delete can
take the edited task away with its document is therefore outside `NoLostEdit`.  The row
locks on `projects` (the cached briefing) are left out: they are taken last and nothing is
waited for under them.  The cron job that marks deadlines is no writer here (see the hazard
at `pipeline.py:441`).

A writer reads (`ReadRun`, `BeginTool`, `BeginPatch`/`LockPatch`, `BeginArchive`,
`BeginRevert`), writes (`Insert`, `Overwrite`, or `Conflict` with the unique constraint)
and commits.  The failure handler of a run commits what the run has written, so `Commit`
stands for it, too; cancel and timeout are `Stop`.  PostgreSQL is external: READ COMMITTED,
`FOR UPDATE` returns the row as it is when the lock is granted, an INSERT waits for an
uncommitted row with its key, and `DeadlockVictim` aborts a member of a cycle of `WaitsFor`.

`VersionLog` is the abstract promise: a sequence of states that only grows, each new one
being the latest with one fact more or less, or (revert) an earlier one.  `RefinesLog` is
`Log!Spec` with `log` mapped to the states of the rows.

| Run | Instance | Shows |
|---|---|---|
| `requests` | patch, tool, archive, revert; 3 writers, 2 documents, 2 edits | `NoLostEdit`, `ArchivedGone`, `RefinesLog` |
| `mixed` | all six kinds; 3 writers, 2 documents, 1 edit; fairness | `PatchBaseStable` although versions are overwritten in place; `WritersEnd`: deadlocks are possible and broken |
| `lost_edit` | pipeline and patch | expected violation of `NoLostEdit`, listed under findings: a committed edit is overwritten by the upsert of a run that has read the version before it |

Three writers are enough for the shapes that matter: one that holds, one that waits and
one that commits in between; a cycle of waiting needs two.  Two documents separate "its own
version" from "the latest version".  `RefinesLog` is checked without runs, which overwrite
versions in place: `lost_edit` shows what that costs, although `src/README.md:119` calls
versions immutable rows.  (That runs do not overwrite each other's versions is `NoStaleBase`
and `OneVersionPerDocument` of `DocumentPipeline`.)  `NoLostEdit` and `ArchivedGone` say
nothing of behaviours with a git_revert, which undoes what it likes.
`CHECK_DEADLOCK FALSE`: each writer writes once, so every behaviour stops.

Not kept by the code: `UndoRestores` (`src/road_to_perfection.md:537`).  A restored document
overwrites the version it had triggered, in place; newer versions stay without it.

Fairness (`mixed` only): weak fairness of every writer's own steps.  A request that has
begun is driven by the event loop and a waiting statement goes on when its lock is free;
nobody has to begin, and `Stop` is not fair.  `DeadlockVictim` is one of the steps, since
PostgreSQL looks for cycles after `deadlock_timeout`.

## 5. ProjectView

The browser keeps two copies of what the server knows of a project's documents: the query
cache, refetched when something invalidates it, and `pipelineStore`, fed by the event
stream.  A row shows the store's status when there is one and the fetched one otherwise.

| Variable | In the code |
|---|---|
| `row`, `archived`, `run`, `flagged`, `marking`, `commits`, `since` | the server, as far as its events and answers go: `documents`, the run, the cancel flag, a cancel request between flag and row, versions of the state |
| `up`, `req` | an item of the upload controls and its request |
| `toasts`, `timerOf`, `deleting`, `restoring` | delete requests: each toast with its 30 s timer, the entry of `pendingDeletes`, and DELETE and restore requests on their way |
| `live`, `cache`, `reading`, `answer` | `pipelineStore.pipelines`; the two queries and their fetches |
| `loop`, `chan`, `current`, `ctrl`, `conn` | the reconnect loops of `useProjectSSE`, what is on its way to them, the newest loop, `ctrlRef`, `connectionState` |
| `missed`, `faults` | bookkeeping: an event or answer was lost for good; failures so far |

Events are published to those who are subscribed at that moment (`Publish`); a run publishes
`state_changed` *before* the commit that makes it visible (`MergeState`, `Complete`), every
other event follows its commit.  `Invalidate` drops a fetch under way and starts another.
`cancelledRef` belongs to the hook, not to the loop: `RenewToken` runs cleanup and effect in
one go, so no loop ever sees it set and the old loop goes on.

Run `view` checks seven kinds of sessions of two documents with the same content
(`MCProjectView`): uploads with duplicates, stops and 503s; two deletes of one document with
undo; failing deletes; cancels and failing fetches; failing streams; renewed tokens; both.

* `ShowsFinished`: in a view that has settled and lost nothing, a finished document shows as
  finished, and neither the strip nor its group counts it as running, whichever of store and
  cache was last.
* `ListAgrees`: a settled list holds the server's documents but for those being deleted:
  also one whose upload was stopped, or ended in a 503, or was deleted twice.
* `PanelFresh`: the state panel is as new as the last finished or archived document although
  `state_changed` is early.
* `Reconnects`: at most `MaxRetries` failures in a row do not end the stream; in the end the
  one with the valid token is open and no banner says otherwise.

Bounds: two documents (one alone cannot be a duplicate, nor be queued behind a run), two
loops (an old and a new one; the hazard is between neighbours), `MaxRetries` 2 (6 in the code),
so that one retry and giving up are both within the faults of a session; two deletes per
document.  Fairness: loops, fetches, runs and requests go on; users and faults owe nothing.
`CHECK_DEADLOCK FALSE`: a session without open work rests.

What the code does not keep:

* `CancelShown`: `pipeline_cancelled` is handled by nobody (`src/README.md:123`,
  `src/road_to_perfection.md:348`), so a cancelled document goes on showing as pending or
  processing in the rows and the strip; the group even counts a fetched `cancelled` as running.
* Events that are lost while no stream is open are not made up for: nothing is refetched after
  a reconnect, and the store's old status overrides a newer fetched one.  Hence `missed`.
* A superseded loop that is refused, or gives up, sets "disconnected" under the open stream of
  the new one (`src/road_to_perfection.md:397` calls for its end).  Hence the exemption in
  `Reconnects`.
* A failed DELETE leaves the document hidden until the next fetch; Undo sends a restore for a
  delete that was never sent, which queues the run again; and the second toast for a document
  overwrites the record of the first one's timer.
* A stopped upload ends as "error", as the rejection of the abort overwrites "cancelled"; the
  duplicate check selects and inserts later, so two uploads of one file both pass; and one drop
  reaches up to three handlers (drop zone, panel, window).

## 6. AuthClient

The tabs of one browser.  Each has its own copy of `authStore` (`store`), written through to a
localStorage entry (`disk`) that is read only on load.  `request` is a call of `request()` in
`api.ts`, `promise` the calls of `_doRefresh`, `inFlight` is `_refreshInFlight`, `timer` that of
`useTokenRefresh`, `mail` the messages of the BroadcastChannel, `tokens` and `sessions` are
the access and refresh tokens as the server takes them.

The actions follow the code across its `await`s: `_doRefresh` reads user and refresh token
(`Shared`), waits (`AnswerRefresh`, `LoseRefresh`), and stores what it got *for the user it
started with* (`Renewed`); its `finally` forgets whichever promise is on record by then
(`ClearInFlight`); the channel's listener forgets it too, also when the message is the tab's own
(`Adopt`).

* `WaiterHasCall`: no lost wakeup.  A request that waits, waits for a call that is not settled.
* `NotThrownOut`: until a refresh fails on the network or somebody logs out, nobody who has
  logged in is thrown out, however the calls of the tabs cross.  (Users who have just registered
  are excepted: `register/page.tsx:38` drops their refresh token.)
* `RequestsEnd`: every request ends, with an answer or with the page.

Run `auth`: two tabs of one user, one sending requests; two concurrent promises per tab, three
access tokens, one refresh token, one failing refresh or logout.  Two promises are what a
forgotten one and its successor take; two tabs are what a broadcast takes; three access tokens
are the one of the login and one for each of two refreshes that cross.  The bound on tokens can
hold up a refresh that the server would answer: `RequestsEnd` excepts states in which it
does (`HeldUp`).  Fairness: the server answers and the browser runs what is due.
`CHECK_DEADLOCK FALSE`: nobody has to send requests.

Not kept by the code: `OneUserPerTab`.  A refresh that comes back after its user has logged out
and another has logged in stores the first one's name again; the listener stores the tokens
of another tab's user.  Also: a network failure of one refresh logs the user out, and a logout
in one tab leaves the others to find out by a 401.

## 7. ChatClient

One project's chat.  `send` is where each call of `sendMessage` is, `at`/`chatOf`/`saved` what the
server has made of it; `ctrl`, `completion`, `closed`, `full`, `queued` are the refs of the
hook, which *all* sends share; `bubble`, `phase`, `cur`, `opt`, `view`, `hist`, `stale` what the page
shows and has cached; `buffer` and `replay` the messages an expired login kept from being sent;
`commands` and `clearing` slash commands that wait for the server.  `Render` is the effects that
follow a change of the page's state.

* `OneVoice`: the text on the page and in the queue is of one reply, although every send writes
  to the same refs and a superseded one may still run.
* `NoDoubleReply`: a reply that is on the page as a message is not in the bubble too, though the
  end of the stream, the frames that show the text and the next send come in any order.
* `RepliesAreShown`: a settled conversation shows every reply of its session that ended
  regularly: nothing is lost between optimistic list, bubble and refetched history.
* `StreamEnds`: the stop button goes away.

Run `chat`: two messages, one existing session, ten kinds of days (`MCChatClient`: which two of
expiring tokens, failing streams, stops, session choices, page loads and slash commands happen).
Two messages are one that supersedes another; their two new sessions and the existing one are
what a switch needs.  Fairness: the server, the fetches, and the frames go on.
`CHECK_DEADLOCK FALSE`: users need not type.

Not kept by the code, and excepted where a property would be violated:

* `EveryStreamEnds`: a read that fails in the middle leaves text in the queue, and its frames
  bring bubble and stop button back.  Also, a superseded send whose token refresh fails resets
  the state of the current one.  Both set `cut`.
* `VisibleUntilHistory`: the optimistic messages go when `["chat","history"]` has been refetched,
  which (exact) matches no query, so there is a gap without the message.
* `ReplaysDoNotCollide`: the buffered messages are sent by timers 200 ms apart, each of which cuts
  off the reply before it; and they are sent by the handler of the first render, so each opens a
  session of its own.
* A message whose user has pressed stop is buffered all the same when its refresh then fails,
  and an answer to `/clear` that comes late stops a message sent meanwhile.

## 8. ProviderSettings

The providers of one purpose with the transactions that change them, and the two pages.
`rows`, `active`, `gone`, `edits` are the table (`edits`: whose form is in the credentials), `lock`
the row locks, `call` what pages have asked for and where its transaction is, `list`, `saving`,
`step`, `saved` the pages' state, `behind` and `snatched` bookkeeping for what the properties except.

`activate` locks its target, then, one by one, the rows *a snapshot* has shown as active
(`LockTarget`, `Snapshot`, `LockOther`), and writes all of them in the order of their keys.  Two
activations can each hold a target the other one's snapshot does not contain, so the locks do
not exclude two active rows; the partial unique index does (`Violates`).  As PostgreSQL checks it
row by row, activating a provider whose key is smaller than the active one's always fails.

* `AtMostOneActive`: however activations cross.
* `Ready`: an onboarding past its first step has an active provider, unless a delete that had
  seen it inactive has taken it.
* `EditsKept`: a saved form is part of the credentials, although the merge of stored and new
  fields takes no lock, unless another page has saved a form for the same provider.
* `ListIsTrue`: a page at rest shows the table, also after a failed call.
* `CallsEnd`: locks are always released; the flag `saving` with them.

Run `settings`: two settings pages and an onboarding page, three providers, three calls; eight
plans (`MCProviderSettings`).  Three calls are two that cross and one between; three providers are
the smallest set with two targets and an active one.  Fairness: server and pages go on.
`CHECK_DEADLOCK FALSE`: nobody has to click, and the calls are used up.

What the code does not keep: a DELETE that has checked `is_active` before an activation commits
removes the active provider (`snatched`); answers of two `refreshAll` of one page may come in the
wrong order (`behind`, while both are under way); a failed activation in the onboarding leaves the
created provider and the next try creates another; and a late summary moves an onboarding page
to its third step under the user's hands.  The test of a connection is left out: it changes
nothing but a message.

## 9. TaskEdits

The status of tasks seen from one page, and the requests that change it.  `log`, `git`, `briefing`,
`dismissed`, `token` are the server; `req` the requests with what they have read; `copy`, `fetch`,
`answer`, `invalid` the query cache; `card` the cards of the assistant's changes; `detail` the dialog;
`behind` the queries whose copy the page cannot know to be old.

A toggle shows its status at once, remembers *the whole* list it replaced, and puts that back when
it fails; its settling refetches the state and (the key has the same beginning) the history.  The
server commits the version, then git, then the briefing, and each may fail on its own.  The tool's
change leaves a token; undoing it is GET, then DELETE, then the inverse edit.

* `PanelAgrees`: a page that waits for nothing shows what the server has, whichever snapshots were
  put back and whichever answers crossed, unless it cannot know.
* `AcknowledgedInGit`: an edit that was acknowledged is in the log and in the git history.
* `UndoneOnce`: a change is undone once, although token and card are checked in separate steps,
  unless the answer to an undo was lost and the button pressed again.

Run `tasks`: two tasks, up to three requests, six plans (`MCTaskEdits`), at most one fault.  Two
toggles are what crossing snapshots take; a change, its undo and a second undo are three.
`CHECK_DEADLOCK FALSE`: nobody has to click, and the requests are used up.

What the code does not keep: edits and undos of the assistant refetch nothing, a PATCH does not
refetch the query that holds the briefing, and a dialog that is closed while its history is being
fetched loses the mark that it is old (`behind`); crossing PATCHes reach git in another order than the
database, and the older one's briefing may overwrite the newer one's (`state.py:165-185`); a failing git
commit answers 500 for an edit that stands; the token is spent before the inverse edit, so a
conflict loses the undo; a refused undo is shown as done, as the answer is a 200
(`chat.py:1250-1262`).  The token is called single-use (`chat.py:1247`), but GET and DELETE do not
exclude each other: only the card's disabled button does.

## 10. Proofs

All theorems are about `Spec` (no fairness) for every value of the constants that the module's
named assumption allows: any sets of documents, tabs, messages, pages, tasks, writers, any bound and
any set of faults.  TLC checked the inductive invariants on the instances before they were proved.

`DocumentPipelineProofs`

* `TypeCorrect`.  The inductive invariant `Typed` adds `JobsNamed`: a job that is not free and a
  request that is not idle name a document (otherwise a commit could append a version of no
  document), and the job id a request has drawn is free and nobody else's.
* `BaseNeverStale`, `OneVersion`, `AllVersionsExplained`: from the inductive invariant
  `VersionInv`.  Its core, `StagedVersions`, says that a run between `LoadState` and its
  commit holds the advisory lock, and which version it has staged.  Steps fall into
  three kinds: quiet ones (`QuietActions`), the lock holder's own (`OwnActions`), and the
  two that commit (`CommitActions`); only the last change the log, and then no other run
  is inside.
* `RunsAreSerial`: under the assumption `"lapse" \notin Faults`, from the invariant
  `LeaseHeld`: every run between `Acquire` and `Unwind` is named by the lease.

`DocumentStatusProofs`

* `OwnerReleases`: only `Acquire`, which needs a free lease, `Unwind`, which compares the owner, the TTL
  and a worker that stops change the lease.
* `FinishedDurable`, with all faults: from `VersionInv` follows that no step loses a version or an
  entry (`NextGrows`), and from step 7 on the staged version is in git (`Committed`), so the commit of
  the last step publishes what is complete.
* `NothingOrphaned`, for `Faults \subseteq {"step_error", "lapse"}` and `MaxTries # 0` (section 3 says
  which faults break it): `NoneLost` strengthens a job to one that has not reached its end, and says
  that a queued job has used no try.
* `CancelledStays`, without Redis faults, attachments, retries and restores, which break it (section
  3).  The inductive `Sticks` says that a run looks for the flag under the document's id, that from
  `LoadState` to its commit it holds the row and the row is not cancelled, and that any other run of a
  cancelled document has its flag in front of it; a request under way keeps the flag alive.

`StateVersionsProofs`

* `TypeCorrect`, with `Named` (a version that was read still exists, a writer that is under way
  is about a document or an edit) as strengthening.
* `PatchBaseIsStable`, for any `Kinds`.  The inductive `PatchInv` adds that a row has one locker
  and that a PATCH holds the lock of its base; `CommitKeepsOthers` says that a commit changes no
  version but the one it has locked.
* `RequestsRefineLog`: if `Kinds` contains no run, `Spec => RefinesLog`.  The inductive
  `RequestInv` says that `next` is the version read with one change (`Built`) and that the
  one writer in front of its commit has read the version that is still the latest
  (`OneInserter`), which is what the unique constraint gives.
* `NoEditIsLost`, `ArchivedStaysGone`: under the same assumption, from `ForwardInv`, which
  is `RequestInv` with the two properties themselves.

`ProjectViewProofs`

* `TypeCorrect`, with `RetriesLeft`: a loop that has not given up has retries left.
* `PanelIsFresh`, `ListIsServers`, `FinishedIsShown`: these speak of a view that has settled, so the
  inductive invariant has to say what every state on the way to one owes it.  `ViewInv` says of each
  document, as long as nothing was `missed`: what the server has changed is in an event on its way
  to some loop, or in a fetch that has not read it yet, or the client has it.  It has three parts, for
  the state panel (`PanelTrue`), the list (`ListTrue`) and the store (`StoreTrue`).  They need that a
  loop without a subscription has nothing on its way (`Unread`), for then the last event about a
  document is the same for every loop that has not handled it, which is why two loops cannot leave
  the store at the older one's status; and that runs, cancel requests and copies are about documents
  with a row (`Real`).  In a settled view there is no event and no fetch, and `SettledView` reads the
  properties off.

`AuthClientProofs`

* `TypeCorrect`, with `Issued`: a refresh token kept anywhere was issued, and a call that asks the
  server has one.
* `WaitersHaveCalls`, from `Called`: the promise on record and the one a request waits for are not
  settled.  Forgetting the record keeps it; only settling ends a call, and settles its waiter.
* `NobodyIsThrownOut`, an action property, from `CalmUntilFault`: while nothing has failed, every
  call refreshes for the user of its tab, a token about to be used is fresh, and only who has just
  registered has no refresh token.

`ChatClientProofs`

* `TypeCorrect`.
* `OneReplySpeaks`, from `Alone`: a send that was not aborted and still runs is the one whose
  controller is on record, and the text is its.
* `RepliesOnce`, from `Settled`: the completion on record is the current send's or none (`Told`), a
  reply in the list belongs to a send whose stream has ended (`Final`), and a message in the buffer or
  the replay is there once and has no reply (`Queue`), which is what a replayed send needs.
* `EveryReplyShown`, from `ShownInv`: a reply that has ended regularly is in the server's history of
  its session (`Recorded`).  A page that streams has its refetch still to come; one that does not has
  asked for the conversation or has it (`Caught`).  This needs that a send which reads shows that it
  streams (`Reads`, unless the state was reset under it, which `cut` records), that no text follows
  the stream's end (`ClosedLast`), and that an open session is looked at (`Opened`).

`ProviderSettingsProofs`

* `TypeCorrect`; `OneProviderActive`, from the pairwise form of the property and the index check.
* `OnboardingIsReady`, from `ReadyInv`: an activation that has committed and a fetched list with an
  active provider both imply that one is active still, or was snatched.
* `FormsAreKept`, from `Known` (a provider that is gone does not come back), `OneForm` (the flag
  `saving` keeps the forms of a page apart) and `Stored` (a request about to store a form has read
  the page's earlier ones).
* `ListsAreTrue`, from `ListInv`: a settings page that no other page has overtaken has at most one
  call under way, and its list differs from the table by no more than that call's answer will do to
  it (`Shown`).  The provider of a call that has locked or written it is in the table (`There`), so a
  rolled back activation leaves nothing to show.

`TaskEditsProofs`

* `TypeCorrect`, with `Linked`, `Wrote`, `Once`: every version but the first is somebody's only one, so
  the bound on versions suffices (a pigeonhole argument, `RoomLeft`).
* `AcknowledgedEdits`, from `Wrote`.
* `UndosComeOnce`, from `Spends` and `InTurn`: one undo at a time, a second one only after the first
  has failed, and one that has failed has used up the token.
* `PanelsAgree`, from `PanelInv`: a query is being fetched, or its answer or its copy is what the
  server has, or it is one the page cannot know to be old (`behind`), or the answer to a request of
  the page will have it fetched (`Covered`).  The exception is the history, which is fetched only
  while its dialog is open.

Only model-checked: liveness (`Settles`, `WritersEnd`, `Reconnects`, `RequestsEnd`, `StreamEnds`,
`CallsEnd`), which the prover cannot do.  All invariants and action
properties of the passing runs, and the refinement, are proved.

## 11. Not modelled

* The merge of states (`state_manager.py`): pure functions over nested JSON, which the repository's
  unit tests cover.  `merge_state` mutates nested items of the state it is given; no caller uses that
  state afterwards.
* The cron jobs.  Marking stale deadlines changes nested values of a shallow copy, which SQLAlchemy
  does not see as a change (`pipeline.py:441`), so no version is written; closing change sessions
  touches nothing else.  `get_or_open` of change sessions selects and then inserts without a lock: a
  listed hazard, in a component that only groups log entries for display.
* Retries inside one step (LLM access, extraction, embeddings): sequential, and seen from outside a
  step that succeeds, fails or takes too long, which is how `DocumentPipeline` has it.  Time is not
  modelled, so the sum of the rate-limit waits is only listed as a hazard.
* The tool loop of the chat agent: a sequential loop over an LLM.  What its client sees is in
  `ChatClient`, its one writing tool in `TaskEdits`.
* Parsing, transcription, storage layout, encryption of keys, export, usage statistics, CRUD and
  access control of projects, wording and layout, migrations and scripts.
* Components that are mounted nowhere: `DocumentGrid`, `DocumentCard`, `LiveExtractionPanel`,
  `ActivityTimeline`, `ChatInterface`.
