---------------------------- MODULE StateVersions ----------------------------
(***************************************************************************)
(* The writers of project_state.  Each reads the latest version and later  *)
(* writes the next one in a transaction of its own, and they protect       *)
(* themselves differently:                                                 *)
(*   "pipeline"   a document's first run: advisory lock, and an INSERT     *)
(*                that overwrites the version if it exists by then;        *)
(*   "reprocess"  a further run (restore, reprocess, retry): overwrites    *)
(*                the version the document already has;                    *)
(*   "patch"      PATCH tasks: SELECT FOR UPDATE of the latest version;    *)
(*   "tool"       the chat agent's update_task_status: no lock;            *)
(*   "archive"    soft delete and replace: no lock;                        *)
(*   "revert"     the git_revert strategy: no lock.                        *)
(* The unique constraint on the version is all that they share.  What a    *)
(* transaction has written is private to it until its commit; a statement  *)
(* that meets another transaction's lock or uncommitted row waits.         *)
(***************************************************************************)
EXTENDS Naturals, Sequences, FiniteSets

CONSTANTS
    Docs,          \* documents
    Edits,         \* edits of a task's status
    Writers,       \* requests and runs; each writes once
    NoDoc, NoWriter,
    Kinds          \* the kinds of writers there are, a subset of AllKinds

Runs     == {"pipeline", "reprocess"}
TaskEdits == {"patch", "tool"}
Removals == {"archive", "revert"}
AllKinds == Runs \cup TaskEdits \cup Removals

ASSUME WritersAssumption ==
    /\ NoDoc \notin Docs /\ NoWriter \notin Writers
    /\ Docs \cap Edits = {}
    /\ Kinds \subseteq AllKinds

VARIABLES
    rows,      \* project_state: state and triggered_by_document_id by version
    pc,        \* where each writer is
    kind,      \* what it is
    fact,      \* the document or the edit it is about
    base,      \* the version it has read
    existing,  \* a run: the version its document has, or 0
    next,      \* the state it is going to write
    inserted,  \* the version it has inserted and not committed, or 0
    locked,    \* the version whose row it has locked, or 0
    advisory,  \* who holds pg_advisory_xact_lock(project)
    docLock    \* who holds the row lock of each document

vars == <<rows, pc, kind, fact, base, existing, next, inserted, locked, advisory, docLock>>
local == <<kind, fact, base, existing, next>>

-----------------------------------------------------------------------------
Facts   == Docs \cup Edits
States  == SUBSET Facts
Entries == [state : States, doc : Docs \cup {NoDoc}]
Places  == {"idle", "read", "lock", "write", "commit", "done", "failed"}

At(v)   == IF v = 0 THEN {} ELSE rows[v].state
Latest  == At(Len(rows))
Rows(d) == {v \in DOMAIN rows : rows[v].doc = d}

\* Version v is the last one before the document came in, or none has it and v is 0.
IsBefore(v, d) ==
    IF \A u \in DOMAIN rows : d \notin rows[u].state
    THEN v = 0
    ELSE v < Len(rows) /\ d \in At(v + 1) /\ \A u \in 1 .. v : d \notin At(u)

Inserters(v) == {w \in Writers : inserted[w] = v}
Lockers(v)   == {w \in Writers : locked[w] = v}

Init ==
    /\ rows \in {<<>>} \cup {<<[state |-> {d}, doc |-> d]>> : d \in Docs}
    /\ pc = [w \in Writers |-> "idle"]
    /\ kind \in [Writers -> Kinds]
    /\ fact = [w \in Writers |-> NoDoc]
    /\ base = [w \in Writers |-> 0]
    /\ existing = [w \in Writers |-> 0]
    /\ next = [w \in Writers |-> {}]
    /\ inserted = [w \in Writers |-> 0]
    /\ locked = [w \in Writers |-> 0]
    /\ advisory = NoWriter
    /\ docLock = [d \in Docs |-> NoWriter]

Goto(w, place) == pc' = [pc EXCEPT ![w] = place]

\* The end of a transaction releases its locks.
Release(w) ==
    /\ inserted' = [inserted EXCEPT ![w] = 0]
    /\ locked' = [locked EXCEPT ![w] = 0]
    /\ advisory' = IF advisory = w THEN NoWriter ELSE advisory
    /\ docLock' = [d \in Docs |-> IF docLock[d] = w THEN NoWriter ELSE docLock[d]]

\* Mutant: a task edit names the task as its document.
EntryNamesFact(w) == [state |-> next[w], doc |-> fact[w]]

\* The row a writer writes; task edits leave triggered_by_document_id empty.
Entry(w) == [state |-> next[w], doc |-> IF kind[w] \in TaskEdits THEN NoDoc ELSE fact[w]]

-----------------------------------------------------------------------------
(* The pipeline's run.  Its first write is the log entry in the document row. *)

BeginRun(w, d) ==
    /\ pc[w] = "idle" /\ kind[w] \in Runs
    /\ (kind[w] = "pipeline") = (Rows(d) = {})
    /\ docLock[d] = NoWriter
    /\ docLock' = [docLock EXCEPT ![d] = w]
    /\ fact' = [fact EXCEPT ![w] = d]
    /\ Goto(w, "read")
    /\ UNCHANGED <<rows, kind, base, existing, next, inserted, locked, advisory>>

\* Steps 3 and 4: read under the advisory lock, merge in memory.
ReadRun(w) ==
    /\ pc[w] = "read" /\ kind[w] \in Runs
    /\ advisory = NoWriter
    /\ advisory' = w
    /\ base' = [base EXCEPT ![w] = Len(rows)]
    /\ \E v \in (IF Rows(fact[w]) = {} THEN {0} ELSE Rows(fact[w])) :
          existing' = [existing EXCEPT ![w] = v]
    /\ next' = [next EXCEPT ![w] = Latest \cup {fact[w]}]
    /\ Goto(w, "write")
    /\ UNCHANGED <<rows, kind, fact, inserted, locked, docLock>>

\* The row the run will update: its document's own version, or the version it
\* wants to insert if somebody has committed it meanwhile.
Target(w) == IF existing[w] # 0 THEN existing[w] ELSE base[w] + 1

\* Step 5, an UPDATE.
Overwrite(w) ==
    /\ pc[w] = "write" /\ kind[w] \in Runs
    /\ Target(w) <= Len(rows)
    /\ Lockers(Target(w)) = {}
    /\ locked' = [locked EXCEPT ![w] = Target(w)]
    /\ Goto(w, "commit")
    /\ UNCHANGED <<rows, local, inserted, advisory, docLock>>

\* Mutant: no unique constraint on the version.
InsertUnconstrained(w) ==
    /\ pc[w] = "write"
    /\ kind[w] \in Runs => existing[w] = 0
    /\ inserted' = [inserted EXCEPT ![w] = base[w] + 1]
    /\ Goto(w, "commit")
    /\ UNCHANGED <<rows, local, locked, advisory, docLock>>

\* INSERT of the version after the one that was read: it waits for a transaction
\* that has inserted the same version.
Insert(w) ==
    /\ pc[w] = "write"
    /\ kind[w] \in Runs => existing[w] = 0
    /\ base[w] = Len(rows)
    /\ Inserters(base[w] + 1) = {}
    /\ inserted' = [inserted EXCEPT ![w] = base[w] + 1]
    /\ Goto(w, "commit")
    /\ UNCHANGED <<rows, local, locked, advisory, docLock>>

\* Mutant: the same state is tried again under the next version number.
ConflictRetried(w) ==
    /\ pc[w] = "write" /\ kind[w] \notin Runs
    /\ base[w] < Len(rows)
    /\ base' = [base EXCEPT ![w] = Len(rows)]
    /\ UNCHANGED <<rows, pc, kind, fact, existing, next, inserted, locked, advisory, docLock>>

\* Mutant: the session is not rolled back after the IntegrityError.
ConflictKeepsLocks(w) ==
    /\ pc[w] = "write" /\ kind[w] \notin Runs
    /\ base[w] < Len(rows)
    /\ Goto(w, "failed")
    /\ UNCHANGED <<rows, local, inserted, locked, advisory, docLock>>

\* Outside the pipeline a version that exists by then is an IntegrityError.
Conflict(w) ==
    /\ pc[w] = "write" /\ kind[w] \notin Runs
    /\ base[w] < Len(rows)
    /\ Release(w)
    /\ Goto(w, "failed")
    /\ UNCHANGED <<rows, local>>

-----------------------------------------------------------------------------
(* The endpoints.                                                          *)

\* The chat tool reads the latest version; without one there is no task.
BeginTool(w, e) ==
    /\ pc[w] = "idle" /\ kind[w] = "tool"
    /\ rows # <<>>
    /\ fact' = [fact EXCEPT ![w] = e]
    /\ base' = [base EXCEPT ![w] = Len(rows)]
    /\ next' = [next EXCEPT ![w] = Latest \cup {e}]
    /\ Goto(w, "write")
    /\ UNCHANGED <<rows, kind, existing, inserted, locked, advisory, docLock>>

\* PATCH: the SELECT picks the latest row it sees and then waits for its lock.
BeginPatch(w, e) ==
    /\ pc[w] = "idle" /\ kind[w] = "patch"
    /\ rows # <<>>
    /\ fact' = [fact EXCEPT ![w] = e]
    /\ base' = [base EXCEPT ![w] = Len(rows)]
    /\ Goto(w, "lock")
    /\ UNCHANGED <<rows, kind, existing, next, inserted, locked, advisory, docLock>>

\* Mutant: a SELECT without FOR UPDATE.
LockPatchUnlocked(w) ==
    /\ pc[w] = "lock"
    /\ next' = [next EXCEPT ![w] = At(base[w]) \cup {fact[w]}]
    /\ Goto(w, "write")
    /\ UNCHANGED <<rows, kind, fact, base, existing, inserted, locked, advisory, docLock>>

\* With the lock it gets the row as it is now.
LockPatch(w) ==
    /\ pc[w] = "lock"
    /\ Lockers(base[w]) = {}
    /\ locked' = [locked EXCEPT ![w] = base[w]]
    /\ next' = [next EXCEPT ![w] = At(base[w]) \cup {fact[w]}]
    /\ Goto(w, "write")
    /\ UNCHANGED <<rows, kind, fact, base, existing, inserted, advisory, docLock>>

\* Soft delete and replace take the document out of the latest state.
BeginArchive(w, d) ==
    /\ pc[w] = "idle" /\ kind[w] = "archive"
    /\ fact' = [fact EXCEPT ![w] = d]
    /\ base' = [base EXCEPT ![w] = Len(rows)]
    /\ next' = [next EXCEPT ![w] = Latest \ {d}]
    /\ Goto(w, "write")
    /\ UNCHANGED <<rows, kind, existing, inserted, locked, advisory, docLock>>

\* git_revert goes back to the state before the document came in.
BeginRevert(w, d) ==
    /\ pc[w] = "idle" /\ kind[w] = "revert"
    /\ fact' = [fact EXCEPT ![w] = d]
    /\ base' = [base EXCEPT ![w] = Len(rows)]
    /\ \E v \in 0 .. Len(rows) : IsBefore(v, d) /\ next' = [next EXCEPT ![w] = At(v)]
    /\ Goto(w, "write")
    /\ UNCHANGED <<rows, kind, existing, inserted, locked, advisory, docLock>>

-----------------------------------------------------------------------------
\* A removal updates its document's row before it commits.  A run that fails after
\* its write commits it, too (the failure handler does not roll back).
Commit(w) ==
    /\ pc[w] = "commit"
    /\ kind[w] \in Removals => docLock[fact[w]] = NoWriter
    /\ rows' = IF inserted[w] # 0 THEN Append(rows, Entry(w))
                                  ELSE [rows EXCEPT ![locked[w]] = Entry(w)]
    /\ Release(w)
    /\ Goto(w, "done")
    /\ UNCHANGED local

\* A run can be cancelled or time out, or fail before its write: it is rolled back.
Stop(w) ==
    /\ kind[w] \in Runs /\ pc[w] \in {"read", "write", "commit"}
    /\ Release(w)
    /\ Goto(w, "failed")
    /\ UNCHANGED <<rows, local>>

\* Whom a writer's next statement waits for.
WaitsFor(w) ==
    CASE pc[w] = "read" -> {advisory} \ {NoWriter}
      [] pc[w] = "lock" -> Lockers(base[w])
      [] pc[w] = "write" /\ Target(w) <= Len(rows) /\ kind[w] \in Runs -> Lockers(Target(w))
      [] pc[w] = "write" /\ Target(w) > Len(rows) -> Inserters(Target(w))
      [] pc[w] = "commit" /\ kind[w] \in Removals -> {docLock[fact[w]]} \ {NoWriter}
      [] OTHER -> {}

Deadlocked(w) ==
    \E S \in SUBSET Writers : w \in S /\ \A x \in S : WaitsFor(x) \cap S # {}

\* PostgreSQL aborts a transaction of a cycle.
DeadlockVictim(w) ==
    /\ Deadlocked(w)
    /\ Release(w)
    /\ Goto(w, "failed")
    /\ UNCHANGED <<rows, local>>

Begin(w) == \/ \E d \in Docs : BeginRun(w, d) \/ BeginArchive(w, d) \/ BeginRevert(w, d)
            \/ \E e \in Edits : BeginTool(w, e) \/ BeginPatch(w, e)

Step(w) == \/ ReadRun(w) \/ Overwrite(w) \/ Insert(w) \/ Conflict(w) \/ LockPatch(w)
           \/ Commit(w) \/ DeadlockVictim(w)

Next == \E w \in Writers : Begin(w) \/ Step(w) \/ Stop(w)

Spec == Init /\ [][Next]_vars

\* Every request and run goes on as far as PostgreSQL lets it, and PostgreSQL
\* breaks deadlocks; nobody has to begin.
FairSpec == Spec /\ \A w \in Writers : WF_vars(Step(w))

-----------------------------------------------------------------------------
TypeOK ==
    /\ rows \in Seq(Entries)
    /\ pc \in [Writers -> Places]
    /\ kind \in [Writers -> Kinds]
    /\ fact \in [Writers -> Facts \cup {NoDoc}]
    /\ base \in [Writers -> Nat]
    /\ existing \in [Writers -> Nat]
    /\ next \in [Writers -> States]
    /\ inserted \in [Writers -> Nat]
    /\ locked \in [Writers -> Nat]
    /\ advisory \in Writers \cup {NoWriter}
    /\ docLock \in [Docs -> Writers \cup {NoWriter}]

\* models/state.py:48, README.md:119: seen through their states, the versions
\* are the append-only log of VersionLog, each derived from the one before it.
states == [v \in DOMAIN rows |-> rows[v].state]
Log == INSTANCE VersionLog WITH log <- states
RefinesLog == Log!Spec

\* None of the writers is a git_revert, which may undo anything.
OnlyForward == \A w \in Writers : kind[w] # "revert"

\* state.py:145, chat.py:640: a task edit that was acknowledged is in the
\* latest state, whoever has written since.
NoLostEdit ==
    OnlyForward =>
        \A w \in Writers : pc[w] = "done" /\ kind[w] \in TaskEdits => fact[w] \in Latest

\* documents.py:607-640: a document that was archived is not in the latest
\* state, whoever has written since (a run may put it there again).
ArchivedGone ==
    OnlyForward =>
        \A w \in Writers : pc[w] = "done" /\ kind[w] = "archive" => fact[w] \notin Latest

\* Not kept by the code: road_to_perfection.md:537, undoing a delete brings the
\* document's items back, that is, after a further run the document is in the latest state.
UndoRestores ==
    [][\A w \in Writers :
          kind[w] = "reprocess" /\ pc[w] = "commit" /\ pc'[w] = "done" => fact[w] \in Latest']_vars

\* state.py:106-113: from its SELECT FOR UPDATE to its commit, nobody changes
\* the version that a PATCH builds on, not even the pipeline.
PatchBaseStable ==
    \A w \in Writers : kind[w] = "patch" /\ pc[w] \in {"write", "commit"} =>
        next[w] = At(base[w]) \cup {fact[w]}

\* pipeline.py:704, documents.py:607: whatever the writers wait for, every one
\* of them comes to an end.
WritersEnd ==
    \A w \in Writers : pc[w] # "idle" ~> pc[w] \in {"done", "failed"}

=============================================================================
