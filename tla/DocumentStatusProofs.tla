------------------------ MODULE DocumentStatusProofs ------------------------
(***************************************************************************)
(* What DocumentPipeline promises of a document's status and of the        *)
(* project lease, for every set of documents, jobs and clients and for     *)
(* every bound.                                                            *)
(***************************************************************************)
EXTENDS DocumentPipelineProofs

-----------------------------------------------------------------------------
(* The project lease.                                                      *)

\* pipeline.py:200-206: _RELEASE_LUA lets no run but the owner end a lease,
\* however many leases have lapsed before.
THEOREM OwnerReleases == Spec => LeaseOnlyByOwner
<1>1. ASSUME [Next]_vars, OwnerLive, lease' # lease
      PROVE  pc[lease.job] = "unwind" \/ LeaseExpires \/ Shutdown
  <2>1. CASE \E j \in Jobs : Acquire(j)
    BY <1>1, <2>1 DEF Acquire, OwnerLive
  <2>2. CASE \E j \in Jobs : Unwind(j)
    BY <1>1, <2>2 DEF Unwind, ReleaseLease, Owner
  <2>3. CASE LeaseExpires \/ Shutdown
    BY <2>3
  <2>4. CASE ~ \/ \E j \in Jobs : Acquire(j) \/ Unwind(j)
             \/ LeaseExpires \/ Shutdown
    <3> USE DEF rowVars, stateVars, redisVars, jobVars, clientVars
    <3>1. ASSUME NEW j \in Jobs, \/ Deliver(j) \/ GiveUp(j) \/ Requeue(j) \/ LoseJob(j) \/ Load(j)
                                \/ Start(j) \/ Parse(j) \/ (\E a \in Attachments : Attach(j, a))
          PROVE  UNCHANGED lease
      BY <3>1 DEF Deliver, GiveUp, Requeue, LoseJob, Load, Start, Parse, Attach
    <3>2. ASSUME NEW j \in Jobs, \/ LoadState(j) \/ Merge(j) \/ Persist(j) \/ Changelog(j)
                                \/ GitCommit(j) \/ Enrich(j) \/ Finish(j)
          PROVE  UNCHANGED lease
      BY <3>2 DEF LoadState, Merge, Persist, Changelog, GitCommit, Enrich, Finish
    <3>3. ASSUME NEW j \in Jobs, \/ ObserveCancel(j) \/ MarkCancelled(j) \/ Fail(j) \/ DbError(j) \/ Timeout(j)
          PROVE  UNCHANGED lease
      BY <3>3 DEF ObserveCancel, MarkCancelled, Fail, DbError, Timeout
    <3>4. ASSUME Crash \/ (\E k \in Jobs : CancelKeyExpires(k)) PROVE UNCHANGED lease
      BY <3>4 DEF Crash, CancelKeyExpires
    <3>5. ASSUME NEW c \in Clients, Endpoint(c) PROVE UNCHANGED lease
      BY <3>5 DEF Endpoint, CommitCancel, CommitRerun, SendJob, SendFails
    <3>6. ASSUME NEW c \in Clients, User(c) PROVE UNCHANGED lease
      BY <3>6 DEF User, Upload, AskCancel, AskRetry, AskReprocess, AskRestore
    <3>7. ASSUME UNCHANGED vars PROVE UNCHANGED lease
      BY <3>7 DEF vars
    <3> QED
      BY <1>1, <2>4, <3>1, <3>2, <3>3, <3>4, <3>5, <3>6, <3>7 DEF Next, Queue, Run, Break, Environment
  <2> QED
    BY <2>1, <2>2, <2>3, <2>4
<1>2. [Next]_vars => [OwnerLive /\ lease' # lease => \/ pc[lease.job] = "unwind"
                                                   \/ LeaseExpires \/ Shutdown]_vars
  BY <1>1
<1> QED
  BY <1>2, PTL DEF Spec, LeaseOnlyByOwner

-----------------------------------------------------------------------------
(* A finished document has its version, its changelog entry and its commit *)
(* in the repository.                                                      *)

Finished == {"done", "completed_partial"}

\* After step 7 the repository has the version the run has staged.
Committed == \A j \in Jobs : pc[j] \in {"enrich", "finish"} =>
    [doc |-> jobDoc[j], version |-> tx[j].version] \in git

\* Versions keep their documents, and entries stay.
Grows == /\ changelog \subseteq changelog'
         /\ \A v \in DOMAIN rows : v \in DOMAIN rows' /\ rows'[v] = rows[v]

\* The commit of a run loses nothing, and adds the version it has staged.
LEMMA CommitGrows ==
  ASSUME VersionInv, NEW j \in Jobs, Finish(j) \/ Fail(j)
  PROVE  /\ Grows
         /\ pc[j] = "finish" => /\ tx[j].version \in DOMAIN rows' /\ rows'[tx[j].version] = jobDoc[j]
                               /\ [doc |-> jobDoc[j], version |-> tx[j].version] \in changelog'
<1> USE ConstantsAssumption
<1>1. /\ tx[j] \in Txs /\ rows \in Seq(Docs) /\ jobDoc[j] \in Docs
      /\ pc[j] \in {"finish", "git", "merge", "parse"} /\ CommitState(j)
  BY DEF Finish, Fail, CanRaise, VersionInv, TypeOK, JobsNamed
<1>2. Consistent(j)
  BY ConsistentRuns DEF VersionInv
<1>3. changelog \subseteq changelog'
  BY <1>1 DEF CommitState
<1>4. CASE tx[j].version = 0
  <2>1. rows' = rows
    BY <1>1, <1>4 DEF CommitState
  <2>2. pc[j] # "finish"
    <3> SUFFICES ASSUME pc[j] = "finish" PROVE FALSE
      OBVIOUS
    <3>1. /\ tx[j].existing \in Nat /\ tx[j].base \in Nat
          /\ tx[j].version = IF tx[j].existing # 0 THEN tx[j].existing ELSE tx[j].base + 1
      BY <1>1, <1>2 DEF Consistent, Txs
    <3> QED
      BY <1>4, <3>1
  <2> QED
    BY <1>3, <2>1, <2>2 DEF Grows
<1>5. CASE tx[j].version # 0
  <2>1. /\ pc[j] \in {"git", "finish"} /\ tx[j].logged /\ tx[j].base = Len(rows)
        /\ tx[j].existing # 0 => tx[j].existing \in Rows(jobDoc[j])
        /\ tx[j].version = IF tx[j].existing # 0 THEN tx[j].existing ELSE tx[j].base + 1
    BY <1>1, <1>2, <1>5 DEF Consistent, Advised
  <2>2. [doc |-> jobDoc[j], version |-> tx[j].version] \in changelog'
    BY <1>1, <2>1 DEF CommitState
  <2>3. CASE tx[j].existing # 0
    <3>1. tx[j].version \in DOMAIN rows /\ rows[tx[j].version] = jobDoc[j]
      BY <2>1, <2>3 DEF Rows
    <3>2. tx[j].version <= Len(rows)
      BY <1>1, <3>1
    <3>3. rows' = [rows EXCEPT ![tx[j].version] = jobDoc[j]]
      BY <1>1, <1>5, <3>2 DEF CommitState
    <3>4. rows' = rows
      BY <1>1, <3>1, <3>3
    <3> QED
      BY <1>3, <2>2, <3>1, <3>4 DEF Grows
  <2>4. CASE tx[j].existing = 0
    <3>1. tx[j].version = Len(rows) + 1
      BY <2>1, <2>4
    <3>2. rows' = Append(rows, jobDoc[j])
      BY <1>1, <1>5, <3>1 DEF CommitState
    <3>3. /\ DOMAIN rows' = DOMAIN rows \cup {Len(rows) + 1}
          /\ rows'[Len(rows) + 1] = jobDoc[j]
          /\ \A v \in DOMAIN rows : rows'[v] = rows[v]
      BY <1>1, <3>2
    <3> QED
      BY <1>3, <2>2, <3>1, <3>3 DEF Grows
  <2> QED
    BY <2>3, <2>4
<1> QED
  BY <1>4, <1>5

\* Every step keeps the versions and the changelog entries there are.
LEMMA NextGrows ==
  ASSUME VersionInv, [Next]_vars
  PROVE  Grows
<1>1. Typed /\ \A j \in Jobs : Consistent(j)
  BY ConsistentRuns DEF VersionInv, Typed
<1>2. CASE \E j \in Jobs : Finish(j) \/ Fail(j)
  BY <1>2, CommitGrows
<1>3. CASE \E j \in Jobs : \/ LoadState(j) \/ Merge(j) \/ Persist(j) \/ Changelog(j)
                           \/ GitCommit(j) \/ Enrich(j)
  BY <1>1, <1>3, OwnActions DEF Grows
<1>4. CASE ~ \E j \in Jobs : \/ LoadState(j) \/ Merge(j) \/ Persist(j) \/ Changelog(j)
                             \/ GitCommit(j) \/ Enrich(j) \/ Finish(j) \/ Fail(j)
  <2>1. \/ \E j \in Jobs : \/ Queue(j) \/ LoseJob(j) \/ Load(j) \/ Start(j) \/ Parse(j)
                           \/ (\E a \in Attachments : Attach(j, a))
                           \/ ObserveCancel(j) \/ MarkCancelled(j) \/ Unwind(j)
                           \/ DbError(j) \/ Timeout(j)
        \/ Environment
        \/ \E c \in Clients : Endpoint(c) \/ User(c)
        \/ UNCHANGED vars
    BY <1>4 DEF Next, Run, Break
  <2> QED
    BY <1>1, <2>1, QuietActions DEF Grows
<1> QED
  BY <1>2, <1>3, <1>4

\* A step that finishes no document and takes no run past step 7.
LEMMA DurableKept ==
  ASSUME FinishedIsDurable, Committed, Grows, git \subseteq git',
         \A i \in Jobs : pc'[i] \in {"enrich", "finish"} =>
            pc[i] \in {"enrich", "finish"} /\ jobDoc'[i] = jobDoc[i] /\ tx'[i].version = tx[i].version,
         \A d \in Docs : status'[d] \in Finished => status[d] \in Finished
  PROVE  FinishedIsDurable' /\ Committed'
<1>1. Committed'
  BY DEF Committed
<1>2. FinishedIsDurable'
  <2> SUFFICES ASSUME NEW d \in Docs, status'[d] \in Finished
               PROVE  \E v \in Rows(d)' : [doc |-> d, version |-> v] \in changelog' \cap git'
    BY DEF FinishedIsDurable, Finished
  <2>1. PICK v \in Rows(d) : [doc |-> d, version |-> v] \in changelog \cap git
    BY DEF FinishedIsDurable, Finished
  <2>2. v \in Rows(d)'
    BY <2>1 DEF Grows, Rows
  <2> QED
    BY <2>1, <2>2 DEF Grows
<1> QED
  BY <1>1, <1>2


LEMMA DurableNext ==
  ASSUME VersionInv, FinishedIsDurable, Committed, [Next]_vars
  PROVE  FinishedIsDurable' /\ Committed'
<1> USE ConstantsAssumption DEF rowVars, stateVars, redisVars, jobVars, clientVars
<1> DEFINE Kept == /\ git \subseteq git'
                   /\ \A i \in Jobs : pc'[i] \in {"enrich", "finish"} =>
                         pc[i] \in {"enrich", "finish"} /\ jobDoc'[i] = jobDoc[i] /\ tx'[i].version = tx[i].version
                   /\ \A d \in Docs : status'[d] \in Finished => status[d] \in Finished
<1>0. Typed /\ TypeOK /\ Grows
  BY NextGrows DEF VersionInv, Typed
<1>1. ASSUME NEW j \in Jobs, Deliver(j) PROVE Kept
  BY <1>1, <1>0 DEF Deliver, Goto, TypeOK, Finished
<1>2. ASSUME NEW j \in Jobs, GiveUp(j) PROVE Kept
  BY <1>2, <1>0 DEF GiveUp, Forget, TypeOK, Finished
<1>3. ASSUME NEW j \in Jobs, LoseJob(j) PROVE Kept
  BY <1>3, <1>0 DEF LoseJob, Forget, TypeOK, Finished
<1>4. ASSUME NEW j \in Jobs, Acquire(j) PROVE Kept
  BY <1>4, <1>0 DEF Acquire, Goto, TypeOK, Finished
<1>5. ASSUME NEW j \in Jobs, Load(j) PROVE Kept
  BY <1>5, <1>0 DEF Load, Goto, TypeOK, Finished
<1>6. ASSUME NEW j \in Jobs, Start(j) PROVE Kept
  BY <1>6, <1>0 DEF Start, Goto, Assigned, TypeOK, Finished
<1>7. ASSUME NEW j \in Jobs, Parse(j) PROVE Kept
  BY <1>7, <1>0 DEF Parse, Goto, TypeOK, Finished
<1>8. ASSUME NEW j \in Jobs, LoadState(j) PROVE Kept
  BY <1>8, <1>0 DEF LoadState, Goto, TypeOK, Finished
<1>9. ASSUME NEW j \in Jobs, Merge(j) PROVE Kept
  BY <1>9, <1>0 DEF Merge, Goto, TypeOK, Finished
<1>10. ASSUME NEW j \in Jobs, Persist(j) PROVE Kept
  BY <1>10, <1>0 DEF Persist, Goto, TypeOK, Finished
<1>11. ASSUME NEW j \in Jobs, Changelog(j) PROVE Kept
  BY <1>11, <1>0 DEF Changelog, Goto, TypeOK, Finished
<1>12. ASSUME NEW j \in Jobs, Enrich(j) PROVE Kept
  <2>1. tx'[j].version = tx[j].version
    BY <1>12, <1>0 DEF Enrich, TypeOK, Txs
  <2> QED
    BY <1>12, <1>0, <2>1 DEF Enrich, Goto, TypeOK
<1>13. ASSUME NEW j \in Jobs, Fail(j) PROVE Kept
  BY <1>13, <1>0 DEF Fail, Goto, CommitState, EndTransaction, TypeOK, Finished
<1>14. ASSUME NEW j \in Jobs, ObserveCancel(j) PROVE Kept
  BY <1>14, <1>0 DEF ObserveCancel, Goto, Rollback, EndTransaction, TypeOK, Finished
<1>15. ASSUME NEW j \in Jobs, MarkCancelled(j) PROVE Kept
  BY <1>15, <1>0 DEF MarkCancelled, Goto, TypeOK, Finished
<1>16. ASSUME NEW j \in Jobs, DbError(j) PROVE Kept
  BY <1>16, <1>0 DEF DbError, Goto, Rollback, EndTransaction, TypeOK, Finished
<1>17. ASSUME NEW j \in Jobs, Timeout(j) PROVE Kept
  BY <1>17, <1>0 DEF Timeout, Goto, Rollback, EndTransaction, TypeOK, Finished
<1>18. ASSUME NEW j \in Jobs, Unwind(j) PROVE Kept
  BY <1>18, <1>0 DEF Unwind, Forget, TypeOK, Finished
<1>19. ASSUME NEW j \in Jobs, Requeue(j) PROVE Kept
  <2>1. \A i \in Jobs : pc'[i] \in {"enrich", "finish"} => pc'[i] = pc[i] /\ jobDoc'[i] = jobDoc[i]
    BY <1>19, <1>0 DEF Requeue, FreshJobs, TypeOK
  <2> QED
    BY <1>19, <2>1 DEF Requeue
<1>20. ASSUME NEW j \in Jobs, NEW a \in Attachments, Attach(j, a) PROVE Kept
  <2>1. \A i \in Jobs : pc'[i] \in {"enrich", "finish"} => pc'[i] = pc[i] /\ jobDoc'[i] = jobDoc[i]
    BY <1>20, <1>0 DEF Attach, Enqueue, FreshJobs, TypeOK
  <2> QED
    BY <1>20, <1>0, <2>1 DEF Attach, TypeOK, Finished
<1>21. ASSUME NEW c \in Clients, SendJob(c) PROVE Kept
  <2>1. \A i \in Jobs : pc'[i] \in {"enrich", "finish"} => pc'[i] = pc[i] /\ jobDoc'[i] = jobDoc[i]
    <3>1. PICK k \in (IF req[c].job # NoJob THEN {req[c].job} ELSE FreshJobs) : Enqueue(k, req[c].doc)
      BY <1>21 DEF SendJob
    <3>2. k \in Jobs
      BY <1>0, <3>1 DEF FreshJobs, TypeOK, Requests
    <3> QED
      BY <1>0, <3>1, <3>2 DEF Enqueue, TypeOK
  <2> QED
    BY <1>21, <2>1 DEF SendJob
<1>22. ASSUME Shutdown \/ Crash PROVE Kept
  BY <1>22 DEF Shutdown, Crash, StopRuns, Delivered, Section, Processing, InTransaction
<1>23. ASSUME LeaseExpires PROVE Kept
  BY <1>23 DEF LeaseExpires
<1>24. ASSUME NEW k \in Jobs, CancelKeyExpires(k) PROVE Kept
  BY <1>24 DEF CancelKeyExpires
<1>25. ASSUME NEW c \in Clients, CommitCancel(c) PROVE Kept
  BY <1>25, <1>0 DEF CommitCancel, Assigned, TypeOK, Finished
<1>26. ASSUME NEW c \in Clients, CommitRerun(c) PROVE Kept
  BY <1>26, <1>0 DEF CommitRerun, Assigned, TypeOK, Finished
<1>27. ASSUME NEW c \in Clients, SendFails(c) PROVE Kept
  BY <1>27 DEF SendFails
<1>28. ASSUME NEW c \in Clients, NEW d \in Docs, Upload(c, d) PROVE Kept
  BY <1>28, <1>0 DEF Upload, TypeOK, Finished
<1>29. ASSUME NEW c \in Clients, NEW d \in Docs, AskCancel(c, d) PROVE Kept
  BY <1>29 DEF AskCancel
<1>30. ASSUME NEW c \in Clients, NEW d \in Docs, AskRetry(c, d) PROVE Kept
  BY <1>30 DEF AskRetry
<1>31. ASSUME NEW c \in Clients, NEW d \in Docs, AskReprocess(c, d) PROVE Kept
  BY <1>31 DEF AskReprocess
<1>32. ASSUME NEW c \in Clients, NEW d \in Docs, AskRestore(c, d) PROVE Kept
  BY <1>32 DEF AskRestore
<1>33. ASSUME UNCHANGED vars PROVE Kept
  BY <1>33 DEF vars
<1>34. ASSUME NEW j \in Jobs, GitCommit(j) PROVE FinishedIsDurable' /\ Committed'
  <2>1. /\ pc[j] = "git" /\ git' = git \cup {[doc |-> jobDoc[j], version |-> tx[j].version]}
        /\ UNCHANGED <<jobDoc, tx, rows, changelog, status>> /\ \A i \in Jobs \ {j} : pc'[i] = pc[i]
    BY <1>34, <1>0 DEF GitCommit, Goto, TypeOK
  <2> QED
    BY <2>1 DEF Committed, FinishedIsDurable, Rows
<1>35. ASSUME NEW j \in Jobs, Finish(j) PROVE FinishedIsDurable' /\ Committed'
  <2>1. /\ pc[j] = "finish" /\ CommitState(j) /\ UNCHANGED <<git, jobDoc>> /\ jobDoc[j] \in Docs
        /\ pc'[j] = "unwind" /\ \A i \in Jobs \ {j} : pc'[i] = pc[i]
        /\ \A d \in Docs \ {jobDoc[j]} : status'[d] = status[d]
    BY <1>35, <1>0 DEF Finish, Goto, Typed, TypeOK, JobsNamed
  <2>2. Committed'
    <3>1. \A i \in Jobs \ {j} : tx'[i] = tx[i]
      BY <1>0, <2>1 DEF CommitState, EndTransaction, TypeOK
    <3> QED
      BY <2>1, <3>1 DEF Committed
  <2>3. ASSUME NEW d \in Docs, status'[d] \in Finished
        PROVE  \E v \in Rows(d)' : [doc |-> d, version |-> v] \in changelog' \cap git'
    <3>1. CASE d = jobDoc[j]
      <4>1. tx[j].version \in Rows(d)'
        BY <1>35, <2>1, <3>1, CommitGrows DEF Rows
      <4>2. [doc |-> d, version |-> tx[j].version] \in changelog' \cap git'
        BY <1>35, <2>1, <3>1, CommitGrows DEF Committed
      <4> QED
        BY <4>1, <4>2
    <3>2. CASE d # jobDoc[j]
      <4>1. PICK v \in Rows(d) : [doc |-> d, version |-> v] \in changelog \cap git
        BY <2>1, <2>3, <3>2 DEF FinishedIsDurable, Finished
      <4>2. v \in Rows(d)'
        BY <1>0, <4>1 DEF Grows, Rows
      <4> QED
        BY <1>0, <2>1, <4>1, <4>2 DEF Grows
    <3> QED
      BY <3>1, <3>2
  <2> QED
    BY <2>2, <2>3 DEF FinishedIsDurable, Finished
<1> HIDE DEF rowVars, stateVars, redisVars, jobVars, clientVars
<1>36. CASE Kept
  BY <1>0, <1>36, DurableKept
<1> QED
  BY <1>1, <1>2, <1>3, <1>4, <1>5, <1>6, <1>7, <1>8, <1>9, <1>10, <1>11, <1>12, <1>13, <1>14,
     <1>15, <1>16, <1>17, <1>18, <1>19, <1>20, <1>21, <1>22, <1>23, <1>24, <1>25, <1>26, <1>27,
     <1>28, <1>29, <1>30, <1>31, <1>32, <1>33, <1>34, <1>35, <1>36 DEF Next, Queue, Run,
     Break, Environment, Endpoint, User

\* models/document.py:18, 21-22: whatever fails, crashes and lapses, a document that
\* shows as finished has its version, the changelog entry and the git commit of it.
THEOREM FinishedDurable == Spec => []FinishedIsDurable
<1>1. Init => FinishedIsDurable /\ Committed
  BY DEF Init, FinishedIsDurable, Committed
<1>2. VersionInv /\ FinishedIsDurable /\ Committed /\ [Next]_vars => FinishedIsDurable' /\ Committed'
  BY DurableNext
<1> QED
  BY <1>1, <1>2, VersionAlways, PTL DEF Spec

-----------------------------------------------------------------------------
(* As long as nothing is lost, a document that is waited for is carried by *)
(* a job that has not reached its end, or by a request about to queue one. *)

Open == {"pending", "processing"}

Waiting(d) == \/ \E j \in Jobs : jobDoc[j] = d /\ pc[j] \notin {"free", "unwind"}
              \/ \E c \in Clients : req[c].op = "enqueue" /\ req[c].doc = d

NoneLost == /\ \A d \in Docs : status[d] \in Open => Waiting(d)
            /\ \A j \in Jobs : pc[j] \in {"free", "queued"} => tries[j] = 0

\* A step that hands on what it takes.
LEMMA NoneLostKept ==
  ASSUME NoneLost,
         \A i \in Jobs : pc'[i] \in {"free", "queued"} => tries'[i] = 0,
         \A d \in Docs, i \in Jobs : jobDoc[i] = d /\ pc[i] \notin {"free", "unwind"} =>
            \/ jobDoc'[i] = d /\ pc'[i] \notin {"free", "unwind"}
            \/ Waiting(d)' \/ status'[d] \notin Open,
         \A d \in Docs, c \in Clients : req[c].op = "enqueue" /\ req[c].doc = d =>
            (req'[c].op = "enqueue" /\ req'[c].doc = d) \/ Waiting(d)',
         \A d \in Docs : status'[d] \in Open => status[d] \in Open \/ Waiting(d)'
  PROVE  NoneLost'
<1> SUFFICES ASSUME NEW d \in Docs, status'[d] \in Open, status[d] \in Open PROVE Waiting(d)'
  BY DEF NoneLost
<1>1. CASE \E i \in Jobs : jobDoc[i] = d /\ pc[i] \notin {"free", "unwind"}
  BY <1>1 DEF Waiting
<1>2. CASE \E c \in Clients : req[c].op = "enqueue" /\ req[c].doc = d
  BY <1>2 DEF Waiting
<1> QED
  BY <1>1, <1>2 DEF NoneLost, Waiting

LEMMA NoneLostNext ==
  ASSUME MaxTries # 0, Faults \subseteq {"step_error", "lapse"}, Typed, NoneLost, [Next]_vars
  PROVE  NoneLost'
<1> USE ConstantsAssumption DEF rowVars, stateVars, redisVars, jobVars, clientVars
<1> DEFINE Kept == /\ \A i \in Jobs : pc'[i] \in {"free", "queued"} => tries'[i] = 0
                   /\ \A d \in Docs, i \in Jobs : jobDoc[i] = d /\ pc[i] \notin {"free", "unwind"} =>
                         \/ jobDoc'[i] = d /\ pc'[i] \notin {"free", "unwind"}
                         \/ Waiting(d)' \/ status'[d] \notin Open
                   /\ \A d \in Docs, c \in Clients : req[c].op = "enqueue" /\ req[c].doc = d =>
                         (req'[c].op = "enqueue" /\ req'[c].doc = d) \/ Waiting(d)'
                   /\ \A d \in Docs : status'[d] \in Open => status[d] \in Open \/ Waiting(d)'
<1>0. /\ TypeOK /\ JobsNamed
      /\ \A i \in Jobs : pc[i] \in {"free", "queued"} => tries[i] = 0
  BY DEF Typed, NoneLost
<1>1. ASSUME NEW j \in Jobs, Deliver(j) PROVE Kept
  BY <1>1, <1>0 DEF Deliver, Goto, TypeOK
<1>2. ASSUME NEW j \in Jobs, Acquire(j) PROVE Kept
  BY <1>2, <1>0 DEF Acquire, Goto, TypeOK
<1>3. ASSUME NEW j \in Jobs, Load(j) PROVE Kept
  BY <1>3, <1>0 DEF Load, Goto, TypeOK
<1>4. ASSUME NEW j \in Jobs, Parse(j) PROVE Kept
  BY <1>4, <1>0 DEF Parse, Goto, TypeOK
<1>5. ASSUME NEW j \in Jobs, LoadState(j) PROVE Kept
  BY <1>5, <1>0 DEF LoadState, Goto, TypeOK
<1>6. ASSUME NEW j \in Jobs, Merge(j) PROVE Kept
  BY <1>6, <1>0 DEF Merge, Goto, TypeOK
<1>7. ASSUME NEW j \in Jobs, Persist(j) PROVE Kept
  BY <1>7, <1>0 DEF Persist, Goto, TypeOK
<1>8. ASSUME NEW j \in Jobs, Changelog(j) PROVE Kept
  BY <1>8, <1>0 DEF Changelog, Goto, TypeOK
<1>9. ASSUME NEW j \in Jobs, GitCommit(j) PROVE Kept
  BY <1>9, <1>0 DEF GitCommit, Goto, TypeOK
<1>10. ASSUME NEW j \in Jobs, Enrich(j) PROVE Kept
  BY <1>10, <1>0 DEF Enrich, Goto, TypeOK
<1>11. ASSUME NEW j \in Jobs, ObserveCancel(j) PROVE Kept
  BY <1>11, <1>0 DEF ObserveCancel, Goto, TypeOK, Checkpoints
<1>12. ASSUME NEW j \in Jobs, Finish(j) PROVE Kept
  <2>1. /\ jobDoc[j] \in Docs /\ pc'[j] = "unwind" /\ UNCHANGED <<jobDoc, tries, req>>
        /\ status'[jobDoc[j]] \notin Open
        /\ \A i \in Jobs \ {j} : pc'[i] = pc[i]
        /\ \A d \in Docs \ {jobDoc[j]} : status'[d] = status[d]
    BY <1>12, <1>0 DEF Finish, Goto, JobsNamed, TypeOK, Open
  <2> QED
    BY <1>0, <2>1
<1>13. ASSUME NEW j \in Jobs, Fail(j) PROVE Kept
  <2>1. /\ jobDoc[j] \in Docs /\ pc'[j] = "unwind" /\ UNCHANGED <<jobDoc, tries, req>>
        /\ status'[jobDoc[j]] \notin Open
        /\ \A i \in Jobs \ {j} : pc'[i] = pc[i]
        /\ \A d \in Docs \ {jobDoc[j]} : status'[d] = status[d]
    BY <1>13, <1>0 DEF Fail, Goto, JobsNamed, TypeOK, Open, CanRaise
  <2> QED
    BY <1>0, <2>1
<1>14. ASSUME NEW j \in Jobs, MarkCancelled(j) PROVE Kept
  <2>1. /\ jobDoc[j] \in Docs /\ pc'[j] = "unwind" /\ UNCHANGED <<jobDoc, tries, req>>
        /\ status'[jobDoc[j]] \notin Open
        /\ \A i \in Jobs \ {j} : pc'[i] = pc[i]
        /\ \A d \in Docs \ {jobDoc[j]} : status'[d] = status[d]
    BY <1>14, <1>0 DEF MarkCancelled, Goto, JobsNamed, TypeOK, Open
  <2> QED
    BY <1>0, <2>1
<1>15. ASSUME NEW j \in Jobs, Start(j) PROVE Kept
  <2>1. /\ jobDoc[j] \in Docs /\ pc'[j] = "parse" /\ UNCHANGED <<jobDoc, tries, req>>
        /\ \A i \in Jobs \ {j} : pc'[i] = pc[i]
        /\ \A d \in Docs \ {jobDoc[j]} : status'[d] = status[d]
    BY <1>15, <1>0 DEF Start, Goto, JobsNamed, TypeOK
  <2>2. \A d \in Docs : d = jobDoc[j] => Waiting(d)'
    BY <2>1 DEF Waiting
  <2> QED
    BY <1>0, <2>1, <2>2
<1>16. ASSUME NEW j \in Jobs, Unwind(j) PROVE Kept
  BY <1>16, <1>0 DEF Unwind, Forget, TypeOK
<1>17. ASSUME NEW j \in Jobs, Requeue(j) PROVE Kept
  <2>1. PICK k \in FreshJobs \cup (IF Unreferenced(j) THEN {j} ELSE {}) :
          /\ pc' = [pc EXCEPT ![j] = "free", ![k] = "queued"]
          /\ jobDoc' = [jobDoc EXCEPT ![j] = NoDoc, ![k] = jobDoc[j]]
          /\ tries' = [tries EXCEPT ![j] = 0]
    BY <1>17 DEF Requeue
  <2>2. k \in Jobs /\ (k = j \/ pc[k] = "free") /\ UNCHANGED <<status, req>>
    BY <1>17, <2>1 DEF FreshJobs, Requeue
  <2>3. /\ pc'[k] = "queued" /\ jobDoc'[k] = jobDoc[j] /\ tries'[j] = 0 /\ tries'[k] = 0
        /\ \A i \in Jobs : i # j /\ i # k => pc'[i] = pc[i] /\ jobDoc'[i] = jobDoc[i] /\ tries'[i] = tries[i]
    BY <1>0, <2>1, <2>2 DEF TypeOK
  <2>4. \A d \in Docs : jobDoc[j] = d => Waiting(d)'
    BY <2>2, <2>3 DEF Waiting
  <2> QED
    BY <1>0, <2>2, <2>3, <2>4
<1>18. ASSUME NEW j \in Jobs, NEW a \in Attachments, Attach(j, a) PROVE Kept
  <2>1. PICK k \in FreshJobs : Enqueue(k, a)
    BY <1>18 DEF Attach
  <2>2. /\ k \in Jobs /\ pc[k] = "free" /\ a \in Docs /\ UNCHANGED <<tries, req>>
        /\ \A d \in Docs \ {a} : status'[d] = status[d]
    BY <1>18, <1>0, <2>1 DEF FreshJobs, Attach, TypeOK
  <2>3. /\ pc'[k] = "queued" /\ jobDoc'[k] = a
        /\ \A i \in Jobs \ {k} : pc'[i] = pc[i] /\ jobDoc'[i] = jobDoc[i]
    BY <1>0, <2>1, <2>2 DEF Enqueue, TypeOK
  <2>4. \A d \in Docs : d = a => Waiting(d)'
    BY <2>2, <2>3 DEF Waiting
  <2> QED
    BY <1>0, <2>2, <2>3, <2>4
<1>19. ASSUME NEW c \in Clients, SendJob(c) PROVE Kept
  <2>1. PICK k \in (IF req[c].job # NoJob THEN {req[c].job} ELSE FreshJobs) : Enqueue(k, req[c].doc)
    BY <1>19 DEF SendJob
  <2>2. /\ k \in Jobs /\ pc[k] = "free" /\ UNCHANGED <<tries, status>>
        /\ \A b \in Clients \ {c} : req'[b] = req[b]
    BY <1>19, <1>0, <2>1 DEF FreshJobs, SendJob, JobsNamed, TypeOK, Requests
  <2>3. /\ pc'[k] = "queued" /\ jobDoc'[k] = req[c].doc
        /\ \A i \in Jobs \ {k} : pc'[i] = pc[i] /\ jobDoc'[i] = jobDoc[i]
    BY <1>0, <2>1, <2>2 DEF Enqueue, TypeOK
  <2>4. \A d \in Docs : d = req[c].doc => Waiting(d)'
    BY <2>2, <2>3 DEF Waiting
  <2> QED
    BY <1>0, <2>2, <2>3, <2>4
<1>20. ASSUME NEW c \in Clients, NEW d \in Docs, Upload(c, d) PROVE Kept
  <2>1. /\ req[c].op = "idle" /\ req'[c].op = "enqueue" /\ req'[c].doc = d
        /\ \A b \in Clients \ {c} : req'[b] = req[b]
        /\ UNCHANGED <<pc, jobDoc, tries>> /\ \A e \in Docs \ {d} : status'[e] = status[e]
    BY <1>20, <1>0 DEF Upload, Idle, TypeOK
  <2>2. Waiting(d)'
    BY <2>1 DEF Waiting
  <2> QED
    BY <1>0, <2>1, <2>2
<1>21. ASSUME NEW c \in Clients, CommitRerun(c) PROVE Kept
  <2>1. /\ req[c].op # "enqueue" /\ req'[c].op = "enqueue" /\ req'[c].doc = req[c].doc
        /\ \A b \in Clients \ {c} : req'[b] = req[b]
        /\ UNCHANGED <<pc, jobDoc, tries>> /\ \A d \in Docs : d # req[c].doc => status'[d] = status[d]
    BY <1>21, <1>0 DEF CommitRerun, TypeOK, Requests
  <2>2. \A d \in Docs : d = req[c].doc => Waiting(d)'
    BY <2>1 DEF Waiting
  <2> QED
    BY <1>0, <2>1, <2>2
<1>22. ASSUME NEW c \in Clients, CommitCancel(c) PROVE Kept
  BY <1>22, <1>0 DEF CommitCancel, Assigned, TypeOK, Open
<1>23. ASSUME NEW c \in Clients, NEW d \in Docs, AskCancel(c, d) PROVE Kept
  BY <1>23, <1>0 DEF AskCancel, Ask, Idle, TypeOK
<1>24. ASSUME NEW c \in Clients, NEW d \in Docs, AskRetry(c, d) PROVE Kept
  BY <1>24, <1>0 DEF AskRetry, Ask, Idle, TypeOK
<1>25. ASSUME NEW c \in Clients, NEW d \in Docs, AskReprocess(c, d) PROVE Kept
  BY <1>25, <1>0 DEF AskReprocess, Ask, Idle, TypeOK
<1>26. ASSUME NEW c \in Clients, NEW d \in Docs, AskRestore(c, d) PROVE Kept
  BY <1>26, <1>0 DEF AskRestore, Ask, Idle, TypeOK
<1>27. ASSUME LeaseExpires PROVE Kept
  BY <1>27, <1>0 DEF LeaseExpires
<1>28. ASSUME NEW k \in Jobs, CancelKeyExpires(k) PROVE Kept
  BY <1>28, <1>0 DEF CancelKeyExpires
<1>29. ASSUME UNCHANGED vars PROVE Kept
  BY <1>29, <1>0 DEF vars
<1>30. ASSUME NEW j \in Jobs, GiveUp(j) \/ LoseJob(j) \/ DbError(j) \/ Timeout(j) PROVE Kept
  BY <1>30, <1>0 DEF LoseJob, DbError, Timeout, GiveUp
<1>31. ASSUME Shutdown \/ Crash PROVE Kept
  BY <1>31 DEF Shutdown, Crash
<1>32. ASSUME NEW c \in Clients, SendFails(c) PROVE Kept
  BY <1>32 DEF SendFails
<1> HIDE DEF rowVars, stateVars, redisVars, jobVars, clientVars, Kept
<1>33. Kept
  BY <1>1, <1>2, <1>3, <1>4, <1>5, <1>6, <1>7, <1>8, <1>9, <1>10, <1>11, <1>12, <1>13, <1>14,
     <1>15, <1>16, <1>17, <1>18, <1>19, <1>20, <1>21, <1>22, <1>23, <1>24, <1>25, <1>26, <1>27,
     <1>28, <1>29, <1>30, <1>31, <1>32 DEF Next, Queue, Run,
     Break, Environment, Endpoint, User
<1> QED
  BY <1>33, NoneLostKept DEF Kept

\* models/document.py:16-17: whichever steps fail and leases lapse, a document that shows
\* as pending or processing has a job, or a request about to queue one.
THEOREM NothingOrphaned ==
  ASSUME MaxTries # 0, Faults \subseteq {"step_error", "lapse"}
  PROVE  Spec => []NoOrphans
<1>1. Init => NoneLost
  BY DEF Init, NoneLost, Open
<1>2. Typed /\ NoneLost /\ [Next]_vars => NoneLost'
  BY NoneLostNext
<1>3. NoneLost => NoOrphans
  BY DEF NoneLost, NoOrphans, Open, Waiting, Carried
<1> QED
  BY <1>1, <1>2, <1>3, TypedAlways, PTL DEF Spec

-----------------------------------------------------------------------------
(* Cancelling.  A run between LoadState and its commit holds the row of    *)
(* its document, which keeps a cancel out; any other one meets the flag.   *)

Flagged(d) == arqJob[d] \in cancelKeys

\* What is so of every run: it looks for the flag under the document's id.
Sticky(j) == pc[j] # "free" =>
    /\ status[jobDoc[j]] # "absent"
    /\ pc[j] \in Processing \ {"load"} => eff[j] = arqJob[jobDoc[j]]
    /\ pc[j] = "cancelled" => Flagged(jobDoc[j])
    /\ pc[j] \in Advised => rowLock[jobDoc[j]] = j /\ status[jobDoc[j]] # "cancelled"
    /\ pc[j] \in {"parse", "attach"} \/ (pc[j] = "start" /\ tx[j].seen = "processing") =>
          (status[jobDoc[j]] = "cancelled" => Flagged(jobDoc[j]))

\* And of every request and every document.
Asked(c) == req[c].op # "idle" =>
    /\ status[req[c].doc] # "absent"
    /\ req[c].op \in UserOps \cup {"enqueue"}
    /\ req[c].op = "cancel" => Flagged(req[c].doc)
HasId(d) == status[d] # "absent" => arqJob[d] # NoJob

Sticks == /\ \A j \in Jobs : Sticky(j)
          /\ \A c \in Clients : Asked(c)
          /\ \A d \in Docs : HasId(d)

\* A run that others' steps leave alone.
LEMMA StickyStays ==
  ASSUME Sticks, JobsNamed, NEW i \in Jobs,
         pc'[i] = pc[i], jobDoc'[i] = jobDoc[i], eff'[i] = eff[i], tx'[i] = tx[i],
         \A d \in Docs : status[d] # "absent" => status'[d] # "absent" /\ arqJob'[d] = arqJob[d],
         \A d \in Docs : pc[i] # "free" /\ jobDoc[i] = d /\ Flagged(d) => Flagged(d)',
         \A d \in Docs : rowLock[d] = i => rowLock'[d] = i,
         \A d \in Docs : status'[d] = "cancelled" /\ status[d] # "cancelled" => Flagged(d)' /\ rowLock[d] # i
  PROVE  Sticky(i)'
<1> SUFFICES ASSUME pc[i] # "free" PROVE Sticky(i)'
  BY DEF Sticky
<1>1. jobDoc[i] \in Docs /\ Sticky(i)
  BY DEF JobsNamed, Sticks
<1> QED
  BY <1>1 DEF Sticky

\* A step of one run that leaves the ids, the flags and the requests alone.
LEMMA RunSticks ==
  ASSUME Sticks, Typed, NEW j \in Jobs, UNCHANGED <<arqJob, cancelKeys, req>>,
         \A i \in Jobs \ {j} : pc'[i] = pc[i] /\ jobDoc'[i] = jobDoc[i] /\ eff'[i] = eff[i] /\ tx'[i] = tx[i],
         \A d \in Docs : status[d] # "absent" <=> status'[d] # "absent",
         \A i \in Jobs \ {j}, d \in Docs : rowLock[d] = i => rowLock'[d] = i,
         \A d \in Docs : status'[d] = "cancelled" /\ status[d] # "cancelled" => Flagged(d) /\ rowLock[d] \in {NoJob, j},
         Sticky(j)'
  PROVE  Sticks'
<1>1. JobsNamed
  BY DEF Typed
<1>2. \A d \in Docs : Flagged(d) <=> Flagged(d)'
  BY DEF Flagged
<1>3. ASSUME NEW i \in Jobs, i # j PROVE Sticky(i)'
  BY <1>1, <1>2, <1>3, ConstantsAssumption, StickyStays
<1>4. ASSUME NEW c \in Clients PROVE Asked(c)'
  <2>1. req[c].op # "idle" => req[c].doc \in Docs
    BY <1>1 DEF JobsNamed
  <2> QED
    BY <1>2, <2>1 DEF Sticks, Asked
<1>5. ASSUME NEW d \in Docs PROVE HasId(d)'
  BY DEF Sticks, HasId
<1> QED
  BY <1>3, <1>4, <1>5 DEF Sticks

\* The steps of the queue and of the runs.
LEMMA RunsStick ==
  ASSUME Sticks, Typed, "redis" \notin Faults, NEW j \in Jobs,
         \/ Deliver(j) \/ GiveUp(j) \/ Acquire(j) \/ LoseJob(j) \/ Load(j) \/ Start(j) \/ Parse(j)
         \/ LoadState(j) \/ Merge(j) \/ Persist(j) \/ Changelog(j) \/ GitCommit(j) \/ Enrich(j)
         \/ Finish(j) \/ ObserveCancel(j) \/ MarkCancelled(j) \/ Unwind(j)
         \/ Fail(j) \/ DbError(j) \/ Timeout(j)
  PROVE  Sticks'
<1> USE ConstantsAssumption DEF rowVars, stateVars, redisVars, jobVars, clientVars
<1> DEFINE Calm == /\ UNCHANGED <<arqJob, cancelKeys, req>>
                   /\ \A i \in Jobs \ {j} : /\ pc'[i] = pc[i] /\ jobDoc'[i] = jobDoc[i]
                                             /\ eff'[i] = eff[i] /\ tx'[i] = tx[i]
                   /\ \A d \in Docs : status[d] # "absent" <=> status'[d] # "absent"
                   /\ \A i \in Jobs \ {j}, d \in Docs : rowLock[d] = i => rowLock'[d] = i
                   /\ \A d \in Docs : status'[d] = "cancelled" /\ status[d] # "cancelled" =>
                         Flagged(d) /\ rowLock[d] \in {NoJob, j}
                   /\ Sticky(j)'
<1>0. /\ TypeOK /\ JobsNamed /\ Sticky(j)
      /\ pc[j] # "free" => jobDoc[j] \in Docs
  BY DEF Typed, Sticks, JobsNamed
<1>1. ASSUME Deliver(j) PROVE Calm
  BY <1>1, <1>0 DEF Deliver, Goto, TypeOK, Sticky, Flagged, Processing, InTransaction, Advised
<1>2. ASSUME GiveUp(j) PROVE Calm
  BY <1>2, <1>0 DEF GiveUp, Forget, TypeOK, Sticky, Flagged, Processing, InTransaction, Advised
<1>3. ASSUME Acquire(j) PROVE Calm
  BY <1>3, <1>0 DEF Acquire, Goto, TypeOK, Sticky, Flagged, Processing, InTransaction, Advised
<1>4. ASSUME LoseJob(j) PROVE Calm
  BY <1>4, <1>0 DEF LoseJob, Forget, TypeOK, Sticky, Flagged, Processing, InTransaction, Advised
<1>5. ASSUME Unwind(j) PROVE Calm
  BY <1>5, <1>0 DEF Unwind, Forget, TypeOK, Sticky, Flagged, Processing, InTransaction, Advised
<1>6. ASSUME Load(j) PROVE Calm
  <2>1. /\ pc[j] = "load" /\ pc'[j] = "start" /\ eff'[j] = arqJob[jobDoc[j]] /\ tx'[j].seen = status[jobDoc[j]]
        /\ UNCHANGED <<arqJob, cancelKeys, req, jobDoc, status, rowLock>>
        /\ \A i \in Jobs \ {j} : pc'[i] = pc[i] /\ eff'[i] = eff[i] /\ tx'[i] = tx[i]
    <3>1. tx[j] \in Txs
      BY <1>0 DEF TypeOK
    <3>2. arqJob[jobDoc[j]] # NoJob
      BY <1>6, <1>0 DEF Load, Sticky, Sticks, HasId
    <3> QED
      BY <1>6, <1>0, <3>1, <3>2 DEF Load, Goto, TypeOK, Txs
  <2>2. Sticky(j)'
    BY <1>0, <2>1 DEF Sticky, Advised
  <2> QED
    BY <2>1, <2>2
<1>7. ASSUME Start(j) PROVE Calm
  <2>1. /\ pc[j] = "start" /\ pc'[j] = "parse" /\ jobDoc[j] \in Docs
        /\ status[jobDoc[j]] # "absent" /\ status'[jobDoc[j]] = Assigned(tx[j].seen, "processing", status[jobDoc[j]])
        /\ UNCHANGED <<arqJob, cancelKeys, req, jobDoc, eff, rowLock>>
        /\ \A d \in Docs \ {jobDoc[j]} : status'[d] = status[d]
        /\ \A i \in Jobs \ {j} : pc'[i] = pc[i] /\ tx'[i] = tx[i]
    BY <1>7, <1>0 DEF Start, Goto, TypeOK, Sticky
  <2>2. Sticky(j)'
    BY <1>0, <2>1 DEF Sticky, Assigned, Flagged, Processing, InTransaction, Advised
  <2> QED
    BY <2>1, <2>2 DEF Assigned
<1>8. ASSUME Parse(j) PROVE Calm
  <2>1. /\ pc[j] = "parse" /\ pc'[j] = "attach" /\ jobDoc[j] \in Docs
        /\ UNCHANGED <<arqJob, cancelKeys, req, jobDoc, eff, status, tx>>
        /\ rowLock[jobDoc[j]] \in {NoJob, j} /\ \A d \in Docs : rowLock'[d] = IF d = jobDoc[j] THEN j ELSE rowLock[d]
        /\ \A i \in Jobs \ {j} : pc'[i] = pc[i]
    BY <1>8, <1>0 DEF Parse, Goto, TypeOK, RowFree, LockRow
  <2>2. Sticky(j)'
    BY <1>0, <2>1 DEF Sticky, Flagged, Processing, InTransaction, Advised
  <2> QED
    BY <2>1, <2>2
<1>9. ASSUME LoadState(j) PROVE Calm
  <2>1. /\ pc[j] = "attach" /\ pc'[j] = "merge" /\ jobDoc[j] \in Docs
        /\ UNCHANGED <<arqJob, cancelKeys, req, jobDoc, eff, status>>
        /\ rowLock[jobDoc[j]] \in {NoJob, j} /\ \A d \in Docs : rowLock'[d] = IF d = jobDoc[j] THEN j ELSE rowLock[d]
        /\ \A i \in Jobs \ {j} : pc'[i] = pc[i] /\ tx'[i] = tx[i]
    BY <1>9, <1>0 DEF LoadState, Goto, TypeOK, RowFree, LockRow
  <2>2. eff[j] \notin cancelKeys
    BY <1>9 DEF LoadState, MayProceed, CancelSeen
  <2>3. Sticky(j)'
    BY <1>0, <2>1, <2>2 DEF Sticky, Flagged, Processing, InTransaction, Advised
  <2> QED
    BY <2>1, <2>3
<1>10. ASSUME Merge(j) PROVE Calm
  <2>1. /\ pc[j] = "merge" /\ pc'[j] = "persist"
        /\ UNCHANGED <<arqJob, cancelKeys, req, jobDoc, eff, status, rowLock>>
        /\ \A i \in Jobs \ {j} : pc'[i] = pc[i] /\ tx'[i] = tx[i]
    BY <1>10, <1>0 DEF Merge, Goto, TypeOK
  <2>2. Sticky(j)'
    BY <1>0, <2>1 DEF Sticky, Processing, InTransaction, Advised
  <2> QED
    BY <2>1, <2>2
<1>11. ASSUME Persist(j) PROVE Calm
  <2>1. /\ pc[j] = "persist" /\ pc'[j] = "changelog"
        /\ UNCHANGED <<arqJob, cancelKeys, req, jobDoc, eff, status, rowLock>>
        /\ \A i \in Jobs \ {j} : pc'[i] = pc[i] /\ tx'[i] = tx[i]
    BY <1>11, <1>0 DEF Persist, Goto, TypeOK
  <2>2. Sticky(j)'
    BY <1>0, <2>1 DEF Sticky, Processing, InTransaction, Advised
  <2> QED
    BY <2>1, <2>2
<1>12. ASSUME Changelog(j) PROVE Calm
  <2>1. /\ pc[j] = "changelog" /\ pc'[j] = "git"
        /\ UNCHANGED <<arqJob, cancelKeys, req, jobDoc, eff, status, rowLock>>
        /\ \A i \in Jobs \ {j} : pc'[i] = pc[i] /\ tx'[i] = tx[i]
    BY <1>12, <1>0 DEF Changelog, Goto, TypeOK
  <2>2. Sticky(j)'
    BY <1>0, <2>1 DEF Sticky, Processing, InTransaction, Advised
  <2> QED
    BY <2>1, <2>2
<1>13. ASSUME GitCommit(j) PROVE Calm
  <2>1. /\ pc[j] = "git" /\ pc'[j] = "enrich"
        /\ UNCHANGED <<arqJob, cancelKeys, req, jobDoc, eff, status, rowLock>>
        /\ \A i \in Jobs \ {j} : pc'[i] = pc[i] /\ tx'[i] = tx[i]
    BY <1>13, <1>0 DEF GitCommit, Goto, TypeOK
  <2>2. Sticky(j)'
    BY <1>0, <2>1 DEF Sticky, Processing, InTransaction, Advised
  <2> QED
    BY <2>1, <2>2
<1>14. ASSUME Enrich(j) PROVE Calm
  <2>1. /\ pc[j] = "enrich" /\ pc'[j] = "finish"
        /\ UNCHANGED <<arqJob, cancelKeys, req, jobDoc, eff, status, rowLock>>
        /\ \A i \in Jobs \ {j} : pc'[i] = pc[i] /\ tx'[i] = tx[i]
    BY <1>14, <1>0 DEF Enrich, Goto, TypeOK
  <2>2. Sticky(j)'
    BY <1>0, <2>1 DEF Sticky, Processing, InTransaction, Advised
  <2> QED
    BY <2>1, <2>2
<1>15. ASSUME Finish(j) PROVE Calm
  <2>1. /\ pc'[j] = "unwind" /\ jobDoc[j] \in Docs /\ status[jobDoc[j]] # "absent"
        /\ UNCHANGED <<arqJob, cancelKeys, req, jobDoc, eff>>
        /\ status'[jobDoc[j]] \notin {"absent", "cancelled"}
        /\ \A d \in Docs \ {jobDoc[j]} : status'[d] = status[d]
        /\ \A i \in Jobs \ {j} : pc'[i] = pc[i] /\ tx'[i] = tx[i]
        /\ \A i \in Jobs \ {j}, d \in Docs : rowLock[d] = i => rowLock'[d] = i
    BY <1>15, <1>0 DEF Finish, CommitState, EndTransaction, Goto, TypeOK, Sticky
  <2>2. Sticky(j)'
    BY <2>1 DEF Sticky, Processing, InTransaction, Advised
  <2> QED
    BY <2>1, <2>2
<1>16. ASSUME Fail(j) PROVE Calm
  <2>1. /\ pc'[j] = "unwind" /\ jobDoc[j] \in Docs /\ status[jobDoc[j]] # "absent"
        /\ UNCHANGED <<arqJob, cancelKeys, req, jobDoc, eff>>
        /\ status'[jobDoc[j]] \notin {"absent", "cancelled"}
        /\ \A d \in Docs \ {jobDoc[j]} : status'[d] = status[d]
        /\ \A i \in Jobs \ {j} : pc'[i] = pc[i] /\ tx'[i] = tx[i]
        /\ \A i \in Jobs \ {j}, d \in Docs : rowLock[d] = i => rowLock'[d] = i
    BY <1>16, <1>0 DEF Fail, CommitState, EndTransaction, Goto, TypeOK, Sticky, CanRaise
  <2>2. Sticky(j)'
    BY <2>1 DEF Sticky, Processing, InTransaction, Advised
  <2> QED
    BY <2>1, <2>2
<1>17. ASSUME ObserveCancel(j) PROVE Calm
  <2>1. /\ pc[j] \in Checkpoints /\ pc'[j] = "cancelled" /\ eff[j] \in cancelKeys
        /\ UNCHANGED <<arqJob, cancelKeys, req, jobDoc, eff, status>>
        /\ \A i \in Jobs \ {j} : pc'[i] = pc[i] /\ tx'[i] = tx[i]
        /\ \A i \in Jobs \ {j}, d \in Docs : rowLock[d] = i => rowLock'[d] = i
    BY <1>17, <1>0 DEF ObserveCancel, Rollback, EndTransaction, CancelSeen, Goto, TypeOK
  <2>2. Sticky(j)'
    BY <1>0, <2>1 DEF Sticky, Flagged, Checkpoints, Processing, InTransaction, Advised
  <2> QED
    BY <2>1, <2>2
<1>18. ASSUME MarkCancelled(j) PROVE Calm
  <2>1. /\ pc[j] = "cancelled" /\ pc'[j] = "unwind" /\ jobDoc[j] \in Docs
        /\ UNCHANGED <<arqJob, cancelKeys, req, jobDoc, eff, tx, rowLock>>
        /\ status'[jobDoc[j]] = "cancelled" /\ rowLock[jobDoc[j]] \in {NoJob, j}
        /\ \A d \in Docs \ {jobDoc[j]} : status'[d] = status[d]
        /\ \A i \in Jobs \ {j} : pc'[i] = pc[i]
    BY <1>18, <1>0 DEF MarkCancelled, Goto, RowFree, TypeOK
  <2>2. Flagged(jobDoc[j]) /\ status[jobDoc[j]] # "absent"
    BY <1>0, <2>1 DEF Sticky
  <2>3. Sticky(j)'
    BY <2>1 DEF Sticky, Processing, InTransaction, Advised
  <2> QED
    BY <2>1, <2>2, <2>3
<1>19. ASSUME DbError(j) PROVE Calm
  <2>1. /\ pc[j] # "free" /\ pc'[j] = "unwind"
        /\ UNCHANGED <<arqJob, cancelKeys, req, jobDoc, eff, status>>
        /\ \A i \in Jobs \ {j} : pc'[i] = pc[i] /\ tx'[i] = tx[i]
        /\ \A i \in Jobs \ {j}, d \in Docs : rowLock[d] = i => rowLock'[d] = i
    BY <1>19, <1>0 DEF DbError, Rollback, EndTransaction, Goto, TypeOK, Processing, InTransaction
  <2>2. Sticky(j)'
    BY <1>0, <2>1 DEF Sticky, Processing, InTransaction, Advised
  <2> QED
    BY <2>1, <2>2
<1>20. ASSUME Timeout(j) PROVE Calm
  <2>1. /\ pc[j] # "free" /\ pc'[j] = "unwind"
        /\ UNCHANGED <<arqJob, cancelKeys, req, jobDoc, eff, status>>
        /\ \A i \in Jobs \ {j} : pc'[i] = pc[i] /\ tx'[i] = tx[i]
        /\ \A i \in Jobs \ {j}, d \in Docs : rowLock[d] = i => rowLock'[d] = i
    BY <1>20, <1>0 DEF Timeout, Rollback, EndTransaction, Goto, TypeOK, Processing, InTransaction
  <2>2. Sticky(j)'
    BY <1>0, <2>1 DEF Sticky, Processing, InTransaction, Advised
  <2> QED
    BY <2>1, <2>2
<1> HIDE DEF rowVars, stateVars, redisVars, jobVars, clientVars, Calm
<1>21. Calm
  BY <1>1, <1>2, <1>3, <1>4, <1>5, <1>6, <1>7, <1>8, <1>9, <1>10, <1>11, <1>12, <1>13, <1>14,
     <1>15, <1>16, <1>17, <1>18, <1>19, <1>20
<1> QED
  BY <1>21, RunSticks DEF Calm

\* A job that is queued is about a document that is there.
LEMMA QueuedSticks ==
  ASSUME NEW k \in Jobs, NEW d \in Docs, pc'[k] = "queued", jobDoc'[k] = d, status'[d] # "absent"
  PROVE  Sticky(k)'
  BY DEF Sticky, Processing, InTransaction, Advised

\* The steps that queue jobs, and those of the environment.
LEMMA QueueSticks ==
  ASSUME Sticks, Typed, Attachments = {},
         \/ \E j \in Jobs : Requeue(j) \/ (\E a \in Attachments : Attach(j, a))
         \/ \E c \in Clients : SendJob(c)
         \/ Environment \/ UNCHANGED vars
  PROVE  Sticks'
<1> USE ConstantsAssumption DEF rowVars, stateVars, redisVars, jobVars, clientVars
<1>0. TypeOK /\ JobsNamed
  BY DEF Typed
<1>1. ASSUME NEW j \in Jobs, Requeue(j) PROVE Sticks'
  <2>1. PICK k \in FreshJobs \cup (IF Unreferenced(j) THEN {j} ELSE {}) :
          /\ pc' = [pc EXCEPT ![j] = "free", ![k] = "queued"]
          /\ jobDoc' = [jobDoc EXCEPT ![j] = NoDoc, ![k] = jobDoc[j]]
    BY <1>1 DEF Requeue
  <2>2. k \in Jobs /\ pc[j] = "lock" /\ UNCHANGED <<status, arqJob, rowLock, cancelKeys, req, eff, tx>>
    BY <1>1, <2>1 DEF FreshJobs, Requeue
  <2>3. /\ pc'[k] = "queued" /\ jobDoc'[k] = jobDoc[j] /\ (k # j => pc'[j] = "free")
        /\ \A i \in Jobs : i # j /\ i # k => pc'[i] = pc[i] /\ jobDoc'[i] = jobDoc[i]
    BY <1>0, <2>1, <2>2 DEF TypeOK
  <2>4. jobDoc[j] \in Docs /\ status[jobDoc[j]] # "absent"
    BY <1>0, <2>2 DEF JobsNamed, Sticks, Sticky
  <2>5. Sticky(k)'
    BY <2>2, <2>3, <2>4, QueuedSticks
  <2>6. k # j => Sticky(j)'
    BY <2>3 DEF Sticky
  <2>7. ASSUME NEW i \in Jobs, i # j, i # k PROVE Sticky(i)'
    <3>1. \A d \in Docs : Flagged(d) <=> Flagged(d)'
      BY <2>2 DEF Flagged
    <3> QED
      BY <1>0, <2>2, <2>3, <2>7, <3>1, StickyStays
  <2> QED
    BY <2>2, <2>5, <2>6, <2>7 DEF Sticks, Asked, HasId, Flagged
<1>2. ASSUME NEW c \in Clients, SendJob(c) PROVE Sticks'
  <2>1. PICK k \in (IF req[c].job # NoJob THEN {req[c].job} ELSE FreshJobs) : Enqueue(k, req[c].doc)
    BY <1>2 DEF SendJob
  <2>2. /\ k \in Jobs /\ UNCHANGED <<status, arqJob, rowLock, cancelKeys, eff, tx>>
        /\ req' = [req EXCEPT ![c] = Idle] /\ req[c].op = "enqueue"
    BY <1>0, <1>2, <2>1 DEF FreshJobs, SendJob, TypeOK, Requests
  <2>3. /\ pc'[k] = "queued" /\ jobDoc'[k] = req[c].doc
        /\ \A i \in Jobs \ {k} : pc'[i] = pc[i] /\ jobDoc'[i] = jobDoc[i]
    BY <1>0, <2>1, <2>2 DEF Enqueue, TypeOK
  <2>4. req[c].doc \in Docs /\ status[req[c].doc] # "absent"
    BY <1>0, <2>2 DEF JobsNamed, Sticks, Asked
  <2>5. Sticky(k)'
    BY <2>2, <2>3, <2>4, QueuedSticks
  <2>6. ASSUME NEW i \in Jobs, i # k PROVE Sticky(i)'
    <3>1. \A d \in Docs : Flagged(d) <=> Flagged(d)'
      BY <2>2 DEF Flagged
    <3> QED
      BY <1>0, <2>2, <2>3, <2>6, <3>1, StickyStays
  <2>7. ASSUME NEW b \in Clients PROVE Asked(b)'
    BY <1>0, <2>2 DEF Sticks, Asked, Idle, TypeOK, Flagged
  <2> QED
    BY <2>2, <2>5, <2>6, <2>7 DEF Sticks, HasId
<1>3. ASSUME Shutdown \/ Crash PROVE Sticks'
  <2>1. /\ UNCHANGED <<status, arqJob, cancelKeys, req, jobDoc>>
        /\ \A i \in Jobs : pc'[i] = IF pc[i] \in Delivered THEN "queued" ELSE pc[i]
    BY <1>3 DEF Shutdown, Crash, StopRuns
  <2>2. \A i \in Jobs : pc'[i] \in {"free", "queued"} /\ (pc[i] = "free" => pc'[i] = "free")
    BY <1>0, <2>1 DEF TypeOK, Places, Delivered, Section, Processing, InTransaction
  <2>3. ASSUME NEW i \in Jobs PROVE Sticky(i)'
    BY <2>1, <2>2 DEF Sticks, Sticky, Processing, InTransaction, Advised
  <2> QED
    BY <2>1, <2>3 DEF Sticks, Asked, HasId, Flagged
<1>4. ASSUME NEW k \in Jobs, CancelKeyExpires(k) PROVE Sticks'
  <2>1. /\ UNCHANGED <<status, arqJob, rowLock, req, pc, jobDoc, eff, tx>> /\ cancelKeys' = cancelKeys \ {k}
        /\ \A i \in Jobs, d \in Docs : jobDoc[i] = d => arqJob[d] # k
        /\ \A c \in Clients : req[c].op = "cancel" => arqJob[req[c].doc] # k
    BY <1>4 DEF CancelKeyExpires
  <2>2. ASSUME NEW i \in Jobs PROVE Sticky(i)'
    <3>1. \A d \in Docs : pc[i] # "free" /\ jobDoc[i] = d /\ Flagged(d) => Flagged(d)'
      BY <2>1 DEF Flagged
    <3> QED
      BY <1>0, <2>1, <3>1, StickyStays
  <2>3. ASSUME NEW c \in Clients PROVE Asked(c)'
    BY <2>1 DEF Sticks, Asked, Flagged
  <2> QED
    BY <2>1, <2>2, <2>3 DEF Sticks, HasId
<1>5. ASSUME LeaseExpires \/ UNCHANGED vars PROVE Sticks'
  BY <1>5 DEF LeaseExpires, vars, Sticks, Sticky, Asked, HasId, Flagged
<1> QED
  BY <1>1, <1>2, <1>3, <1>4, <1>5 DEF Environment

\* The other steps of the endpoints.  Only an upload gives a document an id.
LEMMA EndpointsStick ==
  ASSUME Sticks, Typed, "redis" \notin Faults, UserOps \subseteq {"cancel", "reprocess"}, NEW c \in Clients,
         \/ CommitCancel(c) \/ CommitRerun(c) \/ SendFails(c) \/ User(c)
  PROVE  Sticks'
<1> USE ConstantsAssumption DEF rowVars, stateVars, redisVars, jobVars, clientVars
<1>0. TypeOK /\ JobsNamed /\ Asked(c)
  BY DEF Typed, Sticks
\* The runs go on as they were.
<1>1. ASSUME UNCHANGED <<pc, jobDoc, eff, tx, rowLock>>,
             \A d \in Docs : status[d] # "absent" => status'[d] # "absent" /\ arqJob'[d] = arqJob[d],
             cancelKeys \subseteq cancelKeys',
             \A d \in Docs : status'[d] = "cancelled" /\ status[d] # "cancelled" => Flagged(d)' /\ rowLock[d] = NoJob
      PROVE  \A i \in Jobs : Sticky(i)'
  <2> SUFFICES ASSUME NEW i \in Jobs PROVE Sticky(i)'
    OBVIOUS
  <2>1. \A d \in Docs : pc[i] # "free" /\ jobDoc[i] = d /\ Flagged(d) => Flagged(d)'
    <3> SUFFICES ASSUME pc[i] # "free", jobDoc[i] \in Docs, Flagged(jobDoc[i]) PROVE Flagged(jobDoc[i])'
      BY <1>1
    <3>1. status[jobDoc[i]] # "absent"
      BY DEF Sticks, Sticky
    <3> QED
      BY <1>1, <3>1 DEF Flagged
  <2> QED
    BY <1>0, <1>1, <2>1, StickyStays
<1>2. ASSUME CommitCancel(c) PROVE Sticks'
  <2>1. /\ UNCHANGED <<pc, jobDoc, eff, tx, rowLock, arqJob, cancelKeys>> /\ req' = [req EXCEPT ![c] = Idle]
        /\ req[c].op = "cancel" /\ req[c].doc \in Docs /\ rowLock[req[c].doc] = NoJob
        /\ status'[req[c].doc] \in {"cancelled", status[req[c].doc]}
        /\ \A d \in Docs : d # req[c].doc => status'[d] = status[d]
    BY <1>0, <1>2 DEF CommitCancel, Assigned, TypeOK, JobsNamed
  <2>2. Flagged(req[c].doc) /\ status[req[c].doc] # "absent"
    BY <1>0, <2>1 DEF Asked
  <2>3. \A d \in Docs : (status[d] # "absent" <=> status'[d] # "absent") /\ (Flagged(d) <=> Flagged(d)')
    BY <2>1, <2>2 DEF Flagged
  <2>4. \A i \in Jobs : Sticky(i)'
    BY <1>1, <2>1, <2>2, <2>3
  <2>5. ASSUME NEW b \in Clients PROVE Asked(b)'
    <3>1. req'[b] = req[b] \/ req'[b] = Idle
      BY <1>0, <2>1 DEF TypeOK
    <3>2. req[b].op # "idle" => req[b].doc \in Docs
      BY <1>0 DEF JobsNamed
    <3> QED
      BY <2>3, <3>1, <3>2 DEF Sticks, Asked, Idle
  <2> QED
    BY <2>1, <2>3, <2>4, <2>5 DEF Sticks, HasId
<1>3. ASSUME CommitRerun(c) PROVE Sticks'
  <2>1. req[c].op = "reprocess"
    BY <1>0, <1>3 DEF CommitRerun, Asked
  <2>2. /\ UNCHANGED <<pc, jobDoc, eff, tx, rowLock, cancelKeys>> /\ req[c].doc \in Docs
        /\ status'[req[c].doc] \in {"pending", status[req[c].doc]}
        /\ \A d \in Docs : d # req[c].doc => status'[d] = status[d]
        /\ req' = [req EXCEPT ![c].op = "enqueue", ![c].job = NoJob]
        /\ arqJob' = [arqJob EXCEPT ![req[c].doc] = @]
    BY <1>0, <1>3, <2>1 DEF CommitRerun, Assigned, TypeOK, JobsNamed
  <2>3. /\ UNCHANGED arqJob /\ \A b \in Clients \ {c} : req'[b] = req[b]
        /\ req'[c].op = "enqueue" /\ req'[c].doc = req[c].doc
    BY <1>0, <2>2 DEF TypeOK, Requests
  <2>4. \A d \in Docs : (status[d] # "absent" => status'[d] # "absent") /\ (Flagged(d) <=> Flagged(d)')
    BY <2>2, <2>3 DEF Flagged
  <2>5. \A i \in Jobs : Sticky(i)'
    BY <1>1, <2>2, <2>3, <2>4
  <2>6. ASSUME NEW b \in Clients PROVE Asked(b)'
    <3>1. req[b].op # "idle" => req[b].doc \in Docs
      BY <1>0 DEF JobsNamed
    <3> QED
      BY <2>1, <2>3, <2>4, <3>1 DEF Sticks, Asked
  <2>7. status[req[c].doc] # "absent"
    BY <1>0, <2>1 DEF Asked
  <2> QED
    BY <2>2, <2>3, <2>5, <2>6, <2>7 DEF Sticks, HasId
<1>4. ASSUME NEW d \in Docs, Upload(c, d) PROVE Sticks'
  <2>1. /\ UNCHANGED <<pc, jobDoc, eff, tx, rowLock, cancelKeys>>
        /\ status[d] = "absent" /\ status'[d] = "pending" /\ arqJob'[d] \in Jobs
        /\ req'[c].op = "enqueue" /\ req'[c].doc = d
        /\ \A e \in Docs \ {d} : status'[e] = status[e] /\ arqJob'[e] = arqJob[e]
        /\ \A b \in Clients \ {c} : req'[b] = req[b]
    BY <1>0, <1>4 DEF Upload, FreshJobs, TypeOK
  <2>2. \A i \in Jobs : Sticky(i)'
    BY <1>1, <2>1
  <2>3. ASSUME NEW b \in Clients PROVE Asked(b)'
    <3>1. req[b].op # "idle" => req[b].doc \in Docs /\ status[req[b].doc] # "absent"
      BY <1>0 DEF JobsNamed, Sticks, Asked
    <3> QED
      BY <2>1, <3>1 DEF Sticks, Asked, Flagged
  <2> QED
    BY <2>1, <2>2, <2>3 DEF Sticks, HasId
<1>5. ASSUME NEW d \in Docs, NEW op \in {"cancel", "retry", "reprocess", "restore"}, Ask(c, d, op),
             UNCHANGED <<pc, jobDoc, eff, tx, rowLock, arqJob, status>>, cancelKeys \subseteq cancelKeys',
             op = "cancel" => Flagged(d)'
      PROVE  Sticks'
  <2>1. /\ status[d] # "absent" /\ op \in UserOps /\ req'[c].op = op /\ req'[c].doc = d
        /\ \A b \in Clients \ {c} : req'[b] = req[b]
    BY <1>0, <1>5 DEF Ask, TypeOK
  <2>2. \A i \in Jobs : Sticky(i)'
    BY <1>1, <1>5
  <2>3. ASSUME NEW b \in Clients PROVE Asked(b)'
    BY <1>5, <2>1 DEF Sticks, Asked, Flagged
  <2> QED
    BY <1>5, <2>2, <2>3 DEF Sticks, HasId
<1>6. ASSUME NEW d \in Docs, AskCancel(c, d) PROVE Sticks'
  <2>1. arqJob[d] # NoJob
    BY <1>6 DEF AskCancel, Ask, Sticks, HasId
  <2> QED
    BY <1>5, <1>6, <2>1 DEF AskCancel, Flagged
<1>7. ASSUME NEW d \in Docs, AskRetry(c, d) \/ AskReprocess(c, d) \/ AskRestore(c, d) PROVE Sticks'
  BY <1>5, <1>7 DEF AskRetry, AskReprocess, AskRestore
<1>8. ~SendFails(c)
  BY DEF SendFails
<1> QED
  BY <1>2, <1>3, <1>4, <1>6, <1>7, <1>8 DEF User

LEMMA SticksNext ==
  ASSUME "redis" \notin Faults, Attachments = {}, UserOps \subseteq {"cancel", "reprocess"},
         Sticks, Typed, [Next]_vars
  PROVE  Sticks'
  BY RunsStick, QueueSticks, EndpointsStick DEF Next, Queue, Run, Break, Endpoint

\* Only the last step of a run finishes a document.
LEMMA FinishesAlone ==
  ASSUME Typed, [Next]_vars, NEW d \in Docs, status'[d] \in Finished, status[d] \notin Finished
  PROVE  \E j \in Jobs : Finish(j) /\ jobDoc[j] = d
<1> USE DEF rowVars, stateVars, redisVars, jobVars, clientVars
<1>0. TypeOK
  BY DEF Typed
<1>1. ASSUME NEW j \in Jobs, Queue(j) PROVE UNCHANGED status
  BY <1>1 DEF Queue, Deliver, GiveUp, Acquire, Requeue
<1>2. ASSUME NEW j \in Jobs, \/ Load(j) \/ Parse(j) \/ LoadState(j) \/ Merge(j) \/ Persist(j) \/ Changelog(j)
                            \/ GitCommit(j) \/ Enrich(j) \/ ObserveCancel(j) \/ Unwind(j)
      PROVE  UNCHANGED status
  BY <1>2 DEF Load, Parse, LoadState, Merge, Persist, Changelog, GitCommit, Enrich, ObserveCancel,
     Unwind
<1>3. ASSUME NEW j \in Jobs, LoseJob(j) \/ DbError(j) \/ Timeout(j) PROVE UNCHANGED status
  BY <1>3 DEF LoseJob, DbError, Timeout
<1>4. ASSUME NEW j \in Jobs, Start(j) PROVE FALSE
  BY <1>0, <1>4 DEF Start, Assigned, TypeOK, Finished
<1>5. ASSUME NEW j \in Jobs, Fail(j) \/ MarkCancelled(j) \/ (\E a \in Attachments : Attach(j, a)) PROVE FALSE
  BY <1>0, <1>5 DEF Fail, MarkCancelled, Attach, TypeOK, Finished
<1>6. ASSUME NEW j \in Jobs, Finish(j) PROVE jobDoc[j] = d
  BY <1>0, <1>6 DEF Finish, TypeOK
<1>7. ASSUME Environment \/ UNCHANGED vars PROVE UNCHANGED status
  BY <1>7 DEF Environment, Shutdown, Crash, StopRuns, LeaseExpires, CancelKeyExpires, vars
<1>8. ASSUME NEW c \in Clients, Endpoint(c) PROVE FALSE
  BY <1>0, <1>8 DEF Endpoint, CommitCancel, CommitRerun, SendJob, SendFails, Assigned, TypeOK, Finished
<1>9. ASSUME NEW c \in Clients, User(c) PROVE FALSE
  BY <1>0, <1>9 DEF User, Upload, AskCancel, AskRetry, AskReprocess, AskRestore, TypeOK, Finished
<1> HIDE DEF rowVars, stateVars, redisVars, jobVars, clientVars
<1> QED
  BY <1>1, <1>2, <1>3, <1>4, <1>5, <1>6, <1>7, <1>8, <1>9 DEF Next, Run, Break

\* documents.py:506-537, pipeline.py:106-120: however runs and cancelling requests cross, and
\* whatever crashes, fails and lapses, no run finishes a cancelled document, as long as its id
\* stays and every look at the flag succeeds.
THEOREM CancelledStays ==
  ASSUME "redis" \notin Faults, Attachments = {}, UserOps \subseteq {"cancel", "reprocess"}
  PROVE  Spec => CancelSticks
<1>1. Init => Sticks
  BY DEF Init, Sticks, Sticky, Asked, HasId, Idle
<1>2. Typed /\ Sticks /\ [Next]_vars => Sticks'
  BY SticksNext
<1>3. ASSUME Typed, Sticks, [Next]_vars, NEW d \in Docs, status[d] = "cancelled",
             status'[d] \in {"done", "completed_partial"}
      PROVE  FALSE
  <2>1. \A j \in Jobs : ~Finish(j) \/ jobDoc[j] # d
    BY <1>3 DEF Finish, Sticks, Sticky, Advised
  <2> QED
    BY <1>3, <2>1, FinishesAlone DEF Finished
<1>4. Typed /\ Sticks /\ [Next]_vars =>
         [\A d \in Docs : status[d] = "cancelled" => status'[d] \notin {"done", "completed_partial"}]_vars
  BY <1>3
<1> QED
  BY <1>1, <1>2, <1>4, TypedAlways, PTL DEF Spec, CancelSticks

=============================================================================
