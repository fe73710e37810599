----------------------- MODULE DocumentPipelineProofs -----------------------
(***************************************************************************)
(* What DocumentPipeline promises for every set of documents, jobs,        *)
(* clients and faults, and for every bound.                                *)
(***************************************************************************)
EXTENDS DocumentPipeline, TLAPS

-----------------------------------------------------------------------------
(* Types.                                                                  *)

\* Well-typed, and no queued job or open request without a document.
Typed == TypeOK /\ JobsNamed

\* The assignments to a run's private record keep its type.
LEMMA SeenTyped ==
  ASSUME NEW f \in [Jobs -> Txs], NEW j \in Jobs, NEW s \in Statuses
  PROVE  [f EXCEPT ![j].seen = s] \in [Jobs -> Txs]
<1>1. f[j] \in Txs
  OBVIOUS
<1> QED
  BY <1>1 DEF Txs

LEMMA BaseTyped ==
  ASSUME NEW f \in [Jobs -> Txs], NEW j \in Jobs, NEW b \in Nat, NEW v \in Nat
  PROVE  [f EXCEPT ![j].base = b, ![j].existing = v] \in [Jobs -> Txs]
<1>1. f[j] \in Txs
  OBVIOUS
<1> QED
  BY <1>1 DEF Txs

LEMMA VersionTyped ==
  ASSUME NEW f \in [Jobs -> Txs], NEW j \in Jobs, NEW v \in Nat
  PROVE  [f EXCEPT ![j].version = v] \in [Jobs -> Txs]
<1>1. f[j] \in Txs
  OBVIOUS
<1> QED
  BY <1>1 DEF Txs

LEMMA LoggedTyped ==
  ASSUME NEW f \in [Jobs -> Txs], NEW j \in Jobs
  PROVE  [f EXCEPT ![j].logged = TRUE] \in [Jobs -> Txs]
<1>1. f[j] \in Txs
  OBVIOUS
<1> QED
  BY <1>1 DEF Txs

LEMMA PartialTyped ==
  ASSUME NEW f \in [Jobs -> Txs], NEW j \in Jobs, NEW p \in BOOLEAN
  PROVE  [f EXCEPT ![j].partial = p] \in [Jobs -> Txs]
<1>1. f[j] \in Txs
  OBVIOUS
<1> QED
  BY <1>1 DEF Txs

LEMMA NoTxTyped == NoTx \in Txs
  BY DEF NoTx, Txs, Statuses


\* Every step keeps the types: a run's commits name documents, and the job id
\* of a request stays its own (documents.py:119-132, pipeline.py:366-369).
LEMMA TypedNext == Typed /\ [Next]_vars => Typed'
<1> SUFFICES ASSUME Typed, [Next]_vars PROVE Typed'
  OBVIOUS
<1> USE ConstantsAssumption DEF rowVars, stateVars, redisVars, jobVars, clientVars
<1>1. ASSUME NEW j \in Jobs, Deliver(j) PROVE Typed'
  BY <1>1 DEF Typed, TypeOK, JobsNamed, Deliver, Goto, Places, Delivered, Section, Processing,
       InTransaction
<1>2. ASSUME NEW j \in Jobs, GiveUp(j) PROVE Typed'
  BY <1>2 DEF Typed, TypeOK, JobsNamed, GiveUp, Forget, Places, Delivered, Section, Processing,
       InTransaction
<1>3. ASSUME NEW j \in Jobs, LoseJob(j) PROVE Typed'
  BY <1>3 DEF Typed, TypeOK, JobsNamed, LoseJob, Forget, Places, Delivered, Section,
       Processing, InTransaction
<1>4. ASSUME NEW j \in Jobs, Acquire(j) PROVE Typed'
  BY <1>4 DEF Typed, TypeOK, JobsNamed, Acquire, Goto, Owner, Leases, Places, Delivered,
       Section, Processing, InTransaction
<1>5. ASSUME NEW j \in Jobs, Requeue(j) PROVE Typed'
  <2>1. PICK k \in FreshJobs \cup (IF Unreferenced(j) THEN {j} ELSE {}) :
          /\ pc' = [pc EXCEPT ![j] = "free", ![k] = "queued"]
          /\ jobDoc' = [jobDoc EXCEPT ![j] = NoDoc, ![k] = jobDoc[j]]
          /\ tries' = [tries EXCEPT ![j] = 0]
    BY <1>5 DEF Requeue
  <2>2. /\ k \in Jobs /\ \A c \in Clients : req[c].job # k
        /\ pc[j] # "free" /\ req' = req
    BY <1>5, <2>1 DEF FreshJobs, Unreferenced, Requeue
  <2>3. TypeOK'
    <3>1. pc' \in [Jobs -> Places] /\ jobDoc' \in [Jobs -> Docs \cup {NoDoc}]
      BY <2>1, <2>2 DEF Typed, TypeOK, Places
    <3> QED
      BY <1>5, <2>1, <3>1 DEF Requeue, Typed, TypeOK
  <2>4. JobsNamed'
    <3>1. \A i \in Jobs : pc'[i] # "free" => jobDoc'[i] \in Docs
      BY <2>1, <2>2 DEF Typed, JobsNamed, TypeOK
    <3>2. \A i \in Jobs : pc[i] = "free" /\ i # k => pc'[i] = "free"
      BY <2>1, <2>2 DEF Typed, TypeOK
    <3>3. \A c \in Clients : req[c].job # NoJob => req[c].job \in Jobs
      BY DEF Typed, TypeOK, Requests
    <3> QED
      BY <2>2, <3>1, <3>2, <3>3 DEF Typed, JobsNamed
  <2> QED
    BY <2>3, <2>4 DEF Typed
<1>6. ASSUME NEW j \in Jobs, Load(j) PROVE Typed'
  <2>1. tx' \in [Jobs -> Txs]
    <3>1. status[jobDoc[j]] \in Statuses
      BY <1>6 DEF Load, Typed, TypeOK, JobsNamed
    <3>2. tx \in [Jobs -> Txs]
      BY DEF Typed, TypeOK
    <3> QED
      BY <1>6, <3>1, <3>2, SeenTyped DEF Load
  <2>2. TypeOK'
    <3>1. eff' \in [Jobs -> Jobs \cup {NoJob}]
      BY <1>6 DEF Load, Typed, TypeOK, JobsNamed
    <3> QED
      BY <1>6, <2>1, <3>1 DEF Load, Goto, Places, Delivered, Section, Processing, Typed, TypeOK
  <2>3. JobsNamed'
    BY <1>6 DEF Load, Goto, Typed, TypeOK, JobsNamed
  <2> QED
    BY <2>2, <2>3 DEF Typed
<1>7. ASSUME NEW j \in Jobs, Start(j) PROVE Typed'
  <2>1. tx' \in [Jobs -> Txs]
    BY <1>7, NoTxTyped DEF Start, Typed, TypeOK
  <2>2. status' \in [Docs -> Statuses]
    BY <1>7 DEF Start, Assigned, Statuses, Typed, TypeOK
  <2>3. TypeOK'
    BY <1>7, <2>1, <2>2 DEF Start, Goto, Places, Delivered, Section, Processing, InTransaction,
                         Typed, TypeOK
  <2>4. JobsNamed'
    BY <1>7 DEF Start, Goto, Typed, TypeOK, JobsNamed
  <2> QED
    BY <2>3, <2>4 DEF Typed
<1>8. ASSUME NEW j \in Jobs, Parse(j) PROVE Typed'
  BY <1>8 DEF Typed, TypeOK, JobsNamed, Parse, Goto, LockRow, Places, Delivered, Section,
       Processing, InTransaction
<1>9. ASSUME NEW j \in Jobs, Merge(j) PROVE Typed'
  <2>1. TypeOK'
    BY <1>9 DEF Typed, TypeOK, Merge, Goto, Places, Delivered, Section, Processing, InTransaction
  <2>2. JobsNamed'
    BY <1>9 DEF Typed, TypeOK, JobsNamed, Merge, Goto
  <2> QED
    BY <2>1, <2>2 DEF Typed
<1>10. ASSUME NEW j \in Jobs, GitCommit(j) PROVE Typed'
  <2>1. jobDoc[j] \in Docs /\ tx[j].version \in Nat
    BY <1>10 DEF Typed, TypeOK, JobsNamed, GitCommit, Txs
  <2>2. TypeOK'
    BY <1>10, <2>1 DEF Typed, TypeOK, GitCommit, Goto, Places, Delivered, Section, Processing, InTransaction
  <2>3. JobsNamed'
    BY <1>10 DEF Typed, TypeOK, JobsNamed, GitCommit, Goto
  <2> QED
    BY <2>2, <2>3 DEF Typed
<1>11. ASSUME NEW j \in Jobs, NEW a \in Attachments, Attach(j, a) PROVE Typed'
  <2>1. status' \in [Docs -> Statuses] /\ rowLock' \in [Docs -> Jobs \cup {NoJob}]
    BY <1>11 DEF Attach, Typed, TypeOK, Statuses
  <2>2. a \in Docs
    BY ConstantsAssumption
  <2>3. CASE UNCHANGED <<pc, jobDoc>>
    BY <1>11, <2>1, <2>3 DEF Typed, JobsNamed, TypeOK, Attach
  <2>4. CASE \E k \in FreshJobs : Enqueue(k, a)
    <3>1. PICK k \in FreshJobs : Enqueue(k, a)
      BY <2>4
    <3>2. k \in Jobs /\ (\A c \in Clients : req[c].job # k) /\ pc[k] = "free"
      BY <3>1 DEF FreshJobs, Unreferenced
    <3> QED
      BY <1>11, <2>1, <2>2, <3>1, <3>2 DEF Enqueue, Places, Typed, JobsNamed, TypeOK, Attach
  <2> QED
    BY <1>11, <2>3, <2>4 DEF Attach
<1>12. ASSUME NEW j \in Jobs, LoadState(j) PROVE Typed'
  <2>1. tx' \in [Jobs -> Txs]
    <3>1. PICK v \in (IF Rows(jobDoc[j]) = {} THEN {0} ELSE Rows(jobDoc[j])) :
             tx' = [tx EXCEPT ![j].base = Len(rows), ![j].existing = v]
      BY <1>12 DEF LoadState
    <3>2. v \in Nat /\ Len(rows) \in Nat
      BY <3>1 DEF Rows, Typed, TypeOK
    <3>3. tx \in [Jobs -> Txs]
      BY DEF Typed, TypeOK
    <3> QED
      BY <3>1, <3>2, <3>3, BaseTyped
  <2>2. TypeOK'
    BY <1>12, <2>1 DEF LoadState, Goto, LockRow, Places, Delivered, Section, Processing, InTransaction,
               Typed, TypeOK
  <2>3. JobsNamed'
    BY <1>12 DEF LoadState, Goto, Typed, TypeOK, JobsNamed
  <2> QED
    BY <2>2, <2>3 DEF Typed
<1>13. ASSUME NEW j \in Jobs, Persist(j) PROVE Typed'
  <2>1. tx' \in [Jobs -> Txs]
    <3>1. tx[j].existing \in Nat /\ tx[j].base + 1 \in Nat
      BY DEF Typed, TypeOK, Txs
    <3>2. tx \in [Jobs -> Txs]
      BY DEF Typed, TypeOK
    <3> QED
      BY <1>13, <3>1, <3>2, VersionTyped DEF Persist
  <2>2. TypeOK'
    BY <1>13, <2>1 DEF Persist, Goto, LockRow, Places, Delivered, Section, Processing, InTransaction,
               Typed, TypeOK
  <2>3. JobsNamed'
    BY <1>13 DEF Persist, Goto, Typed, TypeOK, JobsNamed
  <2> QED
    BY <2>2, <2>3 DEF Typed
<1>14. ASSUME NEW j \in Jobs, Changelog(j) PROVE Typed'
  <2>1. tx' \in [Jobs -> Txs]
    BY <1>14, LoggedTyped DEF Changelog, Typed, TypeOK
  <2>2. TypeOK'
    BY <1>14, <2>1 DEF Changelog, Goto, LockRow, Places, Delivered, Section, Processing, InTransaction,
               Typed, TypeOK
  <2>3. JobsNamed'
    BY <1>14 DEF Changelog, Goto, Typed, TypeOK, JobsNamed
  <2> QED
    BY <2>2, <2>3 DEF Typed
<1>15. ASSUME NEW j \in Jobs, Enrich(j) PROVE Typed'
  <2>1. tx' \in [Jobs -> Txs]
    <3>1. PICK failed \in BOOLEAN : tx' = [tx EXCEPT ![j].partial = failed]
      BY <1>15 DEF Enrich
    <3>2. tx \in [Jobs -> Txs]
      BY DEF Typed, TypeOK
    <3> QED
      BY <1>15, <3>1, <3>2, PartialTyped DEF Enrich
  <2>2. TypeOK'
    BY <1>15, <2>1 DEF Enrich, Goto, LockRow, Places, Delivered, Section, Processing, InTransaction,
               Typed, TypeOK
  <2>3. JobsNamed'
    BY <1>15 DEF Enrich, Goto, Typed, TypeOK, JobsNamed
  <2> QED
    BY <2>2, <2>3 DEF Typed
<1>16. ASSUME NEW j \in Jobs, Finish(j) PROVE Typed'
  <2>1. pc[j] # "free" /\ jobDoc[j] \in Docs /\ tx[j] \in Txs
    BY <1>16 DEF Finish, Typed, TypeOK, JobsNamed
  <2>2. tx' \in [Jobs -> Txs]
    BY <1>16, NoTxTyped DEF Finish, CommitState, EndTransaction, Typed, TypeOK
  <2>3. rows' \in Seq(Docs)
    <3>1. rows \in Seq(Docs) /\ tx[j].version \in Nat
      BY <2>1 DEF Typed, TypeOK, Txs
    <3>2. tx[j].version # 0 /\ tx[j].version <= Len(rows) =>
             [rows EXCEPT ![tx[j].version] = jobDoc[j]] \in Seq(Docs)
      BY <2>1, <3>1
    <3> QED
      BY <1>16, <2>1, <3>1, <3>2 DEF Finish, CommitState
  <2>4. changelog' \subseteq [doc : Docs, version : Nat]
    BY <1>16, <2>1 DEF Finish, CommitState, Typed, TypeOK, Txs
  <2>5. rowLock' \in [Docs -> Jobs \cup {NoJob}] /\ advisory' \in Jobs \cup {NoJob}
    BY <1>16 DEF Finish, CommitState, EndTransaction, Typed, TypeOK
  <2>6. status' \in [Docs -> Statuses] /\ pc' \in [Jobs -> Places]
    BY <1>16 DEF Finish, Goto, Statuses, Places, Delivered, Section, Typed, TypeOK
  <2>7. TypeOK'
    BY <1>16, <2>2, <2>3, <2>4, <2>5, <2>6 DEF Finish, Typed, TypeOK
  <2>8. JobsNamed'
    BY <1>16, <2>1 DEF Finish, Goto, Typed, TypeOK, JobsNamed
  <2> QED
    BY <2>7, <2>8 DEF Typed
<1>17. ASSUME NEW j \in Jobs, Fail(j) PROVE Typed'
  <2>1. pc[j] # "free" /\ jobDoc[j] \in Docs /\ tx[j] \in Txs
    BY <1>17 DEF Fail, CanRaise, Typed, TypeOK, JobsNamed
  <2>2. tx' \in [Jobs -> Txs]
    BY <1>17, NoTxTyped DEF Fail, CommitState, EndTransaction, Typed, TypeOK
  <2>3. rows' \in Seq(Docs)
    <3>1. rows \in Seq(Docs) /\ tx[j].version \in Nat
      BY <2>1 DEF Typed, TypeOK, Txs
    <3>2. tx[j].version # 0 /\ tx[j].version <= Len(rows) =>
             [rows EXCEPT ![tx[j].version] = jobDoc[j]] \in Seq(Docs)
      BY <2>1, <3>1
    <3> QED
      BY <1>17, <2>1, <3>1, <3>2 DEF Fail, CommitState
  <2>4. changelog' \subseteq [doc : Docs, version : Nat]
    BY <1>17, <2>1 DEF Fail, CommitState, Typed, TypeOK, Txs
  <2>5. rowLock' \in [Docs -> Jobs \cup {NoJob}] /\ advisory' \in Jobs \cup {NoJob}
    BY <1>17 DEF Fail, CommitState, EndTransaction, Typed, TypeOK
  <2>6. status' \in [Docs -> Statuses] /\ pc' \in [Jobs -> Places]
    BY <1>17 DEF Fail, Goto, Statuses, Places, Delivered, Section, Typed, TypeOK
  <2>7. TypeOK'
    BY <1>17, <2>2, <2>3, <2>4, <2>5, <2>6 DEF Fail, Typed, TypeOK
  <2>8. JobsNamed'
    BY <1>17, <2>1 DEF Fail, Goto, Typed, TypeOK, JobsNamed
  <2> QED
    BY <2>7, <2>8 DEF Typed
<1>18. ASSUME NEW j \in Jobs, ObserveCancel(j) PROVE Typed'
  <2>1. tx' \in [Jobs -> Txs]
    BY <1>18, NoTxTyped DEF ObserveCancel, Rollback, EndTransaction, Typed, TypeOK
  <2>2. rowLock' \in [Docs -> Jobs \cup {NoJob}] /\ advisory' \in Jobs \cup {NoJob}
    BY <1>18 DEF ObserveCancel, Rollback, EndTransaction, Typed, TypeOK
  <2>3. pc[j] # "free"
    BY <1>18 DEF ObserveCancel, Checkpoints
  <2>4. TypeOK'
    BY <1>18, <2>1, <2>2 DEF ObserveCancel, Rollback, Goto, Places, Delivered, Section, Processing,
                     Typed, TypeOK
  <2>5. JobsNamed'
    BY <1>18, <2>3 DEF ObserveCancel, Goto, Typed, TypeOK, JobsNamed
  <2> QED
    BY <2>4, <2>5 DEF Typed
<1>19. ASSUME NEW j \in Jobs, DbError(j) PROVE Typed'
  <2>1. tx' \in [Jobs -> Txs]
    BY <1>19, NoTxTyped DEF DbError, Rollback, EndTransaction, Typed, TypeOK
  <2>2. rowLock' \in [Docs -> Jobs \cup {NoJob}] /\ advisory' \in Jobs \cup {NoJob}
    BY <1>19 DEF DbError, Rollback, EndTransaction, Typed, TypeOK
  <2>3. pc[j] # "free"
    BY <1>19 DEF DbError, Processing, InTransaction
  <2>4. TypeOK'
    BY <1>19, <2>1, <2>2 DEF DbError, Rollback, Goto, Places, Delivered, Section, Processing,
                     Typed, TypeOK
  <2>5. JobsNamed'
    BY <1>19, <2>3 DEF DbError, Goto, Typed, TypeOK, JobsNamed
  <2> QED
    BY <2>4, <2>5 DEF Typed
<1>20. ASSUME NEW j \in Jobs, Timeout(j) PROVE Typed'
  <2>1. tx' \in [Jobs -> Txs]
    BY <1>20, NoTxTyped DEF Timeout, Rollback, EndTransaction, Typed, TypeOK
  <2>2. rowLock' \in [Docs -> Jobs \cup {NoJob}] /\ advisory' \in Jobs \cup {NoJob}
    BY <1>20 DEF Timeout, Rollback, EndTransaction, Typed, TypeOK
  <2>3. pc[j] # "free"
    BY <1>20 DEF Timeout, Processing, InTransaction
  <2>4. TypeOK'
    BY <1>20, <2>1, <2>2 DEF Timeout, Rollback, Goto, Places, Delivered, Section, Processing,
                     Typed, TypeOK
  <2>5. JobsNamed'
    BY <1>20, <2>3 DEF Timeout, Goto, Typed, TypeOK, JobsNamed
  <2> QED
    BY <2>4, <2>5 DEF Typed
<1>21. ASSUME NEW j \in Jobs, MarkCancelled(j) PROVE Typed'
  BY <1>21 DEF Typed, TypeOK, JobsNamed, MarkCancelled, Goto, Statuses, Places, Delivered,
       Section, Processing, InTransaction
<1>22. ASSUME NEW j \in Jobs, Unwind(j) PROVE Typed'
  <2>1. lease' \in Leases
    BY <1>22 DEF Unwind, ReleaseLease, Leases, Free, Typed, TypeOK
  <2>2. TypeOK'
    BY <1>22, <2>1 DEF Unwind, Forget, Places, Typed, TypeOK
  <2>3. JobsNamed'
    BY <1>22 DEF Unwind, Forget, Typed, TypeOK, JobsNamed
  <2> QED
    BY <2>2, <2>3 DEF Typed
<1>23. ASSUME Shutdown PROVE Typed'
  <2>1. lease' \in Leases
    BY <1>23 DEF Shutdown, Typed, TypeOK, Leases, Free
  <2>2. tx' \in [Jobs -> Txs]
    BY <1>23, NoTxTyped DEF Shutdown, StopRuns
  <2>3. pc' \in [Jobs -> Places]
    BY <1>23 DEF Shutdown, StopRuns, Typed, TypeOK, Places
  <2>4. TypeOK'
    BY <1>23, <2>1, <2>2, <2>3 DEF Shutdown, StopRuns, Typed, TypeOK
  <2>5. JobsNamed'
    <3>1. /\ \A i \in Jobs : pc[i] = "free" <=> pc'[i] = "free"
          /\ jobDoc' = jobDoc /\ req' = req
      BY <1>23 DEF Shutdown, StopRuns, Delivered, Section, Processing, InTransaction
    <3>2. \A c \in Clients : req[c].job # NoJob => req[c].job \in Jobs
      BY DEF Typed, TypeOK, Requests
    <3> QED
      BY <3>1, <3>2 DEF Typed, JobsNamed
  <2> QED
    BY <2>4, <2>5 DEF Typed
<1>24. ASSUME Crash PROVE Typed'
  <2>1. lease' \in Leases
    BY <1>24 DEF Crash, Typed, TypeOK, Leases, Free
  <2>2. tx' \in [Jobs -> Txs]
    BY <1>24, NoTxTyped DEF Crash, StopRuns
  <2>3. pc' \in [Jobs -> Places]
    BY <1>24 DEF Crash, StopRuns, Typed, TypeOK, Places
  <2>4. TypeOK'
    BY <1>24, <2>1, <2>2, <2>3 DEF Crash, StopRuns, Typed, TypeOK
  <2>5. JobsNamed'
    <3>1. /\ \A i \in Jobs : pc[i] = "free" <=> pc'[i] = "free"
          /\ jobDoc' = jobDoc /\ req' = req
      BY <1>24 DEF Crash, StopRuns, Delivered, Section, Processing, InTransaction
    <3>2. \A c \in Clients : req[c].job # NoJob => req[c].job \in Jobs
      BY DEF Typed, TypeOK, Requests
    <3> QED
      BY <3>1, <3>2 DEF Typed, JobsNamed
  <2> QED
    BY <2>4, <2>5 DEF Typed
<1>25. ASSUME LeaseExpires PROVE Typed'
  BY <1>25 DEF Typed, TypeOK, JobsNamed, LeaseExpires, Leases, Free
<1>26. ASSUME NEW k \in Jobs, CancelKeyExpires(k) PROVE Typed'
  BY <1>26 DEF Typed, TypeOK, JobsNamed, CancelKeyExpires
<1>27. ASSUME NEW c \in Clients, CommitCancel(c) PROVE Typed'
  BY <1>27 DEF Typed, TypeOK, JobsNamed, CommitCancel, Assigned, Idle, Requests, Ops, Statuses
<1>28. ASSUME NEW c \in Clients, CommitRerun(c) PROVE Typed'
  <2>1. PICK j \in IF req[c].op = "reprocess" THEN {NoJob} ELSE FreshJobs :
          /\ arqJob' = [arqJob EXCEPT ![req[c].doc] = IF j = NoJob THEN @ ELSE j]
          /\ req' = [req EXCEPT ![c].op = "enqueue", ![c].job = j]
    BY <1>28 DEF CommitRerun
  <2>2. /\ j \in Jobs \cup {NoJob}
        /\ j # NoJob => pc[j] = "free" /\ \A b \in Clients : req[b].job # j
    BY <2>1 DEF FreshJobs, Unreferenced
  <2>3. req' \in [Clients -> Requests]
    <3>1. req[c] \in Requests
      BY DEF Typed, TypeOK
    <3> QED
      BY <2>1, <2>2, <3>1 DEF Typed, TypeOK, Requests, Ops
  <2>4. status' \in [Docs -> Statuses]
    <3>1. \A s \in Statuses : Assigned(req[c].seen, "pending", s) \in Statuses
      BY DEF Assigned, Statuses
    <3>2. req[c].doc \in Docs
      BY <1>28 DEF Typed, JobsNamed, CommitRerun
    <3> QED
      BY <1>28, <3>1, <3>2 DEF Typed, TypeOK, CommitRerun
  <2>5. arqJob' \in [Docs -> Jobs \cup {NoJob}]
    BY <2>1, <2>2 DEF Typed, TypeOK
  <2>6. TypeOK'
    BY <1>28, <2>3, <2>4, <2>5 DEF Typed, TypeOK, CommitRerun
  <2>7. JobsNamed'
    <3>1. /\ \A b \in Clients : b # c => req'[b] = req[b]
          /\ req'[c].job = j /\ req'[c].doc = req[c].doc /\ req[c].op # "idle"
      BY <1>28, <2>1 DEF Typed, TypeOK, CommitRerun, Requests
    <3> QED
      BY <1>28, <2>2, <3>1 DEF Typed, TypeOK, Requests, JobsNamed, CommitRerun
  <2> QED
    BY <2>6, <2>7 DEF Typed
<1>29. ASSUME NEW c \in Clients, SendJob(c) PROVE Typed'
  BY <1>29 DEF Typed, TypeOK, JobsNamed, SendJob, Enqueue, FreshJobs, Unreferenced, Idle,
       Requests, Ops, Statuses, Places, Delivered, Section, Processing, InTransaction
<1>30. ASSUME NEW c \in Clients, SendFails(c) PROVE Typed'
  BY <1>30 DEF Typed, TypeOK, JobsNamed, SendFails, Idle, Requests, Ops, Statuses
<1>31. ASSUME NEW c \in Clients, NEW d \in Docs, Upload(c, d) PROVE Typed'
  BY <1>31 DEF Typed, TypeOK, JobsNamed, Upload, FreshJobs, Unreferenced, Idle, Requests, Ops,
       Statuses
<1>32. ASSUME NEW c \in Clients, NEW d \in Docs, AskCancel(c, d) PROVE Typed'
  BY <1>32 DEF Typed, TypeOK, JobsNamed, AskCancel, Ask, Idle, Requests, Ops
<1>33. ASSUME NEW c \in Clients, NEW d \in Docs, AskRetry(c, d) PROVE Typed'
  BY <1>33 DEF Typed, TypeOK, JobsNamed, AskRetry, Ask, Idle, Requests, Ops
<1>34. ASSUME NEW c \in Clients, NEW d \in Docs, AskReprocess(c, d) PROVE Typed'
  BY <1>34 DEF Typed, TypeOK, JobsNamed, AskReprocess, Ask, Idle, Requests, Ops
<1>35. ASSUME NEW c \in Clients, NEW d \in Docs, AskRestore(c, d) PROVE Typed'
  BY <1>35 DEF Typed, TypeOK, JobsNamed, AskRestore, Ask, Idle, Requests, Ops
<1>36. CASE UNCHANGED vars
  BY <1>36 DEF vars, Typed, TypeOK, JobsNamed
<1> QED
  BY <1>1, <1>2, <1>3, <1>4, <1>5, <1>6, <1>7, <1>8, <1>9, <1>10, <1>11, <1>12, <1>13, <1>14,
     <1>15, <1>16, <1>17, <1>18, <1>19, <1>20, <1>21, <1>22, <1>23, <1>24, <1>25, <1>26, <1>27,
     <1>28, <1>29, <1>30, <1>31, <1>32, <1>33, <1>34, <1>35, <1>36 DEF Next, Queue, Run, Break,
     Environment, Endpoint, User

LEMMA TypedInit == Init => Typed
  BY ConstantsAssumption DEF Init, Typed, TypeOK, JobsNamed, Statuses, Leases, Free, Places, Txs,
     NoTx, Requests, Ops, Idle

LEMMA TypedAlways == Spec => []Typed
  BY TypedInit, TypedNext, PTL DEF Spec

\* The type invariant holds for every number of documents, jobs and clients.
THEOREM TypeCorrect == Spec => []TypeOK
<1>1. Typed => TypeOK
  BY DEF Typed
<1> QED
  BY <1>1, TypedAlways, PTL

-----------------------------------------------------------------------------
(* Versions.  The run that holds the advisory lock is the only one between *)
(* LoadState and its commit, so what it has read stays true.               *)

\* StagedVersions and NoStaleBase for one run.
Consistent(j) ==
  /\ pc[j] \in Advised =>
        /\ advisory = j
        /\ tx[j].base = Len(rows)
        /\ IF tx[j].existing = 0 THEN Rows(jobDoc[j]) = {}
                                 ELSE tx[j].existing \in Rows(jobDoc[j])
  /\ pc[j] \in {"changelog", "git", "enrich", "finish"} =>
        tx[j].version = IF tx[j].existing # 0 THEN tx[j].existing ELSE tx[j].base + 1
  /\ pc[j] \notin {"changelog", "git", "enrich", "finish"} => tx[j].version = 0
  /\ pc[j] \in {"git", "enrich", "finish"} => tx[j].logged

LEMMA ConsistentRuns == StagedVersions /\ NoStaleBase <=> \A j \in Jobs : Consistent(j)
  BY DEF StagedVersions, NoStaleBase, Consistent

\* A step that leaves the rows alone, and that every run survives as it is or
\* leaves without a transaction, keeps the runs consistent.
LEMMA QuietStep ==
  ASSUME \A j \in Jobs : Consistent(j),
         UNCHANGED rows,
         \A j \in Jobs : \/ /\ pc'[j] \notin Advised
                            /\ tx'[j].version = 0
                         \/ /\ pc'[j] = pc[j] /\ tx'[j] = tx[j] /\ jobDoc'[j] = jobDoc[j]
                            /\ advisory = j => advisory' = j
  PROVE  (\A j \in Jobs : Consistent(j))'
<1> SUFFICES ASSUME NEW j \in Jobs PROVE Consistent(j)'
  OBVIOUS
<1>1. CASE pc'[j] \notin Advised /\ tx'[j].version = 0
  BY <1>1 DEF Consistent, Advised
<1>2. CASE /\ pc'[j] = pc[j] /\ tx'[j] = tx[j] /\ jobDoc'[j] = jobDoc[j]
           /\ advisory = j => advisory' = j
  <2>1. Rows(jobDoc[j])' = Rows(jobDoc[j])
    BY <1>2 DEF Rows
  <2> QED
    BY <1>2, <2>1 DEF Consistent
<1> QED
  BY <1>1, <1>2

\* A run outside the steps 5 to 9 has staged no version.
LEMMA NothingStaged ==
  ASSUME NEW j \in Jobs, Consistent(j), pc[j] \notin {"changelog", "git", "enrich", "finish"}
  PROVE  tx[j].version = 0
  BY DEF Consistent

\* The steps of a run that end with its transaction, and those of the queue and
\* of the endpoints.
LEMMA QuietActions ==
  ASSUME Typed, \A j \in Jobs : Consistent(j),
         \/ \E j \in Jobs : \/ Queue(j) \/ LoseJob(j) \/ Load(j) \/ Start(j) \/ Parse(j)
                            \/ (\E a \in Attachments : Attach(j, a))
                            \/ ObserveCancel(j) \/ MarkCancelled(j) \/ Unwind(j)
                            \/ DbError(j) \/ Timeout(j)
         \/ Environment
         \/ \E c \in Clients : Endpoint(c) \/ User(c)
         \/ UNCHANGED vars
  PROVE  (\A j \in Jobs : Consistent(j))' /\ UNCHANGED <<rows, changelog>>
<1> USE DEF rowVars, stateVars, redisVars, jobVars, clientVars
<1> DEFINE Quiet == /\ UNCHANGED <<rows, changelog>>
                    /\ \A i \in Jobs :
                         \/ pc'[i] \notin Advised /\ tx'[i].version = 0
                         \/ /\ pc'[i] = pc[i] /\ tx'[i] = tx[i] /\ jobDoc'[i] = jobDoc[i]
                            /\ advisory = i => advisory' = i
<1>1. ASSUME NEW j \in Jobs, Deliver(j) PROVE Quiet
  BY <1>1, NothingStaged DEF Deliver, Goto, Advised, Typed, TypeOK
<1>2. ASSUME NEW j \in Jobs, Acquire(j) PROVE Quiet
  BY <1>2, NothingStaged DEF Acquire, Goto, Advised, Typed, TypeOK
<1>3. ASSUME NEW j \in Jobs, MarkCancelled(j) PROVE Quiet
  BY <1>3, NothingStaged DEF MarkCancelled, Goto, Advised, Typed, TypeOK
<1>4. ASSUME NEW j \in Jobs, Parse(j) PROVE Quiet
  BY <1>4, NothingStaged DEF Parse, Goto, Advised, Typed, TypeOK, LockRow
<1>5. ASSUME NEW j \in Jobs, GiveUp(j) PROVE Quiet
  BY <1>5, NothingStaged DEF GiveUp, Forget, Advised, Typed, TypeOK
<1>6. ASSUME NEW j \in Jobs, LoseJob(j) PROVE Quiet
  BY <1>6, NothingStaged DEF LoseJob, Forget, Advised, Typed, TypeOK
<1>7. ASSUME NEW j \in Jobs, Unwind(j) PROVE Quiet
  BY <1>7, NothingStaged DEF Unwind, Forget, Advised, Typed, TypeOK
<1>8. ASSUME NEW j \in Jobs, Load(j) PROVE Quiet
  <2>1. tx'[j].version = tx[j].version
    BY <1>8 DEF Load, Typed, TypeOK, Txs
  <2> QED
    BY <1>8, <2>1, NothingStaged DEF Load, Goto, Advised, Typed, TypeOK
<1>9. ASSUME NEW j \in Jobs, Start(j) PROVE Quiet
  BY <1>9 DEF Start, Goto, NoTx, Advised, Typed, TypeOK
<1>10. ASSUME NEW j \in Jobs, ObserveCancel(j) PROVE Quiet
  BY <1>10 DEF ObserveCancel, Rollback, EndTransaction, Goto, NoTx, Advised, Typed, TypeOK
<1>11. ASSUME NEW j \in Jobs, DbError(j) PROVE Quiet
  BY <1>11 DEF DbError, Rollback, EndTransaction, Goto, NoTx, Advised, Typed, TypeOK
<1>12. ASSUME NEW j \in Jobs, Timeout(j) PROVE Quiet
  BY <1>12 DEF Timeout, Rollback, EndTransaction, Goto, NoTx, Advised, Typed, TypeOK
<1>13. ASSUME NEW j \in Jobs, Requeue(j) PROVE Quiet
  <2>1. PICK k \in FreshJobs \cup (IF Unreferenced(j) THEN {j} ELSE {}) :
          /\ pc' = [pc EXCEPT ![j] = "free", ![k] = "queued"]
          /\ jobDoc' = [jobDoc EXCEPT ![j] = NoDoc, ![k] = jobDoc[j]]
    BY <1>13 DEF Requeue
  <2>2. k \in Jobs /\ pc[k] \in {"free", "lock"} /\ pc[j] = "lock"
    BY <1>13, <2>1 DEF FreshJobs, Requeue
  <2>3. tx[j].version = 0 /\ tx[k].version = 0
    BY <2>2, NothingStaged
  <2>4. pc'[j] \notin Advised /\ pc'[k] \notin Advised
    BY <2>1, <2>2 DEF Advised, Typed, TypeOK
  <2>5. \A i \in Jobs : i # j /\ i # k => pc'[i] = pc[i] /\ jobDoc'[i] = jobDoc[i]
    BY <2>1, <2>2 DEF Typed, TypeOK
  <2> QED
    BY <1>13, <2>3, <2>4, <2>5 DEF Requeue
<1>14. ASSUME NEW j \in Jobs, NEW a \in Attachments, Attach(j, a) PROVE Quiet
  <2>1. CASE UNCHANGED <<pc, jobDoc>>
    BY <1>14, <2>1 DEF Attach
  <2>2. CASE \E k \in FreshJobs : Enqueue(k, a)
    <3>1. PICK k \in FreshJobs : Enqueue(k, a)
      BY <2>2
    <3>2. k \in Jobs /\ tx[k].version = 0
      BY <3>1, NothingStaged DEF FreshJobs
    <3> QED
      BY <1>14, <3>1, <3>2 DEF Attach, Enqueue, Advised, Typed, TypeOK
  <2> QED
    BY <1>14, <2>1, <2>2 DEF Attach
<1>15. ASSUME NEW c \in Clients, SendJob(c) PROVE Quiet
  <2>1. PICK k \in (IF req[c].job # NoJob THEN {req[c].job} ELSE FreshJobs) : Enqueue(k, req[c].doc)
    BY <1>15 DEF SendJob
  <2>2. k \in Jobs /\ pc[k] = "free"
    BY <2>1 DEF FreshJobs, Typed, TypeOK, Requests, JobsNamed
  <2>3. tx[k].version = 0
    BY <2>2, NothingStaged
  <2> QED
    BY <1>15, <2>1, <2>2, <2>3 DEF SendJob, Enqueue, Advised, Typed, TypeOK
<1>16. ASSUME Shutdown PROVE Quiet
  BY <1>16 DEF Shutdown, StopRuns, NoTx, Advised, Delivered, Section, Processing, InTransaction
<1>17. ASSUME Crash PROVE Quiet
  BY <1>17 DEF Crash, StopRuns, NoTx, Advised, Delivered, Section, Processing, InTransaction
<1>18. ASSUME LeaseExpires PROVE Quiet
  BY <1>18 DEF LeaseExpires
<1>19. ASSUME NEW k \in Jobs, CancelKeyExpires(k) PROVE Quiet
  BY <1>19 DEF CancelKeyExpires
<1>20. ASSUME NEW c \in Clients, CommitCancel(c) PROVE Quiet
  BY <1>20 DEF CommitCancel
<1>21. ASSUME NEW c \in Clients, CommitRerun(c) PROVE Quiet
  BY <1>21 DEF CommitRerun
<1>22. ASSUME NEW c \in Clients, SendFails(c) PROVE Quiet
  BY <1>22 DEF SendFails
<1>23. ASSUME NEW c \in Clients, NEW d \in Docs, Upload(c, d) PROVE Quiet
  BY <1>23 DEF Upload
<1>24. ASSUME NEW c \in Clients, NEW d \in Docs, AskCancel(c, d) PROVE Quiet
  BY <1>24 DEF AskCancel
<1>25. ASSUME NEW c \in Clients, NEW d \in Docs, AskRetry(c, d) PROVE Quiet
  BY <1>25 DEF AskRetry
<1>26. ASSUME NEW c \in Clients, NEW d \in Docs, AskReprocess(c, d) PROVE Quiet
  BY <1>26 DEF AskReprocess
<1>27. ASSUME NEW c \in Clients, NEW d \in Docs, AskRestore(c, d) PROVE Quiet
  BY <1>27 DEF AskRestore
<1>28. ASSUME UNCHANGED vars PROVE Quiet
  BY <1>28 DEF vars
<1>29. Quiet
  BY <1>1, <1>2, <1>3, <1>4, <1>5, <1>6, <1>7, <1>8, <1>9, <1>10, <1>11, <1>12, <1>13, <1>14,
     <1>15, <1>16, <1>17, <1>18, <1>19, <1>20, <1>21, <1>22, <1>23, <1>24, <1>25, <1>26, <1>27,
     <1>28 DEF Queue, Environment, Endpoint, User
<1> QED
  BY <1>29, QuietStep

\* A step of one run under the advisory lock.
LEMMA OwnStep ==
  ASSUME NEW j \in Jobs, \A i \in Jobs : Consistent(i),
         UNCHANGED <<rows, jobDoc>>,
         \A i \in Jobs \ {j} : pc'[i] = pc[i] /\ tx'[i] = tx[i],
         advisory \in {NoJob, j}, NoJob \notin Jobs, Consistent(j)'
  PROVE  (\A i \in Jobs : Consistent(i))'
<1> SUFFICES ASSUME NEW i \in Jobs, i # j PROVE Consistent(i)'
  OBVIOUS
<1>1. pc[i] \notin Advised
  BY DEF Consistent
<1> QED
  BY <1>1 DEF Consistent, Advised

\* Steps 3 to 8 keep the run that takes them consistent.
LEMMA OwnActions ==
  ASSUME Typed, \A i \in Jobs : Consistent(i), NEW j \in Jobs,
         LoadState(j) \/ Merge(j) \/ Persist(j) \/ Changelog(j) \/ GitCommit(j) \/ Enrich(j)
  PROVE  (\A i \in Jobs : Consistent(i))' /\ UNCHANGED <<rows, changelog>>
<1> USE ConstantsAssumption DEF rowVars, stateVars, redisVars, jobVars, clientVars
<1>1. tx[j] \in Txs /\ rows \in Seq(Docs)
  BY DEF Typed, TypeOK
<1>2. UNCHANGED <<rows, changelog, jobDoc>> /\ Rows(jobDoc[j])' = Rows(jobDoc[j])
  BY DEF LoadState, Merge, Persist, Changelog, GitCommit, Enrich, Rows
<1>3. \A i \in Jobs \ {j} : pc'[i] = pc[i] /\ tx'[i] = tx[i]
  BY DEF LoadState, Merge, Persist, Changelog, GitCommit, Enrich, Goto, Typed, TypeOK
<1>4. ASSUME LoadState(j) PROVE advisory = NoJob /\ Consistent(j)'
  <2>1. PICK v \in (IF Rows(jobDoc[j]) = {} THEN {0} ELSE Rows(jobDoc[j])) :
             tx' = [tx EXCEPT ![j].base = Len(rows), ![j].existing = v]
    BY <1>4 DEF LoadState
  <2>2. tx'[j].base = Len(rows) /\ tx'[j].existing = v /\ tx'[j].version = tx[j].version
    BY <2>1, <1>1 DEF Typed, TypeOK, Txs
  <2>3. tx[j].version = 0
    BY <1>4, NothingStaged DEF LoadState
  <2>4. IF v = 0 THEN Rows(jobDoc[j]) = {} ELSE v \in Rows(jobDoc[j])
    BY <2>1, <1>1 DEF Rows
  <2>5. pc'[j] = "merge" /\ advisory = NoJob /\ advisory' = j
    BY <1>4 DEF LoadState, Goto, Typed, TypeOK
  <2> QED
    BY <1>2, <2>2, <2>3, <2>4, <2>5 DEF Consistent, Advised
<1>5. ASSUME Merge(j) PROVE advisory = j /\ Consistent(j)'
  <2>1. pc[j] = "merge" /\ pc'[j] = "persist" /\ UNCHANGED <<tx, advisory>>
    BY <1>5 DEF Merge, Goto, Typed, TypeOK
  <2> QED
    BY <1>2, <2>1 DEF Consistent, Advised
<1>6. ASSUME Persist(j) PROVE advisory = j /\ Consistent(j)'
  <2>1. pc[j] = "persist" /\ pc'[j] = "changelog" /\ UNCHANGED advisory
    BY <1>6 DEF Persist, Goto, Typed, TypeOK
  <2>2. /\ tx'[j].base = tx[j].base /\ tx'[j].existing = tx[j].existing
        /\ tx'[j].version = IF tx[j].existing # 0 THEN tx[j].existing ELSE tx[j].base + 1
    BY <1>6, <1>1 DEF Persist, Typed, TypeOK, Txs
  <2> QED
    BY <1>2, <2>1, <2>2 DEF Consistent, Advised
<1>7. ASSUME Changelog(j) PROVE advisory = j /\ Consistent(j)'
  <2>1. pc[j] = "changelog" /\ pc'[j] = "git" /\ UNCHANGED advisory
    BY <1>7 DEF Changelog, Goto, Typed, TypeOK
  <2>2. /\ tx'[j].base = tx[j].base /\ tx'[j].existing = tx[j].existing
        /\ tx'[j].version = tx[j].version /\ tx'[j].logged
    BY <1>7, <1>1 DEF Changelog, Typed, TypeOK, Txs
  <2> QED
    BY <1>2, <2>1, <2>2 DEF Consistent, Advised
<1>8. ASSUME GitCommit(j) PROVE advisory = j /\ Consistent(j)'
  <2>1. pc[j] = "git" /\ pc'[j] = "enrich" /\ UNCHANGED <<tx, advisory>>
    BY <1>8 DEF GitCommit, Goto, Typed, TypeOK
  <2> QED
    BY <1>2, <2>1 DEF Consistent, Advised
<1>9. ASSUME Enrich(j) PROVE advisory = j /\ Consistent(j)'
  <2>1. pc[j] = "enrich" /\ pc'[j] = "finish" /\ UNCHANGED advisory
    BY <1>9 DEF Enrich, Goto, Typed, TypeOK
  <2>2. /\ tx'[j].base = tx[j].base /\ tx'[j].existing = tx[j].existing
        /\ tx'[j].version = tx[j].version /\ tx'[j].logged = tx[j].logged
    BY <1>9, <1>1 DEF Enrich, Typed, TypeOK, Txs
  <2> QED
    BY <1>2, <2>1, <2>2 DEF Consistent, Advised
<1> QED
  BY <1>2, <1>3, <1>4, <1>5, <1>6, <1>7, <1>8, <1>9, OwnStep

\* The commit of a run: its version replaces the one its document already had
\* or is appended, and its changelog entry comes with it.
LEMMA CommitActions ==
  ASSUME Typed, \A i \in Jobs : Consistent(i), OneVersionPerDocument, VersionsExplained,
         NEW j \in Jobs, Finish(j) \/ Fail(j)
  PROVE  (\A i \in Jobs : Consistent(i))' /\ OneVersionPerDocument' /\ VersionsExplained'
<1> USE ConstantsAssumption
<1>1. /\ tx[j] \in Txs /\ rows \in Seq(Docs) /\ jobDoc[j] \in Docs
      /\ pc[j] \in {"finish", "git", "merge", "parse"} /\ CommitState(j)
      /\ pc' = [pc EXCEPT ![j] = "unwind"] /\ UNCHANGED jobDoc
  BY DEF Finish, Fail, CanRaise, Goto, Typed, TypeOK, JobsNamed
<1>2. /\ \A i \in Jobs \ {j} : pc'[i] = pc[i] /\ tx'[i] = tx[i]
      /\ pc'[j] = "unwind" /\ tx'[j].version = 0
      /\ \A i \in Jobs \ {j} : advisory = i => advisory' = i
  BY <1>1 DEF CommitState, EndTransaction, NoTx, Typed, TypeOK
<1>3. CASE tx[j].version = 0
  <2>1. UNCHANGED rows /\ changelog \subseteq changelog'
    BY <1>1, <1>3 DEF CommitState
  <2>2. (\A i \in Jobs : Consistent(i))'
    BY <1>1, <1>2, <2>1, QuietStep DEF Advised
  <2> QED
    BY <2>1, <2>2 DEF OneVersionPerDocument, VersionsExplained
<1>4. CASE tx[j].version # 0
  <2>1. /\ pc[j] \in {"git", "finish"} /\ advisory = j /\ tx[j].logged
        /\ tx[j].base = Len(rows)
        /\ IF tx[j].existing = 0 THEN Rows(jobDoc[j]) = {}
                                 ELSE tx[j].existing \in Rows(jobDoc[j])
        /\ tx[j].version = IF tx[j].existing # 0 THEN tx[j].existing ELSE tx[j].base + 1
    BY <1>1, <1>4 DEF Consistent, Advised
  <2>2. \A i \in Jobs \ {j} : pc[i] \notin Advised
    BY <2>1 DEF Consistent
  <2>3. (\A i \in Jobs : Consistent(i))'
    BY <1>2, <2>2 DEF Consistent, Advised
  <2>4. changelog' = changelog \cup {[doc |-> jobDoc[j], version |-> tx[j].version]}
    BY <1>1, <2>1 DEF CommitState
  <2>5. CASE tx[j].existing # 0
    <3>1. tx[j].version \in DOMAIN rows /\ rows[tx[j].version] = jobDoc[j]
      BY <2>1, <2>5 DEF Rows
    <3>2. tx[j].version <= Len(rows)
      BY <1>1, <3>1
    <3>3. rows' = [rows EXCEPT ![tx[j].version] = jobDoc[j]]
      BY <1>1, <1>4, <3>2 DEF CommitState
    <3>4. rows' = rows
      BY <1>1, <3>1, <3>3
    <3> QED
      BY <2>3, <2>4, <3>4 DEF OneVersionPerDocument, VersionsExplained
  <2>6. CASE tx[j].existing = 0
    <3>1. tx[j].version = Len(rows) + 1
      BY <2>1, <2>6
    <3>2. rows' = Append(rows, jobDoc[j])
      BY <1>1, <1>4, <3>1 DEF CommitState
    <3>3. \A v \in DOMAIN rows : rows[v] # jobDoc[j]
      BY <2>1, <2>6 DEF Rows
    <3>4. /\ DOMAIN rows' = DOMAIN rows \cup {Len(rows) + 1}
          /\ rows'[Len(rows) + 1] = jobDoc[j]
          /\ \A v \in DOMAIN rows : rows'[v] = rows[v]
      BY <1>1, <3>2
    <3>5. OneVersionPerDocument'
      BY <3>3, <3>4 DEF OneVersionPerDocument
    <3>6. VersionsExplained'
      BY <2>4, <3>1, <3>4 DEF VersionsExplained
    <3> QED
      BY <2>3, <3>5, <3>6
  <2> QED
    BY <2>5, <2>6
<1> QED
  BY <1>3, <1>4

LEMMA VersionInit == Init => VersionInv
<1> SUFFICES ASSUME Init PROVE VersionInv
  OBVIOUS
<1>1. Typed
  BY TypedInit
<1>2. StagedVersions /\ NoStaleBase
  BY DEF Init, StagedVersions, NoStaleBase, Advised, NoTx
<1>3. OneVersionPerDocument /\ VersionsExplained
  BY DEF Init, OneVersionPerDocument, VersionsExplained
<1> QED
  BY <1>1, <1>2, <1>3 DEF VersionInv, Typed

LEMMA VersionNext == VersionInv /\ [Next]_vars => VersionInv'
<1> SUFFICES ASSUME VersionInv, [Next]_vars PROVE VersionInv'
  OBVIOUS
<1>1. Typed /\ Typed'
  BY TypedNext DEF VersionInv, Typed
<1>2. \A j \in Jobs : Consistent(j)
  BY ConsistentRuns DEF VersionInv
<1>3. SUFFICES (\A j \in Jobs : Consistent(j))' /\ OneVersionPerDocument' /\ VersionsExplained'
  <2>1. (\A j \in Jobs : Consistent(j))' => (StagedVersions /\ NoStaleBase)'
    BY DEF StagedVersions, NoStaleBase, Consistent
  <2> QED
    BY <1>1, <2>1 DEF VersionInv, Typed
<1>4. ASSUME UNCHANGED <<rows, changelog>>
      PROVE  OneVersionPerDocument' /\ VersionsExplained'
  BY <1>4 DEF VersionInv, OneVersionPerDocument, VersionsExplained
<1>5. CASE \E j \in Jobs : \/ LoadState(j) \/ Merge(j) \/ Persist(j) \/ Changelog(j)
                           \/ GitCommit(j) \/ Enrich(j)
  BY <1>1, <1>2, <1>4, <1>5, OwnActions
<1>6. CASE \E j \in Jobs : Finish(j) \/ Fail(j)
  BY <1>1, <1>2, <1>6, CommitActions DEF VersionInv
<1>7. CASE ~ \E j \in Jobs : \/ LoadState(j) \/ Merge(j) \/ Persist(j) \/ Changelog(j)
                             \/ GitCommit(j) \/ Enrich(j) \/ Finish(j) \/ Fail(j)
  <2>1. \/ \E j \in Jobs : \/ Queue(j) \/ LoseJob(j) \/ Load(j) \/ Start(j) \/ Parse(j)
                           \/ (\E a \in Attachments : Attach(j, a))
                           \/ ObserveCancel(j) \/ MarkCancelled(j) \/ Unwind(j)
                           \/ DbError(j) \/ Timeout(j)
        \/ Environment
        \/ \E c \in Clients : Endpoint(c) \/ User(c)
        \/ UNCHANGED vars
    BY <1>7 DEF Next, Run, Break
  <2> QED
    BY <1>1, <1>2, <1>4, <2>1, QuietActions
<1> QED
  BY <1>5, <1>6, <1>7

LEMMA VersionAlways == Spec => []VersionInv
  BY VersionInit, VersionNext, PTL DEF Spec

\* pipeline.py:704-725: what a run read under the advisory lock is still true when
\* it commits, whatever leases lapse, workers crash and requests arrive.
THEOREM BaseNeverStale == Spec => []NoStaleBase
<1>1. VersionInv => NoStaleBase
  BY DEF VersionInv
<1> QED
  BY <1>1, VersionAlways, PTL

\* pipeline.py:824-849: no document ever triggers two versions.
THEOREM OneVersion == Spec => []OneVersionPerDocument
<1>1. VersionInv => OneVersionPerDocument
  BY DEF VersionInv
<1> QED
  BY <1>1, VersionAlways, PTL

\* pipeline.py:884-897: every version has its changelog entry.
THEOREM AllVersionsExplained == Spec => []VersionsExplained
<1>1. VersionInv => VersionsExplained
  BY DEF VersionInv
<1> QED
  BY <1>1, VersionAlways, PTL

-----------------------------------------------------------------------------
(* The project lease.  As long as it does not lapse under a live run, it   *)
(* names the one run of the project.                                       *)

\* The owner uuid of a run tells it from every other run.
LEMMA OwnersDiffer ==
  /\ \A i, j \in Jobs : Owner(i) = Owner(j) => i = j
  /\ \A j \in Jobs : Owner(j) # Free
  BY ConstantsAssumption DEF Owner, Free

\* A step that keeps the lease and lets no run into the section.
LEMMA LeaseKept ==
  ASSUME LeaseHeld, UNCHANGED lease,
         \A i \in Jobs : pc'[i] \in Section => pc[i] \in Section /\ tries'[i] = tries[i]
  PROVE  LeaseHeld'
  BY DEF LeaseHeld, Owner

LEMMA LeaseNext ==
  ASSUME "lapse" \notin Faults, Typed, LeaseHeld, [Next]_vars
  PROVE  LeaseHeld'
<1> USE ConstantsAssumption DEF rowVars, stateVars, redisVars, jobVars, clientVars
<1> DEFINE Kept == /\ UNCHANGED lease
                   /\ \A i \in Jobs : pc'[i] \in Section =>
                         pc[i] \in Section /\ tries'[i] = tries[i]
<1>1. ASSUME NEW j \in Jobs, Acquire(j) PROVE LeaseHeld'
  <2>1. \A i \in Jobs : pc[i] \notin Section
    BY <1>1, OwnersDiffer DEF Acquire, LeaseHeld
  <2>2. \A i \in Jobs \ {j} : pc'[i] \notin Section
    BY <1>1, <2>1 DEF Acquire, Goto, Typed, TypeOK
  <2>3. lease' = Owner(j)'
    BY <1>1 DEF Acquire, Owner
  <2> QED
    BY <2>2, <2>3 DEF LeaseHeld
<1>2. ASSUME NEW j \in Jobs, Unwind(j) PROVE LeaseHeld'
  <2>1. pc[j] \in Section
    BY <1>2 DEF Unwind, Section
  <2>2. \A i \in Jobs \ {j} : pc[i] \notin Section
    BY <2>1, OwnersDiffer DEF LeaseHeld
  <2>3. \A i \in Jobs : pc'[i] \notin Section
    BY <1>2, <2>2 DEF Unwind, Forget, Section, Processing, InTransaction, Typed, TypeOK
  <2> QED
    BY <2>3 DEF LeaseHeld
<1>3. ASSUME LeaseExpires PROVE LeaseHeld'
  <2>1. \A i \in Jobs : pc[i] \notin Section
    BY <1>3 DEF LeaseExpires, OwnerLive, LeaseHeld, Owner
  <2> QED
    BY <1>3, <2>1 DEF LeaseExpires, LeaseHeld
<1>4. ASSUME Shutdown \/ Crash PROVE LeaseHeld'
  <2>1. \A i \in Jobs : pc'[i] \notin Section
    BY <1>4 DEF Shutdown, Crash, StopRuns, Delivered, Section, Processing, InTransaction
  <2> QED
    BY <2>1 DEF LeaseHeld
<1>5. ASSUME NEW j \in Jobs, Deliver(j) PROVE Kept
  BY <1>5 DEF Deliver, Goto, Section, Processing, InTransaction, Typed, TypeOK
<1>6. ASSUME NEW j \in Jobs, Load(j) PROVE Kept
  BY <1>6 DEF Load, Goto, Section, Processing, InTransaction, Typed, TypeOK
<1>7. ASSUME NEW j \in Jobs, Start(j) PROVE Kept
  BY <1>7 DEF Start, Goto, Section, Processing, InTransaction, Typed, TypeOK
<1>8. ASSUME NEW j \in Jobs, Parse(j) PROVE Kept
  BY <1>8 DEF Parse, Goto, Section, Processing, InTransaction, Typed, TypeOK
<1>9. ASSUME NEW j \in Jobs, LoadState(j) PROVE Kept
  BY <1>9 DEF LoadState, Goto, Section, Processing, InTransaction, Typed, TypeOK
<1>10. ASSUME NEW j \in Jobs, Merge(j) PROVE Kept
  BY <1>10 DEF Merge, Goto, Section, Processing, InTransaction, Typed, TypeOK
<1>11. ASSUME NEW j \in Jobs, Persist(j) PROVE Kept
  BY <1>11 DEF Persist, Goto, Section, Processing, InTransaction, Typed, TypeOK
<1>12. ASSUME NEW j \in Jobs, Changelog(j) PROVE Kept
  BY <1>12 DEF Changelog, Goto, Section, Processing, InTransaction, Typed, TypeOK
<1>13. ASSUME NEW j \in Jobs, GitCommit(j) PROVE Kept
  BY <1>13 DEF GitCommit, Goto, Section, Processing, InTransaction, Typed, TypeOK
<1>14. ASSUME NEW j \in Jobs, Enrich(j) PROVE Kept
  BY <1>14 DEF Enrich, Goto, Section, Processing, InTransaction, Typed, TypeOK
<1>15. ASSUME NEW j \in Jobs, Finish(j) PROVE Kept
  BY <1>15 DEF Finish, Goto, Section, Processing, InTransaction, Typed, TypeOK
<1>16. ASSUME NEW j \in Jobs, MarkCancelled(j) PROVE Kept
  BY <1>16 DEF MarkCancelled, Goto, Section, Processing, InTransaction, Typed, TypeOK
<1>17. ASSUME NEW j \in Jobs, ObserveCancel(j) PROVE Kept
  BY <1>17 DEF ObserveCancel, Checkpoints, Goto, Section, Processing, InTransaction, Typed, TypeOK
<1>18. ASSUME NEW j \in Jobs, Fail(j) PROVE Kept
  BY <1>18 DEF Fail, CanRaise, Goto, Section, Processing, InTransaction, Typed, TypeOK
<1>19. ASSUME NEW j \in Jobs, DbError(j) PROVE Kept
  BY <1>19 DEF DbError, Goto, Section, Processing, InTransaction, Typed, TypeOK
<1>20. ASSUME NEW j \in Jobs, Timeout(j) PROVE Kept
  BY <1>20 DEF Timeout, Goto, Section, Processing, InTransaction, Typed, TypeOK
<1>21. ASSUME NEW j \in Jobs, GiveUp(j) PROVE Kept
  BY <1>21 DEF GiveUp, Forget, Section, Processing, InTransaction, Typed, TypeOK
<1>22. ASSUME NEW j \in Jobs, LoseJob(j) PROVE Kept
  BY <1>22 DEF LoseJob, Forget, Section, Processing, InTransaction, Typed, TypeOK
<1>23. ASSUME NEW j \in Jobs, Requeue(j) PROVE Kept
  <2>1. PICK k \in FreshJobs \cup (IF Unreferenced(j) THEN {j} ELSE {}) :
          /\ pc' = [pc EXCEPT ![j] = "free", ![k] = "queued"]
          /\ tries' = [tries EXCEPT ![j] = 0]
    BY <1>23 DEF Requeue
  <2>2. k \in Jobs /\ pc'[j] \notin Section /\ pc'[k] \notin Section
    BY <2>1 DEF FreshJobs, Section, Processing, InTransaction, Typed, TypeOK
  <2>3. \A i \in Jobs : i # j /\ i # k => pc'[i] = pc[i] /\ tries'[i] = tries[i]
    BY <2>1, <2>2 DEF Typed, TypeOK
  <2> QED
    BY <1>23, <2>2, <2>3 DEF Requeue
<1>24. ASSUME NEW j \in Jobs, NEW a \in Attachments, Attach(j, a) PROVE Kept
  <2>1. \A i \in Jobs : pc'[i] = pc[i] \/ pc'[i] = "queued"
    BY <1>24 DEF Attach, Enqueue, FreshJobs, Typed, TypeOK
  <2> QED
    BY <1>24, <2>1 DEF Attach, Section, Processing, InTransaction
<1>25. ASSUME NEW c \in Clients, SendJob(c) PROVE Kept
  <2>1. \A i \in Jobs : pc'[i] = pc[i] \/ pc'[i] = "queued"
    BY <1>25 DEF SendJob, Enqueue, Typed, TypeOK
  <2> QED
    BY <1>25, <2>1 DEF SendJob, Section, Processing, InTransaction
<1>26. ASSUME NEW k \in Jobs, CancelKeyExpires(k) PROVE Kept
  BY <1>26 DEF CancelKeyExpires
<1>27. ASSUME NEW c \in Clients, CommitCancel(c) PROVE Kept
  BY <1>27 DEF CommitCancel
<1>28. ASSUME NEW c \in Clients, CommitRerun(c) PROVE Kept
  BY <1>28 DEF CommitRerun
<1>29. ASSUME NEW c \in Clients, SendFails(c) PROVE Kept
  BY <1>29 DEF SendFails
<1>30. ASSUME NEW c \in Clients, NEW d \in Docs, Upload(c, d) PROVE Kept
  BY <1>30 DEF Upload
<1>31. ASSUME NEW c \in Clients, NEW d \in Docs, AskCancel(c, d) PROVE Kept
  BY <1>31 DEF AskCancel
<1>32. ASSUME NEW c \in Clients, NEW d \in Docs, AskRetry(c, d) PROVE Kept
  BY <1>32 DEF AskRetry
<1>33. ASSUME NEW c \in Clients, NEW d \in Docs, AskReprocess(c, d) PROVE Kept
  BY <1>33 DEF AskReprocess
<1>34. ASSUME NEW c \in Clients, NEW d \in Docs, AskRestore(c, d) PROVE Kept
  BY <1>34 DEF AskRestore
<1>35. ASSUME UNCHANGED vars PROVE Kept
  BY <1>35 DEF vars
<1> QED
  BY <1>1, <1>2, <1>3, <1>4, <1>5, <1>6, <1>7, <1>8, <1>9, <1>10, <1>11, <1>12, <1>13, <1>14,
     <1>15, <1>16, <1>17, <1>18, <1>19, <1>20, <1>21, <1>22, <1>23, <1>24, <1>25, <1>26, <1>27,
     <1>28, <1>29, <1>30, <1>31, <1>32, <1>33, <1>34, <1>35, LeaseKept DEF Next, Queue, Run,
     Break, Environment, Endpoint, User

\* pipeline.py:4-6: whatever crashes, redeliveries and requeueings come before,
\* at most one run of a project is in progress while leases do not lapse under
\* a live run.
THEOREM RunsAreSerial ==
  ASSUME "lapse" \notin Faults
  PROVE  Spec => []SerialRuns
<1>1. Init => LeaseHeld
  BY DEF Init, LeaseHeld, Section, Processing, InTransaction
<1>2. Typed /\ LeaseHeld /\ [Next]_vars => LeaseHeld'
  BY LeaseNext
<1>3. LeaseHeld => SerialRuns
  BY OwnersDiffer DEF LeaseHeld, SerialRuns
<1> QED
  BY <1>1, <1>2, <1>3, TypedAlways, PTL DEF Spec

=============================================================================
