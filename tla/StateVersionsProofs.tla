------------------------- MODULE StateVersionsProofs -------------------------
(***************************************************************************)
(* What the writers of project_state promise for every set of documents,   *)
(* edits and writers.                                                      *)
(***************************************************************************)
EXTENDS StateVersions, SequenceTheorems, TLAPS

-----------------------------------------------------------------------------
(* Types.                                                                  *)

\* A writer that has begun is about something, only a task edit's version has no
\* document, and the versions a writer has read and is to rewrite are there.
Named ==
    \A w \in Writers :
        /\ pc[w] \in {"read", "lock", "write", "commit"} => fact[w] \in Facts
        /\ kind[w] \notin TaskEdits => fact[w] \in Docs \cup {NoDoc}
        /\ base[w] <= Len(rows)
        /\ pc[w] = "commit" /\ inserted[w] = 0 => locked[w] \in 1 .. Len(rows)

Typed == TypeOK /\ Named

LEMMA LatestTyped ==
  ASSUME TypeOK
  PROVE  /\ \A v \in 0 .. Len(rows) : At(v) \in States
         /\ Latest \in States
<1>1. ASSUME NEW v \in 0 .. Len(rows) PROVE At(v) \in States
  <2>1. CASE v = 0
    BY <2>1 DEF At, States
  <2>2. CASE v # 0
    <3>1. v \in 1 .. Len(rows) /\ rows \in Seq(Entries)
      BY <2>2 DEF TypeOK
    <3>2. rows[v] \in Entries
      BY <3>1
    <3> QED
      BY <2>2, <3>2 DEF At, Entries
  <2> QED
    BY <2>1, <2>2
<1> QED
  BY <1>1 DEF Latest, TypeOK

\* The row a commit appends or overwrites is a row.
LEMMA EntryTyped ==
  ASSUME Typed, NEW w \in Writers
  PROVE  Entry(w) \in Entries
<1>1. next[w] \in States
  BY DEF Typed, TypeOK
<1>2. (IF kind[w] \in TaskEdits THEN NoDoc ELSE fact[w]) \in Docs \cup {NoDoc}
  BY DEF Typed, Named
<1> QED
  BY <1>1, <1>2 DEF Entry, Entries

\* The end of a transaction keeps the types of the locks.
LEMMA ReleaseTyped ==
  ASSUME TypeOK, NEW w \in Writers, Release(w)
  PROVE  /\ inserted' \in [Writers -> Nat]
         /\ locked' \in [Writers -> Nat]
         /\ advisory' \in Writers \cup {NoWriter}
         /\ docLock' \in [Docs -> Writers \cup {NoWriter}]
  BY DEF TypeOK, Release

\* A commit adds a version or rewrites one.
LEMMA CommitGrows ==
  ASSUME Typed, NEW w \in Writers, Commit(w)
  PROVE  rows' \in Seq(Entries) /\ Len(rows) <= Len(rows')
<1>1. rows \in Seq(Entries) /\ Entry(w) \in Entries
  BY EntryTyped DEF Typed, TypeOK
<1>2. CASE inserted[w] # 0
  BY <1>1, <1>2 DEF Commit
<1>3. CASE inserted[w] = 0
  BY <1>1, <1>3, ExceptSeq DEF Commit, Typed, Named
<1> QED
  BY <1>2, <1>3

\* Every step of every writer keeps the types.
LEMMA TypedNext == Typed /\ [Next]_vars => Typed'
<1> SUFFICES ASSUME Typed, [Next]_vars PROVE Typed'
  OBVIOUS
<1> USE WritersAssumption DEF local
<1>0. TypeOK /\ Named
  BY DEF Typed
<1>1. ASSUME NEW w \in Writers, NEW d \in Docs, BeginRun(w, d) PROVE Typed'
  BY <1>0, <1>1 DEF Typed, TypeOK, Named, BeginRun, Goto, Places, Facts
<1>2. ASSUME NEW w \in Writers, ReadRun(w) PROVE Typed'
  <2>1. PICK v \in (IF Rows(fact[w]) = {} THEN {0} ELSE Rows(fact[w])) :
          existing' = [existing EXCEPT ![w] = v]
    BY <1>2 DEF ReadRun
  <2>2. v \in Nat
    BY <2>1, <1>0 DEF Rows, TypeOK
  <2>3. existing' \in [Writers -> Nat]
    BY <2>1, <2>2, <1>0 DEF TypeOK
  <2>4. Latest \cup {fact[w]} \in States
    BY <1>0, <1>2, LatestTyped DEF ReadRun, Named, States
  <2>5. next' \in [Writers -> States] /\ base' \in [Writers -> Nat]
    BY <1>0, <1>2, <2>4 DEF ReadRun, TypeOK
  <2> QED
    BY <1>0, <1>2, <2>3, <2>5 DEF Typed, TypeOK, Named, ReadRun, Goto, Places
<1>3. ASSUME NEW w \in Writers, Overwrite(w) PROVE Typed'
  <2>1. Target(w) \in 1 .. Len(rows)
    BY <1>0, <1>3 DEF Target, Overwrite, TypeOK
  <2> QED
    BY <1>0, <1>3, <2>1 DEF Typed, TypeOK, Named, Overwrite, Goto, Places
<1>4. ASSUME NEW w \in Writers, Insert(w) PROVE Typed'
  BY <1>0, <1>4 DEF Typed, TypeOK, Named, Insert, Goto, Places
<1>5. ASSUME NEW w \in Writers, Conflict(w) PROVE Typed'
  <2>1. TypeOK'
    BY <1>0, <1>5, ReleaseTyped DEF TypeOK, Conflict, Goto, Places
  <2>2. Named'
    BY <1>0, <1>5 DEF TypeOK, Named, Conflict, Release, Goto
  <2> QED
    BY <2>1, <2>2 DEF Typed
<1>6. ASSUME NEW w \in Writers, NEW e \in Edits, BeginTool(w, e) PROVE Typed'
  <2>1. Latest \cup {e} \in States
    BY <1>0, LatestTyped DEF States, Facts
  <2> QED
    BY <1>0, <1>6, <2>1 DEF Typed, TypeOK, Named, BeginTool, Goto, Places, Facts, TaskEdits
<1>7. ASSUME NEW w \in Writers, NEW e \in Edits, BeginPatch(w, e) PROVE Typed'
  BY <1>0, <1>7 DEF Typed, TypeOK, Named, BeginPatch, Goto, Places, Facts, TaskEdits
<1>8. ASSUME NEW w \in Writers, LockPatch(w) PROVE Typed'
  <2>1. At(base[w]) \cup {fact[w]} \in States
    BY <1>0, <1>8, LatestTyped DEF LockPatch, Named, States, TypeOK
  <2> QED
    BY <1>0, <1>8, <2>1 DEF Typed, TypeOK, Named, LockPatch, Goto, Places
<1>9. ASSUME NEW w \in Writers, NEW d \in Docs, BeginArchive(w, d) PROVE Typed'
  <2>1. Latest \ {d} \in States
    BY <1>0, LatestTyped DEF States
  <2> QED
    BY <1>0, <1>9, <2>1 DEF Typed, TypeOK, Named, BeginArchive, Goto, Places, Facts
<1>10. ASSUME NEW w \in Writers, NEW d \in Docs, BeginRevert(w, d) PROVE Typed'
  <2>1. PICK v \in 0 .. Len(rows) : next' = [next EXCEPT ![w] = At(v)]
    BY <1>10 DEF BeginRevert
  <2>2. next' \in [Writers -> States]
    BY <1>0, <2>1, LatestTyped DEF TypeOK
  <2> QED
    BY <1>0, <1>10, <2>2 DEF Typed, TypeOK, Named, BeginRevert, Goto, Places, Facts
<1>11. ASSUME NEW w \in Writers, Commit(w) PROVE Typed'
  <2>1. rows' \in Seq(Entries) /\ Len(rows) <= Len(rows')
    BY <1>11, CommitGrows
  <2>2. Len(rows) \in Nat /\ Len(rows') \in Nat
    BY <1>0, <2>1 DEF TypeOK
  <2>3. TypeOK'
    BY <1>0, <1>11, <2>1, ReleaseTyped DEF TypeOK, Commit, Goto, Places
  <2>4. Named'
    BY <1>0, <1>11, <2>1, <2>2 DEF TypeOK, Named, Commit, Release, Goto
  <2> QED
    BY <2>3, <2>4 DEF Typed
<1>12. ASSUME NEW w \in Writers, Stop(w) PROVE Typed'
  <2>1. TypeOK'
    BY <1>0, <1>12, ReleaseTyped DEF TypeOK, Stop, Goto, Places
  <2>2. Named'
    BY <1>0, <1>12 DEF TypeOK, Named, Stop, Release, Goto
  <2> QED
    BY <2>1, <2>2 DEF Typed
<1>13. ASSUME NEW w \in Writers, DeadlockVictim(w) PROVE Typed'
  <2>1. TypeOK'
    BY <1>0, <1>13, ReleaseTyped DEF TypeOK, DeadlockVictim, Goto, Places
  <2>2. Named'
    BY <1>0, <1>13 DEF TypeOK, Named, DeadlockVictim, Release, Goto
  <2> QED
    BY <2>1, <2>2 DEF Typed
<1>14. CASE UNCHANGED vars
  BY <1>0, <1>14 DEF Typed, TypeOK, Named, vars
<1> QED
  BY <1>1, <1>2, <1>3, <1>4, <1>5, <1>6, <1>7, <1>8, <1>9, <1>10, <1>11, <1>12, <1>13, <1>14
     DEF Next, Begin, Step

LEMMA TypedInit == Init => Typed
<1> SUFFICES ASSUME Init PROVE Typed
  OBVIOUS
<1>1. rows \in Seq(Entries)
  <2>1. CASE rows = <<>>
    BY <2>1
  <2>2. ASSUME NEW d \in Docs, rows = <<[state |-> {d}, doc |-> d]>> PROVE rows \in Seq(Entries)
    <3>1. [state |-> {d}, doc |-> d] \in Entries
      BY DEF Entries, States, Facts
    <3> QED
      BY <2>2, <3>1
  <2> QED
    BY <2>1, <2>2 DEF Init
<1> QED
  BY <1>1, WritersAssumption DEF Init, Typed, TypeOK, Named, Places, States

\* models/state.py:45-58: every reachable state of the writers is well typed; in
\* particular a version's triggered_by_document_id names a document or nothing.
THEOREM TypeCorrect == Spec => []TypeOK
<1>1. Typed => TypeOK
  BY DEF Typed
<1> QED
  BY <1>1, TypedInit, TypedNext, PTL DEF Spec

-----------------------------------------------------------------------------
(* What a PATCH has locked, nobody rewrites.                               *)

\* No two writers hold the lock of one version's row.
RowLocksExclusive ==
    \A w, x \in Writers : locked[w] # 0 /\ locked[w] = locked[x] => w = x

\* A PATCH builds on the row it has locked, and only ever inserts.
PatchHoldsBase ==
    \A w \in Writers : kind[w] = "patch" =>
        /\ pc[w] \in {"lock", "write", "commit"} => base[w] # 0
        /\ pc[w] \in {"write", "commit"} =>
              locked[w] = base[w] /\ next[w] = At(base[w]) \cup {fact[w]}
        /\ pc[w] = "commit" => inserted[w] # 0

PatchInv == Typed /\ RowLocksExclusive /\ PatchHoldsBase

\* A commit leaves every version as it is but the one it has locked to rewrite.
LEMMA CommitKeepsOthers ==
  ASSUME Typed, NEW w \in Writers, Commit(w), NEW v \in 0 .. Len(rows),
         inserted[w] # 0 \/ v # locked[w]
  PROVE  At(v)' = At(v)
<1>1. rows \in Seq(Entries) /\ Entry(w) \in Entries
  BY EntryTyped DEF Typed, TypeOK
<1>2. CASE v = 0
  BY <1>2 DEF At
<1>3. CASE v # 0 /\ inserted[w] # 0
  <2>1. rows' = Append(rows, Entry(w)) /\ v \in 1 .. Len(rows)
    BY <1>3 DEF Commit
  <2>2. rows'[v] = rows[v]
    BY <1>1, <2>1, AppendProperties
  <2> QED
    BY <1>3, <2>2 DEF At
<1>4. CASE v # 0 /\ inserted[w] = 0
  <2>1. rows' = [rows EXCEPT ![locked[w]] = Entry(w)] /\ v \in 1 .. Len(rows)
    BY <1>4 DEF Commit
  <2>2. locked[w] \in 1 .. Len(rows) /\ v # locked[w]
    BY <1>4 DEF Commit, Typed, Named
  <2>3. rows'[v] = rows[v]
    BY <1>1, <2>1, <2>2, ExceptSeq
  <2> QED
    BY <1>4, <2>3 DEF At
<1> QED
  BY <1>2, <1>3, <1>4

LEMMA PatchInvNext == PatchInv /\ [Next]_vars => PatchInv'
<1> SUFFICES ASSUME PatchInv, [Next]_vars PROVE RowLocksExclusive' /\ PatchHoldsBase'
  BY TypedNext DEF PatchInv
<1> USE DEF local, Runs, TaskEdits, Removals
<1>0. Typed /\ TypeOK /\ RowLocksExclusive /\ PatchHoldsBase
  BY DEF PatchInv, Typed
<1>1. ASSUME NEW w \in Writers, NEW d \in Docs, BeginRun(w, d)
      PROVE  RowLocksExclusive' /\ PatchHoldsBase'
  BY <1>0, <1>1 DEF TypeOK, RowLocksExclusive, PatchHoldsBase, At, BeginRun, Goto
<1>2. ASSUME NEW w \in Writers, ReadRun(w) PROVE RowLocksExclusive' /\ PatchHoldsBase'
  BY <1>0, <1>2 DEF TypeOK, RowLocksExclusive, PatchHoldsBase, At, ReadRun, Goto
<1>3. ASSUME NEW w \in Writers, Overwrite(w) PROVE RowLocksExclusive' /\ PatchHoldsBase'
  BY <1>0, <1>3 DEF TypeOK, RowLocksExclusive, PatchHoldsBase, At, Overwrite, Lockers, Goto
<1>4. ASSUME NEW w \in Writers, Insert(w) PROVE RowLocksExclusive' /\ PatchHoldsBase'
  BY <1>0, <1>4 DEF TypeOK, RowLocksExclusive, PatchHoldsBase, At, Insert, Goto
<1>5. ASSUME NEW w \in Writers, Conflict(w) PROVE RowLocksExclusive' /\ PatchHoldsBase'
  BY <1>0, <1>5 DEF TypeOK, RowLocksExclusive, PatchHoldsBase, At, Conflict, Release, Goto
<1>6. ASSUME NEW w \in Writers, NEW e \in Edits, BeginTool(w, e)
      PROVE  RowLocksExclusive' /\ PatchHoldsBase'
  BY <1>0, <1>6 DEF TypeOK, RowLocksExclusive, PatchHoldsBase, At, BeginTool, Goto
<1>7. ASSUME NEW w \in Writers, NEW e \in Edits, BeginPatch(w, e)
      PROVE  RowLocksExclusive' /\ PatchHoldsBase'
  <2>1. Len(rows) # 0
    BY <1>0, <1>7, EmptySeq DEF TypeOK, BeginPatch
  <2> QED
    BY <1>0, <1>7, <2>1 DEF TypeOK, RowLocksExclusive, PatchHoldsBase, At, BeginPatch, Goto
<1>8. ASSUME NEW w \in Writers, LockPatch(w) PROVE RowLocksExclusive' /\ PatchHoldsBase'
  BY <1>0, <1>8 DEF TypeOK, RowLocksExclusive, PatchHoldsBase, At, LockPatch, Lockers, Goto
<1>9. ASSUME NEW w \in Writers, NEW d \in Docs, BeginArchive(w, d)
      PROVE  RowLocksExclusive' /\ PatchHoldsBase'
  BY <1>0, <1>9 DEF TypeOK, RowLocksExclusive, PatchHoldsBase, At, BeginArchive, Goto
<1>10. ASSUME NEW w \in Writers, NEW d \in Docs, BeginRevert(w, d)
       PROVE  RowLocksExclusive' /\ PatchHoldsBase'
  BY <1>0, <1>10 DEF TypeOK, RowLocksExclusive, PatchHoldsBase, At, BeginRevert, Goto
<1>11. ASSUME NEW w \in Writers, Commit(w) PROVE RowLocksExclusive' /\ PatchHoldsBase'
  <2>1. RowLocksExclusive'
    BY <1>0, <1>11 DEF TypeOK, RowLocksExclusive, Commit, Release
  <2>2. ASSUME NEW x \in Writers, kind'[x] = "patch", pc'[x] \in {"lock", "write", "commit"}
        PROVE  /\ base'[x] # 0
               /\ pc'[x] \in {"write", "commit"} =>
                     locked'[x] = base'[x] /\ next'[x] = At(base[x])' \cup {fact'[x]}
               /\ pc'[x] = "commit" => inserted'[x] # 0
    <3>1. x # w /\ pc'[x] = pc[x] /\ base'[x] = base[x] /\ next'[x] = next[x]
          /\ fact'[x] = fact[x] /\ locked'[x] = locked[x] /\ inserted'[x] = inserted[x]
          /\ kind[x] = "patch"
      BY <1>0, <1>11, <2>2 DEF TypeOK, Commit, Release, Goto
    <3>2. base[x] \in 0 .. Len(rows)
      BY <1>0 DEF Typed, TypeOK, Named
    <3>3. ASSUME pc[x] \in {"write", "commit"} PROVE At(base[x])' = At(base[x])
      <4>1. locked[x] = base[x] /\ base[x] # 0
        BY <1>0, <3>1, <3>3 DEF PatchHoldsBase
      <4>2. base[x] # locked[w]
        BY <1>0, <3>1, <4>1 DEF RowLocksExclusive
      <4> QED
        BY <1>0, <1>11, <3>1, <3>2, <4>2, CommitKeepsOthers DEF Commit
    <3> QED
      BY <1>0, <2>2, <3>1, <3>3 DEF PatchHoldsBase
  <2> QED
    BY <1>0, <1>11, <2>1, <2>2 DEF PatchHoldsBase
<1>12. ASSUME NEW w \in Writers, Stop(w) PROVE RowLocksExclusive' /\ PatchHoldsBase'
  BY <1>0, <1>12 DEF TypeOK, RowLocksExclusive, PatchHoldsBase, At, Stop, Release, Goto
<1>13. ASSUME NEW w \in Writers, DeadlockVictim(w) PROVE RowLocksExclusive' /\ PatchHoldsBase'
  BY <1>0, <1>13 DEF TypeOK, RowLocksExclusive, PatchHoldsBase, At, DeadlockVictim, Release, Goto
<1>14. CASE UNCHANGED vars
  BY <1>0, <1>14 DEF RowLocksExclusive, PatchHoldsBase, At, vars
<1> QED
  BY <1>1, <1>2, <1>3, <1>4, <1>5, <1>6, <1>7, <1>8, <1>9, <1>10, <1>11, <1>12, <1>13, <1>14
     DEF Next, Begin, Step

\* state.py:106-113: no writer of any kind changes the version a PATCH has
\* locked until the PATCH commits.
THEOREM PatchBaseIsStable == Spec => []PatchBaseStable
<1>1. Init => PatchInv
  BY TypedInit DEF PatchInv, Init, RowLocksExclusive, PatchHoldsBase
<1>2. PatchInv => PatchBaseStable
  BY DEF PatchInv, PatchHoldsBase, PatchBaseStable
<1> QED
  BY <1>1, <1>2, PatchInvNext, PTL DEF Spec

-----------------------------------------------------------------------------
(* Requests alone, with no run of the pipeline: an append-only log.        *)

\* What a request is going to write is the version it has read with one change.
Built(w) ==
    /\ kind[w] \in TaskEdits => fact[w] \in Edits /\ next[w] = At(base[w]) \cup {fact[w]}
    /\ kind[w] = "archive" => fact[w] \in Docs /\ next[w] = At(base[w]) \ {fact[w]}
    /\ kind[w] = "revert" => \E v \in 0 .. base[w] : next[w] = At(v)

WritesBuilt ==
    \A w \in Writers :
        /\ pc[w] = "lock" => kind[w] = "patch"
        /\ pc[w] \notin {"idle", "failed"} =>
              /\ kind[w] \in TaskEdits => fact[w] \in Edits
              /\ kind[w] = "archive" => fact[w] \in Docs
        /\ pc[w] \in {"write", "commit"} => Built(w)

\* One writer at a time holds an uncommitted version, and it is the next one.
OneInserter ==
    /\ \A w \in Writers : pc[w] = "commit" =>
          inserted[w] = base[w] + 1 /\ base[w] = Len(rows)
    /\ \A w, x \in Writers : pc[w] = "commit" /\ pc[x] = "commit" => w = x

RequestInv == Typed /\ WritesBuilt /\ OneInserter

\* The commit of a request appends its version to the log.
LEMMA CommitAppends ==
  ASSUME RequestInv, NEW w \in Writers, Commit(w)
  PROVE  /\ rows' = Append(rows, Entry(w))
         /\ rows \in Seq(Entries) /\ Entry(w) \in Entries
         /\ Len(rows') = Len(rows) + 1
         /\ \A v \in 0 .. Len(rows) : At(v)' = At(v)
<1>1. rows \in Seq(Entries) /\ Entry(w) \in Entries
  BY EntryTyped DEF RequestInv, Typed, TypeOK
<1>2. inserted[w] # 0
  BY DEF RequestInv, OneInserter, Commit, Typed, TypeOK
<1>3. rows' = Append(rows, Entry(w))
  BY <1>2 DEF Commit
<1>4. \A v \in 0 .. Len(rows) : At(v)' = At(v)
  BY <1>2, CommitKeepsOthers DEF RequestInv
<1> QED
  BY <1>1, <1>3, <1>4, AppendProperties

LEMMA RequestInvNext ==
  ASSUME Kinds \cap Runs = {}
  PROVE  RequestInv /\ [Next]_vars => RequestInv'
<1> SUFFICES ASSUME RequestInv, [Next]_vars PROVE WritesBuilt' /\ OneInserter'
  BY TypedNext DEF RequestInv
<1> USE DEF local, TaskEdits, Removals
<1>0. Typed /\ TypeOK /\ WritesBuilt /\ OneInserter /\ \A w \in Writers : kind[w] \notin Runs
  BY DEF RequestInv, Typed, TypeOK
<1>1. ASSUME NEW w \in Writers, NEW d \in Docs, BeginRun(w, d)
      PROVE  WritesBuilt' /\ OneInserter'
  BY <1>0, <1>1 DEF BeginRun
<1>2. ASSUME NEW w \in Writers, ReadRun(w) PROVE WritesBuilt' /\ OneInserter'
  BY <1>0, <1>2 DEF ReadRun
<1>3. ASSUME NEW w \in Writers, Overwrite(w) PROVE WritesBuilt' /\ OneInserter'
  BY <1>0, <1>3 DEF Overwrite
<1>4. ASSUME NEW w \in Writers, Insert(w) PROVE WritesBuilt' /\ OneInserter'
  <2>1. \A x \in Writers : pc[x] # "commit"
    BY <1>0, <1>4 DEF TypeOK, OneInserter, Insert, Inserters
  <2>2. WritesBuilt'
    BY <1>0, <1>4 DEF TypeOK, WritesBuilt, Built, At, Insert, Goto
  <2>3. OneInserter'
    BY <1>0, <1>4, <2>1 DEF TypeOK, OneInserter, Insert, Goto
  <2> QED
    BY <2>2, <2>3
<1>5. ASSUME NEW w \in Writers, Conflict(w) PROVE WritesBuilt' /\ OneInserter'
  BY <1>0, <1>5 DEF TypeOK, WritesBuilt, OneInserter, Built, At, Conflict, Release, Goto
<1>6. ASSUME NEW w \in Writers, NEW e \in Edits, BeginTool(w, e)
      PROVE  WritesBuilt' /\ OneInserter'
  BY <1>0, <1>6 DEF TypeOK, Latest, WritesBuilt, OneInserter, Built, At, BeginTool, Goto
<1>7. ASSUME NEW w \in Writers, NEW e \in Edits, BeginPatch(w, e)
      PROVE  WritesBuilt' /\ OneInserter'
  BY <1>0, <1>7 DEF TypeOK, Latest, WritesBuilt, OneInserter, Built, At, BeginPatch, Goto
<1>8. ASSUME NEW w \in Writers, LockPatch(w) PROVE WritesBuilt' /\ OneInserter'
  BY <1>0, <1>8 DEF TypeOK, Latest, WritesBuilt, OneInserter, Built, At, LockPatch, Goto
<1>9. ASSUME NEW w \in Writers, NEW d \in Docs, BeginArchive(w, d)
      PROVE  WritesBuilt' /\ OneInserter'
  BY <1>0, <1>9 DEF TypeOK, Latest, WritesBuilt, OneInserter, Built, At, BeginArchive, Goto
<1>10. ASSUME NEW w \in Writers, NEW d \in Docs, BeginRevert(w, d)
      PROVE  WritesBuilt' /\ OneInserter'
  <2>1. PICK v \in 0 .. Len(rows) : next' = [next EXCEPT ![w] = At(v)]
    BY <1>10 DEF BeginRevert
  <2>2. Built(w)'
    BY <1>0, <1>10, <2>1 DEF TypeOK, Built, At, BeginRevert
  <2> QED
    BY <1>0, <1>10, <2>2 DEF TypeOK, WritesBuilt, OneInserter, Built, At, BeginRevert, Goto
<1>11. ASSUME NEW w \in Writers, Commit(w) PROVE WritesBuilt' /\ OneInserter'
  <2>1. \A v \in 0 .. Len(rows) : At(v)' = At(v)
    BY <1>11, CommitAppends
  <2>2. \A x \in Writers : x # w => pc[x] # "commit"
    BY <1>0, <1>11 DEF OneInserter, Commit
  <2>3. OneInserter'
    BY <1>0, <1>11, <2>2 DEF TypeOK, OneInserter, Commit, Goto
  <2>4. ASSUME NEW x \in Writers, pc'[x] \in {"write", "commit"} PROVE Built(x)'
    <3>1. /\ x # w /\ pc'[x] = pc[x] /\ base'[x] = base[x] /\ next'[x] = next[x]
          /\ fact'[x] = fact[x] /\ kind'[x] = kind[x]
      BY <1>0, <1>11, <2>4 DEF TypeOK, Commit, Goto
    <3>2. base[x] \in 0 .. Len(rows) /\ Built(x)
      BY <1>0, <2>4, <3>1 DEF Typed, TypeOK, Named, WritesBuilt
    <3>3. /\ At(base[x])' = At(base[x])
          /\ \A v \in 0 .. base[x] : At(v)' = At(v)
      BY <1>0, <2>1, <3>1, <3>2 DEF TypeOK
    <3> QED
      BY <3>1, <3>2, <3>3 DEF Built
  <2>5. WritesBuilt'
    BY <1>0, <1>11, <2>4 DEF TypeOK, WritesBuilt, Commit, Goto
  <2> QED
    BY <2>3, <2>5
<1>12. ASSUME NEW w \in Writers, Stop(w) PROVE WritesBuilt' /\ OneInserter'
  BY <1>0, <1>12 DEF Stop
<1>13. ASSUME NEW w \in Writers, DeadlockVictim(w) PROVE WritesBuilt' /\ OneInserter'
  BY <1>0, <1>13 DEF TypeOK, WritesBuilt, OneInserter, Built, At, DeadlockVictim, Release, Goto
<1>14. CASE UNCHANGED vars
  BY <1>0, <1>14 DEF WritesBuilt, OneInserter, Built, At, vars
<1> QED
  BY <1>1, <1>2, <1>3, <1>4, <1>5, <1>6, <1>7, <1>8, <1>9, <1>10, <1>11, <1>12, <1>13, <1>14
     DEF Next, Begin, Step

LEMMA RequestInvInit == Init => RequestInv
  BY TypedInit DEF RequestInv, Init, WritesBuilt, OneInserter

\* The states of the rows, in order: what the refinement maps to the log.
StatesOf(r) == [v \in DOMAIN r |-> r[v].state]

LEMMA StatesOfRows ==
  ASSUME NEW r \in Seq(Entries)
  PROVE  /\ StatesOf(r) \in Seq(States)
         /\ Len(StatesOf(r)) = Len(r)
         /\ \A v \in 1 .. Len(r) : StatesOf(r)[v] = r[v].state
<1>1. DOMAIN r = 1 .. Len(r) /\ Len(r) \in Nat
  BY LenProperties
<1>2. ASSUME NEW v \in 1 .. Len(r) PROVE r[v].state \in States
  <2>1. r[v] \in Entries
    BY ElementOfSeq
  <2> QED
    BY <2>1 DEF Entries
<1>3. StatesOf(r) = [v \in 1 .. Len(r) |-> r[v].state]
  BY <1>1 DEF StatesOf
<1> QED
  BY <1>1, <1>2, <1>3

\* The log of one row more has that row's state at its end.
LEMMA StatesOfAppend ==
  ASSUME NEW r \in Seq(Entries), NEW x \in Entries
  PROVE  StatesOf(Append(r, x)) = Append(StatesOf(r), x.state)
<1> DEFINE new == StatesOf(Append(r, x))
           old == StatesOf(r)
<1>1. Append(r, x) \in Seq(Entries) /\ Len(Append(r, x)) = Len(r) + 1
      /\ \A v \in 1 .. Len(r) : Append(r, x)[v] = r[v]
      /\ Append(r, x)[Len(r) + 1] = x
  BY AppendProperties
<1>2. x.state \in States /\ Len(r) \in Nat
  BY DEF Entries
<1>3. new \in Seq(States) /\ Len(new) = Len(r) + 1
      /\ \A v \in 1 .. Len(r) + 1 : new[v] = Append(r, x)[v].state
  BY <1>1, StatesOfRows
<1>4. old \in Seq(States) /\ Len(old) = Len(r) /\ \A v \in 1 .. Len(r) : old[v] = r[v].state
  BY StatesOfRows
<1>5. Append(old, x.state) \in Seq(States) /\ Len(Append(old, x.state)) = Len(r) + 1
      /\ (\A v \in 1 .. Len(r) : Append(old, x.state)[v] = old[v])
      /\ Append(old, x.state)[Len(r) + 1] = x.state
  BY <1>2, <1>4, AppendProperties
<1>6. ASSUME NEW v \in 1 .. Len(new) PROVE new[v] = Append(old, x.state)[v]
  <2>1. CASE v = Len(r) + 1
    BY <1>1, <1>3, <1>5, <2>1
  <2>2. CASE v \in 1 .. Len(r)
    BY <1>1, <1>2, <1>3, <1>4, <1>5, <2>2
  <2>3. v \in 1 .. Len(r) + 1
    BY <1>3
  <2>4. v = Len(r) + 1 \/ v \in 1 .. Len(r)
    BY <1>2, <2>3
  <2> QED
    BY <2>1, <2>2, <2>4
<1> HIDE DEF new, old
<1>7. new = Append(old, x.state)
  BY <1>3, <1>5, <1>6, SeqEqual
<1> QED
  BY <1>7 DEF new, old

LEMMA LogInit == Init => Log!Init
<1> SUFFICES ASSUME Init PROVE StatesOf(rows) \in {<<>>} \cup {<<{d}>> : d \in Docs}
  BY DEF Log!Init, StatesOf, states
<1>1. CASE rows = <<>>
  <2>1. rows \in Seq(Entries) /\ Len(rows) = 0
    BY <1>1, EmptySeq
  <2>2. StatesOf(rows) \in Seq(States) /\ Len(StatesOf(rows)) = 0
    BY <2>1, StatesOfRows
  <2>3. StatesOf(rows) = <<>>
    BY <2>2, EmptySeq
  <2> QED
    BY <2>3
<1>2. ASSUME NEW d \in Docs, rows = <<[state |-> {d}, doc |-> d]>>
      PROVE  StatesOf(rows) = <<{d}>>
  <2>1. [state |-> {d}, doc |-> d] \in Entries /\ {d} \in States
    BY DEF Entries, States, Facts
  <2>2. rows \in Seq(Entries) /\ Len(rows) = 1 /\ rows[1] = [state |-> {d}, doc |-> d]
    BY <1>2, <2>1
  <2>3. StatesOf(rows) \in Seq(States) /\ Len(StatesOf(rows)) = 1 /\ StatesOf(rows)[1] = {d}
    BY <2>2, StatesOfRows
  <2>4. <<{d}>> \in Seq(States) /\ Len(<<{d}>>) = 1 /\ <<{d}>>[1] = {d}
    BY <2>1
  <2>5. ASSUME NEW v \in 1 .. 1 PROVE StatesOf(rows)[v] = <<{d}>>[v]
    <3>1. v = 1
      OBVIOUS
    <3> QED
      BY <2>3, <2>4, <3>1
  <2> QED
    BY <2>3, <2>4, <2>5, SeqEqual
<1> QED
  BY <1>1, <1>2 DEF Init

\* The commit of a request is a step of the log.
LEMMA CommitIsLogStep ==
  ASSUME Kinds \cap Runs = {}, RequestInv, NEW w \in Writers, Commit(w)
  PROVE  Log!Next
<1>1. /\ rows \in Seq(Entries) /\ Entry(w) \in Entries
      /\ rows' = Append(rows, Entry(w))
      /\ base[w] = Len(rows) /\ Built(w)
      /\ kind[w] \in TaskEdits \cup Removals
  BY CommitAppends, WritersAssumption
     DEF RequestInv, OneInserter, WritesBuilt, Commit, Typed, TypeOK, AllKinds, Runs
<1>2. states' = Append(states, next[w])
  BY <1>1, StatesOfAppend DEF states, StatesOf, Entry
<1>3. states \in Seq(States) /\ Len(states) = Len(rows)
      /\ \A v \in 1 .. Len(rows) : states[v] = rows[v].state
  BY <1>1, StatesOfRows DEF states, StatesOf
<1>4. \A v \in 0 .. Len(rows) : Log!At(v) = At(v)
  BY <1>3 DEF Log!At, At
<1>5. Len(rows) \in Nat
  BY <1>1
<1>6. Log!Latest = At(Len(rows))
  BY <1>3, <1>4, <1>5 DEF Log!Latest
<1>7. CASE kind[w] \in TaskEdits
  <2>1. fact[w] \in Edits /\ next[w] = Log!Latest \cup {fact[w]}
    BY <1>1, <1>6, <1>7 DEF Built
  <2>2. Log!Add(fact[w])
    BY <1>2, <2>1 DEF Log!Add, Log!Extend
  <2> QED
    BY <2>1, <2>2 DEF Log!Next
<1>8. CASE kind[w] = "archive"
  <2>1. fact[w] \in Docs /\ next[w] = Log!Latest \ {fact[w]}
    BY <1>1, <1>6, <1>8 DEF Built
  <2>2. Log!Drop(fact[w])
    BY <1>2, <2>1 DEF Log!Drop, Log!Extend
  <2> QED
    BY <2>1, <2>2 DEF Log!Next
<1>9. CASE kind[w] = "revert"
  <2>1. PICK v \in 0 .. Len(rows) : next[w] = At(v)
    BY <1>1, <1>9 DEF Built
  <2>2. Log!Revert(v) /\ v \in 0 .. Len(states)
    BY <1>2, <1>3, <1>4, <2>1 DEF Log!Revert, Log!Extend
  <2> QED
    BY <2>2 DEF Log!Next
<1> QED
  BY <1>1, <1>7, <1>8, <1>9 DEF Removals

\* Every step of the requests is a step of the log or leaves it alone.
LEMMA LogNext ==
  ASSUME Kinds \cap Runs = {}
  PROVE  RequestInv /\ [Next]_vars => [Log!Next]_states
<1> SUFFICES ASSUME RequestInv, [Next]_vars PROVE Log!Next \/ states' = states
  OBVIOUS
<1>1. CASE \E w \in Writers : Commit(w)
  BY <1>1, CommitIsLogStep
<1>2. CASE rows' = rows
  BY <1>2 DEF states
<1>3. (\E w \in Writers : Commit(w)) \/ rows' = rows
  BY DEF Next, Begin, Step, vars, BeginRun, BeginTool, BeginPatch, BeginArchive, BeginRevert,
         ReadRun, Overwrite, Insert, Conflict, LockPatch, DeadlockVictim, Stop
<1> QED
  BY <1>1, <1>2, <1>3

\* models/state.py:48: as long as no run of the pipeline writes, the writers'
\* different protections together with the unique constraint implement an
\* append-only log, each version derived from the one before it.
THEOREM RequestsRefineLog ==
  ASSUME Kinds \cap Runs = {}
  PROVE  Spec => RefinesLog
<1>1. RequestInv /\ [Next]_vars => RequestInv'
  BY RequestInvNext
<1>2. RequestInv /\ [Next]_vars => [Log!Next]_states
  BY LogNext
<1> QED
  BY <1>1, <1>2, RequestInvInit, LogInit, PTL DEF Spec, RefinesLog, Log!Spec

-----------------------------------------------------------------------------
(* Task edits and archived documents.                                      *)

ForwardInv == RequestInv /\ NoLostEdit /\ ArchivedGone

\* The state after a commit keeps every acknowledged edit, and no archived
\* document comes back: the commit has read the version it follows.
LEMMA CommitKeepsPromises ==
  ASSUME Kinds \cap Runs = {}, ForwardInv, OnlyForward, NEW w \in Writers, Commit(w)
  PROVE  NoLostEdit' /\ ArchivedGone'
<1>1. TypeOK /\ RequestInv /\ WritesBuilt /\ NoLostEdit /\ ArchivedGone
  BY DEF ForwardInv, RequestInv, Typed
<1>2. /\ rows' = Append(rows, Entry(w))
      /\ rows \in Seq(Entries) /\ Entry(w) \in Entries
      /\ Len(rows') = Len(rows) + 1
  BY <1>1, CommitAppends
<1>3. Latest' = next[w]
  <2>1. rows'[Len(rows) + 1] = Entry(w) /\ Len(rows) \in Nat
    BY <1>2, AppendProperties
  <2> QED
    BY <1>2, <2>1 DEF Latest, At, Entry
<1>4. pc[w] = "commit" /\ base[w] = Len(rows) /\ Built(w) /\ kind[w] \in TaskEdits \cup {"archive"}
  BY <1>1, WritersAssumption
     DEF OnlyForward, Commit, RequestInv, OneInserter, WritesBuilt, TypeOK, AllKinds, Runs, Removals
<1>5. \/ kind[w] \in TaskEdits /\ fact[w] \in Edits /\ Latest' = Latest \cup {fact[w]}
      \/ kind[w] = "archive" /\ fact[w] \in Docs /\ Latest' = Latest \ {fact[w]}
  BY <1>3, <1>4 DEF Built, Latest
<1>6. kind' = kind /\ fact' = fact /\ \A x \in Writers : pc'[x] = "done" => x = w \/ pc[x] = "done"
  BY <1>1 DEF Commit, Goto, local, TypeOK
<1>7. ASSUME NEW x \in Writers, pc'[x] = "done", kind[x] \in TaskEdits
      PROVE  fact[x] \in Latest'
  <2>1. fact[x] \in Edits
    BY <1>1, <1>4, <1>6, <1>7 DEF WritesBuilt
  <2>2. CASE x = w
    BY <1>5, <1>7, <2>2 DEF TaskEdits
  <2>3. CASE pc[x] = "done"
    BY <1>1, <1>5, <1>7, <2>1, <2>3, WritersAssumption DEF NoLostEdit
  <2> QED
    BY <1>6, <1>7, <2>2, <2>3
<1>8. ASSUME NEW x \in Writers, pc'[x] = "done", kind[x] = "archive"
      PROVE  fact[x] \notin Latest'
  <2>1. fact[x] \in Docs
    BY <1>1, <1>4, <1>6, <1>8 DEF WritesBuilt
  <2>2. CASE x = w
    BY <1>5, <1>8, <2>2 DEF TaskEdits
  <2>3. CASE pc[x] = "done"
    BY <1>1, <1>5, <1>8, <2>1, <2>3, WritersAssumption DEF ArchivedGone
  <2> QED
    BY <1>6, <1>8, <2>2, <2>3
<1> QED
  BY <1>6, <1>7, <1>8 DEF NoLostEdit, ArchivedGone

LEMMA ForwardInvNext ==
  ASSUME Kinds \cap Runs = {}
  PROVE  ForwardInv /\ [Next]_vars => ForwardInv'
<1> SUFFICES ASSUME ForwardInv, [Next]_vars PROVE NoLostEdit' /\ ArchivedGone'
  BY RequestInvNext DEF ForwardInv
<1>1. TypeOK /\ NoLostEdit /\ ArchivedGone
  BY DEF ForwardInv, RequestInv, Typed
<1>2. ASSUME NEW w \in Writers, Commit(w) PROVE NoLostEdit' /\ ArchivedGone'
  <2>1. CASE OnlyForward
    BY <1>2, <2>1, CommitKeepsPromises
  <2>2. CASE ~ OnlyForward
    BY <1>2, <2>2 DEF NoLostEdit, ArchivedGone, OnlyForward, Commit, local
  <2> QED
    BY <2>1, <2>2
<1>3. ASSUME rows' = rows, kind' = kind,
             \A x \in Writers : pc'[x] = "done" => pc[x] = "done" /\ fact'[x] = fact[x]
      PROVE  NoLostEdit' /\ ArchivedGone'
  BY <1>1, <1>3 DEF NoLostEdit, ArchivedGone, OnlyForward, Latest, At
<1>4. ASSUME NEW w \in Writers, Begin(w) PROVE NoLostEdit' /\ ArchivedGone'
  BY <1>1, <1>3, <1>4 DEF Begin, BeginRun, BeginTool, BeginPatch, BeginArchive, BeginRevert, Goto,
     TypeOK
<1>5. ASSUME NEW w \in Writers, Step(w), ~ Commit(w) PROVE NoLostEdit' /\ ArchivedGone'
  BY <1>1, <1>3, <1>5 DEF Step, ReadRun, Overwrite, Insert, Conflict, LockPatch, DeadlockVictim,
     Goto, local, TypeOK
<1>6. ASSUME NEW w \in Writers, Stop(w) PROVE NoLostEdit' /\ ArchivedGone'
  BY <1>1, <1>3, <1>6 DEF Stop, Goto, local, TypeOK
<1>7. CASE UNCHANGED vars
  BY <1>1, <1>3, <1>7 DEF vars
<1> QED
  BY <1>2, <1>4, <1>5, <1>6, <1>7 DEF Next

LEMMA ForwardInvInit == Init => ForwardInv
  BY RequestInvInit DEF ForwardInv, Init, NoLostEdit, ArchivedGone

\* state.py:145, chat.py:640: while no run writes and nothing is reverted, a task
\* edit that was acknowledged stays in the latest state, whoever writes next.
THEOREM NoEditIsLost ==
  ASSUME Kinds \cap Runs = {}
  PROVE  Spec => []NoLostEdit
<1>1. ForwardInv /\ [Next]_vars => ForwardInv'
  BY ForwardInvNext
<1>2. ForwardInv => NoLostEdit
  BY DEF ForwardInv
<1> QED
  BY <1>1, <1>2, ForwardInvInit, PTL DEF Spec

\* documents.py:607-640: under the same condition an archived document does not
\* come back through a request that had read an older state.
THEOREM ArchivedStaysGone ==
  ASSUME Kinds \cap Runs = {}
  PROVE  Spec => []ArchivedGone
<1>1. ForwardInv /\ [Next]_vars => ForwardInv'
  BY ForwardInvNext
<1>2. ForwardInv => ArchivedGone
  BY DEF ForwardInv
<1> QED
  BY <1>1, <1>2, ForwardInvInit, PTL DEF Spec

=============================================================================
