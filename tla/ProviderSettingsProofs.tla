------------------------ MODULE ProviderSettingsProofs ------------------------
(***************************************************************************)
(* What the requests and the pages of ProviderSettings promise for every   *)
(* set of keys and pages, whatever is lost and however calls cross.        *)
(***************************************************************************)
EXTENDS ProviderSettings, FiniteSetTheorems, TLAPS

-----------------------------------------------------------------------------
(* Types. *)

\* A request is about a provider, a create once it has written one.
Named == \A c \in Calls :
    /\ call[c].op \in {"update", "delete", "activate"} => call[c].id \in Ids
    /\ call[c].op = "create" /\ call[c].pc \in {"written", "ok"} => call[c].id \in Ids

Typed == TypeOK /\ Named

LEMMA UnusedTyped == Unused \in Call
  BY SettingsAssumption DEF Unused, Call, Ops, Pcs, NoView, View

\* The end of a call leaves it about the same.
LEMMA EndsTyped ==
  ASSUME call \in [Calls -> Call], NEW c \in Calls, NEW pc \in Pcs, Ends(c, pc)
  PROVE  /\ call' \in [Calls -> Call]
         /\ call'[c].pc = pc /\ call'[c].op = call[c].op
         /\ call'[c].id = call[c].id /\ call'[c].page = call[c].page
         /\ call'[c].got = NoView
         /\ \A d \in Calls \ {c} : call'[d] = call[d]
<1>1. call[c] \in Call /\ NoView \in View
  BY DEF NoView, View
<1>2. [call[c] EXCEPT !.pc = pc, !.saw = {}, !.off = {}, !.base = {}, !.got = NoView] \in Call
  BY <1>1 DEF Call
<1> QED
  BY <1>1, <1>2 DEF Ends, Call

\* The list a page shows after an answer is a list.
LEMMA AppliedTyped ==
  ASSUME Typed, NEW c \in Calls, NEW v \in View, call[c].pc = "ok"
  PROVE  Applied(c, v) \in View
<1>1. call[c] \in Call
  BY DEF Typed, TypeOK
<1>2. CASE call[c].op = "activate"
  BY <1>2 DEF Applied, View
<1>3. CASE call[c].op = "delete"
  BY <1>3 DEF Applied, View
<1>4. CASE call[c].op = "create"
  <2>1. call[c].id \in Ids
    BY <1>4 DEF Typed, Named
  <2> QED
    BY <1>4, <2>1 DEF Applied, View
<1>5. CASE call[c].op \in {"load", "update"}
  BY <1>5 DEF Applied
<1> QED
  BY <1>1, <1>2, <1>3, <1>4, <1>5 DEF Call, Ops

LEMMA TypedInit == Init => Typed
<1> SUFFICES ASSUME Init PROVE Typed
  OBVIOUS
<1>1. plan \in [rows : SUBSET Ids, active : SUBSET Ids, does : [Pages -> SUBSET Ops], faults : Nat]
  BY SettingsAssumption DEF Init
<1>2. Server \in View
  BY <1>1 DEF Init, Server, View
<1>3. rows \subseteq Ids /\ active \subseteq Ids /\ gone \subseteq Ids /\ plan \in Plans
  BY <1>1 DEF Init
<1>4. call \in [Calls -> Call] /\ list \in [Pages -> View]
  BY <1>2, UnusedTyped DEF Init
<1>5. edits \in [Ids -> SUBSET Calls] /\ lock \in [Ids -> Calls \cup {Nobody}]
  BY DEF Init
<1>6. step \in [Pages -> 1 .. 4] /\ saved \in [Pages -> Ids \cup {NoId}]
  BY DEF Init
<1>7. TypeOK
  BY <1>3, <1>4, <1>5, <1>6 DEF Init, TypeOK
<1>8. Named
  BY DEF Init, Named, Unused
<1> QED
  BY <1>7, <1>8 DEF Typed

\* The steps of a page keep the types.
LEMMA PageTyped ==
  ASSUME Typed, NEW c \in Calls, Hear(c) \/ Lost(c)
  PROVE  Typed'
<1>0. TypeOK /\ Named /\ call[c] \in Call
  BY DEF Typed, TypeOK
<1>1. CASE Answered(c)
  <2>1. list[call[c].page] \in View
    BY <1>0 DEF TypeOK, Call
  <2>2. Applied(c, list[call[c].page]) \in View
    BY <1>1, <2>1, AppliedTyped DEF Answered
  <2> QED
    BY <1>0, <1>1, <2>2 DEF Typed, TypeOK, Named, Answered, Goes, Call, Pcs, table, wizard
<1>2. CASE Created(c)
  BY <1>0, <1>2 DEF Typed, TypeOK, Named, Created, At, Call, Pcs, Ops, table, wizard
<1>3. CASE Activated(c)
  <2>1. Ends(c, "over") /\ call[c].page \in Pages /\ call[c].id \in Ids \cup {NoId}
    BY <1>0, <1>3 DEF Activated, Call
  <2>2. TypeOK'
    BY <1>0, <1>3, <2>1, EndsTyped DEF TypeOK, Activated, Pcs, table
  <2>3. Named'
    BY <1>0, <1>3, <2>1, EndsTyped DEF TypeOK, Named, Activated, Pcs
  <2> QED
    BY <2>2, <2>3 DEF Typed
<1>4. CASE Refused(c)
  BY <1>0, <1>4 DEF Typed, TypeOK, Named, Refused, Cleared, Ends, NoView, View, Call, Pcs, table, wizard
<1>5. CASE Lost(c)
  <2>1. PICK pc \in {"lost", "over"} : Ends(c, pc)
    BY <1>5 DEF Lost
  <2>2. TypeOK'
    BY <1>0, <1>5, <2>1, EndsTyped DEF TypeOK, Lost, Cleared, Call, Pcs, table, wizard
  <2>3. Named'
    BY <1>0, <2>1, EndsTyped DEF TypeOK, Named, Pcs
  <2> QED
    BY <2>2, <2>3 DEF Typed
<1>6. CASE ReadList(c)
  <2>1. Server \in View
    BY <1>0 DEF TypeOK, Server, View
  <2> QED
    BY <1>0, <1>6, <2>1 DEF Typed, TypeOK, Named, ReadList, Call, Pcs, table, wizard
<1>7. CASE ShowList(c)
  <2>1. call[c].got \in View /\ call[c].page \in Pages
    BY <1>0 DEF Call
  <2>2. Ends(c, "over")
    BY <1>7 DEF ShowList
  <2>3. TypeOK'
    BY <1>0, <1>7, <2>1, <2>2, EndsTyped DEF TypeOK, ShowList, Pcs, table
  <2>4. Named'
    BY <1>0, <2>2, EndsTyped DEF TypeOK, Named, Pcs
  <2> QED
    BY <2>2, <2>3, <2>4 DEF Typed
<1> QED
  BY <1>1, <1>2, <1>3, <1>4, <1>5, <1>6, <1>7 DEF Hear

\* A step that replaces one call by a call replaces nothing else.
LEMMA ReplacedCall ==
  ASSUME call \in [Calls -> Call], NEW c \in Calls, NEW k \in Call, call' = [call EXCEPT ![c] = k]
  PROVE  /\ call' \in [Calls -> Call] /\ call'[c] = k
         /\ \A d \in Calls \ {c} : call'[d] = call[d]
OBVIOUS

\* The steps of a request keep the types.
LEMMA RequestTyped ==
  ASSUME Typed, NEW c \in Calls, Serve(c)
  PROVE  Typed'
<1>0. TypeOK /\ Named /\ call \in [Calls -> Call] /\ call[c] \in Call
  BY DEF Typed, TypeOK
<1>1. CASE ReadUpdate(c)
  BY <1>0, <1>1 DEF Typed, TypeOK, Named, ReadUpdate, At, Call, Pcs, table, wizard
<1>2. CASE Update(c)
  <2>1. Merged(c) \in SUBSET Calls
    BY <1>0 DEF Merged, Call
  <2>2. PICK pc \in {"written", "failed"} : Ends(c, pc)
    BY <1>2 DEF Update
  <2>3. TypeOK'
    BY <1>0, <1>2, <2>1, <2>2, EndsTyped DEF TypeOK, Update, Pcs, wizard
  <2>4. Named'
    BY <1>0, <1>2, <2>2, EndsTyped DEF TypeOK, Named, Update, At, Pcs
  <2> QED
    BY <2>3, <2>4 DEF Typed
<1>3. CASE ReadDelete(c)
  BY <1>0, <1>3 DEF Typed, TypeOK, Named, ReadDelete, At, Goes, Call, Pcs, table, wizard
<1>4. CASE Delete(c)
  BY <1>0, <1>4 DEF Typed, TypeOK, Named, Delete, At, Goes, Untold, Call, Pcs, wizard
<1>5. CASE Answer(c)
  BY <1>0, <1>5 DEF Typed, TypeOK, Named, Answer, Goes, Call, Pcs, table, wizard
<1>6. CASE LockTarget(c)
  <2>1. call[c].id \in Ids /\ call[c].op = "activate"
    BY <1>0, <1>6 DEF Named, LockTarget, At
  <2>2. PICK pc \in {"locked", "failed"} : Goes(c, pc)
    BY <1>6 DEF LockTarget
  <2>3. lock' \in [Ids -> Calls \cup {Nobody}]
    BY <1>0, <1>6, <2>1 DEF LockTarget, TypeOK
  <2>4. [call[c] EXCEPT !.pc = pc] \in Call
    BY <1>0 DEF Call, Pcs
  <2>5. call' = [call EXCEPT ![c] = [call[c] EXCEPT !.pc = pc]]
    BY <1>0, <2>2 DEF Goes, TypeOK
  <2>6. TypeOK'
    BY <1>0, <1>6, <2>3, <2>4, <2>5 DEF LockTarget, TypeOK, table, wizard
  <2>7. Named'
    BY <1>0, <2>1, <2>4, <2>5 DEF Named, TypeOK
  <2> QED
    BY <2>6, <2>7 DEF Typed
<1>7. CASE Snapshot(c)
  BY <1>0, <1>7 DEF Typed, TypeOK, Named, Snapshot, At, Call, Pcs, table, wizard
<1>8. CASE Activate(c)
  <2>1. Switched(c) \in SUBSET Ids /\ Unlocked(c) \in [Ids -> Calls \cup {Nobody}]
    BY <1>0, <1>8 DEF TypeOK, Named, Activate, At, Switched, Unlocked
  <2> QED
    BY <1>0, <1>8, <2>1 DEF Typed, TypeOK, Named, Activate, At, Ends, Untold, NoView, View, Call, Pcs, wizard
<1>9. ASSUME NEW i \in Ids, Create(c, i) PROVE Typed'
  <2> DEFINE o == [call[c] EXCEPT !.pc = "written"]
             k == [o EXCEPT !.id = i]
  <2>1. call' = [call EXCEPT ![c] = k] /\ i \in Ids
    BY <1>0, <1>9 DEF Create
  <2>2. o \in Call
    BY <1>0 DEF Call, Pcs
  <2> HIDE DEF o
  <2>3. k \in Call /\ k.id = i
    BY <2>1, <2>2 DEF Call
  <2> HIDE DEF k
  <2>4. call' \in [Calls -> Call] /\ Named'
    <3>1. /\ call' \in [Calls -> Call] /\ call'[c] = k
          /\ \A d \in Calls \ {c} : call'[d] = call[d]
      BY <1>0, <2>1, <2>3, ReplacedCall
    <3> QED
      BY <2>1, <2>3, <3>1 DEF Named, Typed
  <2>5. rows' \subseteq Ids /\ edits' \in [Ids -> SUBSET Calls] /\ behind' \subseteq Pages
    BY <1>0, <1>9 DEF TypeOK, Create, Untold
  <2> QED
    BY <1>0, <1>9, <2>4, <2>5 DEF Typed, TypeOK, Create, wizard
<1>10. ASSUME NEW i \in Ids, LockOther(c, i) PROVE Typed'
  <2> DEFINE o == [call[c] EXCEPT !.saw = @ \ {i}]
             k == [o EXCEPT !.off = IF i \in active THEN @ \cup {i} ELSE @]
  <2>1. call' = [call EXCEPT ![c] = k]
    BY <1>0, <1>10 DEF LockOther
  <2>2. o \in Call /\ o.id = call[c].id
    BY <1>0 DEF Call
  <2> HIDE DEF o
  <2>3. k \in Call /\ k.id = o.id
    BY <2>2 DEF Call
  <2> HIDE DEF k
  <2>4. call' \in [Calls -> Call] /\ Named'
    <3>1. /\ call' \in [Calls -> Call] /\ call'[c] = k
          /\ \A d \in Calls \ {c} : call'[d] = call[d]
      BY <1>0, <2>1, <2>3, ReplacedCall
    <3> QED
      BY <1>10, <2>2, <2>3, <3>1 DEF Named, Typed, LockOther, table
  <2>5. lock' \in [Ids -> Calls \cup {Nobody}]
    BY <1>0, <1>10 DEF TypeOK, LockOther
  <2> QED
    BY <1>10, <2>4, <2>5 DEF Typed, TypeOK, LockOther, table, wizard
<1> QED
  BY <1>1, <1>2, <1>3, <1>4, <1>5, <1>6, <1>7, <1>8, <1>9, <1>10 DEF Serve

\* The clicks and page loads keep the types.
LEMMA UseTyped ==
  ASSUME Typed, NEW c \in Calls, Use(c)
  PROVE  Typed'
<1>0. TypeOK /\ Named
  BY DEF Typed
<1>1. ASSUME NEW p \in Pages, Load(c, p) PROVE Typed'
  <2>1. [Unused EXCEPT !.pc = "reading", !.page = p] \in Call
    BY UnusedTyped DEF Call, Pcs
  <2> QED
    BY <1>0, <1>1, <2>1 DEF Typed, TypeOK, Named, Load, Unused, table, wizard
<1>2. ASSUME NEW p \in Pages, NEW op \in Ops, NEW i \in Ids \cup {NoId}, Click(c, p, op, i) PROVE Typed'
  <2>1. [Unused EXCEPT !.op = op, !.pc = "sent", !.page = p, !.id = i] \in Call
    BY UnusedTyped DEF Call, Pcs
  <2>2. op \in {"update", "delete", "activate"} => i \in Ids
    BY <1>0, <1>2 DEF Click, MayClick, HasButton, TypeOK, View
  <2> QED
    BY <1>0, <1>2, <2>1, <2>2 DEF Typed, TypeOK, Named, Click, Unused, table, wizard
<1> QED
  BY <1>1, <1>2 DEF Use

LEMMA TypedNext == Typed /\ [Next]_vars => Typed'
<1> SUFFICES ASSUME Typed, [Next]_vars PROVE Typed'
  OBVIOUS
<1>1. ASSUME NEW c \in Calls, Use(c) \/ Serve(c) \/ Hear(c) \/ Lost(c) PROVE Typed'
  BY <1>1, UseTyped, RequestTyped, PageTyped
<1>2. ASSUME NEW p \in Pages, Turn(p) \/ CreateProject(p) PROVE Typed'
  BY <1>2 DEF Typed, TypeOK, Named, Turn, CreateProject, table
<1>3. CASE UNCHANGED vars
  BY <1>3 DEF vars, Typed, TypeOK, Named, table, wizard
<1> QED
  BY <1>1, <1>2, <1>3 DEF Next

\* Every reachable state is well typed.
THEOREM TypeCorrect == Spec => []TypeOK
<1>1. Typed => TypeOK
  BY DEF Typed
<1> QED
  BY <1>1, TypedInit, TypedNext, PTL DEF Spec

-----------------------------------------------------------------------------
(* One active provider.  The unique index is enough: an activation that    *)
(* has not switched every other provider off fails.                        *)

OneActive == \A i, j \in active : i = j

\* A step that changes what is active is an activation or a delete.
LEMMA ActiveChanges ==
  ASSUME Typed, [Next]_vars
  PROVE  \/ active' = active /\ snatched' = snatched
         \/ \E c \in Calls : Activate(c)
         \/ \E c \in Calls : Delete(c)
<1>1. ASSUME NEW c \in Calls, Use(c) PROVE active' = active /\ snatched' = snatched
  BY <1>1 DEF Use, Load, Click, table
<1>2. ASSUME NEW c \in Calls, Hear(c) \/ Lost(c) PROVE active' = active /\ snatched' = snatched
  BY <1>2 DEF Hear, Lost, Answered, Created, Activated, Refused, ReadList, ShowList, table
<1>3. ASSUME NEW c \in Calls, Serve(c)
      PROVE  (active' = active /\ snatched' = snatched) \/ Activate(c) \/ Delete(c)
  BY <1>3 DEF Serve, ReadUpdate, Update, ReadDelete, Answer, LockTarget, Snapshot, Create, LockOther, table
<1>4. ASSUME NEW p \in Pages, Turn(p) \/ CreateProject(p) PROVE active' = active /\ snatched' = snatched
  BY <1>4 DEF Turn, CreateProject, table
<1>5. CASE UNCHANGED vars
  BY <1>5 DEF vars, table
<1> QED
  BY <1>1, <1>2, <1>3, <1>4, <1>5 DEF Next

LEMMA OneActiveNext ==
  ASSUME Typed, OneActive, [Next]_vars
  PROVE  OneActive'
<1>1. ASSUME NEW c \in Calls, Activate(c) PROVE OneActive'
  <2>1. active' = Switched(c)
    BY <1>1 DEF Activate
  <2>2. CASE Violates(c)
    BY <2>1, <2>2 DEF OneActive, Switched
  <2>3. CASE ~Violates(c) /\ call[c].id \in active
    BY <2>1, <2>3 DEF OneActive, Switched
  <2>4. CASE ~Violates(c) /\ call[c].id \notin active
    <3>1. active \subseteq call[c].off
      BY <2>4 DEF Violates
    <3> QED
      BY <2>1, <2>4, <3>1 DEF OneActive, Switched
  <2> QED
    BY <2>2, <2>3, <2>4
<1>2. ASSUME NEW c \in Calls, Delete(c) PROVE OneActive'
  BY <1>2 DEF OneActive, Delete
<1>3. CASE active' = active
  BY <1>3 DEF OneActive
<1> QED
  BY <1>1, <1>2, <1>3, ActiveChanges

LEMMA OneIsAtMostOne == OneActive => AtMostOneActive
<1> SUFFICES ASSUME OneActive PROVE Cardinality(active) <= 1
  BY DEF AtMostOneActive
<1>1. CASE active = {}
  BY <1>1, FS_EmptySet
<1>2. ASSUME NEW i \in active PROVE Cardinality(active) <= 1
  <2>1. active = {i}
    BY <1>2 DEF OneActive
  <2>2. Cardinality({i}) = 1
    BY FS_Singleton
  <2> QED
    BY <2>1, <2>2
<1> QED
  BY <1>1, <1>2

\* At most one provider of a purpose is active, however activations, deletes
\* and lost answers cross.
THEOREM OneProviderActive == Spec => []AtMostOneActive
<1>1. Init => Typed /\ OneActive
  <2> SUFFICES ASSUME Init PROVE OneActive
    BY TypedInit
  <2> QED
    BY SettingsAssumption DEF Init, OneActive
<1>2. Typed /\ OneActive /\ [Next]_vars => (Typed /\ OneActive)'
  BY TypedNext, OneActiveNext
<1> QED
  BY <1>1, <1>2, OneIsAtMostOne, PTL DEF Spec

-----------------------------------------------------------------------------
(* The onboarding.  What it relies on, once true, stays true: an           *)
(* activation that fails leaves what is active, one that does not leaves   *)
(* its own provider, and a delete is remembered.                           *)

Provided == active # {} \/ snatched

\* What a call has brought about, or has seen.
Brought(c) ==
    /\ call[c].op = "activate" /\ call[c].pc \in {"written", "ok"} => Provided
    /\ call[c].pc = "listed" /\ call[c].got.active # {} => Provided

ReadyInv == Ready /\ \A c \in Calls : Brought(c)

LEMMA ProvidedStays ==
  ASSUME Typed, Provided, [Next]_vars
  PROVE  Provided'
<1>1. ASSUME NEW c \in Calls, Activate(c) PROVE Provided'
  <2>1. snatched' = snatched /\ active' = Switched(c)
    BY <1>1 DEF Activate
  <2> QED
    BY <2>1 DEF Provided, Switched
<1>2. ASSUME NEW c \in Calls, Delete(c) PROVE Provided'
  BY <1>2 DEF Provided, Delete
<1>3. CASE active' = active /\ snatched' = snatched
  BY <1>3 DEF Provided
<1> QED
  BY <1>1, <1>2, <1>3, ActiveChanges

LEMMA BroughtNext ==
  ASSUME Typed, ReadyInv, [Next]_vars, NEW d \in Calls
  PROVE  Brought(d)'
<1>0. TypeOK /\ Brought(d) /\ call \in [Calls -> Call]
  BY DEF Typed, TypeOK, ReadyInv
<1>1. CASE Provided
  BY <1>1, ProvidedStays DEF Brought, Provided
<1>2. CASE ~Provided
  <2>1. ASSUME NEW c \in Calls, Use(c) PROVE Brought(d)'
    <3>1. ASSUME NEW p \in Pages, Load(c, p) PROVE Brought(d)'
      BY <1>0, <3>1 DEF Load, Brought, Provided, Unused, table
    <3>2. ASSUME NEW p \in Pages, NEW op \in Ops, NEW i \in Ids \cup {NoId}, Click(c, p, op, i) PROVE Brought(d)'
      BY <1>0, <3>2 DEF Click, Brought, Provided, Unused, table
    <3> QED
      BY <2>1, <3>1, <3>2 DEF Use
  <2>2. ASSUME NEW c \in Calls, Hear(c) \/ Lost(c) PROVE Brought(d)'
    <3>1. CASE Answered(c)
      BY <1>0, <3>1 DEF Answered, Goes, Brought, Provided, table
    <3>2. CASE Created(c)
      BY <1>0, <3>2 DEF Created, Brought, Provided, table
    <3>3. CASE Activated(c) \/ Refused(c) \/ ShowList(c) \/ Lost(c)
      <4>1. PICK pc \in {"over", "lost"} : Ends(c, pc)
        BY <3>3 DEF Activated, Refused, ShowList, Lost
      <4>2. active' = active /\ snatched' = snatched
        BY <3>3 DEF Activated, Refused, ShowList, Lost, table
      <4> QED
        BY <1>0, <4>1, <4>2, EndsTyped DEF Brought, Provided, Pcs
    <3>4. CASE ReadList(c)
      BY <1>0, <1>2, <3>4 DEF ReadList, Brought, Provided, Server, table
    <3> QED
      BY <2>2, <3>1, <3>2, <3>3, <3>4 DEF Hear
  <2>3. ASSUME NEW c \in Calls, Serve(c) PROVE Brought(d)'
    <3>1. CASE ReadUpdate(c)
      BY <1>0, <3>1 DEF ReadUpdate, Brought, Provided, table
    <3>2. CASE Update(c)
      <4>1. PICK pc \in {"written", "failed"} : Ends(c, pc)
        BY <3>2 DEF Update
      <4> QED
        BY <1>0, <3>2, <4>1, EndsTyped DEF Update, At, Brought, Provided, Pcs
    <3>3. CASE ReadDelete(c)
      BY <1>0, <3>3 DEF ReadDelete, Goes, Brought, Provided, table
    <3>4. CASE Delete(c)
      BY <1>0, <1>2, <3>4 DEF Delete, At, Goes, Brought, Provided
    <3>5. CASE Answer(c)
      BY <1>0, <3>5 DEF Answer, Goes, Brought, Provided, table
    <3>6. CASE LockTarget(c)
      <4>1. PICK pc \in {"locked", "failed"} : Goes(c, pc)
        BY <3>6 DEF LockTarget
      <4> QED
        BY <1>0, <3>6, <4>1 DEF LockTarget, Goes, Brought, Provided, table
    <3>7. CASE Snapshot(c)
      BY <1>0, <3>7 DEF Snapshot, Brought, Provided, table
    <3>8. CASE Activate(c)
      <4>1. ~Violates(c) => active' # {}
        BY <3>8 DEF Activate, Switched
      <4>2. Violates(c) => Ends(c, "failed") /\ active' = active
        BY <3>8 DEF Activate, Switched
      <4>3. CASE Violates(c)
        BY <1>0, <3>8, <4>2, <4>3, EndsTyped DEF Activate, Brought, Provided, Pcs
      <4> QED
        BY <4>1, <4>3 DEF Brought, Provided
    <3>9. ASSUME NEW i \in Ids, Create(c, i) PROVE Brought(d)'
      BY <1>0, <3>9 DEF Create, At, Brought, Provided
    <3>10. ASSUME NEW i \in Ids, LockOther(c, i) PROVE Brought(d)'
      BY <1>0, <3>10 DEF LockOther, Brought, Provided, table
    <3> QED
      BY <2>3, <3>1, <3>2, <3>3, <3>4, <3>5, <3>6, <3>7, <3>8, <3>9, <3>10 DEF Serve
  <2>4. ASSUME NEW p \in Pages, Turn(p) \/ CreateProject(p) PROVE Brought(d)'
    BY <1>0, <2>4 DEF Turn, CreateProject, Brought, Provided, table
  <2>5. CASE UNCHANGED vars
    BY <1>0, <2>5 DEF vars, Brought, Provided, table, wizard
  <2> QED
    BY <2>1, <2>2, <2>3, <2>4, <2>5 DEF Next
<1> QED
  BY <1>1, <1>2

LEMMA ReadyNext ==
  ASSUME Typed, ReadyInv, [Next]_vars
  PROVE  Ready'
<1> SUFFICES ASSUME NEW q \in Wizards, step'[q] > 1 PROVE Provided'
  BY DEF Ready, Provided
<1>0. TypeOK /\ q \in Pages /\ step \in [Pages -> 1 .. 4] /\ (step[q] > 1 => Provided)
  BY SettingsAssumption DEF Typed, TypeOK, ReadyInv, Ready, Provided
<1>1. CASE step[q] > 1
  BY <1>0, <1>1, ProvidedStays
<1>2. CASE ~(step[q] > 1)
  <2>1. step[q] = 1 /\ step' # step
    BY <1>0, <1>2
  <2>2. ASSUME NEW c \in Calls, Use(c) \/ Serve(c) PROVE step' = step
    BY <2>2 DEF Use, Load, Click, Serve, ReadUpdate, Update, ReadDelete, Delete, Answer, LockTarget,
                Snapshot, Activate, Create, LockOther, wizard
  <2>3. ASSUME NEW c \in Calls, Hear(c) \/ Lost(c), step' # step PROVE Activated(c) \/ ShowList(c)
    BY <2>3 DEF Hear, Lost, Answered, Created, Refused, ReadList, wizard
  <2>4. ASSUME NEW c \in Calls, Activated(c) PROVE Provided
    BY <2>4 DEF ReadyInv, Brought, Activated, At
  <2>5. ASSUME NEW c \in Calls, ShowList(c) PROVE Provided
    BY <2>1, <2>5 DEF ReadyInv, Brought, ShowList
  <2>6. ASSUME NEW p \in Pages, Turn(p) \/ CreateProject(p) PROVE step'[q] = step[q]
    BY <1>0, <2>1, <2>6 DEF Turn, CreateProject
  <2>7. ASSUME UNCHANGED vars PROVE FALSE
    BY <2>1, <2>7 DEF vars, wizard
  <2>8. Provided
    <3>1. ASSUME NEW c \in Calls, Use(c) \/ Serve(c) \/ Hear(c) \/ Lost(c) PROVE Provided
      BY <2>1, <2>2, <2>3, <2>4, <2>5, <3>1
    <3>2. ASSUME NEW p \in Pages, Turn(p) \/ CreateProject(p) PROVE FALSE
      BY <2>1, <2>6, <3>2
    <3> QED
      BY <2>7, <3>1, <3>2 DEF Next
  <2> QED
    BY <2>8, ProvidedStays
<1> QED
  BY <1>1, <1>2

\* A user who is past the first step of the onboarding has a provider, unless a
\* delete that had seen it inactive took it away.
THEOREM OnboardingIsReady == Spec => []Ready
<1>1. Init => Typed /\ ReadyInv
  BY TypedInit, SettingsAssumption DEF Init, ReadyInv, Ready, Brought, Unused, NoView
<1>2. Typed /\ ReadyInv /\ [Next]_vars => (Typed /\ ReadyInv)'
  BY TypedNext, BroughtNext, ReadyNext DEF ReadyInv
<1>3. ReadyInv => Ready
  BY DEF ReadyInv
<1> QED
  BY <1>1, <1>2, <1>3, PTL DEF Spec

-----------------------------------------------------------------------------
(* Saved forms.  The flag saving keeps the forms of one page apart, so a   *)
(* request that replaces a stored form without having read it is another   *)
(* page's.  A form that was refused is one for a provider that is gone,    *)
(* and its key does not come back.                                         *)

Past      == {"written", "ok", "reading", "listed", "over"}
Seen      == rows \cup gone
Form(c)   == call[c].op \in {"create", "update"} /\ call[c].page \notin Wizards
Twin(c, d) == call[c].op = "update" /\ call[d].op = "update" /\ call[c].id = call[d].id

\* What pages and calls know of has been there.
Known ==
    /\ rows \cap gone = {}
    /\ \A p \in Pages : list[p].rows \subseteq Seen
    /\ \A c \in Calls :
          /\ call[c].got.rows \subseteq Seen
          /\ call[c].op = "create" /\ call[c].pc \in {"written", "ok"} => call[c].id \in Seen
          /\ call[c].op = "update" => call[c].id \in Seen
          /\ call[c].op = "update" /\ call[c].pc = "failed" => call[c].id \in gone

\* One form of a page is saved at a time.
OneForm ==
    \A c \in Calls :
        /\ call[c].pc = "idle" => call[c].op = "load"
        /\ call[c].op = "update" => Form(c)
        /\ Form(c) /\ UnderWay(c) => call[c].page \in saving
        /\ \A d \in Calls : Form(c) /\ UnderWay(c) /\ Form(d) /\ UnderWay(d) /\ call[c].page = call[d].page => c = d

Others(c) == \E d \in Calls : Twin(c, d) /\ call[c].page # call[d].page

\* A saved form is stored, or another page has saved one for its provider; a
\* request that is about to store one has read the page's earlier ones.
Stored == \A c \in Calls :
    /\ call[c].op = "update" /\ call[c].pc \in Past /\ call[c].id \in rows => c \in edits[call[c].id] \/ Others(c)
    /\ \A d \in Calls : Twin(c, d) /\ call[c].pc \in Past /\ call[d].pc = "merging" /\ call[c].page = call[d].page
                        => c \in call[d].base \/ Others(c)

LEMMA KnownNext ==
  ASSUME Typed, Known, [Next]_vars
  PROVE  Known'
<1>0. TypeOK /\ Named /\ call \in [Calls -> Call] /\ list \in [Pages -> View]
  BY DEF Typed, TypeOK
<1>1. ASSUME NEW c \in Calls, Use(c) PROVE Known'
  <2>1. ASSUME NEW p \in Pages, Load(c, p) PROVE Known'
    BY <1>0, <2>1 DEF Load, Known, Seen, Unused, NoView, table
  <2>2. ASSUME NEW p \in Pages, NEW op \in Ops, NEW i \in Ids \cup {NoId}, Click(c, p, op, i) PROVE Known'
    <3>1. op = "update" => i \in Seen
      BY <2>2 DEF Click, MayClick, HasButton, Known
    <3> QED
      BY <1>0, <2>2, <3>1 DEF Click, Known, Seen, Unused, NoView, table
  <2> QED
    BY <1>1, <2>1, <2>2 DEF Use
<1>2. ASSUME NEW c \in Calls, Hear(c) \/ Lost(c) PROVE Known'
  <2>1. CASE Answered(c)
    <3>1. call[c].page \in Pages /\ call[c].op \in Ops
      BY <1>0 DEF Call
    <3>2. Applied(c, list[call[c].page]).rows \subseteq Seen
      BY <1>0, <2>1, <3>1 DEF Answered, Applied, Known, View, Ops
    <3> QED
      BY <1>0, <2>1, <3>1, <3>2 DEF Answered, Goes, Known, Seen, table
  <2>2. CASE Created(c)
    BY <1>0, <2>2 DEF Created, At, Known, Seen, table
  <2>3. CASE Activated(c) \/ Refused(c) \/ Lost(c)
    <3>1. PICK pc \in {"over", "lost"} : Ends(c, pc)
      BY <2>3 DEF Activated, Refused, Lost
    <3>2. UNCHANGED table /\ list' = list
      BY <2>3 DEF Activated, Refused, Lost
    <3> QED
      BY <1>0, <3>1, <3>2, EndsTyped DEF Known, Seen, NoView, Pcs, table
  <2>4. CASE ReadList(c)
    BY <1>0, <2>4 DEF ReadList, Known, Seen, Server, table
  <2>5. CASE ShowList(c)
    <3>1. Ends(c, "over") /\ call[c].page \in Pages
      BY <1>0, <2>5 DEF ShowList, Call
    <3> QED
      BY <1>0, <2>5, <3>1, EndsTyped DEF ShowList, Known, Seen, NoView, Pcs, table
  <2> QED
    BY <1>2, <2>1, <2>2, <2>3, <2>4, <2>5 DEF Hear
<1>3. ASSUME NEW c \in Calls, Serve(c) PROVE Known'
  <2>1. CASE ReadUpdate(c)
    BY <1>0, <2>1 DEF ReadUpdate, At, Known, Seen, table
  <2>2. CASE Update(c)
    <3>1. PICK pc \in {"written", "failed"} : Ends(c, pc) /\ (pc = "failed" => call[c].id \notin rows)
      BY <2>2 DEF Update
    <3>2. rows' = rows /\ gone' = gone /\ list' = list
      BY <2>2 DEF Update
    <3> QED
      BY <1>0, <2>2, <3>1, <3>2, EndsTyped DEF Update, At, Known, Seen, NoView, Pcs
  <2>3. CASE ReadDelete(c)
    <3>1. PICK pc \in {"doomed", "failed"} : Goes(c, pc)
      BY <2>3 DEF ReadDelete
    <3> QED
      BY <1>0, <2>3, <3>1 DEF ReadDelete, At, Goes, Known, Seen, table
  <2>4. CASE Delete(c)
    BY <1>0, <2>4 DEF Delete, At, Goes, Known, Seen
  <2>5. CASE Answer(c)
    <3>1. PICK pc \in {"ok", "failed"} : Goes(c, pc) /\ (pc = "failed" => call[c].id \notin rows)
      BY <2>5 DEF Answer
    <3> QED
      BY <1>0, <2>5, <3>1 DEF Answer, Goes, Known, Seen, table
  <2>6. CASE LockTarget(c)
    <3>1. PICK pc \in {"locked", "failed"} : Goes(c, pc)
      BY <2>6 DEF LockTarget
    <3> QED
      BY <1>0, <2>6, <3>1 DEF LockTarget, At, Goes, Known, Seen, table
  <2>7. CASE Snapshot(c)
    BY <1>0, <2>7 DEF Snapshot, At, Known, Seen, table
  <2>8. CASE Activate(c)
    <3>1. PICK pc \in {"written", "failed"} : Ends(c, pc)
      BY <2>8 DEF Activate
    <3>2. rows' = rows /\ gone' = gone /\ list' = list /\ call[c].op = "activate"
      BY <2>8 DEF Activate, At
    <3> QED
      BY <1>0, <3>1, <3>2, EndsTyped DEF Known, Seen, NoView, Pcs
  <2>9. ASSUME NEW i \in Ids, Create(c, i) PROVE Known'
    BY <1>0, <2>9 DEF Create, At, Known, Seen
  <2>10. ASSUME NEW i \in Ids, LockOther(c, i) PROVE Known'
    BY <1>0, <2>10 DEF LockOther, At, Known, Seen, table
  <2> QED
    BY <1>3, <2>1, <2>2, <2>3, <2>4, <2>5, <2>6, <2>7, <2>8, <2>9, <2>10 DEF Serve
<1>4. ASSUME NEW p \in Pages, Turn(p) \/ CreateProject(p) PROVE Known'
  BY <1>4 DEF Turn, CreateProject, Known, Seen, table
<1>5. CASE UNCHANGED vars
  BY <1>5 DEF vars, Known, Seen, table
<1> QED
  BY <1>1, <1>2, <1>3, <1>4, <1>5 DEF Next

\* The steps of other pages and of the network as a call's form sees them: it
\* stays the form of the same page, and what it waits for it has read.
FormStep(d) ==
    /\ call[d].op = "update" => /\ call'[d].op = "update" /\ call'[d].id = call[d].id /\ call'[d].page = call[d].page
                                /\ call'[d].pc \in Past => call[d].pc \in Past \cup {"failed", "merging"}
                                /\ call'[d].pc = "merging" => \/ call[d].pc = "merging" /\ call'[d].base = call[d].base
                                                              \/ call[d].id \in rows /\ call'[d].base = edits[call[d].id]
    /\ call'[d].op = "update" /\ call[d].op # "update" => call'[d].pc = "sent" /\ call[d].pc = "idle"
    /\ call'[d].pc = "idle" => call[d].pc = "idle" /\ call'[d].op = call[d].op
    /\ call[d].pc # "idle" => /\ call'[d].page = call[d].page
                              /\ call'[d].op \in {"create", "update"} => call'[d].op = call[d].op
                              /\ UnderWay(d)' => UnderWay(d)

LEMMA FormSteps ==
  ASSUME Typed, OneForm, [Next]_vars, NEW d \in Calls
  PROVE  FormStep(d)
<1>0. TypeOK /\ call \in [Calls -> Call] /\ (call[d].pc = "idle" => call[d].op = "load")
  BY DEF Typed, TypeOK, OneForm
<1>1. ASSUME NEW c \in Calls, Use(c) PROVE FormStep(d)
  <2>1. ASSUME NEW p \in Pages, Load(c, p) PROVE FormStep(d)
    BY <1>0, <2>1 DEF Load, Unspent, FormStep, UnderWay, Past, Unused
  <2>2. ASSUME NEW p \in Pages, NEW op \in Ops, NEW i \in Ids \cup {NoId}, Click(c, p, op, i) PROVE FormStep(d)
    BY <1>0, <2>2 DEF Click, Unspent, FormStep, UnderWay, Past, Unused
  <2> QED
    BY <1>1, <2>1, <2>2 DEF Use
<1>2. ASSUME NEW c \in Calls, Hear(c) \/ Lost(c) PROVE FormStep(d)
  <2>1. CASE Answered(c)
    BY <1>0, <2>1 DEF Answered, Goes, FormStep, UnderWay, Past
  <2>2. CASE Created(c)
    BY <1>0, <2>2 DEF Created, At, FormStep, UnderWay, Past
  <2>3. CASE Activated(c) \/ Refused(c) \/ ShowList(c) \/ Lost(c)
    <3>1. PICK pc \in {"over", "lost"} : Ends(c, pc) /\ (pc = "over" => call[c].pc \in Past \cup {"failed"})
      BY <2>3 DEF Activated, Refused, ShowList, Lost, At, Past
    <3>2. call[c].pc # "idle"
      BY <2>3 DEF Activated, Refused, ShowList, Lost, At
    <3> QED
      BY <1>0, <3>1, <3>2, EndsTyped DEF FormStep, UnderWay, Past, Pcs
  <2>4. CASE ReadList(c)
    BY <1>0, <2>4 DEF ReadList, FormStep, UnderWay, Past
  <2> QED
    BY <1>2, <2>1, <2>2, <2>3, <2>4 DEF Hear
<1>3. ASSUME NEW c \in Calls, Serve(c) PROVE FormStep(d)
  <2>1. CASE ReadUpdate(c)
    BY <1>0, <2>1 DEF ReadUpdate, At, FormStep, UnderWay, Past, Call
  <2>2. CASE Update(c)
    <3>1. PICK pc \in {"written", "failed"} : Ends(c, pc)
      BY <2>2 DEF Update
    <3> QED
      BY <1>0, <2>2, <3>1, EndsTyped DEF Update, At, FormStep, UnderWay, Past, Pcs
  <2>3. CASE ReadDelete(c)
    BY <1>0, <2>3 DEF ReadDelete, At, Goes, FormStep, UnderWay, Past
  <2>4. CASE Delete(c)
    BY <1>0, <2>4 DEF Delete, At, Goes, FormStep, UnderWay, Past
  <2>5. CASE Answer(c)
    BY <1>0, <2>5 DEF Answer, Goes, FormStep, UnderWay, Past
  <2>6. CASE LockTarget(c)
    <3>1. PICK pc \in {"locked", "failed"} : Goes(c, pc)
      BY <2>6 DEF LockTarget
    <3> QED
      BY <1>0, <2>6, <3>1 DEF LockTarget, At, Goes, FormStep, UnderWay, Past
  <2>7. CASE Snapshot(c)
    BY <1>0, <2>7 DEF Snapshot, At, FormStep, UnderWay, Past
  <2>8. CASE Activate(c)
    <3>1. PICK pc \in {"written", "failed"} : Ends(c, pc)
      BY <2>8 DEF Activate
    <3> QED
      BY <1>0, <2>8, <3>1, EndsTyped DEF Activate, At, FormStep, UnderWay, Past, Pcs
  <2>9. ASSUME NEW i \in Ids, Create(c, i) PROVE FormStep(d)
    BY <1>0, <2>9 DEF Create, At, FormStep, UnderWay, Past
  <2>10. ASSUME NEW i \in Ids, LockOther(c, i) PROVE FormStep(d)
    BY <1>0, <2>10 DEF LockOther, At, FormStep, UnderWay, Past
  <2> QED
    BY <1>3, <2>1, <2>2, <2>3, <2>4, <2>5, <2>6, <2>7, <2>8, <2>9, <2>10 DEF Serve
<1>4. CASE call' = call
  BY <1>0, <1>4 DEF FormStep, UnderWay, Past
<1>5. ASSUME NEW p \in Pages, Turn(p) \/ CreateProject(p) PROVE call' = call
  BY <1>5 DEF Turn, CreateProject
<1> QED
  BY <1>1, <1>2, <1>3, <1>4, <1>5 DEF Next, vars

\* A call's form is under way only if it was, or has just been submitted.
LEMMA FormsUnderWay ==
  ASSUME Typed, OneForm, [Next]_vars, NEW d \in Calls, Form(d)', UnderWay(d)'
  PROVE  \/ Form(d) /\ UnderWay(d) /\ call'[d].page = call[d].page
         \/ \E p \in Pages, op \in Ops, i \in Ids \cup {NoId} :
                Click(d, p, op, i) /\ op \in {"create", "update"} /\ p \notin Wizards
<1>0. TypeOK /\ FormStep(d) /\ call \in [Calls -> Call] /\ (call[d].pc = "idle" => call[d].op = "load")
  BY FormSteps DEF Typed, TypeOK, OneForm
<1>1. CASE call[d].pc # "idle"
  BY <1>0, <1>1 DEF FormStep, Form
<1>2. CASE call[d].pc = "idle"
  <2>1. ASSUME NEW p \in Pages, NEW op \in Ops, NEW i \in Ids \cup {NoId}, Click(d, p, op, i)
        PROVE  op \in {"create", "update"} /\ p \notin Wizards
    BY <1>0, <2>1 DEF Click, Form, Unused
  <2>2. ASSUME NEW p \in Pages, Load(d, p) PROVE FALSE
    BY <1>0, <2>2 DEF Load, Form, Unused
  <2>3. ASSUME NEW c \in Calls \ {d}, Use(c) PROVE call'[d] = call[d]
    BY <1>0, <2>3 DEF Use, Load, Click
  <2>4. ASSUME NEW c \in Calls, Hear(c) \/ Lost(c) \/ Serve(c) PROVE call'[d] = call[d]
    BY <1>0, <1>2, <2>4 DEF Hear, Answered, Created, Activated, Refused, ReadList, ShowList, Lost, Ends, Goes, At,
                            Serve, ReadUpdate, Update, ReadDelete, Delete, Answer, LockTarget, Snapshot,
                            Activate, Create, LockOther
  <2>5. ASSUME NEW p \in Pages, Turn(p) \/ CreateProject(p) PROVE call' = call
    BY <2>5 DEF Turn, CreateProject
  <2>6. call'[d] # call[d]
    BY <1>0, <1>2 DEF Form
  <2>7. Use(d)
    BY <2>3, <2>4, <2>5, <2>6 DEF Next, vars
  <2> QED
    BY <2>1, <2>2, <2>7 DEF Use
<1> QED
  BY <1>1, <1>2

\* The flag is cleared by the form that has set it, as that is over.
LEMMA FlagStays ==
  ASSUME Typed, OneForm, [Next]_vars, NEW d \in Calls, Form(d), UnderWay(d), UnderWay(d)'
  PROVE  call[d].page \in saving'
<1>0. TypeOK /\ call \in [Calls -> Call] /\ call[d].page \in saving /\ call[d].page \notin Wizards
  BY DEF Typed, TypeOK, OneForm, Form
<1>1. ASSUME NEW c \in Calls, Activated(c) \/ Refused(c) \/ Lost(c) \/ ShowList(c) PROVE call[d].page \in saving'
  <2>1. saving' = saving \/ saving' = saving \ {call[c].page}
    BY <1>1 DEF Activated, Refused, Lost, ShowList, Cleared
  <2>2. ASSUME saving' # saving PROVE (Form(c) /\ UnderWay(c)) \/ call[c].page \in Wizards
    BY <1>1, <2>2 DEF Activated, Refused, Lost, ShowList, Cleared, Form, UnderWay, At
  <2>3. PICK pc \in {"over", "lost"} : Ends(c, pc)
    BY <1>1 DEF Activated, Refused, Lost, ShowList
  <2>4. c # d
    BY <1>0, <2>3, EndsTyped DEF UnderWay, Pcs
  <2> QED
    BY <1>0, <2>1, <2>2, <2>4 DEF OneForm
<1>2. ASSUME NEW c \in Calls, Use(c) \/ Serve(c) PROVE call[d].page \in saving'
  BY <1>0, <1>2 DEF Use, Load, Click, Serve, ReadUpdate, Update, ReadDelete, Delete, Answer, LockTarget, Snapshot,
                    Activate, Create, LockOther
<1>3. ASSUME NEW c \in Calls, Answered(c) \/ Created(c) \/ ReadList(c) PROVE call[d].page \in saving'
  BY <1>0, <1>3 DEF Answered, Created, ReadList
<1>4. ASSUME NEW p \in Pages, Turn(p) \/ CreateProject(p) PROVE call[d].page \in saving'
  BY <1>0, <1>4 DEF Turn, CreateProject
<1>5. CASE UNCHANGED vars
  BY <1>0, <1>5 DEF vars
<1> QED
  BY <1>1, <1>2, <1>3, <1>4, <1>5 DEF Next, Hear

LEMMA OneFormNext ==
  ASSUME Typed, OneForm, [Next]_vars
  PROVE  OneForm'
<1>0. TypeOK /\ call \in [Calls -> Call]
  BY DEF Typed, TypeOK
<1>1. ASSUME NEW c \in Calls PROVE call'[c].pc = "idle" => call'[c].op = "load"
  BY FormSteps DEF FormStep, OneForm
<1>2. ASSUME NEW c \in Calls, call'[c].op = "update" PROVE Form(c)'
  <2>1. CASE call[c].op = "update"
    BY <1>2, <2>1, FormSteps DEF FormStep, Form, OneForm
  <2>2. CASE call[c].op # "update"
    <3>1. call[c].pc = "idle" /\ call'[c].pc = "sent"
      BY <1>2, <2>2, FormSteps DEF FormStep
    <3>2. ASSUME NEW e \in Calls, Use(e) PROVE Form(c)'
      <4>1. e = c
        BY <1>0, <3>1, <3>2 DEF Use, Load, Click
      <4>2. PICK p \in Pages, op \in Ops, i \in Ids \cup {NoId} : Click(c, p, op, i)
        <5>1. PICK p \in Pages : Load(c, p) \/ \E op \in Ops, i \in Ids \cup {NoId} : Click(c, p, op, i)
          BY <3>2, <4>1 DEF Use
        <5>2. ~Load(c, p)
          BY <1>0, <3>1 DEF Load, Unused
        <5> QED
          BY <5>1, <5>2
      <4> QED
        BY <1>0, <1>2, <4>2 DEF Click, MayClick, Form, Unused
    <3>3. ASSUME NEW e \in Calls, Hear(e) \/ Lost(e) \/ Serve(e) PROVE call'[c] = call[c]
      BY <1>0, <3>1, <3>3 DEF Hear, Answered, Created, Activated, Refused, ReadList, ShowList, Lost, Ends, Goes, At,
                              Serve, ReadUpdate, Update, ReadDelete, Delete, Answer, LockTarget, Snapshot,
                              Activate, Create, LockOther
    <3>4. ASSUME NEW p \in Pages, Turn(p) \/ CreateProject(p) PROVE call' = call
      BY <3>4 DEF Turn, CreateProject
    <3> QED
      BY <1>2, <2>2, <3>2, <3>3, <3>4 DEF Next, vars
  <2> QED
    BY <2>1, <2>2
<1>3. ASSUME NEW c \in Calls, Form(c)', UnderWay(c)',
             NEW p \in Pages, NEW op \in Ops, NEW i \in Ids \cup {NoId}, Click(c, p, op, i),
             op \in {"create", "update"}, p \notin Wizards
      PROVE  /\ call'[c].page = p /\ p \in saving' /\ p \notin saving
             /\ \A d \in Calls \ {c} : call'[d] = call[d]
  BY <1>0, <1>3 DEF Click, MayClick, MaySave, Unused
<1>4. ASSUME NEW c \in Calls, Form(c)', UnderWay(c)' PROVE call'[c].page \in saving'
  BY <1>3, <1>4, FormsUnderWay, FlagStays
<1>5. ASSUME NEW c \in Calls, NEW d \in Calls, Form(c)', UnderWay(c)', Form(d)', UnderWay(d)',
             call'[c].page = call'[d].page, c # d
      PROVE  FALSE
  <2>1. ASSUME NEW a \in Calls, NEW b \in Calls, a # b, Form(a)', UnderWay(a)', Form(b)', UnderWay(b)',
               call'[a].page = call'[b].page,
               NEW p \in Pages, NEW op \in Ops, NEW i \in Ids \cup {NoId}, Click(a, p, op, i),
               op \in {"create", "update"}, p \notin Wizards
        PROVE  FALSE
    <3>1. call'[b] = call[b] /\ call'[a].page = p /\ p \notin saving
      BY <1>3, <2>1
    <3>2. Form(b) /\ UnderWay(b)
      BY <2>1, <3>1 DEF Form, UnderWay
    <3> QED
      BY <2>1, <3>1, <3>2 DEF OneForm
  <2>2. Form(c) /\ UnderWay(c) /\ call'[c].page = call[c].page
    BY <1>5, <2>1, FormsUnderWay
  <2>3. Form(d) /\ UnderWay(d) /\ call'[d].page = call[d].page
    BY <1>5, <2>1, FormsUnderWay
  <2> QED
    BY <1>5, <2>2, <2>3 DEF OneForm
<1> QED
  BY <1>1, <1>2, <1>4, <1>5 DEF OneForm

\* The forms a step stores.
LEMMA EditsChange ==
  ASSUME Typed, Known, [Next]_vars, NEW i \in Ids
  PROVE  \/ rows' \subseteq rows /\ edits'[i] = edits[i]
         \/ \E c \in Calls : Update(c) /\ call[c].id = i /\ edits'[i] = Merged(c) /\ rows' = rows
         \/ \E c \in Calls : edits'[i] = {c} /\ i \notin Seen
         \/ i \in rows /\ edits'[i] = edits[i]
         \/ i \notin rows'
<1>0. TypeOK /\ Named /\ edits \in [Ids -> SUBSET Calls]
  BY DEF Typed, TypeOK
<1>1. ASSUME NEW c \in Calls, Use(c) \/ Hear(c) \/ Lost(c) PROVE UNCHANGED <<rows, edits>>
  BY <1>1 DEF Use, Load, Click, Hear, Answered, Created, Activated, Refused, ReadList, ShowList, Lost, table
<1>2. ASSUME NEW c \in Calls, Serve(c)
      PROVE  \/ rows' \subseteq rows /\ edits' = edits
             \/ Update(c)
             \/ \E j \in Ids : Create(c, j)
  BY <1>2 DEF Serve, ReadUpdate, ReadDelete, Delete, Answer, LockTarget, Snapshot, Activate, LockOther, table
<1>3. ASSUME NEW p \in Pages, Turn(p) \/ CreateProject(p) PROVE UNCHANGED <<rows, edits>>
  BY <1>3 DEF Turn, CreateProject, table
<1>4. ASSUME NEW c \in Calls, Update(c)
      PROVE  rows' = rows /\ (edits'[i] = edits[i] \/ (call[c].id = i /\ edits'[i] = Merged(c)))
  <2>1. rows' = rows /\ (edits' = edits \/ edits' = [edits EXCEPT ![call[c].id] = Merged(c)])
    BY <1>4 DEF Update
  <2> QED
    BY <1>0, <2>1
<1>5. ASSUME NEW c \in Calls, NEW j \in Ids, Create(c, j)
      PROVE  \/ edits'[i] = {c} /\ i \notin Seen
             \/ edits'[i] = edits[i] /\ (i \in rows \/ i \notin rows')
  BY <1>0, <1>5 DEF Create, Seen
<1>6. CASE UNCHANGED vars
  BY <1>6 DEF vars, table
<1> QED
  BY <1>1, <1>2, <1>3, <1>4, <1>5, <1>6 DEF Next

\* Another page's form for a provider stays one.
LEMMA OthersStay ==
  ASSUME Typed, OneForm, [Next]_vars, NEW c \in Calls, call[c].op = "update", Others(c)
  PROVE  Others(c)'
  BY FormSteps DEF FormStep, Others, Twin

\* A request that has read a provider goes on when it writes it.
LEMMA EndsOther ==
  ASSUME Typed, [Next]_vars, NEW c \in Calls, At(c, "update", "merging"), call'[c] # call[c]
  PROVE  Update(c)
<1>0. TypeOK /\ call \in [Calls -> Call]
  BY DEF Typed, TypeOK
<1>1. ASSUME NEW e \in Calls, Use(e) PROVE call'[c] = call[c]
  BY <1>0, <1>1 DEF Use, Load, Click, Unspent, At
<1>2. ASSUME NEW e \in Calls, Hear(e) \/ Lost(e) PROVE call'[c] = call[c]
  BY <1>0, <1>2 DEF Hear, Answered, Created, Activated, Refused, ReadList, ShowList, Lost, Ends, Goes, At
<1>3. ASSUME NEW e \in Calls, Serve(e) PROVE call'[c] = call[c] \/ Update(c)
  BY <1>0, <1>3 DEF Serve, Ends, Goes, At, ReadUpdate, Update, ReadDelete, Delete, Answer, LockTarget, Snapshot,
                    Activate, Create, LockOther
<1>4. ASSUME NEW p \in Pages, Turn(p) \/ CreateProject(p) PROVE call' = call
  BY <1>4 DEF Turn, CreateProject
<1> QED
  BY <1>1, <1>2, <1>3, <1>4 DEF Next, vars

LEMMA StoredNext ==
  ASSUME Typed, Known, OneForm, Stored, [Next]_vars
  PROVE  Stored'
<1>0. TypeOK /\ Named /\ call \in [Calls -> Call] /\ edits \in [Ids -> SUBSET Calls]
  BY DEF Typed, TypeOK
<1>1. ASSUME NEW c \in Calls, (call[c].op = "update" /\ call[c].pc \in Past)'
      PROVE  /\ call[c].op = "update" /\ call'[c].id = call[c].id /\ call'[c].page = call[c].page
             /\ call[c].id \in Ids /\ call[c].pc \in Past \cup {"failed", "merging"}
  BY <1>0, <1>1, FormSteps DEF FormStep, Named, Past
<1>2. ASSUME NEW c \in Calls, (call[c].op = "update" /\ call[c].pc \in Past)', call[c].id \in rows'
      PROVE  c \in edits'[call[c].id] \/ Others(c)'
  <2>1. /\ call[c].op = "update" /\ call[c].id \in Ids
        /\ call[c].pc \in Past \cup {"failed", "merging"}
        /\ call'[c].id = call[c].id
    BY <1>1, <1>2
  <2>2. call[c].id \in Seen
    BY <2>1 DEF Known
  <2>3. CASE \E d \in Calls : Update(d) /\ call[d].id = call[c].id /\ edits'[call[c].id] = Merged(d) /\ rows' = rows
    <3>1. PICK d \in Calls : Update(d) /\ call[d].id = call[c].id /\ edits'[call[c].id] = Merged(d) /\ rows' = rows
      BY <2>3
    <3>2. call[d].op = "update" /\ call[d].pc = "merging"
      BY <3>1 DEF Update, At
    <3>3. CASE d = c
      BY <3>1, <3>3 DEF Merged
    <3>4. CASE call[d].page # call[c].page
      <4>1. Others(c)
        BY <2>1, <3>1, <3>2, <3>4 DEF Others, Twin
      <4> QED
        BY <2>1, <4>1, OthersStay
    <3>5. CASE d # c /\ call[d].page = call[c].page
      <4>1. call[c].pc \in Past
        <5>1. UnderWay(d) /\ Form(d) /\ Form(c)
          BY <2>1, <3>2 DEF UnderWay, OneForm
        <5>2. ~UnderWay(c)
          BY <3>5, <5>1 DEF OneForm
        <5> QED
          BY <2>1, <5>2 DEF UnderWay
      <4>2. c \in call[d].base \/ Others(c)
        BY <2>1, <3>1, <3>2, <3>5, <4>1 DEF Stored, Twin
      <4> QED
        BY <2>1, <3>1, <4>2, OthersStay DEF Merged
    <3> QED
      BY <3>3, <3>4, <3>5
  <2>4. CASE edits'[call[c].id] = edits[call[c].id] /\ call[c].id \in rows
    <3>1. call[c].pc # "failed"
      BY <2>1, <2>4 DEF Known
    <3>2. CASE call[c].pc \in Past
      BY <2>1, <2>4, <3>2, OthersStay DEF Stored
    <3>3. CASE call[c].pc = "merging"
      <4>1. call'[c] # call[c]
        BY <1>2, <3>3 DEF Past
      <4>2. Update(c)
        BY <2>1, <3>3, <4>1, EndsOther DEF At
      <4>3. edits'[call[c].id] = Merged(c)
        BY <1>0, <2>1, <2>4, <4>2 DEF Update
      <4> QED
        BY <4>3 DEF Merged
    <3> QED
      BY <2>1, <3>1, <3>2, <3>3
  <2> QED
    BY <1>2, <2>1, <2>2, <2>3, <2>4, EditsChange
<1>3. ASSUME NEW c \in Calls, NEW d \in Calls,
             (Twin(c, d) /\ call[c].pc \in Past /\ call[d].pc = "merging" /\ call[c].page = call[d].page)'
      PROVE  c \in call'[d].base \/ Others(c)'
  <2>1. /\ call[c].op = "update" /\ call'[c].id = call[c].id /\ call'[c].page = call[c].page
        /\ call[c].pc \in Past \cup {"failed", "merging"}
    BY <1>1, <1>3 DEF Twin
  <2>2. call[d].op = "update" /\ call'[d].id = call[d].id /\ call'[d].page = call[d].page
    BY <1>3, FormSteps DEF FormStep, Twin
  <2>3. /\ Twin(c, d) /\ call[c].page = call[d].page
        /\ \/ call[d].pc = "merging" /\ call'[d].base = call[d].base
           \/ call[d].id \in rows /\ call'[d].base = edits[call[d].id]
    BY <1>3, <2>1, <2>2, FormSteps DEF FormStep, Twin
  <2>4. call[c].pc \in Past
    <3>1. Form(d) /\ Form(c) /\ c # d
      BY <1>3, <2>1, <2>2 DEF OneForm, Past
    <3>2. UnderWay(d)
      <4>1. UnderWay(d)' /\ call[d].pc # "idle"
        BY <1>3, <2>2 DEF UnderWay, OneForm
      <4> QED
        BY <4>1, FormSteps DEF FormStep
    <3>3. ~UnderWay(c)
      BY <2>3, <3>1, <3>2 DEF OneForm
    <3> QED
      BY <2>1, <3>3 DEF UnderWay
  <2>5. c \in call'[d].base \/ Others(c)
    BY <2>3, <2>4 DEF Stored, Twin
  <2> QED
    BY <2>1, <2>5, OthersStay
<1> QED
  BY <1>1, <1>2, <1>3 DEF Stored

\* A saved form is stored, unless another page has saved one for the same
\* provider: what one page saves it does not itself overwrite.
THEOREM FormsAreKept == Spec => []EditsKept
<1> DEFINE Inv == Typed /\ Known /\ OneForm /\ Stored
<1>1. Init => Inv
  <2> SUFFICES ASSUME Init PROVE Known /\ OneForm /\ Stored
    BY TypedInit
  <2>1. \A c \in Calls : call[c].op = "load" /\ call[c].pc = "idle" /\ call[c].got = NoView
    BY DEF Init, Unused
  <2>2. Known
    BY <2>1 DEF Init, Known, Seen, Server, NoView
  <2> QED
    BY <2>1, <2>2 DEF OneForm, Form, UnderWay, Stored, Past, Twin
<1>2. Inv /\ [Next]_vars => Inv'
  BY TypedNext, KnownNext, OneFormNext, StoredNext
<1>3. Inv => EditsKept
  BY DEF Stored, EditsKept, Others, Twin, Past
<1> QED
  BY <1>1, <1>2, <1>3, PTL DEF Spec

-----------------------------------------------------------------------------
(* The list.  A page that no other page has overtaken has at most one call *)
(* under way, and its list differs from the table by no more than what     *)
(* that call's answer will do to it.                                       *)

Mine(p, c) == call[c].page = p /\ UnderWay(c)

\* What a call under way has brought, or its list as its answer leaves it, is
\* the table; the list alone while the request has not written.
Shown(c) ==
    LET p == call[c].page IN
    CASE call[c].pc = "listed"            -> call[c].got = Server
      [] call[c].pc \in {"written", "ok"} -> Applied(c, list[p]) = Server
      [] OTHER                            -> list[p] = Server

\* The provider of a call that has locked or written it is in the table; a
\* delete answers without reading its provider again.
There(c) ==
    /\ call[c].op \in {"create", "activate"} /\ call[c].pc \in {"locked", "locking", "written"} => call[c].id \in rows
    /\ call[c].op = "delete" => call[c].pc # "written"

PageTrue(p) ==
    /\ \A c \in Calls : Mine(p, c) => Shown(c) /\ There(c) /\ \A d \in Calls : Mine(p, d) => d = c
    /\ (\A c \in Calls : ~Mine(p, c)) => list[p] = Server

ListInv == \A p \in Pages \ (Wizards \cup behind) : PageTrue(p)

\* A step of a call of another page that leaves the table and this page's list.
LEMMA TrueElsewhere ==
  ASSUME NEW p \in Pages, NEW c \in Calls, PageTrue(p), rows' = rows, active' = active, list'[p] = list[p],
         \A d \in Calls \ {c} : call'[d] = call[d], ~Mine(p, c), ~Mine(p, c)'
  PROVE  PageTrue(p)'
<1>1. Server' = Server
  BY DEF Server
<1>2. ASSUME NEW d \in Calls, Mine(p, d)' PROVE Mine(p, d) /\ d # c /\ Shown(d)' /\ There(d)'
  <2>1. d # c /\ call'[d] = call[d] /\ Mine(p, d)
    BY <1>2 DEF Mine, UnderWay
  <2>2. Shown(d) /\ There(d) /\ call[d].page = p
    BY <2>1 DEF PageTrue, Mine
  <2> QED
    BY <1>1, <2>1, <2>2 DEF Shown, There, Applied
<1>3. ASSUME NEW d \in Calls, Mine(p, d) PROVE Mine(p, d)'
  BY <1>3 DEF Mine, UnderWay
<1> QED
  BY <1>1, <1>2, <1>3 DEF PageTrue

\* A step of the only call that the page has under way then.
LEMMA TrueAlone ==
  ASSUME NEW p \in Pages, NEW c \in Calls, \A d \in Calls \ {c} : call'[d] = call[d] /\ ~Mine(p, d),
         call'[c].page = p, UnderWay(c)' => (Shown(c) /\ There(c))', ~UnderWay(c)' => list'[p] = Server'
  PROVE  PageTrue(p)'
<1>1. ASSUME NEW d \in Calls, Mine(p, d)' PROVE d = c
  BY <1>1 DEF Mine, UnderWay
<1>2. UnderWay(c)' => Mine(p, c)'
  BY DEF Mine
<1> QED
  BY <1>1, <1>2 DEF PageTrue, Mine

\* What the page's call has when it takes a step, and that it is the only one.
LEMMA TrueBefore ==
  ASSUME ListInv, NEW c \in Calls, UnderWay(c), call[c].page \in Pages \ (Wizards \cup behind)
  PROVE  Shown(c) /\ There(c) /\ \A d \in Calls \ {c} : ~Mine(call[c].page, d)
  BY DEF ListInv, PageTrue, Mine

LEMMA TrueUse ==
  ASSUME Typed, ListInv, NEW c \in Calls, Use(c), NEW p \in Pages \ (Wizards \cup behind')
  PROVE  PageTrue(p)'
<1>0. TypeOK /\ call \in [Calls -> Call] /\ Unused \in Call
  BY UnusedTyped DEF Typed, TypeOK
<1> DEFINE Asks(q, k) ==
          /\ Unspent(c) /\ call' = [call EXCEPT ![c] = k] /\ k.page = q /\ k.pc \in {"sent", "reading"}
          /\ behind' = IF Busy(q, c) THEN behind \cup {q} ELSE behind
          /\ rows' = rows /\ active' = active /\ list' = list
<1>1. PICK q \in Pages, k \in Call : Asks(q, k)
  <2>1. ASSUME NEW q \in Pages, Load(c, q) PROVE \E k \in Call : Asks(q, k)
    <3> DEFINE k == [Unused EXCEPT !.pc = "reading", !.page = q]
    <3>1. k \in Call /\ k.page = q /\ k.pc = "reading"
      BY <1>0 DEF Call, Pcs
    <3>2. call' = [call EXCEPT ![c] = k]
      BY <2>1 DEF Load
    <3> HIDE DEF k
    <3>3. Asks(q, k)
      BY <2>1, <3>1, <3>2 DEF Load, table
    <3> QED
      BY <3>1, <3>3
  <2>2. ASSUME NEW q \in Pages, NEW op \in Ops, NEW i \in Ids \cup {NoId}, Click(c, q, op, i)
        PROVE  \E k \in Call : Asks(q, k)
    <3> DEFINE k == [Unused EXCEPT !.op = op, !.pc = "sent", !.page = q, !.id = i]
    <3>1. k \in Call /\ k.page = q /\ k.pc = "sent"
      BY <1>0 DEF Call, Pcs
    <3>2. call' = [call EXCEPT ![c] = k]
      BY <2>2 DEF Click
    <3> HIDE DEF k
    <3>3. Asks(q, k)
      BY <2>2, <3>1, <3>2 DEF Click, table
    <3> QED
      BY <3>1, <3>3
  <2> QED
    BY <2>1, <2>2 DEF Use
<1>2. ~UnderWay(c) /\ call'[c] = k /\ \A d \in Calls \ {c} : call'[d] = call[d]
  BY <1>0, <1>1 DEF Unspent, UnderWay
<1>3. p \notin behind /\ PageTrue(p)
  BY <1>1 DEF ListInv
<1>4. CASE q # p
  BY <1>1, <1>2, <1>3, <1>4, TrueElsewhere DEF Mine
<1>5. CASE q = p
  <2>1. \A d \in Calls \ {c} : ~Mine(p, d)
    BY <1>1, <1>5 DEF Busy, Mine
  <2>2. list[p] = Server
    BY <1>2, <1>3, <2>1 DEF PageTrue, Mine
  <2>3. UnderWay(c)' /\ Shown(c)' /\ There(c)'
    BY <1>1, <1>2, <1>5, <2>2 DEF UnderWay, Shown, There, Server
  <2> QED
    BY <1>1, <1>2, <1>5, <2>1, <2>3, TrueAlone
<1> QED
  BY <1>4, <1>5

\* The steps of a page are those of its calls.
LEMMA TrueHear ==
  ASSUME Typed, ListInv, NEW c \in Calls, Hear(c) \/ Lost(c), NEW p \in Pages \ (Wizards \cup behind')
  PROVE  PageTrue(p)'
<1>0. TypeOK /\ call \in [Calls -> Call] /\ call[c] \in Call /\ list \in [Pages -> View] /\ call[c].page \in Pages
  BY DEF Typed, TypeOK, Call
<1>1. rows' = rows /\ active' = active /\ Server' = Server
  BY DEF Hear, Answered, Created, Activated, Refused, ReadList, ShowList, Lost, table, Server
<1>2. /\ UnderWay(c) /\ call'[c].page = call[c].page /\ \A d \in Calls \ {c} : call'[d] = call[d]
      /\ call[c].page # p => list'[p] = list[p] /\ p \notin behind
  <2>1. CASE Answered(c)
    BY <1>0, <2>1 DEF Answered, Goes, UnderWay
  <2>2. CASE Created(c)
    BY <1>0, <2>2 DEF Created, At, UnderWay
  <2>3. CASE ReadList(c)
    BY <1>0, <2>3 DEF ReadList, UnderWay
  <2>4. CASE Activated(c) \/ Refused(c) \/ ShowList(c) \/ Lost(c)
    <3>1. PICK pc \in {"over", "lost"} : Ends(c, pc)
      BY <2>4 DEF Activated, Refused, ShowList, Lost
    <3>2. UnderWay(c) /\ (call[c].page # p => list'[p] = list[p] /\ p \notin behind)
      BY <1>0, <2>4 DEF Activated, Refused, ShowList, Lost, At, UnderWay
    <3> QED
      BY <1>0, <3>1, <3>2, EndsTyped DEF Pcs
  <2> QED
    BY <2>1, <2>2, <2>3, <2>4 DEF Hear
<1>3. CASE call[c].page # p
  <2>1. PageTrue(p)
    BY <1>2, <1>3 DEF ListInv
  <2> QED
    BY <1>1, <1>2, <1>3, <2>1, TrueElsewhere DEF Mine
<1>4. CASE call[c].page = p
  <2>1. CASE ReadList(c)
    <3>1. \A d \in Calls \ {c} : ~Mine(p, d)
      <4>1. CASE p \in behind
        BY <1>4, <2>1, <4>1 DEF ReadList, Busy, Mine
      <4>2. CASE p \notin behind
        BY <1>2, <1>4, <4>2, TrueBefore
      <4> QED
        BY <4>1, <4>2
    <3>2. call'[c].pc = "listed" /\ call'[c].got = Server
      BY <1>0, <2>1 DEF ReadList, Call
    <3>3. UnderWay(c)' /\ Shown(c)' /\ There(c)'
      BY <1>1, <3>2 DEF UnderWay, Shown, There
    <3> QED
      BY <1>2, <1>4, <3>1, <3>3, TrueAlone
  <2>2. CASE ~ReadList(c)
    <3>1. p \notin behind
      BY <1>4, <2>2 DEF Hear, Answered, Created, Activated, Refused, ShowList, Lost
    <3>2. Shown(c) /\ There(c) /\ \A d \in Calls \ {c} : ~Mine(p, d)
      BY <1>2, <1>4, <3>1, TrueBefore
    <3>3. CASE Answered(c)
      <4>1. list'[p] = Applied(c, list[p]) /\ call'[c].pc = "reading"
        BY <1>0, <1>4, <3>3 DEF Answered, Goes, Call
      <4>2. list'[p] = Server
        BY <1>4, <3>2, <3>3, <4>1 DEF Answered, Shown
      <4>3. UnderWay(c)' /\ Shown(c)' /\ There(c)'
        BY <1>1, <1>2, <1>4, <4>1, <4>2 DEF UnderWay, Shown, There
      <4> QED
        BY <1>2, <1>4, <3>2, <4>3, TrueAlone
    <3>4. CASE Created(c) \/ Activated(c)
      BY <1>4, <3>4 DEF Created, Activated
    <3>5. CASE Refused(c) \/ ShowList(c) \/ Lost(c)
      <4>1. PICK pc \in {"over", "lost"} : Ends(c, pc)
        BY <3>5 DEF Refused, ShowList, Lost
      <4>2. ~UnderWay(c)'
        BY <1>0, <4>1, EndsTyped DEF UnderWay, Pcs
      <4>3. list'[p] = Server
        <5>1. CASE Refused(c)
          BY <1>4, <3>2, <5>1 DEF Refused, Shown
        <5>2. CASE ShowList(c)
          BY <1>0, <1>4, <3>2, <5>2 DEF ShowList, Shown
        <5>3. CASE Lost(c)
          BY <1>4, <3>2, <5>3 DEF Lost, Shown
        <5> QED
          BY <3>5, <5>1, <5>2, <5>3
      <4> QED
        BY <1>1, <1>2, <1>4, <3>2, <4>2, <4>3, TrueAlone
    <3> QED
      BY <2>2, <3>3, <3>4, <3>5 DEF Hear
  <2> QED
    BY <2>1, <2>2
<1> QED
  BY <1>3, <1>4

\* A request that changes the table leaves the other pages behind; its own list
\* differs by the change that its answer will make there.
LEMMA TrueServe ==
  ASSUME Typed, OneActive, OneActive', ListInv, NEW c \in Calls, Serve(c),
         NEW p \in Pages \ (Wizards \cup behind')
  PROVE  PageTrue(p)'
<1>0. /\ TypeOK /\ Named /\ call \in [Calls -> Call] /\ call[c] \in Call /\ list \in [Pages -> View]
      /\ call[c].page \in Pages /\ rows \subseteq Ids /\ active \subseteq Ids
  BY DEF Typed, TypeOK, Call
<1> DEFINE Moves ==
          /\ UnderWay(c) /\ UnderWay(c)' /\ call'[c].page = call[c].page /\ call'[c].op = call[c].op
          /\ \A d \in Calls \ {c} : call'[d] = call[d]
          /\ list' = list /\ behind \subseteq behind'
          /\ call[c].page # p => rows' = rows /\ active' = active
<1>1. Moves
  <2>1. CASE Activate(c) \/ Update(c)
    <3>1. PICK pc \in {"written", "failed"} : Ends(c, pc)
      BY <2>1 DEF Activate, Update
    <3>2. /\ UnderWay(c) /\ list' = list /\ behind \subseteq behind'
          /\ call[c].page # p => rows' = rows /\ active' = active
      BY <2>1 DEF Activate, Update, At, UnderWay, Untold
    <3> QED
      BY <1>0, <3>1, <3>2, EndsTyped DEF UnderWay, Pcs
  <2>2. CASE ReadUpdate(c)
    BY <1>0, <2>2 DEF ReadUpdate, At, UnderWay, table
  <2>3. CASE ReadDelete(c)
    BY <1>0, <2>3 DEF ReadDelete, At, Goes, UnderWay, table
  <2>4. CASE Delete(c)
    BY <1>0, <2>4 DEF Delete, At, Goes, UnderWay, Untold
  <2>5. CASE Answer(c)
    BY <1>0, <2>5 DEF Answer, Goes, UnderWay, table
  <2>6. CASE LockTarget(c)
    <3>1. PICK pc \in {"locked", "failed"} : Goes(c, pc)
      BY <2>6 DEF LockTarget
    <3> QED
      BY <1>0, <2>6, <3>1 DEF LockTarget, At, Goes, UnderWay, table
  <2>7. CASE Snapshot(c)
    BY <1>0, <2>7 DEF Snapshot, At, UnderWay, table
  <2>8. ASSUME NEW i \in Ids, Create(c, i) PROVE Moves
    BY <1>0, <2>8 DEF Create, At, UnderWay, Untold
  <2>9. ASSUME NEW i \in Ids, LockOther(c, i) PROVE Moves
    BY <1>0, <2>9 DEF LockOther, At, UnderWay, table
  <2> QED
    BY <2>1, <2>2, <2>3, <2>4, <2>5, <2>6, <2>7, <2>8, <2>9 DEF Serve
<1>2. CASE call[c].page # p
  <2>1. PageTrue(p)
    BY <1>1 DEF ListInv
  <2> QED
    BY <1>1, <1>2, <2>1, TrueElsewhere DEF Mine
<1>3. CASE call[c].page = p
  <2>1. Shown(c) /\ There(c) /\ \A d \in Calls \ {c} : ~Mine(p, d)
    BY <1>1, <1>3, TrueBefore
  <2> SUFFICES Shown(c)' /\ There(c)'
    BY <1>1, <1>3, <2>1, TrueAlone
  <2>2. list[p] \in View
    BY <1>0
  <2>3. CASE ReadUpdate(c)
    BY <1>0, <1>3, <2>1, <2>3 DEF ReadUpdate, At, Shown, There, Server, table
  <2>4. CASE Update(c)
    <3>1. PICK pc \in {"written", "failed"} : Ends(c, pc)
      BY <2>4 DEF Update
    <3>2. call'[c].pc = pc /\ call'[c].op = "update"
      BY <1>0, <2>4, <3>1, EndsTyped DEF Update, At, Pcs
    <3>3. list[p] = Server /\ Server' = Server
      BY <1>3, <2>1, <2>4 DEF Update, At, Shown, Server
    <3> QED
      BY <1>1, <1>3, <3>2, <3>3 DEF Shown, There, Applied
  <2>5. CASE ReadDelete(c)
    <3>1. PICK pc \in {"doomed", "failed"} : Goes(c, pc)
      BY <2>5 DEF ReadDelete
    <3>2. call'[c].pc = pc
      BY <1>0, <3>1 DEF Goes, Call
    <3>3. list[p] = Server /\ Server' = Server
      BY <1>3, <2>1, <2>5 DEF ReadDelete, At, Shown, Server, table
    <3> QED
      BY <1>1, <1>3, <3>2, <3>3 DEF Shown, There
  <2>6. CASE Delete(c)
    <3>1. call'[c].pc = "ok" /\ call'[c].op = "delete" /\ call'[c].id = call[c].id
      BY <1>0, <2>6 DEF Delete, At, Goes, Call
    <3>2. list[p] = Server
      BY <1>3, <2>1, <2>6 DEF Delete, At, Shown
    <3>3. Server' = [rows |-> rows \ {call[c].id}, active |-> active \ {call[c].id}]
      BY <2>6 DEF Delete, Server
    <3>4. Applied(c, list[p])' = Server'
      BY <1>1, <3>1, <3>2, <3>3 DEF Applied, Server
    <3> QED
      BY <1>1, <1>3, <3>1, <3>4 DEF Shown, There
  <2>7. CASE Answer(c)
    <3>1. Server' = Server /\ rows' = rows
      BY <2>7 DEF Answer, Server, table
    <3>2. PICK pc \in {"ok", "failed"} : Goes(c, pc) /\ (pc = "failed" => call[c].id \notin rows)
      BY <2>7 DEF Answer
    <3>3. call'[c] = [call[c] EXCEPT !.pc = pc] /\ call[c].pc = "written"
      BY <1>0, <2>7, <3>2 DEF Goes, Answer
    <3>4. Applied(c, list[p]) = Server
      BY <1>3, <2>1, <3>3 DEF Shown
    <3>5. CASE pc = "ok"
      BY <1>0, <1>1, <1>3, <3>1, <3>3, <3>4, <3>5 DEF Shown, There, Applied, Call
    <3>6. CASE pc = "failed"
      <4>1. call[c].op \notin {"create", "activate", "delete"}
        BY <2>1, <3>2, <3>3, <3>6 DEF There
      <4>2. list[p] = Server
        BY <2>1, <3>3, <3>4, <4>1 DEF There, Applied
      <4> QED
        BY <1>0, <1>1, <1>3, <3>1, <3>3, <3>6, <4>2 DEF Shown, There, Call
    <3> QED
      BY <3>5, <3>6
  <2>8. CASE LockTarget(c)
    <3>1. PICK pc \in {"locked", "failed"} : Goes(c, pc) /\ (pc = "locked" => call[c].id \in rows)
      BY <2>8 DEF LockTarget
    <3>2. call'[c].pc = pc /\ call'[c].id = call[c].id
      BY <1>0, <3>1 DEF Goes, Call
    <3>3. list[p] = Server /\ Server' = Server /\ rows' = rows
      BY <1>3, <2>1, <2>8 DEF LockTarget, At, Shown, Server, table
    <3> QED
      BY <1>1, <1>3, <3>1, <3>2, <3>3 DEF Shown, There
  <2>9. CASE Snapshot(c)
    <3>1. call'[c].pc = "locking" /\ call'[c].id = call[c].id
      BY <1>0, <2>9 DEF Snapshot, Call
    <3>2. list[p] = Server /\ Server' = Server /\ rows' = rows /\ call[c].id \in rows
      BY <1>3, <2>1, <2>9 DEF Snapshot, At, Shown, There, Server, table
    <3> QED
      BY <1>1, <1>3, <3>1, <3>2 DEF Shown, There
  <2>10. CASE Activate(c)
    <3>1. list[p] = Server /\ rows' = rows /\ call[c].id \in rows /\ active' = Switched(c)
      BY <1>3, <2>1, <2>10 DEF Activate, At, Shown, There
    <3>2. CASE Violates(c)
      <4>1. Ends(c, "failed") /\ Server' = Server
        BY <2>10, <3>1, <3>2 DEF Activate, Switched, Server
      <4>2. call'[c].pc = "failed"
        BY <1>0, <4>1, EndsTyped DEF Pcs
      <4> QED
        BY <1>1, <1>3, <3>1, <4>1, <4>2 DEF Shown, There
    <3>3. CASE ~Violates(c)
      <4>1. Ends(c, "written")
        BY <2>10, <3>3 DEF Activate
      <4>2. call'[c].pc = "written" /\ call'[c].op = "activate" /\ call'[c].id = call[c].id
        BY <1>0, <2>10, <4>1, EndsTyped DEF Pcs, Activate, At
      <4>3. active' = {call[c].id}
        BY <3>1, <3>3 DEF Switched, OneActive
      <4>4. Applied(c, list[p])' = Server'
        BY <1>1, <3>1, <4>2, <4>3 DEF Applied, Server
      <4> QED
        BY <1>1, <1>3, <3>1, <4>2, <4>4 DEF Shown, There
    <3> QED
      BY <3>2, <3>3
  <2>11. ASSUME NEW i \in Ids, Create(c, i) PROVE Shown(c)' /\ There(c)'
    <3>1. call'[c].pc = "written" /\ call'[c].op = "create" /\ call'[c].id = i
      BY <1>0, <2>11 DEF Create, At, Call
    <3>2. list[p] = Server /\ rows' = rows \cup {i} /\ active' = active
      BY <1>3, <2>1, <2>11 DEF Create, At, Shown
    <3>3. Applied(c, list[p])' = Server'
      BY <1>1, <3>1, <3>2 DEF Applied, Server
    <3> QED
      BY <1>1, <1>3, <3>1, <3>2, <3>3 DEF Shown, There
  <2>12. ASSUME NEW i \in Ids, LockOther(c, i) PROVE Shown(c)' /\ There(c)'
    <3>1. call'[c].pc = "locking" /\ call'[c].id = call[c].id
      BY <1>0, <2>12 DEF LockOther, At, Call
    <3>2. list[p] = Server /\ Server' = Server /\ rows' = rows /\ call[c].id \in rows
      BY <1>3, <2>1, <2>12 DEF LockOther, At, Shown, There, Server, table
    <3> QED
      BY <1>1, <1>3, <3>1, <3>2 DEF Shown, There
  <2> QED
    BY <2>3, <2>4, <2>5, <2>6, <2>7, <2>8, <2>9, <2>10, <2>11, <2>12 DEF Serve
<1> QED
  BY <1>2, <1>3

LEMMA ListNext ==
  ASSUME Typed, OneActive, OneActive', ListInv, [Next]_vars
  PROVE  ListInv'
<1> SUFFICES ASSUME NEW p \in Pages \ (Wizards \cup behind') PROVE PageTrue(p)'
  BY DEF ListInv
<1>1. ASSUME NEW c \in Calls, Use(c) \/ Serve(c) \/ Hear(c) \/ Lost(c) PROVE PageTrue(p)'
  BY <1>1, TrueUse, TrueServe, TrueHear
<1>2. CASE UNCHANGED <<rows, active, call, list, behind>>
  BY <1>2 DEF ListInv, PageTrue, Mine, UnderWay, Shown, There, Applied, Server
<1>3. ASSUME NEW q \in Pages, Turn(q) \/ CreateProject(q) PROVE UNCHANGED <<rows, active, call, list, behind>>
  BY <1>3 DEF Turn, CreateProject, table
<1> QED
  BY <1>1, <1>2, <1>3 DEF Next, vars, table

\* A settings page without a call under way shows the providers of the table,
\* also when an activation was rolled back or the refresh that follows a request
\* has failed, unless another page has changed them or an answer was lost.
THEOREM ListsAreTrue == Spec => []ListIsTrue
<1> DEFINE Inv == Typed /\ OneActive /\ ListInv
<1>1. Init => Inv
  <2> SUFFICES ASSUME Init PROVE OneActive /\ ListInv
    BY TypedInit
  <2>1. OneActive
    BY SettingsAssumption DEF Init, OneActive
  <2>2. \A p \in Pages : list[p] = Server
    BY DEF Init
  <2>3. \A c \in Calls : ~UnderWay(c)
    BY DEF Init, UnderWay, Unused
  <2> QED
    BY <2>1, <2>2, <2>3 DEF ListInv, PageTrue, Mine
<1>2. Inv /\ [Next]_vars => Inv'
  BY TypedNext, OneActiveNext, ListNext
<1>3. Inv => ListIsTrue
  BY DEF ListInv, PageTrue, Mine, ListIsTrue
<1> QED
  BY <1>1, <1>2, <1>3, PTL DEF Spec

=============================================================================
