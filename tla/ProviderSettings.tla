--------------------------- MODULE ProviderSettings ---------------------------
(***************************************************************************)
(* The providers of one purpose: the rows of llm_provider_config, the      *)
(* requests that change them, and the two pages that send these requests.  *)
(* The settings page shows a list of its own, which a request changes when *)
(* it is answered and which is then fetched anew.  The onboarding page     *)
(* creates a provider and activates it in a second request.  Nothing on a  *)
(* page keeps two requests from being under way at once, but for the flag  *)
(* saving.                                                                 *)
(*                                                                         *)
(* An activation locks its row, then the rows a snapshot shows as active,  *)
(* and writes them in the order of their keys; the partial unique index on *)
(* the active ones is checked row by row.  Updates and deletes read        *)
(* without a lock.                                                         *)
(***************************************************************************)
EXTENDS Naturals, FiniteSets

CONSTANTS
    Ids,        \* primary keys, which are compared
    Pages,      \* open pages
    Wizards,    \* those that show the onboarding
    MaxCalls,   \* bound on what the pages do
    Plans       \* what there is when a session starts, what the user of each page may do in
                \* it, and the bound on failures of the network

Calls  == 1 .. MaxCalls
Nobody == 0
NoId   == 0
Ops    == {"load", "create", "update", "delete", "activate"}

ASSUME SettingsAssumption ==
    /\ Ids \subseteq Nat \ {NoId}
    /\ Pages # {} /\ Wizards \subseteq Pages
    /\ MaxCalls \in Nat
    /\ Plans \subseteq [rows : SUBSET Ids, active : SUBSET Ids, does : [Pages -> SUBSET Ops], faults : Nat]
    /\ \A s \in Plans : s.active \subseteq s.rows /\ \A i, j \in s.active : i = j

VARIABLES
    rows,      \* providers in the table
    active,    \* those with is_active
    gone,      \* those that were deleted
    edits,     \* the calls whose form is in a provider's credentials
    lock,      \* row locks
    call,      \* the calls
    list,      \* the list of each settings page
    behind,    \* pages that cannot know all of the list: another page has changed it, an
               \* answer was lost, or two of their calls were under way at once
    saving,    \* pages whose form is being saved
    step,      \* the step of each onboarding page; 4 when it has been left
    saved,     \* savedProviderId
    snatched,  \* a provider was deleted while it was active
    faults,    \* failures so far
    plan       \* the member of Plans this session follows

table  == <<rows, active, gone, edits>>
wizard == <<step, saved>>
vars   == <<table, lock, call, list, behind, saving, wizard, snatched, faults, plan>>

-----------------------------------------------------------------------------
Pcs == {"idle", "sent", "locked", "locking", "doomed", "merging", "written", "ok", "failed",
        "reading", "listed", "over", "lost"}
View == [rows : SUBSET Ids, active : SUBSET Ids]
Call == [op : Ops, pc : Pcs, page : Pages, id : Ids \cup {NoId},
         saw : SUBSET Ids, off : SUBSET Ids, base : SUBSET Calls, got : View]

NoView == [rows |-> {}, active |-> {}]
Unused == [op |-> "load", pc |-> "idle", page |-> CHOOSE p \in Pages : TRUE, id |-> NoId,
           saw |-> {}, off |-> {}, base |-> {}, got |-> NoView]

Server == [rows |-> rows, active |-> active]

Init ==
    /\ plan \in Plans
    /\ rows = plan.rows /\ active = plan.active /\ gone = {}
    /\ edits = [i \in Ids |-> {}]
    /\ lock = [i \in Ids |-> Nobody]
    /\ call = [c \in Calls |-> Unused]
    /\ list = [p \in Pages |-> Server]
    /\ behind = {} /\ saving = {}
    /\ step = [p \in Pages |-> 1] /\ saved = [p \in Pages |-> NoId]
    /\ snatched = FALSE /\ faults = 0

At(c, op, pc)  == call[c].op = op /\ call[c].pc = pc
Goes(c, pc)    == call' = [call EXCEPT ![c].pc = pc]
Ends(c, pc)    == call' = [call EXCEPT ![c] = [@ EXCEPT !.pc = pc, !.saw = {}, !.off = {}, !.base = {}, !.got = NoView]]
UnderWay(c)    == call[c].pc \notin {"idle", "over", "lost"}
Busy(p, c)     == \E d \in Calls \ {c} : call[d].page = p /\ UnderWay(d)

\* The other pages do not hear of a change.
Untold(c) == behind' = behind \cup (Pages \ {call[c].page})

-----------------------------------------------------------------------------
(* The pages. *)

\* The calls are used in their order.
Unspent(c) == call[c].pc = "idle" /\ \A d \in 1 .. c - 1 : call[d].pc # "idle"

\* A card of the list has no button to activate or delete the active provider.
HasButton(p, op, i) == CASE op \in {"activate", "delete"} -> i \in list[p].rows \ list[p].active
                         [] op = "update"                 -> i \in list[p].rows
                         [] OTHER                         -> FALSE

\* A form cannot be submitted while one is being saved; the onboarding's is its first step.
MaySave(p)     == p \notin saving
MayContinue(p) == step[p] = 1 /\ p \notin saving

MayClick(p, op, i) ==
    \/ op \in {"activate", "delete"} /\ p \notin Wizards /\ HasButton(p, op, i)
    \/ op = "update" /\ p \notin Wizards /\ HasButton(p, op, i) /\ MaySave(p)
    \/ op = "create" /\ i = NoId /\ (IF p \in Wizards THEN MayContinue(p) ELSE MaySave(p))

Click(c, p, op, i) ==
    /\ Unspent(c) /\ op \in plan.does[p] /\ MayClick(p, op, i)
    /\ call' = [call EXCEPT ![c] = [Unused EXCEPT !.op = op, !.pc = "sent", !.page = p, !.id = i]]
    /\ saving' = IF op \in {"create", "update"} THEN saving \cup {p} ELSE saving
    /\ behind' = IF Busy(p, c) THEN behind \cup {p} ELSE behind
    /\ UNCHANGED <<plan, table, lock, list, wizard, snatched, faults>>

\* The effect of a page that loads, or whose token was renewed.
Load(c, p) ==
    /\ Unspent(c) /\ "load" \in plan.does[p]
    /\ call' = [call EXCEPT ![c] = [Unused EXCEPT !.pc = "reading", !.page = p]]
    /\ behind' = IF Busy(p, c) THEN behind \cup {p} ELSE behind
    /\ UNCHANGED <<plan, table, lock, list, saving, wizard, snatched, faults>>

\* Mutant: an activation marks its provider and leaves the other one marked.
AppliedPartly(c, v) ==
    CASE call[c].op = "activate" -> [v EXCEPT !.active = @ \cup {call[c].id}]
      [] call[c].op = "delete"   -> [rows |-> v.rows \ {call[c].id}, active |-> v.active \ {call[c].id}]
      [] call[c].op = "create"   -> [v EXCEPT !.rows = @ \cup {call[c].id}]
      [] OTHER                   -> v

\* What an answered call does to the list.
Applied(c, v) ==
    CASE call[c].op = "activate" -> [v EXCEPT !.active = {call[c].id} \cap v.rows]
      [] call[c].op = "delete"   -> [rows |-> v.rows \ {call[c].id}, active |-> v.active \ {call[c].id}]
      [] call[c].op = "create"   -> [v EXCEPT !.rows = @ \cup {call[c].id}]
      [] OTHER                   -> v

\* refreshAll follows.
Answered(c) ==
    /\ call[c].pc = "ok" /\ call[c].page \notin Wizards
    /\ list' = [list EXCEPT ![call[c].page] = Applied(c, @)]
    /\ Goes(c, "reading")
    /\ UNCHANGED <<plan, table, lock, behind, saving, wizard, snatched, faults>>

\* The onboarding goes on with the activation of the provider it has created.
Created(c) ==
    /\ At(c, "create", "ok") /\ call[c].page \in Wizards
    /\ call' = [call EXCEPT ![c].op = "activate", ![c].pc = "sent"]
    /\ UNCHANGED <<plan, table, lock, list, behind, saving, wizard, snatched, faults>>

Activated(c) ==
    /\ At(c, "activate", "ok") /\ call[c].page \in Wizards
    /\ step' = [step EXCEPT ![call[c].page] = 2]
    /\ saved' = [saved EXCEPT ![call[c].page] = call[c].id]
    /\ saving' = saving \ {call[c].page}
    /\ Ends(c, "over")
    /\ UNCHANGED <<plan, table, lock, list, behind, snatched, faults>>

\* The flag that the finally of a save clears.
Cleared(c) == saving' = IF call[c].op \in {"create", "update"} \/ call[c].page \in Wizards
                        THEN saving \ {call[c].page} ELSE saving

\* A toast says so, and nothing else.
Refused(c) ==
    /\ call[c].pc = "failed"
    /\ Ends(c, "over") /\ Cleared(c)
    /\ UNCHANGED <<plan, table, lock, list, behind, wizard, snatched, faults>>

\* The request, the answer, or the refresh is lost.
Lost(c) ==
    /\ call[c].pc \in {"sent", "ok", "reading"} /\ faults < plan.faults
    /\ faults' = faults + 1
    /\ Ends(c, IF call[c].pc = "sent" THEN "lost" ELSE "over") /\ Cleared(c)
    /\ behind' = IF call[c].pc = "ok" THEN behind \cup {call[c].page} ELSE behind
    /\ UNCHANGED <<plan, table, lock, list, wizard, snatched>>

\* The answers of two refreshes may come in any order.
ReadList(c) ==
    /\ call[c].pc = "reading"
    /\ call' = [call EXCEPT ![c].pc = "listed", ![c].got = Server]
    /\ behind' = IF Busy(call[c].page, c) THEN behind ELSE behind \ {call[c].page}
    /\ UNCHANGED <<plan, table, lock, list, saving, wizard, snatched, faults>>

\* An onboarding page only looks for an active provider, and jumps to its last step.
ShowList(c) ==
    LET p == call[c].page IN
    /\ call[c].pc = "listed"
    /\ Ends(c, "over")
    /\ list' = [list EXCEPT ![p] = call[c].got]
    /\ step' = IF p \in Wizards /\ call[c].got.active # {} THEN [step EXCEPT ![p] = 3] ELSE step
    /\ saving' = IF call[c].op \in {"create", "update"} THEN saving \ {p} ELSE saving
    /\ UNCHANGED <<plan, table, lock, behind, saved, snatched, faults>>

\* Mutant: the last step has a next one.
TurnOnward(p) ==
    /\ p \in Wizards /\ step' = [step EXCEPT ![p] = @ + 1]
    /\ UNCHANGED <<plan, table, lock, call, list, behind, saving, saved, snatched, faults>>

\* "Weiter" without a test, and "Zurueck".
Turn(p) ==
    /\ p \in Wizards
    /\ \/ step[p] = 2 /\ step' = [step EXCEPT ![p] = 1]
       \/ step[p] = 2 /\ step' = [step EXCEPT ![p] = 3]
       \/ step[p] = 3 /\ saved[p] # NoId /\ step' = [step EXCEPT ![p] = 2]
    /\ UNCHANGED <<plan, table, lock, call, list, behind, saving, saved, snatched, faults>>

\* The first project: the page is left.
CreateProject(p) ==
    /\ p \in Wizards /\ step[p] = 3
    /\ step' = [step EXCEPT ![p] = 4]
    /\ UNCHANGED <<plan, table, lock, call, list, behind, saving, saved, snatched, faults>>

-----------------------------------------------------------------------------
(* The requests. *)

\* Its answer reads the row again, which another request may have deleted.
Answer(c) ==
    /\ call[c].pc = "written"
    /\ Goes(c, IF call[c].id \in rows THEN "ok" ELSE "failed")
    /\ UNCHANGED <<plan, table, lock, list, behind, saving, wizard, snatched, faults>>

Create(c, i) ==
    /\ At(c, "create", "sent") /\ i \in Ids \ (rows \cup gone)
    /\ rows' = rows \cup {i} /\ edits' = [edits EXCEPT ![i] = {c}]
    /\ call' = [call EXCEPT ![c].pc = "written", ![c].id = i]
    /\ Untold(c)
    /\ UNCHANGED <<plan, active, gone, lock, list, saving, wizard, snatched, faults>>

ReadUpdate(c) ==
    /\ At(c, "update", "sent")
    /\ call' = IF call[c].id \in rows
               THEN [call EXCEPT ![c].pc = "merging", ![c].base = edits[call[c].id]]
               ELSE [call EXCEPT ![c].pc = "failed"]
    /\ UNCHANGED <<plan, table, lock, list, behind, saving, wizard, snatched, faults>>

\* Mutant: fields left empty are stored as empty.
MergedAlone(c) == {c}

\* "leer = unveraendert": the form's fields over those the request has read.
Merged(c) == call[c].base \cup {c}

\* A statement waits for the row's lock, unless the row is gone.
Reachable(i) == i \notin rows \/ lock[i] = Nobody

Update(c) ==
    LET i == call[c].id IN
    /\ At(c, "update", "merging") /\ Reachable(i)
    /\ IF i \in rows
       THEN edits' = [edits EXCEPT ![i] = Merged(c)] /\ Ends(c, "written")
       ELSE edits' = edits /\ Ends(c, "failed")
    /\ UNCHANGED <<plan, rows, active, gone, lock, list, behind, saving, wizard, snatched, faults>>

\* 404, and 409 for the active one.
ReadDelete(c) ==
    /\ At(c, "delete", "sent")
    /\ Goes(c, IF call[c].id \in rows \ active THEN "doomed" ELSE "failed")
    /\ UNCHANGED <<plan, table, lock, list, behind, saving, wizard, snatched, faults>>

Delete(c) ==
    LET i == call[c].id IN
    /\ At(c, "delete", "doomed") /\ Reachable(i)
    /\ rows' = rows \ {i} /\ active' = active \ {i} /\ gone' = gone \cup {i}
    /\ snatched' = (snatched \/ i \in active)
    /\ Goes(c, "ok") /\ Untold(c)
    /\ UNCHANGED <<plan, edits, lock, list, saving, wizard, faults>>

LockTarget(c) ==
    LET i == call[c].id IN
    /\ At(c, "activate", "sent") /\ Reachable(i)
    /\ IF i \in rows
       THEN lock' = [lock EXCEPT ![i] = c] /\ Goes(c, "locked")
       ELSE lock' = lock /\ Goes(c, "failed")
    /\ UNCHANGED <<plan, table, list, behind, saving, wizard, snatched, faults>>

\* The statement that locks the others sees what is active when it starts.
Snapshot(c) ==
    /\ At(c, "activate", "locked")
    /\ call' = [call EXCEPT ![c].pc = "locking", ![c].saw = active \ {call[c].id}]
    /\ UNCHANGED <<plan, table, lock, list, behind, saving, wizard, snatched, faults>>

\* A row that is active no more when its lock is free is left out.
LockOther(c, o) ==
    /\ At(c, "activate", "locking") /\ o \in call[c].saw /\ Reachable(o)
    /\ call' = [call EXCEPT ![c].saw = @ \ {o}, ![c].off = IF o \in active THEN @ \cup {o} ELSE @]
    /\ lock' = IF o \in active THEN [lock EXCEPT ![o] = c] ELSE lock
    /\ UNCHANGED <<plan, table, list, behind, saving, wizard, snatched, faults>>

\* Mutant: there is no unique index.
NoIndex(c) == FALSE

\* uq_active_provider_per_purpose: a row is set active while another one still
\* is, one with a greater key that is switched off next included.
Violates(c) ==
    /\ call[c].id \notin active
    /\ \E o \in active : o \notin call[c].off \/ o > call[c].id

\* Mutant: the others are switched off in a transaction of their own.
SwitchedHalf(c) == IF Violates(c) THEN active \ call[c].off
                   ELSE (active \ call[c].off) \cup {call[c].id}

\* The active ones after the commit, or the rollback.
Switched(c) == IF Violates(c) THEN active ELSE (active \ call[c].off) \cup {call[c].id}

\* Mutant: the locks stay after a rollback.
StillLocked(c) == IF Violates(c) THEN lock ELSE [i \in Ids |-> IF lock[i] = c THEN Nobody ELSE lock[i]]

Unlocked(c) == [i \in Ids |-> IF lock[i] = c THEN Nobody ELSE lock[i]]

Activate(c) ==
    /\ At(c, "activate", "locking") /\ call[c].saw = {}
    /\ active' = Switched(c) /\ lock' = Unlocked(c)
    /\ Ends(c, IF Violates(c) THEN "failed" ELSE "written")
    /\ IF active' = active THEN behind' = behind ELSE Untold(c)
    /\ UNCHANGED <<plan, rows, gone, edits, list, saving, wizard, snatched, faults>>

-----------------------------------------------------------------------------
Serve(c) == \/ ReadUpdate(c) \/ Update(c) \/ ReadDelete(c) \/ Delete(c) \/ Answer(c)
            \/ LockTarget(c) \/ Snapshot(c) \/ Activate(c)
            \/ \E i \in Ids : Create(c, i) \/ LockOther(c, i)
Hear(c)  == Answered(c) \/ Created(c) \/ Activated(c) \/ Refused(c) \/ ReadList(c) \/ ShowList(c)
Use(c)   == \E p \in Pages : \/ Load(c, p)
                             \/ \E op \in Ops, i \in Ids \cup {NoId} : Click(c, p, op, i)

Next ==
    \/ \E c \in Calls : Use(c) \/ Serve(c) \/ Hear(c) \/ Lost(c)
    \/ \E p \in Pages : Turn(p) \/ CreateProject(p)

Spec == Init /\ [][Next]_vars

\* The server and the pages go on; nobody has to click.
Fairness == \A c \in Calls : WF_vars(Serve(c) \/ Hear(c))

FairSpec == Spec /\ Fairness

-----------------------------------------------------------------------------
\* Every variable has its type.
TypeOK ==
    /\ rows \subseteq Ids /\ active \subseteq Ids /\ gone \subseteq Ids
    /\ edits \in [Ids -> SUBSET Calls]
    /\ lock \in [Ids -> Calls \cup {Nobody}]
    /\ call \in [Calls -> Call]
    /\ list \in [Pages -> View]
    /\ behind \subseteq Pages /\ saving \subseteq Pages
    /\ step \in [Pages -> 1 .. 4] /\ saved \in [Pages -> Ids \cup {NoId}]
    /\ snatched \in BOOLEAN /\ faults \in Nat /\ plan \in Plans

\* However activations cross, at most one provider is active.
AtMostOneActive == Cardinality(active) <= 1

\* A settings page without a call under way shows the table, also when an
\* activation or a refresh has failed, unless it cannot know.
ListIsTrue == \A p \in Pages \ (Wizards \cup behind) :
    (\A c \in Calls : call[c].page = p => ~UnderWay(c)) => list[p] = Server

\* An onboarding past its first step has an active provider: a failing
\* activation takes no other one away, only a delete that has seen the provider
\* inactive may.
Ready == \A p \in Wizards : step[p] > 1 => active # {} \/ snatched

\* A saved form is part of the stored credentials, unless another page has
\* saved a form for the same provider: forms of one page do not overlap.
EditsKept == \A c \in Calls :
    LET k == call[c] IN
    k.op = "update" /\ k.pc \in {"written", "ok", "reading", "listed", "over"} /\ k.id \in rows /\ c \notin edits[k.id]
    => \E d \in Calls : call[d].op = "update" /\ call[d].id = k.id /\ call[d].page # k.page

\* No request waits for ever for the locks of others: every call ends, and
\* with it the flag saving; a create needs a key that is left.
CallsEnd == \A c \in Calls : UnderWay(c) ~> ~UnderWay(c) \/ rows \cup gone = Ids

=============================================================================
