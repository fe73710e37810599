----------------------------- MODULE VersionLog -----------------------------
(***************************************************************************)
(* What the versions of a project's state promise: a log of states that    *)
(* only grows, each new state being the latest one with one change.  A     *)
(* state is the set of facts in it: the documents and task edits it holds. *)
(***************************************************************************)
EXTENDS Naturals, Sequences

CONSTANTS Docs, Edits

VARIABLE log

At(v)  == IF v = 0 THEN {} ELSE log[v]
Latest == At(Len(log))

Init == log \in {<<>>} \cup {<<{d}>> : d \in Docs}

Extend(state) == log' = Append(log, state)

\* A document is merged, or a task is edited.
Add(f) == Extend(Latest \cup {f})

\* A document is archived or replaced.
Drop(d) == Extend(Latest \ {d})

\* A document is reverted: the state goes back to an earlier one.
Revert(v) == Extend(At(v))

Next == \/ \E f \in Docs \cup Edits : Add(f)
        \/ \E d \in Docs : Drop(d)
        \/ \E v \in 0 .. Len(log) : Revert(v)

Spec == Init /\ [][Next]_log

=============================================================================
