------------------------------ MODULE MCTaskEdits ------------------------------
(***************************************************************************)
(* Instances of TaskEdits for TLC.                                         *)
(***************************************************************************)
EXTENDS TaskEdits

CONSTANTS t1, t2

AllOpen    == [t \in Tasks |-> "open"]
OneBlocked == [t \in Tasks |-> IF t = t1 THEN "blocked" ELSE "open"]
OneOnly    == [t \in Tasks |-> IF t = t1 THEN "blocked" ELSE "gone"]
Plan(s, does, n, f) == [tasks |-> s, does |-> does, reqs |-> n, faults |-> f]

\* Cards that cross with each other, with a fault, a removal, the notice, or the
\* assistant; an undo that crosses with an edit or is tried again.
Sessions == {Plan(AllOpen, {"detail", "toggle", "loss", "gitFault"}, 2, 1),
             Plan(AllOpen, {"detail", "toggle", "outside"}, 2, 0),
             Plan(OneOnly, {"detail", "toggle", "dismiss", "fetchFault", "refocus"}, 2, 1),
             Plan(OneOnly, {"detail", "toggle", "tool"}, 2, 0),
             Plan(OneOnly, {"tool", "undo", "outside"}, 2, 0),
             Plan(OneOnly, {"tool", "undo", "loss"}, 3, 1)}

=============================================================================
