-------------------------- MODULE MCProviderSettings --------------------------
(***************************************************************************)
(* Instances of ProviderSettings for TLC.                                  *)
(***************************************************************************)
EXTENDS ProviderSettings

CONSTANTS p1, p2, w

By(one, two, onboarding) == [p \in Pages |-> IF p = p1 THEN one ELSE IF p = p2 THEN two ELSE onboarding]
Plan(has, on, does, n)   == [rows |-> has, active |-> on, does |-> does, faults |-> n]

\* Activations that cross, with an active provider between them, or none.
Switching(on) == Plan(Ids, on, By({"activate"}, {"activate"}, {}), 0)
Deleting(on)  == Plan({1, 2}, on, By({"activate"}, {"delete", "load"}, {}), 0)
Losing        == Plan({1, 2}, {1}, By({"activate", "delete"}, {}, {}), 1)
Editing       == Plan({1}, {1}, By({"create", "update"}, {"update"}, {}), 1)
Starting(on)  == Plan({2}, on, By({"activate", "delete"}, {}, {"load", "create"}), 0)

Mornings == {Switching({}), Switching({2}), Deleting({}), Deleting({2}), Losing, Editing,
             Starting({}), Starting({2})}

=============================================================================
