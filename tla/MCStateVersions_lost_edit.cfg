\* A task edit while a run is at its LLM calls.
SPECIFICATION Spec
CONSTANTS
    d1 = d1  d2 = d2  e1 = e1  e2 = e2  w1 = w1  w2 = w2  w3 = w3
    Docs = {d1, d2}
    Edits = {e1}
    Writers = {w1, w2}
    NoDoc = NoDoc
    NoWriter = NoWriter
    Kinds = {"pipeline", "patch"}
SYMMETRY Symmetry
INVARIANTS NoLostEdit
CHECK_DEADLOCK FALSE
