\* Runs and requests of every kind together, under fairness.
SPECIFICATION FairSpec
CONSTANTS
    d1 = d1  d2 = d2  e1 = e1  e2 = e2  w1 = w1  w2 = w2  w3 = w3
    Docs = {d1, d2}
    Edits = {e1}
    Writers = {w1, w2, w3}
    NoDoc = NoDoc
    NoWriter = NoWriter
    Kinds = {"pipeline", "reprocess", "patch", "tool", "archive", "revert"}
INVARIANTS PatchBaseStable
PROPERTIES WritersEnd
CHECK_DEADLOCK FALSE
