\* Three requests of any kind, no run of the pipeline.
SPECIFICATION Spec
CONSTANTS
    d1 = d1  d2 = d2  e1 = e1  e2 = e2  w1 = w1  w2 = w2  w3 = w3
    Docs = {d1, d2}
    Edits = {e1, e2}
    Writers = {w1, w2, w3}
    NoDoc = NoDoc
    NoWriter = NoWriter
    Kinds = {"patch", "tool", "archive", "revert"}
INVARIANTS TypeOK NoLostEdit ArchivedGone
PROPERTIES RefinesLog
CHECK_DEADLOCK FALSE
