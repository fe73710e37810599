\* Two requests at a time cancel and reprocess a document while workers restart, die and pause.
SPECIFICATION Spec
CONSTANTS
    d1 = d1  d2 = d2  j1 = j1  j2 = j2  j3 = j3  c1 = c1  c2 = c2
    Docs = {d1}
    Emails = {}
    Attachments = {}
    Jobs = {j1, j2, j3}
    Clients = {c1, c2}
    NoDoc = NoDoc
    NoJob = NoJob
    MaxTries = 2
    MaxRunning = 2
    MaxRequests = 4
    UserOps = {"cancel", "reprocess"}
    Faults = {"step_error", "shutdown", "crash", "lapse"}
SYMMETRY Symmetry
PROPERTIES CancelSticks
CHECK_DEADLOCK FALSE
