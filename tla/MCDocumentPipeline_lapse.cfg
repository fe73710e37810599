\* Two documents, leases that may end under a live run, steps that raise.
SPECIFICATION Spec
CONSTANTS
    d1 = d1  d2 = d2  j1 = j1  j2 = j2  j3 = j3  c1 = c1  c2 = c2
    Docs = {d1, d2}
    Emails = {}
    Attachments = {}
    Jobs = {j1, j2, j3}
    Clients = {c1}
    NoDoc = NoDoc
    NoJob = NoJob
    MaxTries = 2
    MaxRunning = 2
    MaxRequests = 3
    UserOps = {"cancel", "retry", "reprocess", "restore"}
    Faults = {"step_error", "lapse"}
SYMMETRY Symmetry
INVARIANTS TypeOK  OneVersionPerDocument  NoOrphans
PROPERTIES LeaseOnlyByOwner
CHECK_DEADLOCK FALSE
