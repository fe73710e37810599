\* Crashes, restarts, timeouts, failing statements and Redis calls; leases do not lapse.
SPECIFICATION Spec
CONSTANTS
    d1 = d1  d2 = d2  j1 = j1  j2 = j2  j3 = j3  c1 = c1  c2 = c2
    Docs = {d1, d2}
    Emails = {}
    Attachments = {}
    Jobs = {j1, j2, j3}
    Clients = {c1}
    NoDoc = NoDoc
    NoJob = NoJob
    MaxTries = 2
    MaxRunning = 2
    MaxRequests = 2
    UserOps = {"cancel", "retry", "reprocess", "restore"}
    Faults = {"step_error", "db_error", "timeout", "shutdown", "crash", "redis"}
SYMMETRY Symmetry
INVARIANTS SerialRuns FinishedIsDurable
CHECK_DEADLOCK FALSE
