\* Every queued document reaches a terminal status, an email's attachment too.
SPECIFICATION FairSpec
CONSTANTS
    d1 = d1  d2 = d2  j1 = j1  j2 = j2  j3 = j3  c1 = c1  c2 = c2
    Docs = {d1, d2}
    Emails = {d1}
    Attachments = {d2}
    Jobs = {j1, j2, j3}
    Clients = {c1}
    NoDoc = NoDoc
    NoJob = NoJob
    MaxTries = 2
    MaxRunning = 2
    MaxRequests = 3
    UserOps = {"cancel", "retry"}
    Faults = {"step_error"}
PROPERTIES Settles
CHECK_DEADLOCK FALSE
