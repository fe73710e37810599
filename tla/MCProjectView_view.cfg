\* Uploads, deletes and their undo, cancels, failing fetches and streams, renewed tokens.
SPECIFICATION FairSpec
CONSTANTS
    d1 = d1
    d2 = d2
    l1 = l1
    l2 = l2
    Docs = {d1, d2}
    Twins = {d1, d2}
    Loops = {l1, l2}
    MaxRetries = 2
    MaxDeletes = 2
    Sessions <- Visits
INVARIANTS
    TypeOK
    ShowsFinished
    
    
PROPERTIES
    Reconnects
CHECK_DEADLOCK FALSE
