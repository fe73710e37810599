\* A page with two tasks, up to three requests that cross, one fault.
SPECIFICATION Spec
CONSTANTS
    t1 = t1
    t2 = t2
    Tasks = {t1, t2}
    MaxReqs = 3
    Plans <- Sessions
INVARIANTS
    TypeOK
    
    AcknowledgedInGit
    UndoneOnce
CHECK_DEADLOCK FALSE
