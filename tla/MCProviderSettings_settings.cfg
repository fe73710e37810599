\* Two settings pages and an onboarding page, whose requests cross.
SPECIFICATION FairSpec
CONSTANTS
    p1 = p1
    p2 = p2
    w = w
    Ids = {1, 2, 3}
    Pages = {p1, p2, w}
    Wizards = {w}
    MaxCalls = 3
    Plans <- Mornings
INVARIANTS
    TypeOK
    AtMostOneActive
    ListIsTrue
    Ready
    
PROPERTIES
    CallsEnd
CHECK_DEADLOCK FALSE
