\* Two messages: stops, switches, refused tokens, failing streams, slash commands.
SPECIFICATION FairSpec
CONSTANTS
    m1 = m1
    m2 = m2
    c1 = c1
    Msgs = {m1, m2}
    Chats = {c1}
    Budgets <- Days
INVARIANTS
    TypeOK
    OneVoice
    NoDoubleReply
    
PROPERTIES
    StreamEnds
CHECK_DEADLOCK FALSE
