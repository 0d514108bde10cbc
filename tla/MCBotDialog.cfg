SPECIFICATION FairSpec
CONSTANTS
    c1 = c1
    w1 = w1
    w2 = w2
    Chats = {c1}
    NoChat = NoChat
    Workers = {w1, w2}
    Route <- OneWorker
    MaxSlots = 2
    MaxLookups = 3
    MaxPage = 1
INVARIANTS
    TypeOK
    AsksAboutLastProduct
    WaitingHasLookup
PROPERTIES
    NoLostSession
    PageSurvives
    EveryWaitEnds
    Stops
CHECK_DEADLOCK FALSE
