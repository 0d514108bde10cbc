SPECIFICATION FairSpec
CONSTANTS
    c1 = c1
    c2 = c2
    Chats = {c1, c2}
    NoChat = NoChat
    NumWorkers = 2
    Route <- OwnWorkers
    BufferSize = 1
    QueueSize = 1
    MaxUpdates = 4
    Streams <- AnyStream
    MaxRestarts = 1
PROPERTIES
    HandledInTurn
    EveryUpdateHandled
    AllReturn
CHECK_DEADLOCK FALSE
