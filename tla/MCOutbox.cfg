SPECIFICATION FairSpec
CONSTANTS
    Events = {1, 2}
    Broken = {1}
    Workers = {w1, w2}
    NoWorker = NoWorker
    NoEvent = NoEvent
    Lease = 4
    PublishTimeout = 2
    Slack = 1
    MaxBackoff = 3
    MaxShift = 2
INVARIANTS
    PublishedWasTaken
    OnePublisherAtATime
PROPERTIES
    EventuallyPublished
CHECK_DEADLOCK TRUE
