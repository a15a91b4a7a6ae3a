SPECIFICATION FairLinkSpec
CONSTANTS
    Events = {e1}
    NoEvent = NoEvent
    Relays = {r1, r2}
    BatchSize = 2
    Lease = 3
    RunTimeout = 2
    RetryInitial = 1
    RetryMaximum = 2
    Retention = 1
    Skew = 1
    AttemptCap = 1
    MaxReconnects = 1
INVARIANTS
    NoEventLost
    LeaseProtects
    LeaseExclusive
PROPERTIES
    HandsOverToStream
    EventuallyPublished
