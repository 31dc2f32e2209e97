SPECIFICATION FairSpec
CONSTANTS
    RING_N = 3
    MaxKeys = 4
INVARIANTS
    DisplayFresh
PROPERTIES
    QueueSpec
    CountedInIrqMode
    ByteTaken
    RingServed
