SPECIFICATION FairSpec
CONSTANTS
    MaxIpi = 2
    MaxSpurious = 1
    MaxReload = 2
    JunkCounts = {0, 3}
INVARIANTS
    NoPhantomIpi
    SleepPublished
    QuietUntilReady
    OkMeansStarted
    NoOldCommand
PROPERTIES
    LineSpec
    ConsoleOpens
    CommandTaken
    IpiConsumed
