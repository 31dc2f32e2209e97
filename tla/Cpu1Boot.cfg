SPECIFICATION FairSpec
CONSTANTS
    PowerPolls = 2
    HoldPolls = 2
INVARIANTS
    VectorFirst
    ReadBacksVouch
PROPERTIES
    LineSpec
    BootReturns
