SPECIFICATION FairSpec
CONSTANTS
    TIMER_PERIOD = 2
    MaxTime = 9
    Parked = 1000
    Redraw = 1000
INVARIANTS
    NoDrift
    NeverFast
    ResetStays
    StoppedIsExact
PROPERTY TickServed
