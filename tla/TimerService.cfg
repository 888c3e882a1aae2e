SPECIFICATION FairSpec
CONSTANTS
    Events = {e1, e2, e3}
    KeyMod = 16
    IntMod = 14
    LazyDelay = 2
    Timers = {0, 1, 3}
    Start = 13
    MaxNow = 19
    MaxLag = 1
INVARIANTS LazyWithinDelay FindTimerExact
PROPERTIES ExpiryInOrder PassLeavesNothingDue PassEnds
