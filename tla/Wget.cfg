SPECIFICATION FairSpec
CONSTANTS
    None = None
    Fds = {f1, f2}
    MaxRx = 3
    Flows = 3
    Concurrency = 2
    BufSize = 3
    HttpHeaderLen = 2
    HeaderLens = {1, 2}
    FileLens = {0, 3}
    Failures = TRUE
    Signals = TRUE
CHECK_DEADLOCK FALSE
INVARIANTS
    RecvCountsBytes
    CountedIsOpen
    PendingIsOpen
    RequestWritten
PROPERTIES
    FirstSizeIsWhole
    ThreadEnds
    SignalEnds
