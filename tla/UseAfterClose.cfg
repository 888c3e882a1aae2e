SPECIFICATION Spec
CONSTANTS
    c1 = c1
    c2 = c2
    c3 = c3
    None = None
    Events = {c1, c2}
    Main = c1
    Socks = {s1}
    Fds = {f1}
    Holders <- OneUser
    KeyMod = 64
    IntMod = 64
    LazyDelay = 1
    Delays = {1}
    Timeouts = {1}
    DefaultTimeout = 4
    LoopLimit = 4
    EpollTimeout = 1
    LoopSleep = 2
    MaxNow = 0
    MaxRx = 1
INVARIANTS ConnectedIsOpen
