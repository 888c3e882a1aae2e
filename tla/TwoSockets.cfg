SPECIFICATION Spec
CONSTANTS
    c1 = c1
    c2 = c2
    c3 = c3
    None = None
    Events = {c1}
    Main = c1
    Socks = {s1, s2}
    Fds = {f1, f2}
    Holders <- MainOnly
    KeyMod = 64
    IntMod = 64
    LazyDelay = 1
    Delays = {}
    Timeouts = {}
    DefaultTimeout = 3
    LoopLimit = 4
    EpollTimeout = 1
    LoopSleep = 2
    MaxNow = 0
    MaxRx = 0
SYMMETRY AllSymmetry
INVARIANTS WakeupNotLost
PROPERTIES ForgottenOnlyByConnect
