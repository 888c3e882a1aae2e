SPECIFICATION Spec
CONSTANTS
    None = None
    NCores = {1, 2, 3, 5, 128, 129}
    Slaves = {1, 2}
    Mbufs = {m1, m2}
    Handles = {h1, h2}
    RingSize = 2
    MaxStale = 1
INVARIANTS MaskExact QueuePerCore BuffersConserved
CHECK_DEADLOCK FALSE
