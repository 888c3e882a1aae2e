SPECIFICATION Spec
CONSTANTS
    KeyMod = 16
    None = None
    Sentinel = 0
    Nodes = {1, 2, 3, 4, 5, 6, 7, 8, 9, 10}
    KeysOf <- OneKeyEach
    Workloads <- All
INVARIANTS SearchOrder RedBlack ParentLinks SiblingIsNode FindExact LoopsAreShort
PROPERTIES ImplementsQueue
