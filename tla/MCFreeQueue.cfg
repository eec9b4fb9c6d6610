CONSTANTS
    NumBlocks = 5
    MaxBatch = 3
    FakeHead = FakeHead
    FakeTail = FakeTail
    None = None
SPECIFICATION Spec
INVARIANTS
    LinksAgree
PROPERTIES
    ImplementsQueue
    EvictionOrder
