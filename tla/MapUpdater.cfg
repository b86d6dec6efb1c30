SPECIFICATION FairSpec
CONSTANTS
    Workers = {w1, w2, w3}
    World = World
    LFG = LFG
    PlainMaps = {m1}
    Containers = {c1}
    c1 = c1
    Instances = {i1, i2}
    ParentOf <- MCParentOf
    Capacity = 5
    None = None
INVARIANTS PendingCountsRequests Barrier UpdatedOnce NoDeletedMap
PROPERTIES WorldReturns
