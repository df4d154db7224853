CONSTANTS
    Replica = {r1, r2}
    Alias = {a1, a2}
    Unused = a2
    Slot = {s1}
    TTL = 1
    NegTTL = 1
    D = 0
    PerShard = 1
    Absent = {1}
    Expiring = {}
    MaxEdits = 1
SPECIFICATION ShapesSpec
SYMMETRY Symmetry
INVARIANTS ClearsComplete MemBounded
