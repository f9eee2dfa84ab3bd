SPECIFICATION CallsSpec
CONSTANTS
    anna = anna
    bob = bob
    a1 = a1
    b1 = b1
    Members <- TwoMembers
    Tabs <- TwoTabs
    Owner <- OneEach
    MaxRings = 3
    MaxFrames = 5
    Conns = {c1, c2, c3}
    MaxJoins = 4
    MaxFaults = 1
INVARIANTS TypeOK OneLiveRing RingsAgree CallSpansRoom
PROPERTIES CallsEnd
CHECK_DEADLOCK FALSE
