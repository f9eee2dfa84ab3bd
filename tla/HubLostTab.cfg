CONSTANTS
    a = a
    c1 = c1
    c2 = c2
    c3 = c3
    Users <- OneUser
    Conns <- ThreeTabs
    Owner <- AllOfA
    MaxJoins = 0
    MaxFaults = 0
SPECIFICATION Spec
INVARIANT OpenSocketsAreConnected
SYMMETRY Tabs
CHECK_DEADLOCK FALSE
