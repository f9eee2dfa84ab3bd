SPECIFICATION RoomsSpec
CONSTANTS
    c1 = c1
    c2 = c2
    Users <- OneUser
    Conns <- TwoTabs
    Owner <- AllOfA
    MaxJoins = 2
    MaxFaults = 1
    Last = 2
    Bodies = {plain, ping}
    Mentioning = {ping}
    Tasks = {t1, t2}
    MaxRequests = 4
    Voters = {v1, v2}
    Options = {o1, o2}
    MaxVotes = 4
    People = {u1, u2, u3}
    SiteAdmins = {u3}
    None = None
    Burst = 1
    MaxSteps = 4
    MaxBoots = 1
    Window = 4
    Limit = 2
    Cooldown = 4
    LimitTime = 9
    MaxCalls = 7
    Absence = 1
    DigestTime = 6
    DigestFaults = 1
SYMMETRY Symmetry
INVARIANTS
    TypeOK ClosedIsForgotten PresenceSettles RemovalReachesTopic
      CountsHold
PROPERTIES NeverUnreadAgain
CHECK_DEADLOCK FALSE
