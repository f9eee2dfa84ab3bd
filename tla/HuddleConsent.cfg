CONSTANTS
    a = a
    b = b
    t1 = t1
    t2 = t2
    t3 = t3
    Nobody = Nobody
    Users <- TwoUsers
    Tabs <- ThreeTabs
    Owner <- TwoForSharer
    Present <- ThreeTabs
    MaxSessions = 2
    MaxJoins = 1
    MaxFrames = 5
    CircleEvents = 3
    Stagers = {k1, k2}
    StageHosts = {k1}
    StageFrames = 4
    Texts = {x1, x2}
    NoText = NoText
    Saves = {s1, s2}
    DraftRequests = 4
    Locales = {l1, l2}
    Translators = {q1, q2}
    MaxEdits = 2
    MaxAsks = 3
SPECIFICATION SideSpec
INVARIANTS TypeOK OneSession ToldOnce ControlWasAsked 
 
CHECK_DEADLOCK FALSE
