SPECIFICATION JobsSpec
CONSTANTS
    Users = {u1, u2}
    Contents = {c1}
    MaxRows = 2
    MaxFaults = 1
    m1 = m1
    m2 = m2
    m3 = m3
    Mails <- ThreeMails
    Target <- TwoAnswers
    Id <- OneHeader
    Inboxes = {i1}
    Tokens = {t1}
    Ids = {x1}
    NoId = NoId
    NoMail = NoMail
    MailFaults = 2
    Hooks = {h1, h2}
    Last = 2
    Attempts = 2
    Threshold = 2
    Keep = 1
    Batch = 1
    MaxEdits = 2
    HookFaults = 1
    Reminded = {r1, r2}
    ReminderBatch = 1
    TickFaults = 2
    Vectored = 3
    VectorRooms = {r1, r2}
    VectorBatch = 1
    VectorFaults = 1
    p1 = p1
    p2 = p2
    s1 = s1
    s2 = s2
    DocPages <- TwoPages
    DocSources <- TwoSources
    DocSource <- PageEach
    DocChunks = 2
    DocEdits = 1
    ForcedRuns = 1
    DocFaults = 1
INVARIANTS TypeOK AttachmentsSurvive  
PROPERTIES JobsEnd
CHECK_DEADLOCK FALSE
