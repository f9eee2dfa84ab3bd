SPECIFICATION SeriesSpec
CONSTANTS
    u1 = u1  b1 = b1  b2 = b2  f1 = f1  d1 = d1  d2 = d2
    NoFile = NoFile
    Day = 1
    MaxAdvance = 20
    Users <- OneAuthor
    Bodies = {b1, b2}
    Files <- NoFiles
    Uploader <- NoUploader
    Repeats = {"none", "daily"}
    Dispatchers = {d1, d2}
    BatchSize = 2
    MinLead = 1
    MaxLead = 2
    MaxClock = 2
    MaxPosts = 1
    MaxRows = 3
    MaxFaults = 1
    MaxAttempts = 2
    Poison = {}
    CheckDay = 2
    CheckAdvance = 40
    Horizon = 60
INVARIANTS TypeOK DeliveredExactlyOnce SeriesAliveInOnePlace DeliveredBodyWasVetted RecurrenceIsRight
PROPERTIES ClaimIsFinal NoBacklogReplay SeriesPromise
