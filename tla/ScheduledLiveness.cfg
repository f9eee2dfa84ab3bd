SPECIFICATION FairSpec
CONSTANTS
    u1 = u1  b1 = b1  b2 = b2  f1 = f1  d1 = d1  d2 = d2
    NoFile = NoFile
    Day = 1
    MaxAdvance = 20
    Users <- OneAuthor
    Bodies = {b1}
    Files <- OneFile
    Uploader <- OwnUpload
    Repeats = {"none"}
    Dispatchers = {d1}
    BatchSize = 1
    MinLead = 1
    MaxLead = 2
    MaxClock = 2
    MaxPosts = 2
    MaxRows = 2
    MaxFaults = 1
    MaxAttempts = 2
    Poison = {1}
PROPERTIES HealthyRowIsSettled
