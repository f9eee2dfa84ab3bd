SPECIFICATION Spec
CONSTANTS
    u1 = u1  b1 = b1  b2 = b2  f1 = f1  d1 = d1  d2 = d2
    NoFile = NoFile
    Day = 1
    MaxAdvance = 20
    Users <- OneAuthor
    Bodies = {b1}
    Files <- NoFiles
    Uploader <- NoUploader
    Repeats = {"none"}
    Dispatchers = {d1}
    BatchSize = 2
    MinLead = 1
    MaxLead = 2
    MaxClock = 4
    MaxPosts = 1
    MaxRows = 1
    MaxFaults = 0
    MaxAttempts = 2
    Poison = {}
PROPERTIES ClaimedRowIsDue
