SPECIFICATION Spec
CONSTANTS
    Users = {u1}
    Contents = {c1}
    MaxRows = 1
    MaxFaults = 0
PROPERTY SweepSparesUsedUploads
CHECK_DEADLOCK FALSE
