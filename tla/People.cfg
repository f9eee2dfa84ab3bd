\* Subs and Devices, and Emails and Countries, are of different components and
\* share their values: one permutation does for both.
SPECIFICATION PeopleSpec
CONSTANTS
    Users = {u1, u2, u3}
    Subs = {x1, x2}
    Emails = {y1, y2}
    Tasks = {t1, t2}
    None = None
    MaxLogins = 2
    MaxEdits = 2
    Devices = {x1, x2}
    Countries = {y1, y2}
    MaxAttempts = 2
    MaxApprovals = 3
    MaxTries = 3
    MaxFaults = 1
    Names = {n1, n2, n3}
    Deleted = Deleted
    MaxChanges = 7
SYMMETRY Symmetry
INVARIANTS  LoginsHold
PROPERTIES NeverRepointed
CHECK_DEADLOCK FALSE
