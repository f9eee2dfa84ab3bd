SPECIFICATION Spec
CONSTANTS
    Users = {u1, u2}
    Subs = {s1, s2}
    Emails = {e1}
    Tasks = {t1}
    None = None
    MaxLogins = 1
    MaxEdits = 0
INVARIANTS FirstUserStaysAdmin
CHECK_DEADLOCK FALSE
