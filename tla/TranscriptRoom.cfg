CONSTANTS
    Starters = {p1, p2}
    Closers = {c1, c2}
    MaxSessions = 2
SPECIFICATION Spec
INVARIANTS TypeOK CallsDoNotFork SavedOnce
 
