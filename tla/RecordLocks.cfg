SPECIFICATION Spec
CONSTANTS
    None = None
    Mirror = Mirror
    Requests = {q1, q2}
    Keys = {k1}
    Uuids = {u1, u2}
    Courses = {c1, c2}
    Players = {p1}
    Ids = {x1}
    ATTEMPTS = 2
CHECK_DEADLOCK FALSE
INVARIANTS
    NoDuplicate
    PendingAwaitsRow
    DeadlockNeedsDetour
PROPERTIES
    ChangesAreLocked
    EveryRequestEnds
