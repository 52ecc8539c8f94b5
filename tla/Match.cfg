SPECIFICATION GuessSpec
SYMMETRY Generated
CONSTANTS
    None = None
    g1 = g1
    s1 = s1
    s2 = s2
    u1 = u1
    u2 = u2
    u3 = u3
    u4 = u4
    Ids <- MCIds
    Uuids <- MCUuids
    Slots <- MCSlots
    Groups <- MCGroups
    Validated <- MCGroups
    Runs = {20, 36}
    Finishes <- MCFinishes
    Payloads <- MCPayloads
    Lengths = {20, 36}
    Skews <- AnySkew
    Delays = {0, 20, 30}
    MATCH_WINDOW = 5
    RECEIPT_DELAY_WINDOW = 30
    LEGACY_PRECISION = 1
    MIRROR_LIMIT = 3
    CANDIDATE_LIMIT = 100
    FUTURE_LIMIT = 300
INVARIANT NoFalseMatch
CHECK_DEADLOCK FALSE
