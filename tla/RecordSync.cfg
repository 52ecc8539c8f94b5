SPECIFICATION Spec
CONSTANTS
    None = None
    DEFAULT_RECORD_START_ID = 1
    NULL_PROBE_WINDOW = 2
    MISSING_IDS_BATCH_SIZE = 2
    MISSING_ID_ATTEMPT_LIMIT = 3
    Ids = {1, 2, 3, 4, 5}
    Holes = {2}
    Malformed = {4}
INVARIANTS
    NothingSkipped
    SecondChance
    DeferredRests
