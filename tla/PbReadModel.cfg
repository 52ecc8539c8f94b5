SPECIFICATION Spec
CONSTANTS
    None = None
    Players = {p1, p2}
    Runs = {1, 2, 3}
    Finishes <- MCFinishes
    Payloads <- MCPayloads
    LEGACY_PRECISION = 1
INVARIANTS
    PbIsBest
    WrIsFastest
PROPERTIES
    PbIsKept
    EventsAreKept
