SPECIFICATION Spec
SYMMETRY Generated
CONSTANTS
    None = None
    g1 = g1
    g2 = g2
    r1 = r1
    s1 = s1
    s2 = s2
    u1 = u1
    u2 = u2
    u3 = u3
    Ids <- MCIds
    Uuids <- MCUuids
    Slots <- MCSlots
    Groups <- MCGroups
    Validated <- MCGroups
    Runs <- MCRuns
    Finishes <- MCFinishes
    Payloads <- MCPayloads
    Delays <- MCDelays
    MATCH_WINDOW = 5
    RECEIPT_DELAY_WINDOW = 30
    LEGACY_PRECISION = 1
    MIRROR_LIMIT = 3
    CANDIDATE_LIMIT = 100
    FUTURE_LIMIT = 300
INVARIANTS
    UniqueUpstreamId
    VerifiedMeansHeld
    LinkIsAudited
    ReceiptResolves
    AliasResolves
PROPERTIES
    LinkIsPermanent
    UpstreamIsKept
    ModerationStands
    QualificationStands
    ImplementsLedger
