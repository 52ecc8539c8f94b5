SPECIFICATION MergeSpec
CONSTANT
    Moderators = {m1, m2}
INVARIANT VerdictSurvives
