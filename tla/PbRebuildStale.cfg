SPECIFICATION Spec
CONSTANTS
    None = None
    Runs = {1, 2, 3, 4, 5}
    Mine = {1, 2, 3, 4}
    Uploads = {2, 5}
    Reenables = {1}
    Deletions = {d1, d2}
    Targets <- MCTargets
INVARIANTS
    PbIsValid
