SPECIFICATION Spec
CONSTANTS
    Flavor = {1, 2}
    Tall = {2}
    Job = {j1, j2, j3}
    MaxAttempts = 2
    Request = {}
    Scenarios <- CrashAfterUpload
SYMMETRY Symmetries
INVARIANTS EveryFlavorEffective
CHECK_DEADLOCK FALSE
