SPECIFICATION Spec
CONSTANTS
    Flavor = {1, 2}
    Tall = {2}
    Job = {j1, j2, j3}
    MaxAttempts = 2
    Request = {r1}
    Scenarios <- DeleteAfterUpload
SYMMETRY Symmetries
INVARIANTS NothingLeft
CHECK_DEADLOCK FALSE
