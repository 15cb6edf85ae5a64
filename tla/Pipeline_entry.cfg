SPECIFICATION Spec
CONSTANTS
    Flavor = {1, 2}
    Tall = {2}
    Job = {j1, j2, j3}
    MaxAttempts = 2
    Request = {r1, r2}
    Scenarios <- Everything
SYMMETRY Symmetries
INVARIANTS TypeOK UnsettledHasJob QuietSettled ReadyPlayable FilesMatchRows
CHECK_DEADLOCK FALSE
