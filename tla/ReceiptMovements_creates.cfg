\* Two creates at a time, every call with one retry.
CONSTANTS
    Creates = {k1, k2}
    Updates = {}
    Existing = Existing
    MaxRetries = 1
SYMMETRY RequestSymmetry
SPECIFICATION Spec
INVARIANTS
    TypeOK
    SuccessIsStored
    OneMovementPerCreate
\* Requests end.
CHECK_DEADLOCK FALSE
