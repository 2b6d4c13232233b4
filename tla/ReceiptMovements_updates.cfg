\* A create and an update of the created movement or of one that existed before,
\* every call with one retry.
CONSTANTS
    Creates = {k1}
    Updates = {u1}
    Existing = Existing
    MaxRetries = 1
SPECIFICATION Spec
INVARIANTS
    LaterUpdateLasts
PROPERTIES
    ImplementsRegister
\* Requests end.
CHECK_DEADLOCK FALSE
