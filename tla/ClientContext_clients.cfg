\* Two requests in flight of two clients: what one client is told is its own.
CONSTANTS
    None = None
    Requests = {r1, r2}
    Clients = {c1, c2}
    Names = {n1}
    CacheDuration = 1
    MaxTransit = 1
    MaxTime = 2
SPECIFICATION Spec
INVARIANTS
    ServedNamesAreFresh
PROPERTIES
    EntriesOnlyReplaced
