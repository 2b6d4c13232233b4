\* Two requests in flight of one client that changes its name; an entry lives two
\* ticks, an answer travels at most one.
CONSTANTS
    None = None
    Requests = {r1, r2}
    Clients = {c1}
    Names = {n1, n2}
    CacheDuration = 2
    MaxTransit = 1
    MaxTime = 3
SPECIFICATION Spec
INVARIANTS
    TypeOK
    CacheHoldsOwnNames
    ServedNamesAreFresh
