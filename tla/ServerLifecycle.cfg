\* One request of up to two calls, each with one retry.  The times keep the order
\* of the code's: an attempt and a pause (2 + 1 for 5 + 1) are shorter than the stop
\* (4 for 10), and that is shorter than a whole call (5 for 23).
CONSTANTS
    Requests = {r1}
    CallsPerRequest = 2
    MaxRetries = 1
    Timeout = 2
    RetryDelay = 1
    StopTimeout = 4
SPECIFICATION FairSpec
INVARIANTS
    TypeOK
    CutOffExplained
    CallBounded
PROPERTIES
    StopEnds
    AnsweredUnlessBodyStalls
\* The process ends.
CHECK_DEADLOCK FALSE
