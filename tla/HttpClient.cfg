\* One call with the three retries of defaultConfig, under the two timers.
\* Calls share no state: a second one would only multiply the states.
CONSTANTS
    Calls = {c1}
    MaxRetries = 3
SPECIFICATION FairSpec
INVARIANTS
    TypeOK
    ReturnMeansExecuted
    ExecutionsBounded
    ErrorMeansExhausted
    AttemptsConsistent
PROPERTIES
    SettledIsFinal
    CallsProgress
    ImplementsOutboundCall
    SettlesUnlessBodyStalls
\* Calls end: when all have settled and the wire is empty nothing is left to do.
CHECK_DEADLOCK FALSE
