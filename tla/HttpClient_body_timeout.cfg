\* One call with the three retries of defaultConfig, under the two timers.
CONSTANTS
    Calls = {c1}
    MaxRetries = 3
SPECIFICATION FairSpec
PROPERTY EveryCallSettles
CHECK_DEADLOCK FALSE
