\* Every route in an environment with all routes, one with /auth/test only and
\* production, with each set of beta versions enabled.
CONSTANTS
    Environments = {"dev", "management", "prod"}
    VersionFlags <- MCVersionFlags
    BackendStatuses <- MCBackendStatuses
    MaxItems = 2
SPECIFICATION FairSpec
INVARIANTS
    TypeOK
    ForwardedOnlyWhenAllowed
    ForwardedReceiptHasOneOwner
    ActiveIsAttempted
    OwnErrorsCounted
    ExpiryHeaderKept
    CompletionNamesCaller
    BackendAnswerPassedOn
    ReasonsMatchReply
PROPERTIES
    Replied
\* A request that is done does nothing more.
CHECK_DEADLOCK FALSE
