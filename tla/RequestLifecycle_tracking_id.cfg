\* The instance of RequestLifecycle.cfg.
CONSTANTS
    Environments = {"dev", "management", "prod"}
    VersionFlags <- MCVersionFlags
    BackendStatuses <- MCBackendStatuses
    MaxItems = 2
SPECIFICATION Spec
INVARIANT CreatedUnderTrackingId
\* A request that is done does nothing more.
CHECK_DEADLOCK FALSE
