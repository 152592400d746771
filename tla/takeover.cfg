SPECIFICATION Spec
CONSTANTS
    MaxSessions = 2
    HeartbeatLimit = 0
    Renewal = 1
    FirstLease = 1
    CleanupLimit = 0
    SampleLimit = 1
    FirstSampleLimit = 1
    RecoverDelay = 0
    RecoverWindow = 1
    ShutdownLimit = 0
    Reasons = {"lock"}
    Faults <- CrashFault
INVARIANT DriverHasLease
PROPERTIES ImplementsPromise
