SPECIFICATION Spec
CONSTANTS
    MaxSessions = 1
    HeartbeatLimit = 1
    Renewal = 1
    FirstLease = 3
    CleanupLimit = 0
    SampleLimit = 1
    FirstSampleLimit = 1
    RecoverDelay = 0
    RecoverWindow = 1
    ShutdownLimit = 0
    Reasons = {}
    Faults <- AllFaults
INVARIANTS TypeOK OverrideIsMarked LeaseBound RequestIsServed
