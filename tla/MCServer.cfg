CONSTANTS
    IPs = {a}
    Clients = {x, y, z}
    MaxFailedAttemptsPerIp = 1
    CooldownSecs = 1
    GlobalLockdownThreshold = 1
    GlobalLockdownWindow = 2
    LastHost = 3
    SessionTtl = 1
    Horizon = 2
    MaxSid = 2
    AdminBudget = 1
SPECIFICATION Spec
SYMMETRY Symmetry
INVARIANTS
    TypeOK
    LeasesExclusive
    LockdownNoSessions
    KernelFollowsLease
    RuntimeCurrent
    RefusalsHold
PROPERTIES
    PoolSpec
