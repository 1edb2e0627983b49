CONSTANTS
    IPs = {a, b}
    MaxFailedAttemptsPerIp = 2
    CooldownSecs = 2
    GlobalLockdownThreshold = 3
    GlobalLockdownWindow = 4
    Horizon = 6
    UnlockBudget = 2
SPECIFICATION Spec
SYMMETRY Symmetry
INVARIANTS
    TypeOK
    FailureBudget
    LogKept
PROPERTIES
    LockdownJustified
    CooldownFixed
