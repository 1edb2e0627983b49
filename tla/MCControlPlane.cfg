CONSTANTS
    x = x
    y = y
    IPs = {a}
    Clients = {x, y}
    Home <- OneAddress
    MaxFailedAttemptsPerIp = 2
    CooldownSecs = 1
    GlobalLockdownThreshold = 2
    GlobalLockdownWindow = 1
    LastHost = 3
    SessionTtl = 1
    MaxSends = 2
    Horizon = 2
    MaxSid = 2
    AdminBudget = 0
    MaxCalls <- TwoAndOne
    MaxFaults = 1
SPECIFICATION PlaneSpec
INVARIANTS
    PlaneTypeOK
    CooldownAgreed
    LeaseKept
    MistakesBounded
CHECK_DEADLOCK FALSE
