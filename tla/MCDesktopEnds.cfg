SPECIFICATION Spec
CONSTANTS
    MaxSessions = 2
    MaxMail = 1
    Hosts <- OneHost
    Commands <- SomeCommands
INVARIANTS
PROPERTIES
    TorDeathEnds
    BootstrapEnds
    SplitEnds
CHECK_DEADLOCK FALSE
