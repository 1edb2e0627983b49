SPECIFICATION Spec
CONSTANTS
    e1 = e1
    Endpoints <- MCEndpoints
    MaxWorkers = 3
    MaxLives = 2
INVARIANTS
    
    TunnelHasServer
PROPERTY
    ConnectingEnds
CHECK_DEADLOCK FALSE
