SPECIFICATION Spec
CONSTANTS
    MaxSessions = 2
    MaxMail = 1
    Hosts <- OrderlyHosts
    Commands <- UserCommands
INVARIANTS
    TunnelsBelong
    

    
CHECK_DEADLOCK FALSE
