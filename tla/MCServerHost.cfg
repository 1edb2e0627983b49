CONSTANTS
    x = x
    y = y
    Clients = {x, y}
    Hosts = {2, 3}
    MaxSid = 3
    MaxOps = 3
    MaxFaults = 1
SYMMETRY Symmetry
SPECIFICATION Spec
INVARIANTS
    
    DepartedStayOut
    StoppedIsDown
