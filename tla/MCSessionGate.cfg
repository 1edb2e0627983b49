CONSTANTS
    w = w
    o = o
    t = t
    Profiles = {w, o, t}
    KindOf <- EachKind
    Orders <- SomeOrders
    MaxTokens = 2
SPECIFICATION FairSpec
INVARIANTS
    PlaneHasTunnel
    OpenIsReported
PROPERTIES
    
    Settles
