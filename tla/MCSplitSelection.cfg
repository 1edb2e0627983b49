CONSTANTS
    p = p
    q = q
    low = low
    high = high
    Apps = {p, q}
    Routes = {low, high}
    Selections <- OneSelection
    Requests <- Alone
    MayFail = {}
SPECIFICATION FairSpec
INVARIANTS
    OnlyProtects
    
PROPERTIES
    PickedUp
