CONSTANTS
    p = p
    q = q
    low = low
    high = high
    Apps = {p}
    Routes = {low, high}
    Selections <- OneSelection
    Requests <- WithWatchdog
    MayFail = {"mark"}
SPECIFICATION Spec
INVARIANTS
    RoutesKept
