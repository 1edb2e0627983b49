CONSTANTS
    p = p
    q = q
    low = low
    high = high
    Apps = {p}
    Routes = {low}
    Selections <- OneSelection
    Requests <- Alone
    MayFail = {"cgroup"}
SPECIFICATION Spec
INVARIANTS
    OffLossless
