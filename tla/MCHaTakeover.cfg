SPECIFICATION HaSpec
CONSTANTS
    Instances  = {a, b}
    Free       = Free
    Lease      = 4
    MaxCrashes = 1
    MaxOutages = 0
    MaxLate    = 0
INVARIANT TakeoverWithinLease
