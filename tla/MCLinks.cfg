SPECIFICATION MCSpec
CONSTANTS
    Kinds       <- MCKinds
    RowCount    <- MCRowCount
    Alerting    <- MCAlerting
    MaxRows     = 2
    Cap         = 2
    FlushSize   = 2
    BatchSize   = 2
    MaxEvents   = 4
    MaxFailures = 1
    MaxFaults   = 1
    Window      = 2
    MaxTime     = 3
    Never       = Never
    r1          = r1
    r2          = r2
    Speakers    <- MCSpeakers
    Malformed   <- MCMalformed
    RingCap     = 2
    MaxPdus     = 3
    MaxCuts     = 2
    Roas        = {a, b}
    MaxLens     = {24}
    Deltas      = FALSE
    MaxSerial   = 3
    MaxDrops    = 2
    Instances   = {i1, i2}
    Free        = Free
    Lease       = 4
    MaxCrashes  = 2
    MaxOutages  = 2
    MaxLate     = 3
\* Events, PDUs and publications may stop
CHECK_DEADLOCK FALSE
INVARIANTS
    OnlyLostIsMissing NoRepeatWithinWindow
    OnceAndInOrder LossOnlyByOverflow
    TableMatchesSerial
    LeaderHoldsLease TakeoverWithinLeaseAndInterval
PROPERTIES
    EverythingIsFlushed ImplementsLossyLog
    NothingHeldBack ImplementsRetryingLog
    BacklogDrains
    ClientConverges
    OneLeaderEventually
