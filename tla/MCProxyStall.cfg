SPECIFICATION Spec
CONSTANTS
    HeaderLen = 2
    RouteLens = {2}
    StatsLens = {3}
    RejectedLens = {4}
    ChanCap   = 2
    MaxFrames = 3
    Sustain   = 2
    Budget    = 1
CHECK_DEADLOCK FALSE
PROPERTY TeeOutlivesUpstream
