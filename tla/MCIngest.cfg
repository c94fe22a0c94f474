SPECIFICATION MCSpec
CONSTANTS
    HeaderLen = 2
    RouteLens = {2}
    StatsLens = {3}
    RejectedLens = {4}
    ChanCap   = 2
    MaxFrames = 3
    Sustain   = 2
    Budget    = 1
    MaxFrame = 65535
    Items <- MCItems
    Peers <- MCPeers
    MaxItems <- MCMaxItems
\* A connection ends, and a message is decoded once.
CHECK_DEADLOCK FALSE
INVARIANTS
    SlicesAreFrames OnlyStatsAreShed UpstreamGetsPrefix
    DecodesAsSent CutMessagesLoseOnlyTheirEnd NoPanic
PROPERTIES StreamIsProcessed SheddingEnds
