SPECIFICATION FairPSpec
CONSTANTS
    s1 = s1
    s2 = s2
    p1 = p1
    p2 = p2
    Speakers = {s1, s2}
    Peers    = {p1, p2}
    Monitored <- OwnPeers
    Conns    = {c1, c2}
    ChanCap  = 1
    MaxFrames = 4
    LapseKinds = {"overlap", "skip"}
    MaxLapses = 1
    RibTypes = {pre}
    Prefixes = {x}
    Attrs    = {a}
    LlgrSecs = {0, 1}
    Engines  = {}
    Fresh    = Fresh
    MaxTime  = 1
    NoSpeaker = NoSpeaker
    NoPeer   = NoPeer
    NoRib    = NoRib
    NoRoute  = NoRoute
    NoEngine = NoEngine
CHECK_DEADLOCK FALSE
INVARIANTS OrderlySpeakerIsEvicted FreshRouteHasUpPeer
PROPERTIES DroppedSpeakerIsEvicted TasksAndChannelDrain
