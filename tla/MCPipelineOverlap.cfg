SPECIFICATION PSpec
CONSTANTS
    s1 = s1
    s2 = s2
    p1 = p1
    p2 = p2
    Speakers = {s1}
    Peers    = {p1}
    Monitored <- SinglePeers
    Conns    = {c1, c2}
    ChanCap  = 2
    MaxFrames = 4
    LapseKinds = {"overlap"}
    MaxLapses = 1
    RibTypes = {pre}
    Prefixes = {x}
    Attrs    = {a}
    LlgrSecs = {0, 1}
    Engines  = {}
    Fresh    = Fresh
    MaxTime  = 0
    NoSpeaker = NoSpeaker
    NoPeer   = NoPeer
    NoRib    = NoRib
    NoRoute  = NoRoute
    NoEngine = NoEngine
CHECK_DEADLOCK FALSE
INVARIANTS QuietSpeakerIsEvicted
