SPECIFICATION MCSpec
CONSTANTS
    Speakers = {s1, s2}
    Peers    = {p1}
    RibTypes = {pre}
    Extra    = post
    Asns     = {1}
    OtherAs  = 2
    OtherPrefix = v
    Prefixes = {x}
    Attrs    = {good, bad}
    Bad      = bad
    LlgrSecs = {0, 1}
    Engines  <- MCEngines
    Fresh    = Fresh
    MaxTime  = 3
    OwnTime  = 2
    Absent   = Absent
    FamilyOf <- MCFamilyOf
    StatusOf <- MCStatusOf
    Hour     = 2
    Retain   = 1
    MaxRows  = 3
    NoSpeaker = NoSpeaker
    NoPeer   = NoPeer
    NoRib    = NoRib
    NoRoute  = NoRoute
    NoEngine = NoEngine
SYMMETRY MCSymmetry
INVARIANTS TypeOK EventsExplainRib StaleRoutesHaveOwner SnapshotFollowsRib QueriesAgree
PROPERTIES StaleClockNotRestarted SweepNeverResurrects
