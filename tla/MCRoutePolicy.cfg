SPECIFICATION Spec
CONSTANTS
    RibTypes = {pre}
    Prefixes = {x}
    PathIds  = {1, 2}
    NoPath   = NoPath
    Attrs    <- MCAttrs
    Absent   = Absent
    U32Max   = 3
    Fresh    = Fresh
    NoRoute  = NoRoute
    MaxTime  = 2
    Contents = {f1, f2, broken}
    Loadable = {f1, f2}
    Missing  = Missing
    NoEngine = NoEngine
    Calls    = {k1, k2}
    QueueCap = 2
    MaxNotes = 2
    U8Max    = 255
    AddrBits = 2
    Unspecified = 0
    Rules    <- MCRules
    MaxRules = 2
    Routes   <- MCRoutes
    Terms    <- MCTerms
    MaxTerms = 5
    Contexts <- MCContexts
    BuildExpr <- ParseExpr
    EvalExpr <- Eval
INVARIANTS BestPathIsUniqueAndOptimal QuietFilterIsCurrent ExpressionsMeanWhatTheySay RulesTravel PrefixListTakesSubnets
PROPERTY FilterConverges
