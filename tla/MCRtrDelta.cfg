SPECIFICATION RtrSpec
CONSTANTS
    Roas      = {a, b}
    MaxLens   = {24, 25}
    Deltas    = TRUE
    MaxSerial = 3
    MaxDrops  = 1
CHECK_DEADLOCK FALSE
INVARIANT TableMatchesSerial
