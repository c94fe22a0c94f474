SPECIFICATION ASpec
CONSTANTS
    Kinds     = {down, speaker, route}
    Alerting  = {down, speaker}
    Cap       = 2
    BatchSize = 2
    MaxEvents = 2
    MaxFaults = 1
    Window    = 2
    MaxTime   = 1
    Never     = Never
CHECK_DEADLOCK FALSE
PROPERTY TakenIsDelivered
