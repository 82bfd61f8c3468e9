SPECIFICATION FairSpec
CONSTANTS
    MaxCalls = 3
    MaxReloads = 1
    MaxIdleTimers = 2
INVARIANTS
    TypeOK
    HonestStatus
    OwnTimer
    SingleCall
    NeverCutOff
PROPERTIES
    AcknowledgedStands
    Concluded
    ButtonComesBack
CHECK_DEADLOCK FALSE
