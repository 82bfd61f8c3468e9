SPECIFICATION FairSpec
CONSTANTS
    Procs = {p1, p2, p3}
    MaxAttempts = 2
    None = None
INVARIANTS
    TypeOK
    SingleAgent
    RestartReplaces
    UpgradeTakesEffect
    ExecutableKept
PROPERTIES
    ReadyMeansRunning
    OperationEnds
