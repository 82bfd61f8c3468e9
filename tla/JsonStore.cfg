SPECIFICATION Spec
CONSTANTS
    r1 = r1
    r2 = r2
    Missing = Missing
    Torn = Torn
    NotReading = NotReading
    Readers <- SomeReaders
    MaxVersion = 4
    Faults <- FaultKinds
SYMMETRY Symmetry
INVARIANTS
    NeverOlder
    Recoverable
PROPERTY
    ReplacedInOneStep
CHECK_DEADLOCK FALSE
