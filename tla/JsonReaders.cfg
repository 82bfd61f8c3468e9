SPECIFICATION Spec
CONSTANTS
    r1 = r1
    r2 = r2
    Missing = Missing
    Torn = Torn
    NotReading = NotReading
    Readers <- SomeReaders
    MaxVersion = 4
    Faults <- NoFaults
SYMMETRY Symmetry
INVARIANT
    AtomicForReaders
CHECK_DEADLOCK FALSE
