SPECIFICATION Spec
CONSTANTS
    Scripts = {s1, s2}
    MaxSaves = 2
SYMMETRY ScriptSymmetry
CONSTRAINT FewLate
INVARIANTS
    TypeOK
    InstallerExclusive
    DetailsStand
    NothingLeft
