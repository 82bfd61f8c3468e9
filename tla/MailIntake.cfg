SPECIFICATION FairSpec
CONSTANTS
    Mails = {m1, m2, m3}
    WithId = {m1}
    Alerts = {m1, m2}
    Window = 2
    SeenLimit = 2
INVARIANTS
    TypeOK
    RemembersLooked
PROPERTIES
    HandsOutUnknown
    AlertsLooked
