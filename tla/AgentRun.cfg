\* Two run goroutines and a dashboard request; nothing fails but the network.
SPECIFICATION Spec
CONSTANTS
    r1 = r1
    r2 = r2
    h1 = h1
    a = a
    b = b
    c = c
    NoURL = NoURL
    Runs = {r1, r2}
    Dashboards = {h1}
    Mails <- TwoAlerts
    Links = {a, b}
    LinksOf <- SharedLinks
    Final <- Redirected
    Configs <- EveryConfig
    ManualStatuses = {"Rejected"}
    MaxJobs = 4
    BatchLinks = 4
    SeenLimit = 1
    NumDays = 1
    SentCap = 3
    Mishaps = {}
SYMMETRY RunSymmetry
INVARIANTS
    TypeOK
    RunExclusive
    TrackedOnce
    AppliedOnce
    PackageForEveryJob
