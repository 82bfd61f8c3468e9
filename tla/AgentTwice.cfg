\* A dashboard request beside the runs; nothing fails.
SPECIFICATION Spec
CONSTANTS
    r1 = r1
    r2 = r2
    h1 = h1
    a = a
    b = b
    c = c
    NoURL = NoURL
    Runs = {r1}
    Dashboards = {h1}
    Mails <- TwoAlerts
    Links = {a, b}
    LinksOf <- RepeatedAlert
    Final <- TwoDirect
    Configs <- OnlyStrictTwo
    ManualStatuses = {"Rejected"}
    MaxJobs = 4
    BatchLinks = 4
    SeenLimit = 1
    NumDays = 1
    SentCap = 3
    Mishaps = {}
INVARIANTS
    NeverAppliedTwice
