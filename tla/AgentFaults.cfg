\* One run at a time, every kind of failure and stop, two kinds per behaviour.
SPECIFICATION Spec
CONSTANTS
    r1 = r1
    r2 = r2
    h1 = h1
    a = a
    b = b
    c = c
    NoURL = NoURL
    Runs = {r1}
    Dashboards = {}
    Mails <- OneAlert
    Links = {a, b}
    LinksOf <- BothLinks
    Final <- Redirected
    Configs <- OnlyStrict
    ManualStatuses = {"Rejected"}
    MaxJobs = 4
    BatchLinks = 4
    SeenLimit = 1
    NumDays = 1
    SentCap = 3
    Mishaps = {"stop", "lost reply", "read state", "read jobs",
               "write state", "write jobs", "write package"}
CONSTRAINT TwoKindsOfFailure
INVARIANTS
    SeenImpliesSaved
