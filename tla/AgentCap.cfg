\* The agent may be stopped during a run.
SPECIFICATION Spec
CONSTANTS
    r1 = r1
    r2 = r2
    h1 = h1
    a = a
    b = b
    c = c
    NoURL = NoURL
    Runs = {r1}
    Dashboards = {}
    Mails <- OneAlert
    Links = {a, b}
    LinksOf <- BothLinks
    Final <- Redirected
    Configs <- OnlyStrict
    ManualStatuses = {"Rejected"}
    MaxJobs = 4
    BatchLinks = 4
    SeenLimit = 1
    NumDays = 1
    SentCap = 3
    Mishaps = {"stop"}
INVARIANTS
    DailyCapRespected
