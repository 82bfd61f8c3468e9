\* Runs that start again and again over two days.
SPECIFICATION FairSpec
CONSTANTS
    r1 = r1
    r2 = r2
    h1 = h1
    a = a
    b = b
    c = c
    NoURL = NoURL
    Runs = {r1}
    Dashboards = {}
    Mails <- TwoAlerts
    Links = {a, b, c}
    LinksOf <- ThreeLinks
    Final <- Direct
    Configs <- OnlyStrict
    ManualStatuses = {"Rejected"}
    MaxJobs = 2
    BatchLinks = 2
    SeenLimit = 1
    NumDays = 2
    SentCap = 4
    Mishaps = {}
INVARIANTS
    CapHeld
PROPERTIES
    MailsTracked
