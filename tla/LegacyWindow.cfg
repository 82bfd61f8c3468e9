SPECIFICATION FairSpec
CONSTANTS
    Tasks = {t1, t2}
    UI = UI
    QueueLimit = 2
INVARIANTS
    TypeOK
    OneOperation
    InstallingMeansInstall
    BusyMeansWork
    WorkingMeansBusy
PROPERTIES
    ButtonsComeBack
