\* Deadlock is not checked: the finitely many release and job ids run out.
CHECK_DEADLOCK FALSE
SPECIFICATION FairSystemSpec
CONSTANTS
    Releases = {r1}
    Handlers = {h1}
    Pollers = {p1}
    NoRelease = NoRelease
    ManualTargets <- RetryTargets
    AnalysisFlags <- NoFlags
    AutoApprove = FALSE
    Jobs = {j1}
    NoJob = NoJob
    Clients = {"qbittorrent"}
    ClientFaults = {}
    NameHit <- NoneHit
    MayCrash = {p1}
PROPERTY QueuedSettles
