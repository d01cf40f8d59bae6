\* Deadlock is not checked: the finitely many release and job ids run out.
CHECK_DEADLOCK FALSE
SPECIFICATION SystemSpec
CONSTANTS
    Releases = {r1}
    Handlers = {h1}
    Pollers = {p1}
    NoRelease = NoRelease
    ManualTargets <- PageTargets
    AnalysisFlags <- NoFlags
    AutoApprove = FALSE
    Jobs = {j1, j2}
    NoJob = NoJob
    Clients = {"qbittorrent", "sabnzbd"}
    ClientFaults = {"no_id", "ignored", "error", "timeout"}
    NameHit <- EachItself
    MayCrash = {h1}
INVARIANTS ExplicitReview OnlyReviewedSubmitted SentWasAccepted SystemInv
SYMMETRY JobSymmetry
