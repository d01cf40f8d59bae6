CONSTANTS
    Releases = {"r1", "r2"}
    NoRelease = NoRelease
    Unfetched = Unfetched
    Sources <- MCSources
    Known <- MCKnown
    Learnable <- MCLearnable
    MaxFaults = 1
SPECIFICATION Spec
PROPERTIES VerdictArrives
\* Without releases nothing is left to check.
CHECK_DEADLOCK FALSE
