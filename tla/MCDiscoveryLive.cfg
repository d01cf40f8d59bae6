\* Deadlock is not checked: the finitely many release ids run out.
CHECK_DEADLOCK FALSE
SPECIFICATION FairDiscoverySpec
CONSTANTS
    Software = {s1}
    Versions = {v1, v2}
    Scans = {t1}
    Rows = {i1, i2, i3, i4}
    NoSoftware = NoSoftware
    NoVersion = NoVersion
    NoRow = NoRow
    Manual = Manual
    ProcessUsed = FALSE
    SourceFails = TRUE
    Kills = FALSE
INVARIANTS SoleScanStoresOnce
PROPERTY NewVersionIsStored
