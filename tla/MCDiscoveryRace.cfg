\* Deadlock is not checked: the finitely many release ids run out.
CHECK_DEADLOCK FALSE
SPECIFICATION DiscoverySpec
CONSTANTS
    Software = {s1}
    Versions = {v1}
    Scans = {t1, t2}
    Rows = {i1, i2, i3, i4}
    NoSoftware = NoSoftware
    NoVersion = NoVersion
    NoRow = NoRow
    Manual = Manual
    ProcessUsed = TRUE
    SourceFails = TRUE
    Kills = TRUE
INVARIANTS OneRowPerScan DiscoveryInv
PROPERTY NoScanFindsTheDeleted
SYMMETRY DiscoverySymmetry
