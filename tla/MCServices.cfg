CONSTANTS
    Names = {n1, n2}
    NoName = NoName
    Ids = {i1, i2, i3}
    NoId = NoId
    MaxEntries = 2
    DbFails = TRUE
    KillImport = TRUE
    Indexers = 2
    Posts <- MCPosts
    MaxPosts = 2
    Terms = {name, alias}
    Threshold = 6
    Contained = 10
    NoNumber = NoNumber
    Runners = {w1, w2}
    Seconds = {1, 2, 3}
    KeepCounts = {0, 2}
    Least = 2
    Passwords = {p1, p2, p3}
    Handlers = {h1, h2}
    Count = 1
    MaxChanges = 3
    MaxTickets = 4
    Found <- MCFound
    Pins <- MCPins
    NoVersion = NoVersion
    MaxRows = 2
SPECIFICATION Spec
INVARIANTS ImportAccounts BestPostPerKey ArchivesKept NoEarlyReuse
           AnnouncedUpgrades QueuedWasApproved CheckAgrees ServicesInv
\* Every part but the backups can end: bounds are reached, entries are gone.
CHECK_DEADLOCK FALSE
