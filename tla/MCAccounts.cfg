SPECIFICATION AccountSpec
CONSTANTS
    Tasks = {t1, t2}
    Browsers = {b1}
    Secrets = {s1, s2}
    NoSecret = NoSecret
    Unreadable = Unreadable
    NoCookie = NoCookie
    Keep = Keep
INVARIANTS
    EnabledIsConfirmed
    AcceptanceIsRecorded
    AccountInv
PROPERTIES
    EnrolledUntilDisabled
SYMMETRY AccountSymmetry
