SPECIFICATION IniSpec
CONSTANTS
    Keys <- TwoKeys
    Names = {n1, n2}
    Values = {plain, refused, odd}
    Refused = {refused}
    Odd = {odd}
    Unset = Unset
    Absent = Absent
    Keep = Keep
    Callers = {c1, c2}
    Procs = {p1}
    ProcOf <- OneProcess
    Free = Free
    Bundles <- TwoKeyBundles
    MayDie = {p1}
    SaveMayFail = TRUE
    MaxCount = 1
INVARIANT IniInv
PROPERTY ImplementsRegister
SYMMETRY CallerSymmetry
