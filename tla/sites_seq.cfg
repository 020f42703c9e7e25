CONSTANTS
    Api = api
    Threads = {api}
    Paths = {s1, s2}
    plain = plain
    Cfgs = {plain}
    AuthModes = {FALSE, TRUE}
    Reparse <- MCReparse
    NoFile = NoFile
    Inodes = {i1, i2}
    NoInode = NoInode
    NoThread = NoThread
    LoadsAtOnce = TRUE
    FirstSites = {s1, s2}
    FirstInodes = {i1, i2}
    MaxByApi = 2
    MaxByJob = 1
SPECIFICATION MCSpec
CHECK_DEADLOCK FALSE
SYMMETRY Symmetry
INVARIANTS
    TypeOK
    RollbackWhenUncontended
    BookkeepingMatchesDisk
    PasswordsFollowSite
