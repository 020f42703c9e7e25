CONSTANTS
    Api = api
    Threads = {api, job}
    Paths = {s1, s2}
    plain = plain
    Cfgs = {plain}
    AuthModes = {FALSE}
    Reparse <- MCReparse
    NoFile = NoFile
    Inodes = {i1, i2}
    NoInode = NoInode
    NoThread = NoThread
    LoadsAtOnce = FALSE
    FirstSites = {s1}
    FirstInodes = {i1}
    MaxByApi = 1
    MaxByJob = 1
SPECIFICATION MCFairSpec
CHECK_DEADLOCK FALSE
INVARIANTS
    CommittedIsLive
    SiteSurvives
PROPERTIES
    HandlersEnd
    ChangesAreAtomic
