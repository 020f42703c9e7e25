CONSTANTS
    Threads = {t1, t2, t3}
    Paths = {p1, p2}
    Inodes = {i1, i2, i3, i4}
    NoInode = NoInode
    NoThread = NoThread
SPECIFICATION LockFairSpec
INVARIANTS
    OneHolderOfTheNamedFile
PROPERTY
    NoStarvation
