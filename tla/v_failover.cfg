CONSTANTS
    d = d
    a = a
    b = b
    p1 = p1
    p2 = p2
    Servers = {a, b}
    Pools = {p1}
    PoolOf <- OnePool
    Health = health
    Regen = regen
    Api = api
    NoServer = NoServer
    NotLoaded = NotLoaded
    Plain = Plain
    Absent = Absent
    MaxFlaps = 1
    Flapping = {a}
    MaxDisturb = 0
    MaxReverts = 0
    MaxEvents = 1
SPECIFICATION MCFairSpec
PROPERTY
    OfflineLeavesService
