CONSTANTS
    d = d
    a = a
    b = b
    p1 = p1
    p2 = p2
    Servers = {a, b, d}
    Pools = {p1, p2}
    PoolOf <- TwoPools
    Health = health
    Regen = regen
    Api = api
    NoServer = NoServer
    NotLoaded = NotLoaded
    Plain = Plain
    Absent = Absent
    MaxFlaps = 2
    Flapping = {a}
    MaxDisturb = 1
    MaxReverts = 2
    MaxEvents = 3
SPECIFICATION MCFairSpec
INVARIANTS
    TypeOK
    OutOfDateIsExplained
    
PROPERTIES
    SettlesInService
