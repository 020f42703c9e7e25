CONSTANTS
    siteA = siteA
    siteB = siteB
    None = None
    Slugs = {siteA, siteB}
    Segments = {"api"}
    Paths <- MCPaths
    Addresses = {"x", "y", "six"}
    Unbracketed = {"six"}
    Payloads <- MCPayloads
    Templates <- MCTemplates
    TemplateRequests <- MCTemplateRequests
    MaxChanges = 4
    Domains <- MCDomains
    Names = {"x.test", "yx.test", "own"}
    Within <- MCWithin
    Leaves = {"one", "both"}
    Keys = {"k", "l"}
    KeyOf <- MCKeyOf
    DomainsOf <- MCDomainsOf
    MaxRequests = 4
    Sites = {siteA, siteB}
    Clients = {"c", "d"}
    Requests <- MCRequests
    MinuteLen = 1
    HourLen = 2
    MinuteRange = 1
    HourRange = 2
    Rates = {1, 2}
    EventLimit = 1
    Lag = 1
    MaxTick = 3
    MaxLines = 3
    MaxBatch = 2
SPECIFICATION MCSpec
INVARIANTS PathsSurvive SettingsAreExplained ReadersAgree CertificatesAgree
CHECK_DEADLOCK FALSE
SYMMETRY SiteSymmetry
