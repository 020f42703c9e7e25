CONSTANTS
    MaxOrg = 3
    MaxAccount = 3
    r1 = r1
    r2 = r2
    Records = {x}
    Slots = {1, 2}
    Requests = {r1, r2}
    NoRow = NoRow
SPECIFICATION Spec
SYMMETRY Symmetry
INVARIANTS
    TypeOK
    AccountsHaveTheirOrganization
    MakersKeepSight
    MixedOnlyByUpdate
