\* A message or a human reply that was checked before the close lands after it.
SPECIFICATION Spec
CONSTANTS
    Members = {m1, m2}
    TenantOwners = {m2}
    NoMember = NoMember
    Ids = {i1}
    Requests = {h1}
    Receipts = {}
    MayFail = FALSE
    MaxDesk = 1
    MaxBinds = 1
    MaxEpoch = 2
CHECK_DEADLOCK FALSE
PROPERTY ClosedTakesNothing
