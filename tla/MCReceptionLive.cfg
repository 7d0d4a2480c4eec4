\* One message and its retry and no failures: what must happen in the end.
SPECIFICATION FairSpec
CONSTANTS
    Members = {m1, m2}
    TenantOwners = {m2}
    NoMember = NoMember
    Ids = {i1}
    Requests = {h1, h2}
    Receipts = {}
    MayFail = FALSE
    MaxDesk = 1
    MaxBinds = 1
    MaxEpoch = 2
\* A closed session comes to rest.
CHECK_DEADLOCK FALSE
PROPERTIES
    EveryQuestionAnswered
    NoAnswerLeftHanging
