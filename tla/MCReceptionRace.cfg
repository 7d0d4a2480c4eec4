\* One message and its retry, a staff request or two that bind a lead, handlers
\* that may fail, two switches: every interleaving of their store calls.
SPECIFICATION Spec
CONSTANTS
    Members = {m1, m2}
    TenantOwners = {m2}
    NoMember = NoMember
    Ids = {i1}
    Requests = {h1, h2}
    Receipts = {r1}
    MayFail = TRUE
    MaxDesk = 1
    MaxBinds = 2
    MaxEpoch = 3
SYMMETRY Symmetric
\* A closed session comes to rest.
CHECK_DEADLOCK FALSE
INVARIANTS
    TypeOK
    EpochFencesKinds
    SwitchesAudited
    MeteredAfterReply
PROPERTIES
    ImplementsConversation
    HolderIsNeverReplaced
    LeadBoundOnce
