\* Two contacts and two requests served at the same time, from an empty tenant.
SPECIFICATION Spec
CONSTANTS
    Contacts = {c1, c2}
    Creative = {}
    Phones = {p1}
    Blank = Blank
    Keys = {k1}
    Tables = {"leads"}
    MaxCalls = 2
    MaxClock = 5
SYMMETRY Symmetric
\* The clock stops at MaxClock, and the behaviour with it.
CHECK_DEADLOCK FALSE
INVARIANTS
    TypeOK
    AuditConsistent
    TombstonesMasked
    ConsentKeysUnique
