\* Three contacts that share a phone, one request at a time: merges of merges,
\* undone in any order the code allows, from a tenant with data in it.
SPECIFICATION SeededSpec
CONSTANTS
    Contacts = {c1, c2, c3}
    Creative = {}
    Phones = {p1}
    Blank = Blank
    Keys = {k1}
    Tables = {"leads"}
    MaxCalls = 1
    MaxClock = 17
\* The clock stops at MaxClock, and the behaviour with it.
CHECK_DEADLOCK FALSE
INVARIANTS
    ChainsRunForward
    MergedCandidatesBacked
    MovedRowsStay
    NoRowLeftBehind
    CollapsedRevocationHolds
PROPERTIES
    ConsentsConserved
    UndoDropsNoProfileEdit
