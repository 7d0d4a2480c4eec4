\* One request at a time: a merge moves a lead away from its follow-up.
SPECIFICATION Spec
CONSTANTS
    Contacts = {c1, c2, c3}
    Creative = {c3}
    Phones = {p1}
    Blank = Blank
    Keys = {k1}
    Tables = {"leads", "follow_ups"}
    MaxCalls = 1
    MaxClock = 7
SYMMETRY Symmetric
CHECK_DEADLOCK FALSE
INVARIANT FollowUpsWithTheirLead
