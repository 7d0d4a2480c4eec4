\* Two requests at a time: undo drops an archived consent row.
SPECIFICATION Spec
CONSTANTS
    Contacts = {c1, c2}
    Creative = {}
    Phones = {p1}
    Blank = Blank
    Keys = {k1}
    Tables = {"leads"}
    MaxCalls = 2
    MaxClock = 6
SYMMETRY Symmetric
CHECK_DEADLOCK FALSE
PROPERTY ConsentsConserved
