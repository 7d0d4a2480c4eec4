\* One request at a time: undo takes back a revocation made after the merge.
SPECIFICATION Spec
CONSTANTS
    Contacts = {c1, c2}
    Creative = {}
    Phones = {p1}
    Blank = Blank
    Keys = {k1}
    Tables = {"leads"}
    MaxCalls = 1
    MaxClock = 6
SYMMETRY Symmetric
CHECK_DEADLOCK FALSE
PROPERTY RevocationsPermanent
