\* One opportunity, two contents that can be handed over, two requests at a time.
SPECIFICATION Spec
CONSTANTS
    o = o
    Callers = {c1, c2}
    MaxEvents = 4
    Members = {o}
    RoleOf <- MCRoleOf
    Nobody = Nobody
    Stages = {"open", "won"}
    Amounts = {1}
    NoOpp = NoOpp
    Absent = Absent
    x = x
    y = y
    long = long
    Contents = {x, y, long}
    InputOf <- MCInputOf
SYMMETRY Symmetric
\* All events may be spent.
CHECK_DEADLOCK FALSE
INVARIANTS
    StageChain
PROPERTIES
    ImplementsHandoff
