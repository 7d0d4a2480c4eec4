\* Two references of one person and one outside tenant, two versions, two
\* requests at a time, restarts on other bindings.
SPECIFICATION Spec
CONSTANTS
    e = e
    t1 = t1
    t2 = t2
    r1 = r1
    r2 = r2
    p1 = p1
    x = x
    y = y
    touch = touch
    other = other
    wild = wild
    Apps = {touch, other}
    Wildcard = wild
    Tenants = {e, t1, t2}
    App = touch
    Refs = {r1, r2}
    SourceOf <- MCSourceOf
    Phones = {p1}
    PhoneOf <- MCPhoneOf
    Contents = {x, y}
    Traced = {x}
    Issues = {1, 2}
    Versions = {1, 2}
    Contacts = {1, 2}
    Handlers = {h1, h2}
    MaxEvents = 4
    Bindings <- MCBindings
    Provisioned <- MCProvisioned
    Produced <- MCProduced
    Legacy <- MCLegacy
SYMMETRY Symmetric
\* All events may be spent.
CHECK_DEADLOCK FALSE
INVARIANTS
    AcknowledgedIsStored
    OneLeadPerReference
    ReferenceInOneTenant
    OneTargetPerSource
PROPERTIES
    ImplementsFactLedger
