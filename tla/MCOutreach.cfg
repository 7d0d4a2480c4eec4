\* Two requests at a time, four events from outside, passing time among them.
SPECIFICATION Spec
CONSTANTS
    ann = ann
    bob = bob
    Callers = {c1, c2}
    MaxEvents = 4
    Contacts = {ann, bob}
    Everyone = Everyone
    Unlimited = Unlimited
    NoConsent = NoConsent
    Consents <- MCConsents
    Messages <- MCMessages
    Scopes <- MCScopes
    Windows <- MCWindows
    Hours <- MCHours
    Opening = 1
    Keys = {k1}
    Offers <- MCOffers
    Subjects = {s1}
    Callbacks = {b1}
    Copies <- MCCopies
    Texts = {hello, hi}
    Unusable = Unusable
    Selections <- MCSelections
    HandoverKeys = {h1}
SYMMETRY Symmetric
\* All events may be spent.
CHECK_DEADLOCK FALSE
INVARIANTS
    PostedOnce
    VersionsNameText
PROPERTIES
    StoppedMeansStopped
    SubmissionsLimited
    RedialedOnEvidence
