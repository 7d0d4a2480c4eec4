\* Two requests at a time, three events from outside; two forms of a family, two
\* events of two contents, a pool of two.
SPECIFICATION Spec
CONSTANTS
    a = a
    b = b
    north = north
    p1 = p1
    p2 = p2
    x = x
    y = y
    web = web
    poster = poster
    e1 = e1
    f1 = f1
    Callers = {c1, c2}
    MaxEvents = 3
    MaxForms = 3
    Members = {a, b}
    Weights = {1, 2}
    Regions = {north}
    Anywhere = Anywhere
    Phones = {p1, p2}
    NoPhone = NoPhone
    Keys = {k1, k2}
    Contents = {x, y}
    FactsOf <- MCFactsOf
    Refs = {r1}
    Sources = {web, poster}
    NoSource = NoSource
    Payloads <- MCPayloads
    Owner = Owner
    Nobody = Nobody
    Statuses = {"in_progress"}
    SomeForms <- MCForms
    SomeTenants <- MCTenants
    ChannelEvents = {e1}
    Capabilities = {{"message.read", "reply"}}
    Posts <- MCPosts
    Companies = {f1}
    Profiles <- MCProfiles
    SomeCompanies <- MCCompanies
    Throughs <- MCThroughs
    Once = Once
SYMMETRY Symmetric
\* All events may be spent.
CHECK_DEADLOCK FALSE
INVARIANTS
    LedgerExact
    OriginsBacked
    AmbiguityProposed
    AssignedOnPurpose
    FairShares
PROPERTIES
    FormsOnlyAdvance
    FollowedThrough
    TakenBackMakesNoLead
