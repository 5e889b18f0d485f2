SPECIFICATION Spec
CONSTANTS
    user = user
    reader = reader
    r1 = r1
    r2 = r2
    r3 = r3
    c1 = c1
    ApiKeys <- MCApiKeys
    Role <- MCRole
    RateLimit <- MCRateLimit
    default_limit = 2
    Window = 1
    Client = Client
    BadKey = BadKey
    Requests = {r1, r2, r3}
    Commands = {c1}
    Asks <- MCAsks
    Phases = {1, 3}
    Routed <- MCRouted
    Events = 1
INVARIANTS
    RateBound
    AnsweredIsRetrievable
    CountersAgree
PROPERTIES
    RefusedOnlyWhenSpent
    EveryRequestEnds
CHECK_DEADLOCK FALSE
