\* Safety of a fan-out whose recipients are resolved anew on each attempt.
CONSTANTS
    w1 = w1
    w2 = w2
    m1 = m1
    NoRow = NoRow
    NoUser = NoUser
    NoMessage = NoMessage
    Workers = {w1, w2}
    Messages = {m1}
    Poison = {}
    EventIds = {"id1"}
    EventTypes = {"gig_category_matched"}
    Users = {"ann", "bob", "eve"}
    Tokens = {"phone", "tablet"}
    Keys <- MCKeys
    TypeOf <- MCTypeOf
    IdOf <- MCIdOf
    Addressee <- MCAddressee
    Entity <- MCEntity
    Senders <- MCSenders
    InitialOwner <- MCInitialOwner
    InitialSubscribers = {"ann"}
    Movable = {"tablet"}
    Mortal = {}
    Churning = {"bob"}
    Leaving = {"bob"}
    MaxFaults = 1
SPECIFICATION LSpec
SYMMETRY WorkerSymmetry
INVARIANTS
    ProcessedNotifies
    AckedReachesAll
    ProcessedPushes
    RepeatsAreAccountedFor
PROPERTIES
    KeepsPromise
    PushesGoWhereMeant
