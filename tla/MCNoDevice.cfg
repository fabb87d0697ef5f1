\* Bob stays subscribed and has no device: his row is never marked.
CONSTANTS
    w1 = w1
    w2 = w2
    m1 = m1
    NoRow = NoRow
    NoUser = NoUser
    NoMessage = NoMessage
    Workers = {w1, w2}
    Messages = {m1}
    Poison = {}
    EventIds = {"id1"}
    EventTypes = {"gig_category_matched"}
    Users = {"ann", "bob", "eve"}
    Tokens = {"phone", "tablet"}
    Keys <- MCKeys
    TypeOf <- MCTypeOf
    IdOf <- MCIdOf
    Addressee <- MCAddressee
    Entity <- MCEntity
    Senders <- MCSenders
    InitialOwner <- MCInitialOwner
    InitialSubscribers = {"ann", "bob"}
    Movable = {}
    Mortal = {}
    Churning = {}
    Leaving = {}
    MaxFaults = 0
SPECIFICATION LSpec
SYMMETRY WorkerSymmetry
INVARIANTS
    ProcessedMeansPushed
