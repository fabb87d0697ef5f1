\* Both devices are retired before the first send.
CONSTANTS
    w1 = w1
    w2 = w2
    m1 = m1
    NoRow = NoRow
    NoUser = NoUser
    NoMessage = NoMessage
    Workers = {w1, w2}
    Messages = {m1}
    Poison = {}
    EventIds = {"id1"}
    EventTypes = {"new_message"}
    Users = {"bob", "eve"}
    Tokens = {"phone", "tablet"}
    Keys <- MCKeys
    TypeOf <- MCTypeOf
    IdOf <- MCIdOf
    Addressee <- MCAddressee
    Entity <- MCEntity
    Senders <- MCSenders
    InitialOwner <- MCInitialOwner
    InitialSubscribers = {}
    Movable = {"tablet"}
    Mortal = {"phone", "tablet"}
    Churning = {}
    Leaving = {}
    MaxFaults = 0
SPECIFICATION Spec
SYMMETRY WorkerSymmetry
INVARIANTS
    PushedMeansDelivered
