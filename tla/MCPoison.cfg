\* A malformed fan-out is retried for ever.
CONSTANTS
    w1 = w1
    w2 = w2
    m1 = m1
    m2 = m2
    NoRow = NoRow
    NoUser = NoUser
    NoMessage = NoMessage
    Workers = {w1, w2}
    Messages = {m1, m2}
    Poison = {m1, m2}
    EventIds = {"id1", "id2"}
    EventTypes = {"gig_category_matched", "new_message"}
    Users = {"ann"}
    Tokens = {"phone"}
    Keys <- MCKeys
    TypeOf <- MCTypeOf
    IdOf <- MCIdOf
    Addressee <- MCAddressee
    Entity <- MCEntity
    Senders <- MCSenders
    InitialOwner <- MCInitialOwner
    InitialSubscribers = {"ann"}
    Movable = {}
    Mortal = {"phone"}
    Churning = {}
    Leaving = {}
    MaxFaults = 0
SPECIFICATION FairSpec
PROPERTIES
    PoisonAcknowledged
