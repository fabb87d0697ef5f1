\* Liveness: redelivery ends. No symmetry.
CONSTANTS
    w1 = w1
    w2 = w2
    m1 = m1
    m2 = m2
    NoRow = NoRow
    NoUser = NoUser
    NoMessage = NoMessage
    Workers = {w1, w2}
    Messages = {m1, m2}
    Poison = {m2}
    EventIds = {"id1", "id2"}
    EventTypes = {"gig_category_matched", "new_message"}
    Users = {"ann", "bob"}
    Tokens = {"phone"}
    Keys <- MCKeys
    TypeOf <- MCTypeOf
    IdOf <- MCIdOf
    Addressee <- MCAddressee
    Entity <- MCEntity
    Senders <- MCSenders
    InitialOwner <- MCInitialOwner
    InitialSubscribers = {"ann", "bob"}
    Movable = {}
    Mortal = {"phone"}
    Churning = {"bob"}
    Leaving = {"bob"}
    MaxFaults = 1
SPECIFICATION FairSpec
PROPERTIES
    EventuallyAcked
