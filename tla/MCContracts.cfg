\* Safety when messages share rows: one row for two events, one id for two types.
CONSTANTS
    w1 = w1
    w2 = w2
    m1 = m1
    m2 = m2
    m3 = m3
    NoRow = NoRow
    NoUser = NoUser
    NoMessage = NoMessage
    Workers = {w1, w2}
    Messages = {m1, m2, m3}
    Poison = {}
    EventIds = {"id1", "id2"}
    EventTypes = {"listing_approved", "new_message"}
    Users = {"ann"}
    Tokens = {"phone"}
    Keys <- MCKeys
    TypeOf <- MCTypeOf
    IdOf <- MCIdOf
    Addressee <- MCAddressee
    Entity <- MCEntity
    Senders <- MCSenders
    InitialOwner <- MCInitialOwner
    InitialSubscribers = {}
    Movable = {}
    Mortal = {}
    Churning = {}
    Leaving = {}
    MaxFaults = 2
SPECIFICATION Spec
SYMMETRY WorkerSymmetry
INVARIANTS
    ClaimExclusive
    NoEventLost
    PushedReachesSteady
PROPERTIES
    KeepsPromise
