\* Safety of one event under duplicates, faults and a changing token table.
CONSTANTS
    w1 = w1
    w2 = w2
    m1 = m1
    NoRow = NoRow
    NoUser = NoUser
    NoMessage = NoMessage
    Workers = {w1, w2}
    Messages = {m1}
    Poison = {}
    EventIds = {"id1"}
    EventTypes = {"new_message"}
    Users = {"bob", "eve"}
    Tokens = {"phone", "tablet"}
    Keys <- MCKeys
    TypeOf <- MCTypeOf
    IdOf <- MCIdOf
    Addressee <- MCAddressee
    Entity <- MCEntity
    Senders <- MCSenders
    InitialOwner <- MCInitialOwner
    InitialSubscribers = {}
    Movable = {"tablet"}
    Mortal = {"tablet"}
    Churning = {}
    Leaving = {"eve"}
    MaxFaults = 3
SPECIFICATION Spec
SYMMETRY WorkerSymmetry
INVARIANTS
    TypeOK
    ClaimExclusive
    NoEventLost
    PushedReachesSteady
    ProcessedPushes
    RepeatsAreAccountedFor
PROPERTIES
    OnlyRetiredTokensDeleted
    ProcessedIsFinal
    KeepsPromise
