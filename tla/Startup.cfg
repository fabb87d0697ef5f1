\* Two requests, so that one is answered and one is not when the process ends.
SPECIFICATION FairSpec
CONSTANTS
    Requests = {r1, r2}
    NoConfig = NoConfig
INVARIANTS
    TypeOK
    ClientsReleased
    HandlesWhenReady
PROPERTIES
    ComesUpOrEnds
    TerminatesWhenAsked
CHECK_DEADLOCK FALSE
