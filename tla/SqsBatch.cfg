\* A batch of five records, three at a time.
\* The handler stops when it has responded; CHECK_DEADLOCK is off for that.
CONSTANTS
    N = 5
    Limit = 3
    NoOne = NoOne
SPECIFICATION Spec
CHECK_DEADLOCK FALSE
INVARIANTS
    TypeOK
    ResponseIsExact
PROPERTIES
    Responds
