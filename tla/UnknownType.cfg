\* An unknown type in a versioned envelope is not acknowledged.
CONSTANTS
    Nil = "nil"
    Malformed = "malformed"
    Absent = "absent"
    Uuids = {"u1", "u2"}
    ObjectIds = {"a", "b"}
    OtherTypes = {"review_received"}
    Versions = {0, 1, 2}
SPECIFICATION Spec
CHECK_DEADLOCK FALSE
INVARIANTS
    UnknownAcknowledged
