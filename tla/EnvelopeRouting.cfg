\* Every envelope over two UUIDs, two message ids and three versions.
\* An envelope is decided once; CHECK_DEADLOCK is off for that reason.
CONSTANTS
    Nil = "nil"
    Malformed = "malformed"
    Absent = "absent"
    Uuids = {"u1", "u2"}
    ObjectIds = {"a", "b"}
    OtherTypes = {"review_received"}
    Versions = {0, 1, 2}
SPECIFICATION Spec
CHECK_DEADLOCK FALSE
INVARIANTS
    HandledUnderClaim
    OneClaimOneRow
    FanOutNeverDiscarded
    TransportsAgree
    LocationNarrows
