SPECIFICATION FairFsSpec
CONSTANTS
    Uuid = {u1, u2}
    Name = {n1, n2}
    Service = {}
    SeqLimit = 1
    OverflowChecks = FALSE
    Request = {r1, r2}
    File = {f1, f2}
\* When every client has left and every request is answered nothing happens.
CHECK_DEADLOCK FALSE
INVARIANTS FilesAreOwners AcknowledgedStays
PROPERTIES RequestEnds
