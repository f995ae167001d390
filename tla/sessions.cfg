SPECIFICATION FairSessionsSpec
CONSTANTS
    Conn = {c1, c2}
    Uuid = {u1, u2}
    Name = {n1, n2}
    Service = {}
    Nil = Nil
    SeqLimit = 1
    OverflowChecks = FALSE
    Versions = {"compatible", "incompatible", "unparsable"}
    TextBound = 1
\* When every connection has come and gone the server is idle.
CHECK_DEADLOCK FALSE
INVARIANTS NoPanic OneConnectionPerClient Accounted
PROPERTIES GoneIsForgotten IdentificationEnds SilentIsDropped
