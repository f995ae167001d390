SPECIFICATION Spec
CONSTANTS
    Uuid = {u1, u2, u3}
    Name = {n1, n2, n3}
    Service = {s1}
    SeqLimit = 3
    OverflowChecks = TRUE
SYMMETRY Symmetry
\* A request of an unregistered client, or one that overflows a number, aborts
\* the process: nothing follows.
CHECK_DEADLOCK FALSE
INVARIANTS TypeOK NamespaceExact NoOrphans MailToRegistered
PROPERTIES ChangesAnnounced OwnWillOnly MembershipAnnounced RepliesNumbered ImplementsDirectory
