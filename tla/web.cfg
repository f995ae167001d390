SPECIFICATION FairWebSpec
CONSTANTS
    Socket = {s1, s2}
    Request = {r1, r2}
    EagerRequests = FALSE
    SeqCap = 3
INVARIANTS CallbackGetsItsAnswer NumbersAgree OneSocket
PROPERTIES ComesBack
