SPECIFICATION WebSpec
CONSTANTS
    Socket = {s1}
    Request = {r1, r2}
    EagerRequests = TRUE
    SeqCap = 3
INVARIANTS CallbackGetsItsAnswer
