SPECIFICATION ViewerSpec
CONSTANTS
    Peer = {p1, p2}
    Service = {x, y}
    QueueBound = 3
INVARIANTS ListsMirror TabsMatch AutoSubscribed
