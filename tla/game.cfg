SPECIFICATION FairGameSpec
CONSTANTS
    Viewer = {v1, v2}
    Entity = {e1, e2, e3}
    Initial = {e1}
    QueueBound = 3
    ToggleBound = 1
\* When everybody has left, or recv_loop has panicked, nothing happens.
CHECK_DEADLOCK FALSE
INVARIANTS ShapesMirror NoStrays PairedOnce ColoursMirror
PROPERTIES OwnShapeAppears
