SPECIFICATION PlanetarySpec
CONSTANTS
    Viewer = {v1, v2}
    Body = {a, b}
    Saved = {{a, b}, {b}}
    QueueBound = 2
INVARIANTS PlanetsMirror PauseKept
\* Once recv_loop has died with fetches unanswered, nothing need happen.
CHECK_DEADLOCK FALSE
