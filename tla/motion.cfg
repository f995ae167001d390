SPECIFICATION MCSpec
CONSTANTS
    e1 = e1
    e2 = e2
    e3 = e3
    e4 = e4
    Entity = {e1, e2, e3, e4}
    Start <- MCStart
    Corners <- MCCorners
    Built <- MCBuilt
    Extent = 4
    Places <- MCPlaces
    Velocity <- MCVelocity
    Pull <- MCVelocity
    Reach = 2
    Drift = 4
    Family <- MCFamily
    Span = 4
\* A shape that has drifted too far is not followed.
CHECK_DEADLOCK FALSE
INVARIANTS ShapeFollowsPos MinimumTranslation
PROPERTIES MomentumKept Separated
