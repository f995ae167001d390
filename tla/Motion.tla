------------------------------- MODULE Motion -------------------------------
(***************************************************************************)
(* The rounds of the physics simulation (services/physics_sim/src/main.rs  *)
(* and physics/src/ecs): each dispatch runs the systems one after another  *)
(* on the bodies, the collider and gravity a pair at a time, and between   *)
(* two dispatches the bot may add or remove a body.  What the game makes   *)
(* of entities and owners is in PhysicsGame.                               *)
(*                                                                         *)
(* A round is one unit of time.  Every body has the same shape and mass,   *)
(* as in main.rs and in the bot.  No entity has a Theta or an Omega:       *)
(* rot_kine, and the turning of shape_kine, act on nothing.                *)
(***************************************************************************)
EXTENDS Collision, Maps

CONSTANTS
    Entity,     \* entities, of which a new body takes one
    Start,      \* how system_loop begins: a set of states [pos, vel, pairs]
    Corners,    \* the corners of a body that lies at the origin
    Extent,     \* the edges are at 0 and at Extent, in x and in y
    Built,      \* bound of the model: the orders the dispatcher may have
    Places,     \* where a body may be spawned
    Velocity,   \* bound of the model: the velocities that bodies may have
    Pull,       \* bound of the model: what gravity may change a velocity by
    Reach,      \* bound of the model: how far beyond an edge a body is followed
    Drift       \* bound of the model: how far a shape is followed from its position

ASSUME StartAssumption ==
    \A s \in Start :
        /\ IsMap(s.pos, Entity, Int \X Int) /\ IsMap(s.vel, Entity, Int \X Int)
        /\ DOMAIN s.pos = DOMAIN s.vel /\ IsFiniteSet(DOMAIN s.pos)
        /\ s.pairs \in Seq(Entity \X Entity)

\* What Polygon::new asserts, and an area that the centroid can be divided by.
ASSUME CornersAssumption ==
    Corners \in Seq(Int \X Int) /\ Len(Corners) >= 3 /\ Shoelace(Corners) # 0

ASSUME VectorsAssumption == Velocity \cup Places \cup Pull \subseteq Int \X Int
ASSUME ExtentAssumption == Extent \in Nat

VARIABLES
    pos, vel, shape,    \* components: entity -> vector, vector, polygon
    doomed,             \* bodies that entities.delete has marked, until maintain()
    used,               \* entities that have been created: none is created twice
    pairs,              \* ColliderList and GravityList, which are updated alike
    order,              \* the order in which the dispatcher runs the systems
    todo,               \* what is left to run in this round
    handled             \* how many of the pairs the system that runs has come to

bodies == <<pos, vel, shape>>
motionVars == <<bodies, doomed, used, pairs, order, todo, handled>>

Alive == DOMAIN pos

Body(p) == Translate(Polygon(Corners), p)

-----------------------------------------------------------------------------
(* The systems                                                             *)

Systems == {"kine", "shape_kine", "edge_deflect", "collider", "grav"}

Position(sequence, s) == CHOOSE i \in DOMAIN sequence : sequence[i] = s

\* What the declared dependencies leave to the dispatcher, which builds the order
\* once, out of what the systems read and write.
Orders ==
    {o \in SetToSeqs(Systems) : /\ Position(o, "kine") < Position(o, "shape_kine")
                                /\ Position(o, "edge_deflect") < Position(o, "collider")
                                /\ Position(o, "edge_deflect") < Position(o, "grav")}

ASSUME BuiltAssumption == Built \subseteq Orders

Due(s) == todo # <<>> /\ Head(todo) = s

Run(s) ==
    /\ Due(s)
    /\ todo' = Tail(todo)
    /\ UNCHANGED <<used, pairs, order, handled>>


TranslationalKinematicSys ==
    /\ Run("kine")
    /\ pos' = [e \in Alive |-> Plus(pos[e], vel[e])]
    /\ UNCHANGED <<vel, shape, doomed>>

ShapeKineticSys ==
    /\ Run("shape_kine")
    /\ shape' = [e \in Alive |-> Translate(shape[e], vel[e])]
    /\ UNCHANGED <<pos, vel, doomed>>

\* Is a body beyond an edge, and heading out?
Leaves(e, i) ==
    \/ pos[e][i] < 0 /\ vel[e][i] < 0
    \/ pos[e][i] > Extent /\ vel[e][i] > 0

\* One of the two components is turned, x first.
Deflected(e, v) ==
    IF Leaves(e, 1) THEN <<-v[1], v[2]>>
    ELSE IF Leaves(e, 2) THEN <<v[1], -v[2]>>
    ELSE v

EdgeDeflectSys ==
    /\ Run("edge_deflect")
    /\ vel' = [e \in Alive |-> Deflected(e, vel[e])]
    /\ UNCHANGED <<pos, shape, doomed>>

\* The loop over the pairs of the collider, and that of gravity.
Pair == pairs[handled + 1]

ForPair(s) ==
    /\ Due(s)
    /\ handled < Len(pairs)
    /\ handled' = handled + 1
    /\ UNCHANGED <<doomed, used, pairs, order, todo>>

LoopEnds ==
    /\ Due("collider") \/ Due("grav")
    /\ handled = Len(pairs)
    /\ handled' = 0
    /\ todo' = Tail(todo)
    /\ UNCHANGED <<bodies, doomed, used, pairs, order>>

\* joiner.get finds both: pairs keep the names of bodies that are gone.
Living(pair) == pair[1] # pair[2] /\ {pair[1], pair[2]} \subseteq Alive

\* Slip: pushes the position and leaves the shape where it is.
PushedPos(w, e, by) == [w EXCEPT !.pos[e] = Plus(@, by)]

Pushed(w, e, by) ==
    [w EXCEPT !.pos[e] = Plus(@, by), !.shape[e] = Translate(@, by)]

Exchanged(w, pair, impulse) ==
    [w EXCEPT !.vel[pair[1]] = Plus(@, impulse), !.vel[pair[2]] = Minus(@, impulse)]

\* Slip: each is pushed into the other.
CollidedInwards(w, pair) ==
    LET hit == FindCollision(w.shape[pair[1]], w.shape[pair[2]])
        push == Over(Times(hit.axis, hit.over), Norm2(hit.axis))
        half == Over(push, 2)
    IN  IF ~Living(pair) \/ hit = None THEN w
        ELSE Pushed(Pushed(w, pair[1], half), pair[2], Minus(half, push))

\* A pair: half of the translation vector to each, since the masses are the same (and
\* rounded to the grid, but of both together it is the whole vector), and the
\* velocities along it exchanged, since the elasticity is 1, whether the bodies
\* approach or fly apart already.
Collided(w, pair) ==
    LET hit == FindCollision(w.shape[pair[1]], w.shape[pair[2]])
        push == Over(Times(hit.axis, hit.over), Norm2(hit.axis))
        half == Over(push, 2)
        ua == Dot(w.vel[pair[1]], hit.axis)
        ub == Dot(w.vel[pair[2]], hit.axis)
        impulse == Over(Times(hit.axis, ub - ua), Norm2(hit.axis))
    IN  IF ~Living(pair) \/ hit = None THEN w
        ELSE Exchanged(Pushed(Pushed(w, pair[1], Opposite(half)), pair[2], Minus(push, half)),
                       pair, impulse)

\* The bodies become as w has them.
Become(w) == pos' = w.pos /\ vel' = w.vel /\ shape' = w.shape

PhysicalColliderSys ==
    /\ ForPair("collider")
    /\ Become(Collided([pos |-> pos, vel |-> vel, shape |-> shape], Pair))

\* What gravity may do to a pair in a round: nothing to bodies at the same place; how
\* strong it is otherwise, which depends on the distance, is left open.
Pulls(pair) ==
    LET rv == Minus(pos[pair[2]], pos[pair[1]])
    IN  {Zero} \cup {pull \in Pull : rv # Zero /\ Cross(pull, rv) = 0 /\ Dot(pull, rv) > 0}

\* Slip: the second body gets the pull of the first.
AttractedUnsigned(pair, pull) ==
    [vel EXCEPT ![pair[1]] = Plus(@, pull), ![pair[2]] = Plus(@, pull)]

Attracted(pair, pull) ==
    [vel EXCEPT ![pair[1]] = Plus(@, pull), ![pair[2]] = Minus(@, pull)]

\* Bound of the model: gravity leads to no velocity beyond Velocity.
GravitySys ==
    /\ ForPair("grav")
    /\ IF Living(Pair)
       THEN \E pull \in Pulls(Pair) :
                /\ vel' = Attracted(Pair, pull)
                /\ pull = Zero \/ Range(vel') \subseteq Velocity
       ELSE UNCHANGED vel
    /\ UNCHANGED <<pos, shape>>

-----------------------------------------------------------------------------
(* Rounds, and what happens between them                                   *)

WithinEdges(e, slack) == \A i \in {1, 2} : pos[e][i] \in -slack .. Extent + slack

\* system_loop holds the lock on the world from here to the end of the round.
Dispatch ==
    /\ todo = <<>>
    /\ \A e \in Alive : WithinEdges(e, Reach) /\ Norm2(Minus(shape[e].centroid, pos[e])) <= Drift * Drift
    /\ todo' = Append(order, "maintain")
    /\ UNCHANGED <<bodies, doomed, used, pairs, order, handled>>

\* The bodies that are marked are removed.
Maintain ==
    /\ Run("maintain")
    /\ pos' = Restrict(pos, Alive \ doomed) /\ vel' = Restrict(vel, Alive \ doomed)
    /\ shape' = Restrict(shape, Alive \ doomed)
    /\ doomed' = {}

\* A new body is bound to all others, the marked ones included.
Added(e, p, v, s) ==
    /\ todo = <<>>
    /\ e \notin used
    /\ used' = used \cup {e}
    /\ pos' = Put(pos, e, p) /\ vel' = Put(vel, e, v) /\ shape' = Put(shape, e, s)
    /\ pairs' = pairs \o SetToSeq({<<e, f>> : f \in Alive})
    /\ UNCHANGED <<doomed, order, todo, handled>>

\* The owner of f touches it: a clone starts from the same place.
Clone(e, f, v) == Added(e, pos[f], v, shape[f])

\* A client spawns a body, at rest.
Spawn(e, p) == Added(e, Body(p).centroid, Zero, Body(p))

\* The pairs, in their order, that e is not in.
Retained(e) ==
    FoldLeft(LAMBDA list, pair : IF e \in {pair[1], pair[2]} THEN list ELSE Append(list, pair),
             <<>>, pairs)

\* A body is touched by another client: it is unbound, and goes with the next round.
Touch(e) ==
    /\ todo = <<>>
    /\ doomed' = doomed \cup {e}
    /\ pairs' = Retained(e)
    /\ UNCHANGED <<bodies, used, order, todo, handled>>

\* Its owner leaves, or spawns another: it goes at once, and its pairs stay.
Delete(e) ==
    /\ todo = <<>>
    /\ pos' = Erase(pos, e) /\ vel' = Erase(vel, e) /\ shape' = Erase(shape, e)
    /\ doomed' = doomed \ {e}
    /\ UNCHANGED <<used, pairs, order, todo, handled>>

Init ==
    \E s \in Start :
        /\ pos = s.pos /\ vel = s.vel /\ pairs = s.pairs
        /\ shape = [e \in DOMAIN s.pos |-> Body(Minus(s.pos[e], Body(Zero).centroid))]
        /\ doomed = {} /\ used = DOMAIN s.pos
        /\ order \in Built
        /\ todo = <<>> /\ handled = 0

RunsSystem ==
    \/ TranslationalKinematicSys \/ ShapeKineticSys
    \/ EdgeDeflectSys \/ PhysicalColliderSys \/ GravitySys \/ LoopEnds

Next ==
    \/ Dispatch
    \/ RunsSystem \/ Maintain
    \/ \E e \in Entity, f \in Alive, v \in Velocity \ {Zero} : Clone(e, f, v)
    \/ \E e \in Entity, p \in Places : Spawn(e, p)
    \/ \E e \in Alive : Touch(e) \/ Delete(e)

Spec == Init /\ [][Next]_motionVars

\* As in main.rs and in the bot, the corners are those of a square.
Square ==
    LET side == Corners[2][1] - Corners[1][1]
    IN  /\ side > 0
        /\ Corners = [i \in 1 .. 4 |-> Plus(Corners[1], << <<0, 0>>, <<side, 0>>,
                                                        <<side, side>>, <<0, side>> >>[i])]

-----------------------------------------------------------------------------
(* Properties                                                              *)

\* Nothing that changes a velocity runs between the two systems that move a body, its
\* position and its shape; main.rs declares no dependency that keeps it so.
MovesAlike == Position(order, "kine") + 1 = Position(order, "shape_kine")

\* Between rounds a body is where its shape is: the game draws the position and the
\* collider tests the shape.  In an order that does not move both alike, they
\* part for good when a body turns at an edge.
ShapeFollowsPos ==
    MovesAlike /\ todo = <<>> => \A e \in Alive : shape[e].centroid = pos[e]

SumOf(v) == FoldFunction(Plus, Zero, v)

\* Only the edges change the momentum of what moves: collisions and gravity give to
\* one body what they take from the other.
MomentumKept ==
    [][todo # <<>> /\ Head(todo) \notin {"edge_deflect", "maintain"}
        => SumOf(vel') = SumOf(vel)]_motionVars

\* When the collider comes to a pair it parts the two, which a pair that comes later
\* may undo, and has them exchange their speeds along the vector that parts them.
Separated ==
    [][PhysicalColliderSys /\ Living(Pair) =>
        LET a == Pair[1]
            b == Pair[2]
            hit == FindCollision(shape[a], shape[b])
            along(v) == Dot(v, hit.axis)
        IN  /\ FindCollision(shape'[a], shape'[b]) = None
            /\ hit # None => along(vel'[a]) = along(vel[b]) /\ along(vel'[b]) = along(vel[a])
            /\ hit = None => vel' = vel]_motionVars
=============================================================================
