------------------------------ MODULE MCMotion ------------------------------
(***************************************************************************)
(* A small arena for TLC: squares of side 4, whose centres turn at edges   *)
(* that are 4 apart, and that move by at most 2 in x and in y; beside it,  *)
(* the polygons that the collision test is tried with.                     *)
(***************************************************************************)
EXTENDS Motion, Shapes

CONSTANTS e1, e2, e3, e4

MCCorners == << <<0, 0>>, <<4, 0>>, <<4, 4>>, <<0, 4>> >>
MCVelocity == {<<0, 0>>, <<2, 0>>, <<-2, 0>>, <<0, 2>>, <<0, -2>>}
MCPlaces == {<<1, 1>>}

\* The order in which main.rs lists the systems, and two others that its dependencies
\* allow: a position that moves before the edges and a shape after them, and one that
\* moves after the others.
MCBuilt == { <<"kine", "shape_kine", "edge_deflect", "collider", "grav">>,
             <<"kine", "edge_deflect", "shape_kine", "grav", "collider">>,
             <<"edge_deflect", "collider", "grav", "kine", "shape_kine">> }

\* As in main.rs: one body at rest and two that move, every two of them bound.
MCStart == {[pos |-> e1 :> <<0, 2>> @@ e2 :> <<4, 4>> @@ e3 :> <<4, 0>>,
             vel |-> e1 :> <<0, 0>> @@ e2 :> <<-2, 0>> @@ e3 :> <<0, 2>>,
             pairs |-> << <<e1, e2>>, <<e1, e3>>, <<e2, e3>> >>]}

\* Squares of two sizes, a diamond, triangles of both orientations and a parallelogram.
MCFamily == {
    << <<0, 0>>, <<2, 0>>, <<2, 2>>, <<0, 2>> >>,
    << <<-1, -1>>, <<3, -1>>, <<3, 3>>, <<-1, 3>> >>,
    << <<1, 0>>, <<2, 1>>, <<1, 2>>, <<0, 1>> >>,
    << <<0, 0>>, <<3, 0>>, <<0, 3>> >>,
    << <<0, 0>>, <<0, 3>>, <<3, 3>> >>,
    << <<0, 0>>, <<3, 1>>, <<4, 4>>, <<1, 3>> >> }

ASSUME SquareAssumption == Square

\* Either two polygons are put to the collision test, or the rounds go on.
MCInit == Init /\ (Untested \/ (Tested /\ Head(order) = "edge_deflect"))
MCNext == Next /\ Untested /\ UNCHANGED shapeVars
MCSpec == MCInit /\ [][MCNext]_<<motionVars, shapeVars>>
=============================================================================
