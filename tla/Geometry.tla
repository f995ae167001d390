------------------------------ MODULE Geometry ------------------------------
(***************************************************************************)
(* Vectors and polygons of the physics engine (physics/src/vector.rs and   *)
(* polygon.rs) over the integers: a coordinate is a multiple of the        *)
(* model's unit, and angles are quarter turns.  What f64 adds to this is   *)
(* rounding.                                                               *)
(*                                                                         *)
(* A vector is a pair; a polygon is the sequence of its points, in either  *)
(* orientation, together with the centroid that the code stores beside it. *)
(***************************************************************************)
EXTENDS Integers, SequencesExt

Zero == <<0, 0>>

Plus(v, w) == <<v[1] + w[1], v[2] + w[2]>>
Minus(v, w) == <<v[1] - w[1], v[2] - w[2]>>
Times(v, k) == <<v[1] * k, v[2] * k>>
Opposite(v) == <<-v[1], -v[2]>>

\* A perpendicular vector.
Perp(v) == <<v[2], -v[1]>>

\* v / k, for vectors that k divides.
Over(v, k) ==
    LET d == IF k < 0 THEN -k ELSE k
        u == IF k < 0 THEN Opposite(v) ELSE v
    IN  <<u[1] \div d, u[2] \div d>>

Dot(v, w) == v[1] * w[1] + v[2] * w[2]
Cross(v, w) == v[1] * w[2] - w[1] * v[2]

\* norm() squared.
Norm2(v) == Dot(v, v)

\* rotate by quarter turns, counterclockwise around the origin: the cosines and
\* sines of the matrix are the coordinates of the turned unit vector.
Cosine(turns) == CASE turns % 4 = 0 -> 1 [] turns % 4 = 2 -> -1 [] OTHER -> 0
Sine(turns) == CASE turns % 4 = 1 -> 1 [] turns % 4 = 3 -> -1 [] OTHER -> 0

Rotate(v, turns) ==
    <<v[1] * Cosine(turns) - v[2] * Sine(turns), v[1] * Sine(turns) + v[2] * Cosine(turns)>>

RotateRelative(v, turns, center) == Plus(Rotate(Minus(v, center), turns), center)

-----------------------------------------------------------------------------
(* Polygons                                                                *)

NextIndex(points, e) == (e % Len(points)) + 1
After(points, e) == points[NextIndex(points, e)]
Edge(points, e) == Minus(After(points, e), points[e])

\* Twice the signed area.
Shoelace(points) ==
    FoldLeftDomain(LAMBDA sum, e : sum + Cross(points[e], After(points, e)), 0, points)

\* The first moment, over six times the area.
CentroidOf(points) ==
    Over(FoldLeftDomain(LAMBDA sum, e : Plus(sum, Times(Plus(points[e], After(points, e)),
                                                        Cross(points[e], After(points, e)))),
                        Zero, points),
         3 * Shoelace(points))

\* Polygon::new asserts that there are three points.
Polygon(points) == [centroid |-> CentroidOf(points), points |-> points]

Mapped(points, F(_)) == [e \in DOMAIN points |-> F(points[e])]

Translate(poly, t) ==
    [centroid |-> Plus(poly.centroid, t), points |-> Mapped(poly.points, LAMBDA v : Plus(v, t))]

\* Polygon::rotate_relative: the turned centroid is computed and dropped.
Turn(poly, turns, center) ==
    [poly EXCEPT !.points = Mapped(@, LAMBDA v : RotateRelative(v, turns, center))]
=============================================================================
