------------------------------- MODULE Shapes -------------------------------
(***************************************************************************)
(* What the collision test of the physics engine promises, against         *)
(* definitions that share nothing with it: for polygons of a family and    *)
(* all ways to place a second one, translated and turned.                  *)
(***************************************************************************)
EXTENDS Collision

CONSTANTS
    Family,     \* convex polygons with integral centroids, as sequences of points
    Span        \* how far from its origin the second polygon is taken, in x and in y

ASSUME SpanAssumption == Span \in Nat

\* All other points are on one side of every edge, the same one for all edges.
Convex(points) ==
    /\ Len(points) >= 3
    /\ \E side \in {-1, 1} : \A e, i \in DOMAIN points :
            i \notin {e, NextIndex(points, e)}
                => side * Cross(Edge(points, e), Minus(points[i], points[e])) > 0

ASSUME FamilyAssumption ==
    \A points \in Family : points \in Seq(Int \X Int) /\ Convex(points) /\ Shoelace(points) # 0

VARIABLES
    still, moved    \* two polygons that are put to the test, or NoPolygon

shapeVars == <<still, moved>>

NoPolygon == <<>>

Within == (-Span .. Span) \X (-Span .. Span)

\* The engine turns shapes about their position, where their centroid is.
Placed(points, offset, turns) ==
    LET poly == Translate(Polygon(points), offset)
    IN  Turn(poly, turns, poly.centroid)

Untested == still = NoPolygon /\ moved = NoPolygon

Tested ==
    /\ \E points \in Family : still = Polygon(points)
    /\ \E points \in Family, offset \in Within, turns \in 0 .. 3 :
            moved = Placed(points, offset, turns)

\* The polygons stay what they are.
ShapesSpec == (Untested \/ Tested) /\ [][FALSE]_shapeVars

-----------------------------------------------------------------------------
(* References                                                              *)

Differences(poly1, poly2) ==
    {Minus(v, w) : v \in Range(poly1.points), w \in Range(poly2.points)}

\* The interiors meet unless all differences lie on one side of a line through
\* zero; some such line, turned until it meets a difference, passes through one.
InteriorsMeet(poly1, poly2) ==
    LET D == Differences(poly1, poly2)
    IN  \A x \in D \ {Zero} : /\ \E y \in D : Cross(x, y) > 0
                              /\ \E y \in D : Cross(x, y) < 0

\* Scaled so that a hit is an integral vector, do the polygons still meet once the
\* second one is translated by it?
Scaled(poly, k) ==
    [centroid |-> Times(poly.centroid, k), points |-> Mapped(poly.points, LAMBDA v : Times(v, k))]

MeetAfter(poly1, poly2, hit) ==
    LET k == Norm2(hit.axis)
    IN  InteriorsMeet(Scaled(poly1, k), Translate(Scaled(poly2, k), Times(hit.axis, hit.over)))

\* Along the axis neither polygon starts before and ends after the other, nor is the
\* second the one behind.
Lined(poly1, poly2, axis) ==
    LET i == Project(poly1, axis)
        j == Project(poly2, axis)
    IN  i.lo <= j.lo /\ i.hi <= j.hi

\* The hit points from the first polygon to the second, moving the second by it
\* separates them, and no shorter translation does.
IsMtv(poly1, poly2, hit) ==
    /\ Dot(Minus(poly2.centroid, poly1.centroid), hit.axis) >= 0
    /\ Lined(poly1, poly2, hit.axis) => ~MeetAfter(poly1, poly2, hit)
    /\ \A t \in Within :
        Norm2(t) * Norm2(hit.axis) < hit.over * hit.over
            => InteriorsMeet(poly1, Translate(poly2, t))

-----------------------------------------------------------------------------
(* Properties                                                              *)

\* find_collision answers exactly when the interiors overlap: never for polygons that
\* only touch, and always for those whose overlap is small or is all of one.  What it
\* answers is the minimum translation vector, but for overlaps along whose axis one
\* polygon starts before and ends after the other, of which it is too short.
MinimumTranslation ==
    still # NoPolygon =>
        LET hit == FindCollision(still, moved)
        IN  /\ (hit # None) <=> InteriorsMeet(still, moved)
            /\ hit # None => IsMtv(still, moved, hit)
=============================================================================
