----------------------------- MODULE Collision -----------------------------
(***************************************************************************)
(* The separating axis test of physics/src/collision.rs.                   *)
(*                                                                         *)
(* The code projects on unit vectors.  Here an axis stays the integral     *)
(* perpendicular of an edge, so that a length measured along it is its     *)
(* norm times too long; a hit [axis, over] stands for the length           *)
(* over / |axis| and for the vector axis * over / |axis|^2.                *)
(***************************************************************************)
EXTENDS Geometry

Overlap(i, j) == Min({i.hi, j.hi}) - Max({i.lo, j.lo})

\* Interval::intersect_length, which is 0 also when the intervals only touch.
IntersectLength(i, j) == IF i.lo <= j.hi /\ j.lo <= i.hi THEN Overlap(i, j) ELSE 0

Project(poly, axis) ==
    LET dots == {Dot(v, axis) : v \in Range(poly.points)}
    IN  [lo |-> Min(dots), hi |-> Max(dots)]

\* BoundingBox::of and intersect; boxes that only touch do not intersect.
BoxesIntersect(poly1, poly2) ==
    \A axis \in {<<1, 0>>, <<0, 1>>} :
        LET i == Project(poly1, axis)
            j == Project(poly2, axis)
        IN  i.lo < j.hi /\ j.lo < i.hi

Shorter(h, k) == h.over * h.over * Norm2(k.axis) < k.over * k.over * Norm2(h.axis)

\* The hit of edge e of poly1, its axis pointing from poly1 to poly2.
HitOn(poly1, poly2, e) ==
    LET line == Minus(poly2.centroid, poly1.centroid)
        perp == Perp(Edge(poly1.points, e))
        axis == IF Dot(line, perp) < 0 THEN Opposite(perp) ELSE perp
    IN  [axis |-> axis, over |-> IntersectLength(Project(poly1, axis), Project(poly2, axis))]

None == [axis |-> Zero, over |-> 0]

\* Slip: leaves out the edge from the last point to the first.
PartialSatButOne(poly1, poly2) ==
    LET hits == [e \in 1 .. (Len(poly1.points) - 1) |-> HitOn(poly1, poly2, e)]
    IN  IF \E e \in DOMAIN hits : hits[e].over = 0
        THEN None
        ELSE FoldLeft(LAMBDA best, hit : IF Shorter(hit, best) THEN hit ELSE best, hits[1], hits)

\* partial_sat: None if an edge of poly1 separates them, or the first shortest hit.
PartialSat(poly1, poly2) ==
    LET hits == [e \in DOMAIN poly1.points |-> HitOn(poly1, poly2, e)]
    IN  IF \E e \in DOMAIN hits : hits[e].over = 0
        THEN None
        ELSE FoldLeft(LAMBDA best, hit : IF Shorter(hit, best) THEN hit ELSE best, hits[1], hits)

\* find_collision: the minimum translation vector, pointing from poly1 to poly2.
FindCollision(poly1, poly2) ==
    LET r1 == PartialSat(poly1, poly2)
        r2 == PartialSat(poly2, poly1)
    IN  IF None \in {r1, r2} \/ ~BoxesIntersect(poly1, poly2) THEN None
        ELSE IF Shorter(r2, r1) THEN [r2 EXCEPT !.axis = Opposite(@)] ELSE r1
=============================================================================
