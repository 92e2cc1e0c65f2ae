-------------------------------- MODULE Plane --------------------------------
(* Points and straight lines with integer coordinates. *)
EXTENDS Integers

From(p, q) == <<q[1] - p[1], q[2] - p[2]>>
Cross(u, v) == u[1] * v[2] - u[2] * v[1]
Dot(u, v) == u[1] * v[1] + u[2] * v[2]

(* c and d lie on different sides of the line through a and b. *)
Parted(a, b, c, d) ==
    LET side(p) == Cross(From(a, b), From(a, p))
    IN  (side(c) < 0 /\ side(d) > 0) \/ (side(d) < 0 /\ side(c) > 0)
Intersect(a, b, c, d) == Parted(a, b, c, d) /\ Parted(c, d, a, b)
=============================================================================
