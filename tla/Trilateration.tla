---------------------------- MODULE Trilateration ----------------------------
(* The place of the user from three beacons and their distances              *)
(* (Trilateration.swift). Places are points of a grid and distances come     *)
(* squared, so that what the code computes with roots is a fraction here:    *)
(* with u and v the vectors from the first beacon to the two others, x along *)
(* u and y across it are rational multiples of the length of u and of aux2.  *)
EXTENDS Integers

Minus(p, q) == <<p[1] - q[1], p[2] - q[2]>>
Dot(u, v) == u[1] * v[1] + u[2] * v[2]
SquaredDistance(p, q) == Dot(Minus(p, q), Minus(p, q))

(* aux2, the part of v that is across u, times the square of p1p2.           *)
Across(u, v) == <<Dot(u, u) * v[1] - Dot(u, v) * u[1], Dot(u, u) * v[2] - Dot(u, v) * u[2]>>

(* j times p1p2, squared; it is zero when the three lie in a line, and then  *)
(* the code divides zero by zero.                                            *)
Area(u, v) == Dot(v, Across(u, v))

Denominator(u, v) == 2 * Dot(u, u) * Area(u, v)

(* Mutant of Numerator: the second term of y is left out.                    *)
NumeratorSquare(u, v, a, b, k) ==
    Area(u, v) * a * u[k] + b * Dot(u, u) * Across(u, v)[k]

(* x times ex plus y times ey, times the denominator: a and b are the powers *)
(* r1^2 - r2^2 + p1p2^2 and r1^2 - r3^2 + i^2 + j^2.                          *)
Numerator(u, v, a, b, k) ==
    Area(u, v) * a * u[k] + (b * Dot(u, u) - Dot(u, v) * a) * Across(u, v)[k]

(* Mutant of trilateration: the second and the third distance change places. *)
trilaterationSwapped(p1, p2, p3, R1, R2, R3) ==
    LET u == Minus(p2, p1)
        v == Minus(p3, p1)
        a == R1 - R3 + Dot(u, u)
        b == R1 - R2 + Dot(v, v)
        by == Denominator(u, v)
    IN  [x |-> p1[1] * by + Numerator(u, v, a, b, 1),
         y |-> p1[2] * by + Numerator(u, v, a, b, 2),
         by |-> by]

(* The location is <<x, y>> divided by "by", which is zero if it is NaN. R1, *)
(* R2 and R3 are the squares of r1, r2 and r3.                               *)
trilateration(p1, p2, p3, R1, R2, R3) ==
    LET u == Minus(p2, p1)
        v == Minus(p3, p1)
        a == R1 - R2 + Dot(u, u)
        b == R1 - R3 + Dot(v, v)
        by == Denominator(u, v)
    IN  [x |-> p1[1] * by + Numerator(u, v, a, b, 1),
         y |-> p1[2] * by + Numerator(u, v, a, b, 2),
         by |-> by]

(* How far the square of the distance from p to l lies above R, times by^2.  *)
Power(l, p, R) ==
    (l.x - p[1] * l.by) * (l.x - p[1] * l.by) + (l.y - p[2] * l.by) * (l.y - p[2] * l.by)
        - R * l.by * l.by
=============================================================================
