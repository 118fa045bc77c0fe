--------------------------- MODULE Guidance_proofs ---------------------------
(* For every compass heading, every building and every place of the beacons: *)
(* the turn faces the node, the location is common to the three circles, and *)
(* from exact distances it is the place of the user.                         *)
EXTENDS Guidance, FiniteSetTheorems, FunctionTheorems, SequenceTheorems, TLAPS

(* The direction of a node, as the code finds it outside the third quadrant, *)
(* is the one it has by definition.                                          *)
LEMMA NodeAngleIsTheDirection ==
    ASSUME NEW v \in Vector, v # <<0, 0>>, ~(v[1] < 0 /\ v[2] < 0)
    PROVE  NodeAngle(v) \in 0..359 /\ Toward(v, NodeAngle(v))
<1>1. PICK x \in -2..2, y \in -2..2 : v = <<x, y>>
  BY DEF Vector
<1>2. x \in {-2, -1, 0, 1, 2} /\ y \in {-2, -1, 0, 1, 2}
  OBVIOUS
<1> USE <1>1 DEF Vector, NodeAngle, Toward, Atan, Steepness, Abs
<1>3. CASE x = 0
  BY <1>2, <1>3
<1>4. CASE x > 0 /\ y >= 0
  BY <1>2, <1>4
<1>5. CASE x > 0 /\ y < 0
  BY <1>2, <1>5
<1>6. CASE x < 0 /\ y >= 0
  BY <1>2, <1>6
<1> QED BY <1>2, <1>3, <1>4, <1>5, <1>6

(* The direction of the user in the map, on both sides of 45 degrees.        *)
LEMMA UserAngleIsTheDirection ==
    ASSUME NEW o \in -1..359
    PROVE  UserAngle(o) \in 0..359 /\ (UserAngle(o) = 45 - o \/ UserAngle(o) = 405 - o)
BY DEF UserAngle, Abs

(* Turning by the correction leads from one direction to the other.          *)
LEMMA CorrectionTurns ==
    ASSUME NEW n \in 0..359, NEW o \in -1..359
    PROVE  /\ Correction(n, UserAngle(o)) \in -180..180
           /\ (45 - ((o + Correction(n, UserAngle(o))) % 360)) % 360 = n
<1> DEFINE t == UserAngle(o)
<1> DEFINE c == Correction(n, t)
<1>1. t \in 0..359 /\ (t = 45 - o \/ t = 405 - o)
  BY UserAngleIsTheDirection
<1> HIDE DEF t
<1>2. c \in -180..180 /\ (c = t - n \/ c = t - n + 360 \/ c = t - n - 360)
  BY <1>1 DEF Correction, Abs
<1> HIDE DEF c
<1>3. \E k \in {-1, 0, 1, 2} : o + c = 45 - n + 360 * k
  BY <1>1, <1>2
<1>4. (o + c) % 360 = (45 - n) % 360
  <2> DEFINE m == 45 - n
  <2>1. m \in Int /\ \E k \in {-1, 0, 1, 2} : o + c = m + 360 * k
    BY <1>3
  <2> HIDE DEF m
  <2>2. /\ (m - 360) % 360 = m % 360 /\ (m + 360) % 360 = m % 360
        /\ (m + 720) % 360 = m % 360
    BY <2>1
  <2>3. (o + c) % 360 = m % 360
    BY <2>1, <2>2
  <2> QED BY <2>3 DEF m
<1>5. (45 - ((45 - n) % 360)) % 360 = n
  <2>1. (45 - n) % 360 = 45 - n \/ (45 - n) % 360 = 405 - n
    OBVIOUS
  <2>2. n % 360 = n /\ (n - 360) % 360 = n
    OBVIOUS
  <2> QED BY <2>1, <2>2
<1>6. (45 - ((o + c) % 360)) % 360 = n
  BY <1>2, <1>4, <1>5
<1> QED BY <1>2, <1>6 DEF c, t

LEMMA TurnsToTheNode ==
    ASSUME NEW v \in Vector, v # <<0, 0>>, ~(v[1] < 0 /\ v[2] < 0), NEW o \in -1..359,
           NEW turned, turned = (o + calculateAngle(v, o)) % 360
    PROVE  Toward(v, (45 - turned) % 360)
<1>1. NodeAngle(v) \in 0..359 /\ Toward(v, NodeAngle(v))
  BY NodeAngleIsTheDirection
<1> DEFINE c == Correction(NodeAngle(v), UserAngle(o))
<1>2. c \in -180..180 /\ (45 - ((o + c) % 360)) % 360 = NodeAngle(v)
  BY <1>1, CorrectionTurns
<1>3. turned = (o + c) % 360
  BY DEF calculateAngle
<1> HIDE DEF c
<1>4. (45 - turned) % 360 = NodeAngle(v)
  BY <1>2, <1>3
<1> QED BY <1>1, <1>4
-----------------------------------------------------------------------------
Point == Int \X Int

LEMMA PointsAreTyped ==
    ASSUME NEW p \in Point, NEW q \in Point
    PROVE  /\ p[1] \in Int /\ p[2] \in Int /\ p = <<p[1], p[2]>>
           /\ Minus(p, q) \in Point /\ Dot(p, q) \in Int /\ SquaredDistance(p, q) \in Int
           /\ Across(p, q) \in Point /\ Area(p, q) \in Int /\ Denominator(p, q) \in Int
           /\ \A a, b \in Int : \A k \in {1, 2} : Numerator(p, q, a, b, k) \in Int
BY DEF Point, Minus, Dot, SquaredDistance, Across, Area, Denominator, Numerator

(* What is across u has no part along u.                                     *)
LEMMA AcrossIsAcross ==
    ASSUME NEW u \in Point, NEW v \in Point
    PROVE  Dot(u, Across(u, v)) = 0
<1>1. \A x1, x2, y1, y2 \in Int :
        x1 * ((x1 * x1 + x2 * x2) * y1 - (x1 * y1 + x2 * y2) * x1)
          + x2 * ((x1 * x1 + x2 * x2) * y2 - (x1 * y1 + x2 * y2) * x2) = 0
  OBVIOUS
<1>2. u[1] \in Int /\ u[2] \in Int /\ v[1] \in Int /\ v[2] \in Int
  BY DEF Point
<1> QED BY <1>1, <1>2 DEF Dot, Across

(* The numerator solves the two equations of the circles.                    *)
LEMMA NumeratorSolves ==
    ASSUME NEW u \in Point, NEW v \in Point, NEW a \in Int, NEW b \in Int,
           NEW n1, NEW n2, n1 = Numerator(u, v, a, b, 1), n2 = Numerator(u, v, a, b, 2)
    PROVE  /\ 2 * (u[1] * n1 + u[2] * n2) = a * Denominator(u, v)
           /\ 2 * (v[1] * n1 + v[2] * n2) = b * Denominator(u, v)
<1> DEFINE A == Area(u, v)
<1> DEFINE w == Across(u, v)
<1> DEFINE e == b * Dot(u, u) - Dot(u, v) * a
<1>1. /\ A \in Int /\ e \in Int /\ w[1] \in Int /\ w[2] \in Int
      /\ Dot(u, u) \in Int /\ Dot(u, v) \in Int
      /\ u[1] \in Int /\ u[2] \in Int /\ v[1] \in Int /\ v[2] \in Int
  <2>1. /\ A \in Int /\ w \in Point /\ Dot(u, u) \in Int /\ Dot(u, v) \in Int
        /\ u[1] \in Int /\ u[2] \in Int /\ v[1] \in Int /\ v[2] \in Int
    BY PointsAreTyped
  <2>2. e \in Int
    BY <2>1
  <2>3. w[1] \in Int /\ w[2] \in Int
    BY <2>1 DEF Point
  <2> QED BY <2>1, <2>2, <2>3
<1>2. n1 = A * a * u[1] + e * w[1] /\ n2 = A * a * u[2] + e * w[2]
  BY DEF Numerator
<1>3. u[1] * w[1] + u[2] * w[2] = 0 /\ v[1] * w[1] + v[2] * w[2] = A
  BY AcrossIsAcross DEF Dot, Area
<1>4. Dot(u, u) = u[1] * u[1] + u[2] * u[2] /\ Dot(u, v) = v[1] * u[1] + v[2] * u[2]
  <2>1. Dot(u, v) = u[1] * v[1] + u[2] * v[2]
    BY DEF Dot
  <2>2. \A x1, x2, y1, y2 \in Int : x1 * y1 + x2 * y2 = y1 * x1 + y2 * x2
    OBVIOUS
  <2> QED BY <1>1, <2>1, <2>2 DEF Dot
<1>5. Denominator(u, v) = 2 * Dot(u, u) * A
  BY DEF Denominator
<1>e. e = b * Dot(u, u) - Dot(u, v) * a
  OBVIOUS
<1> HIDE DEF A, w, e
<1> DEFINE f == A * a
<1>f. f \in Int /\ n1 = f * u[1] + e * w[1] /\ n2 = f * u[2] + e * w[2]
  BY <1>1, <1>2
<1> HIDE DEF f
<1>g. ASSUME NEW x1 \in Int, NEW x2 \in Int
      PROVE  x1 * n1 + x2 * n2 = f * (x1 * u[1] + x2 * u[2]) + e * (x1 * w[1] + x2 * w[2])
  BY <1>1, <1>f
<1>6. u[1] * n1 + u[2] * n2 = f * (u[1] * u[1] + u[2] * u[2]) + e * (u[1] * w[1] + u[2] * w[2])
  BY <1>1, <1>g
<1>7. v[1] * n1 + v[2] * n2 = f * (v[1] * u[1] + v[2] * u[2]) + e * (v[1] * w[1] + v[2] * w[2])
  BY <1>1, <1>g
<1>8. u[1] * n1 + u[2] * n2 = A * a * Dot(u, u)
  BY <1>1, <1>3, <1>4, <1>6, <1>f DEF f
<1>9. v[1] * n1 + v[2] * n2 = b * Dot(u, u) * A
  <2> DEFINE d == Dot(u, u)
  <2> DEFINE s == Dot(u, v)
  <2>1. d \in Int /\ s \in Int /\ e = b * d - s * a
    BY <1>1, <1>e
  <2>2. v[1] * n1 + v[2] * n2 = A * a * s + e * A
    BY <1>1, <1>3, <1>4, <1>7, <1>f DEF f
  <2> HIDE DEF d, s
  <2>3. A * a * s + (b * d - s * a) * A = b * d * A
    BY <1>1, <2>1
  <2>4. v[1] * n1 + v[2] * n2 = b * d * A
    BY <2>1, <2>2, <2>3
  <2> QED BY <2>4 DEF d
<1> QED BY <1>1, <1>5, <1>8, <1>9

(* The power of a circle of squared radius S around <<x, y>>, times by^2.    *)
PowerAt(n1, n2, x, y, by, S) ==
    (n1 - x * by) * (n1 - x * by) + (n2 - y * by) * (n2 - y * by) - S * by * by

LEMMA OneCircle ==
    ASSUME NEW n1 \in Int, NEW n2 \in Int, NEW x \in Int, NEW y \in Int, NEW by \in Int,
           NEW R \in Int, NEW S \in Int,
           2 * (x * n1 + y * n2) = (R - S + (x * x + y * y)) * by
    PROVE  PowerAt(n1, n2, x, y, by, S) = PowerAt(n1, n2, 0, 0, by, R)
<1> DEFINE k == 2 * (x * n1 + y * n2)
<1>1. (n1 - x * by) * (n1 - x * by) + (n2 - y * by) * (n2 - y * by)
        = n1 * n1 + n2 * n2 - by * k + by * by * (x * x + y * y)
  OBVIOUS
<1>2. by * k = by * ((R - S + (x * x + y * y)) * by)
  OBVIOUS
<1>3. by * ((R - S + (x * x + y * y)) * by)
        = R * by * by - S * by * by + by * by * (x * x + y * y)
  OBVIOUS
<1>4. k \in Int /\ by * k \in Int
  OBVIOUS
<1>5. PowerAt(n1, n2, 0, 0, by, R) = n1 * n1 + n2 * n2 - R * by * by
  BY DEF PowerAt
<1> HIDE DEF k
<1> QED BY <1>1, <1>2, <1>3, <1>4, <1>5 DEF PowerAt

(* The location is the common point of the three circles, whichever beacon   *)
(* is the first, the second or the third.                                    *)
LEMMA LocationIsCommon ==
    ASSUME NEW p1 \in Point, NEW p2 \in Point, NEW p3 \in Point,
           NEW R1 \in Int, NEW R2 \in Int, NEW R3 \in Int,
           NEW l, l = trilateration(p1, p2, p3, R1, R2, R3)
    PROVE  Power(l, p1, R1) = Power(l, p2, R2) /\ Power(l, p1, R1) = Power(l, p3, R3)
<1> DEFINE u == Minus(p2, p1)
<1> DEFINE v == Minus(p3, p1)
<1> DEFINE a == R1 - R2 + Dot(u, u)
<1> DEFINE b == R1 - R3 + Dot(v, v)
<1> DEFINE by == Denominator(u, v)
<1> DEFINE n1 == Numerator(u, v, a, b, 1)
<1> DEFINE n2 == Numerator(u, v, a, b, 2)
<1>1. u \in Point /\ v \in Point
  BY PointsAreTyped
<1>2. Dot(u, u) \in Int /\ Dot(v, v) \in Int /\ by \in Int
  BY <1>1, PointsAreTyped
<1>3. a \in Int /\ b \in Int
  BY <1>2
<1>4. n1 \in Int /\ n2 \in Int
  BY <1>1, <1>3, PointsAreTyped
<1>5. /\ 2 * (u[1] * n1 + u[2] * n2) = a * by
      /\ 2 * (v[1] * n1 + v[2] * n2) = b * by
  BY <1>1, <1>3, NumeratorSolves
<1>6. l.x = p1[1] * by + n1 /\ l.y = p1[2] * by + n2 /\ l.by = by
  BY DEF trilateration
<1>7. /\ a = R1 - R2 + (u[1] * u[1] + u[2] * u[2])
      /\ b = R1 - R3 + (v[1] * v[1] + v[2] * v[2])
  BY DEF Dot
<1>8. /\ p1[1] \in Int /\ p1[2] \in Int /\ p2[1] \in Int /\ p2[2] \in Int
      /\ p3[1] \in Int /\ p3[2] \in Int
  BY DEF Point
<1>9. /\ u[1] = p2[1] - p1[1] /\ u[2] = p2[2] - p1[2]
      /\ v[1] = p3[1] - p1[1] /\ v[2] = p3[2] - p1[2]
  BY DEF Minus
<1> HIDE DEF u, v, a, b, by, n1, n2
<1>10. Power(l, p1, R1) = PowerAt(n1, n2, 0, 0, by, R1)
  <2>1. l.x - p1[1] * l.by = n1 - 0 * by /\ l.y - p1[2] * l.by = n2 - 0 * by
    BY <1>2, <1>4, <1>6, <1>8
  <2> QED BY <1>6, <2>1 DEF Power, PowerAt
<1>11. Power(l, p2, R2) = PowerAt(n1, n2, 0, 0, by, R1)
  <2>1. l.x - p2[1] * l.by = n1 - u[1] * by /\ l.y - p2[2] * l.by = n2 - u[2] * by
    BY <1>2, <1>4, <1>6, <1>8, <1>9
  <2>2. u[1] \in Int /\ u[2] \in Int
    BY <1>8, <1>9
  <2>3. Power(l, p2, R2) = PowerAt(n1, n2, u[1], u[2], by, R2)
    BY <1>6, <2>1 DEF Power, PowerAt
  <2>4. 2 * (u[1] * n1 + u[2] * n2) = (R1 - R2 + (u[1] * u[1] + u[2] * u[2])) * by
    BY <1>5, <1>7
  <2>5. PowerAt(n1, n2, u[1], u[2], by, R2) = PowerAt(n1, n2, 0, 0, by, R1)
    BY <1>2, <1>4, <2>2, <2>4, OneCircle
  <2> QED BY <2>3, <2>5
<1>12. Power(l, p3, R3) = PowerAt(n1, n2, 0, 0, by, R1)
  <2>1. l.x - p3[1] * l.by = n1 - v[1] * by /\ l.y - p3[2] * l.by = n2 - v[2] * by
    BY <1>2, <1>4, <1>6, <1>8, <1>9
  <2>2. v[1] \in Int /\ v[2] \in Int
    BY <1>8, <1>9
  <2>3. Power(l, p3, R3) = PowerAt(n1, n2, v[1], v[2], by, R3)
    BY <1>6, <2>1 DEF Power, PowerAt
  <2>4. 2 * (v[1] * n1 + v[2] * n2) = (R1 - R3 + (v[1] * v[1] + v[2] * v[2])) * by
    BY <1>5, <1>7
  <2>5. PowerAt(n1, n2, v[1], v[2], by, R3) = PowerAt(n1, n2, 0, 0, by, R1)
    BY <1>2, <1>4, <2>2, <2>4, OneCircle
  <2> QED BY <2>3, <2>5
<1> QED BY <1>10, <1>11, <1>12

(* Two equations with a determinant other than zero have one solution.       *)
LEMMA OnlyZeroIsAcrossBoth ==
    ASSUME NEW u \in Point, NEW v \in Point, NEW m1 \in Int, NEW m2 \in Int,
           u[1] * m1 + u[2] * m2 = 0, v[1] * m1 + v[2] * m2 = 0,
           Denominator(u, v) # 0
    PROVE  m1 = 0 /\ m2 = 0
<1>1. PICK x1 \in Int, x2 \in Int : u = <<x1, x2>>
  BY DEF Point
<1>2. PICK y1 \in Int, y2 \in Int : v = <<y1, y2>>
  BY DEF Point
<1>3. x1 * m1 + x2 * m2 = 0 /\ y1 * m1 + y2 * m2 = 0
  BY <1>1, <1>2
<1> DEFINE det == x1 * y2 - x2 * y1
<1>4. Area(u, v) = det * det
  <2>1. y1 * ((x1 * x1 + x2 * x2) * y1 - (x1 * y1 + x2 * y2) * x1)
          + y2 * ((x1 * x1 + x2 * x2) * y2 - (x1 * y1 + x2 * y2) * x2) = det * det
    OBVIOUS
  <2> QED BY <1>1, <1>2, <2>1 DEF Area, Dot, Across
<1>5. det \in Int /\ det # 0
  <2>1. det \in Int
    OBVIOUS
  <2> HIDE DEF det
  <2> SUFFICES ASSUME det = 0 PROVE FALSE
    BY <2>1
  <2>2. Area(u, v) = 0
    BY <1>4
  <2>3. Dot(u, u) \in Int
    BY PointsAreTyped
  <2> QED BY <2>2, <2>3 DEF Denominator
<1>6. /\ det * m1 = y2 * (x1 * m1 + x2 * m2) - x2 * (y1 * m1 + y2 * m2)
      /\ det * m2 = x1 * (y1 * m1 + y2 * m2) - y1 * (x1 * m1 + x2 * m2)
  OBVIOUS
<1>7. det * m1 = 0 /\ det * m2 = 0
  BY <1>3, <1>6
<1> HIDE DEF det
<1> QED BY <1>5, <1>7

(* From the exact distances of a place, the location is that place.          *)
LEMMA ExactLocation ==
    ASSUME NEW p1 \in Point, NEW p2 \in Point, NEW p3 \in Point, NEW q \in Point,
           NEW l, l = trilateration(p1, p2, p3, SquaredDistance(p1, q),
                                    SquaredDistance(p2, q), SquaredDistance(p3, q)),
           l.by # 0
    PROVE  l.by \in Int /\ l.x = q[1] * l.by /\ l.y = q[2] * l.by
<1> DEFINE u == Minus(p2, p1)
<1> DEFINE v == Minus(p3, p1)
<1> DEFINE a == SquaredDistance(p1, q) - SquaredDistance(p2, q) + Dot(u, u)
<1> DEFINE b == SquaredDistance(p1, q) - SquaredDistance(p3, q) + Dot(v, v)
<1> DEFINE by == Denominator(u, v)
<1> DEFINE n1 == Numerator(u, v, a, b, 1)
<1> DEFINE n2 == Numerator(u, v, a, b, 2)
<1>1. u \in Point /\ v \in Point
  BY PointsAreTyped
<1>2. /\ Dot(u, u) \in Int /\ Dot(v, v) \in Int /\ by \in Int
      /\ SquaredDistance(p1, q) \in Int /\ SquaredDistance(p2, q) \in Int
      /\ SquaredDistance(p3, q) \in Int
  BY <1>1, PointsAreTyped
<1>3. a \in Int /\ b \in Int
  BY <1>2
<1>4. n1 \in Int /\ n2 \in Int
  BY <1>1, <1>3, PointsAreTyped
<1>5. /\ 2 * (u[1] * n1 + u[2] * n2) = a * by
      /\ 2 * (v[1] * n1 + v[2] * n2) = b * by
  BY <1>1, <1>3, NumeratorSolves
<1>6. l.x = p1[1] * by + n1 /\ l.y = p1[2] * by + n2 /\ l.by = by
  BY DEF trilateration
<1>7. /\ p1[1] \in Int /\ p1[2] \in Int /\ p2[1] \in Int /\ p2[2] \in Int
      /\ p3[1] \in Int /\ p3[2] \in Int /\ q[1] \in Int /\ q[2] \in Int
  BY DEF Point
<1> DEFINE t1 == q[1] - p1[1]
<1> DEFINE t2 == q[2] - p1[2]
<1>8. /\ u[1] = p2[1] - p1[1] /\ u[2] = p2[2] - p1[2]
      /\ v[1] = p3[1] - p1[1] /\ v[2] = p3[2] - p1[2]
  BY DEF Minus
<1>9. \A x1, x2, y1, y2, z1, z2 \in Int :
        ((x1 - z1) * (x1 - z1) + (x2 - z2) * (x2 - z2))
          - ((y1 - z1) * (y1 - z1) + (y2 - z2) * (y2 - z2))
          + ((y1 - x1) * (y1 - x1) + (y2 - x2) * (y2 - x2))
            = 2 * ((y1 - x1) * (z1 - x1) + (y2 - x2) * (z2 - x2))
  OBVIOUS
<1>10. a = 2 * (u[1] * t1 + u[2] * t2)
  <2>1. a = ((p1[1] - q[1]) * (p1[1] - q[1]) + (p1[2] - q[2]) * (p1[2] - q[2]))
             - ((p2[1] - q[1]) * (p2[1] - q[1]) + (p2[2] - q[2]) * (p2[2] - q[2]))
             + ((p2[1] - p1[1]) * (p2[1] - p1[1]) + (p2[2] - p1[2]) * (p2[2] - p1[2]))
    BY DEF SquaredDistance, Dot, Minus
  <2>2. a = 2 * ((p2[1] - p1[1]) * (q[1] - p1[1]) + (p2[2] - p1[2]) * (q[2] - p1[2]))
    BY <1>7, <1>9, <2>1
  <2> QED BY <1>8, <2>2
<1>11. b = 2 * (v[1] * t1 + v[2] * t2)
  <2>1. b = ((p1[1] - q[1]) * (p1[1] - q[1]) + (p1[2] - q[2]) * (p1[2] - q[2]))
             - ((p3[1] - q[1]) * (p3[1] - q[1]) + (p3[2] - q[2]) * (p3[2] - q[2]))
             + ((p3[1] - p1[1]) * (p3[1] - p1[1]) + (p3[2] - p1[2]) * (p3[2] - p1[2]))
    BY DEF SquaredDistance, Dot, Minus
  <2>2. b = 2 * ((p3[1] - p1[1]) * (q[1] - p1[1]) + (p3[2] - p1[2]) * (q[2] - p1[2]))
    BY <1>7, <1>9, <2>1
  <2> QED BY <1>8, <2>2
<1>12. t1 \in Int /\ t2 \in Int /\ u[1] \in Int /\ u[2] \in Int /\ v[1] \in Int /\ v[2] \in Int
  BY <1>7, <1>8
<1>t. q[1] = p1[1] + t1 /\ q[2] = p1[2] + t2
  BY <1>7
<1>by. by # 0 /\ Denominator(u, v) # 0
  BY <1>6
<1> HIDE DEF a, b, by, n1, n2, t1, t2, u, v
<1> DEFINE m1 == n1 - t1 * by
<1> DEFINE m2 == n2 - t2 * by
<1>13. m1 \in Int /\ m2 \in Int
  BY <1>2, <1>4, <1>12
<1>14. ASSUME NEW x1 \in Int, NEW x2 \in Int, NEW c \in Int,
              2 * (x1 * n1 + x2 * n2) = c * by, c = 2 * (x1 * t1 + x2 * t2)
       PROVE  x1 * m1 + x2 * m2 = 0
  <2>1. x1 * m1 + x2 * m2 = x1 * n1 + x2 * n2 - (x1 * t1 + x2 * t2) * by
    BY <1>2, <1>4, <1>12
  <2>2. x1 * n1 + x2 * n2 = (x1 * t1 + x2 * t2) * by
    BY <1>2, <1>4, <1>12, <1>14
  <2>3. (x1 * t1 + x2 * t2) * by \in Int
    BY <1>2, <1>12
  <2> QED BY <1>2, <1>4, <1>12, <2>1, <2>2, <2>3
<1>15. u[1] * m1 + u[2] * m2 = 0 /\ v[1] * m1 + v[2] * m2 = 0
  BY <1>3, <1>5, <1>10, <1>11, <1>12, <1>14
<1> HIDE DEF m1, m2
<1>16. m1 = 0 /\ m2 = 0
  BY <1>1, <1>13, <1>15, <1>by, OnlyZeroIsAcrossBoth
<1>17. n1 = t1 * by /\ n2 = t2 * by
  BY <1>2, <1>4, <1>12, <1>16 DEF m1, m2
<1>18. /\ p1[1] * by + t1 * by = (p1[1] + t1) * by
       /\ p1[2] * by + t2 * by = (p1[2] + t2) * by
  BY <1>2, <1>7, <1>12
<1> QED BY <1>2, <1>6, <1>17, <1>18, <1>t

(* Int() of the quotient of a product is the other factor.                   *)
LEMMA TruncateOfProduct ==
    ASSUME NEW n \in Int, NEW d \in Int, d # 0
    PROVE  Truncate(n * d, d) = n
<1>1. ASSUME NEW i \in Nat, NEW k \in Nat, k > 0
      PROVE  (i * k) \div k = i
  <2>1. PICK h \in Nat : h = i * k
    BY <1>1
  <2> DEFINE e == h \div k
  <2>2. e \in Int /\ k * e =< h /\ h < k * e + k
    BY <1>1, <2>1
  <2> HIDE DEF e
  <2>3. ~ e < i
    <3> SUFFICES ASSUME e + 1 =< i PROVE FALSE
      BY <2>2
    <3>1. k * (e + 1) =< k * i
      BY <1>1, <2>2
    <3>2. k * (e + 1) = k * e + k /\ k * i = h
      BY <1>1, <2>1, <2>2
    <3> QED BY <1>1, <2>1, <2>2, <3>1, <3>2
  <2>4. ~ e > i
    <3> SUFFICES ASSUME i + 1 =< e PROVE FALSE
      BY <2>2
    <3>1. k * (i + 1) =< k * e
      BY <1>1, <2>2
    <3>2. k * (i + 1) = h + k
      BY <1>1, <2>1, <2>2
    <3>3. k * e \in Int
      BY <1>1, <2>2
    <3> QED BY <1>1, <2>1, <2>2, <3>1, <3>2, <3>3
  <2>5. e = i
    BY <2>2, <2>3, <2>4
  <2> QED BY <2>1, <2>5 DEF e
<1>2. Abs(n) \in Nat /\ Abs(d) \in Nat /\ Abs(d) > 0
  BY DEF Abs
<1>3. n * d \in Int /\ Abs(n * d) = Abs(n) * Abs(d)
  BY DEF Abs
<1>4. Abs(n * d) \div Abs(d) = Abs(n)
  BY <1>1, <1>2, <1>3
<1>5. n # 0 => ((n * d >= 0) = (d >= 0) <=> n >= 0)
  OBVIOUS
<1>6. CASE n = 0
  <2>1. n * d = 0
    BY <1>6
  <2> QED BY <1>4, <1>6, <2>1 DEF Truncate, Abs
<1>7. CASE n # 0
  BY <1>4, <1>5, <1>7 DEF Truncate, Abs
<1> QED BY <1>6, <1>7
-----------------------------------------------------------------------------
Entry == [id : Beacon, distance : Int]

(* A place is never forgotten half: with an angle there are the three beacons *)
(* it was worked out from, the node and the vector between the two.           *)
GInv ==
    /\ place \in Spot
    /\ available \in Seq(Entry)
    /\ orientation \in -1..359
    /\ user \in {"moving", "told", "turned"}
    /\ user # "moving" =>
          /\ Len(available) >= 3
          /\ InOrder(available)
          /\ toNode \in Vector
          /\ ~InLine(available) =>
                next \in Node /\ toNode = Minus(next, Start(Location(available)))
    /\ user = "told" => correctionAngle = calculateAngle(toNode, orientation)
    /\ FacesTheNodeAhead

LEMMA LocationsAreTyped ==
    ASSUME NEW b \in Beacon
    PROVE  Loc(b) \in Point
BY PositionAssumption DEF Loc, Point

LEMMA SquaredDistanceIsInt ==
    ASSUME NEW p \in Point, NEW q \in Point
    PROVE  SquaredDistance(p, q) \in Int
BY PointsAreTyped

(* The angle is a whole number for every vector and every heading.           *)
LEMMA AngleType ==
    ASSUME NEW v \in Vector, NEW o \in -1..359
    PROVE  calculateAngle(v, o) \in Int
<1>1. PICK x \in -2..2, y \in -2..2 : v = <<x, y>>
  BY DEF Vector
<1>2. NodeAngle(v) \in Int
  BY <1>1 DEF NodeAngle, Atan, AtanLessPi, Steepness, Abs, Vector
<1>3. UserAngle(o) \in 0..359
  BY UserAngleIsTheDirection
<1> QED BY <1>2, <1>3 DEF calculateAngle, Correction, Abs

(* Without an angle nothing is said of the list.                             *)
LEMMA ForgetKeeps ==
    ASSUME Forget, place' \in Spot, available' \in Seq(Entry), orientation' \in -1..359
    PROVE  GInv'
BY DEF Forget, GInv, FacesTheNodeAhead

LEMMA RemoveAtType ==
    ASSUME NEW S, NEW s \in Seq(S), NEW i \in 1..Len(s)
    PROVE  RemoveAt(s, i) \in Seq(S)
<1>1. i - 1 \in 0..Len(s) /\ i + 1 \in Int
  OBVIOUS
<1>2. SubSeq(s, 1, i - 1) \in Seq(S)
  BY SMT
<1>3. SubSeq(s, i + 1, Len(s)) \in Seq(S)
  BY SMT
<1> QED BY <1>2, <1>3 DEF RemoveAt

(* A sorted list of the entries of a list of entries is one.                 *)
LEMMA MeasuredType ==
    ASSUME available \in Seq(Entry), place \in Spot, NEW b \in Beacon,
           NEW s, s \in Measured(b)
    PROVE  s \in Seq(Entry) /\ InOrder(s)
<1> DEFINE u == Updated(b)
<1> DEFINE S == {u[i] : i \in DOMAIN u}
<1>1. Position[b] \in Point /\ place \in Point
  BY PositionAssumption, PlacesAssumption DEF Point
<1>2. SquaredDistance(Position[b], place) \in Int
  BY <1>1, SquaredDistanceIsInt
<1>3. DOMAIN u = 1..Len(available) /\ S \subseteq Entry
  <2>1. DOMAIN u = 1..Len(available)
    BY DEF Updated
  <2>2. ASSUME NEW i \in 1..Len(available) PROVE u[i] \in Entry
    <3>1. available[i] \in Entry
      OBVIOUS
    <3>2. [id |-> b, distance |-> SquaredDistance(Position[b], place)] \in Entry
      BY <1>2 DEF Entry
    <3> QED BY <3>1, <3>2 DEF Updated
  <2> HIDE DEF u
  <2> QED BY <2>1, <2>2
<1> HIDE DEF u
<1>4. IsFiniteSet(1..Len(available))
  BY FS_Interval
<1>5. IsFiniteSet(S)
  <2>1. [i \in 1..Len(available) |-> u[i]] \in Surjection(1..Len(available), S)
    BY <1>3 DEF Surjection
  <2> QED BY <1>4, <2>1, FS_Surjection
<1>6. Cardinality(S) \in Nat
  BY <1>5, FS_CardinalityType
<1>7. s \in Sorted(u)
  BY DEF Measured, u
<1>8. s \in [1..Cardinality(S) -> S] /\ InOrder(s)
  BY <1>7, Zenon DEF Sorted, SetToSeqs
<1>9. s \in [1..Cardinality(S) -> Entry]
  BY <1>3, <1>8
<1> HIDE DEF S
<1> QED BY <1>6, <1>8, <1>9

(* The angle of a list leads from the user to the node.                      *)
LEMMA ToldKeeps ==
    ASSUME NEW list \in Seq(Entry), list = available', InOrder(list), Len(list) >= 3,
           Told(list), orientation \in -1..359, place' \in Spot
    PROVE  GInv'
<1>1. /\ toNode' \in Vector /\ user' = "told" /\ orientation' = orientation
      /\ correctionAngle' = calculateAngle(toNode', orientation)
  BY DEF Told, FindPath
<1>2. ~InLine(list) => next' \in Node /\ toNode' = Minus(next', Start(Location(list)))
  BY DEF Told
<1>3. (InLine(available))' <=> InLine(list)
  BY DEF InLine, Location
<1>4. (Location(available))' = Location(list)
  BY DEF Location
<1>5. (InOrder(available))'
  BY DEF InOrder
<1> QED BY <1>1, <1>2, <1>3, <1>4, <1>5 DEF GInv, FacesTheNodeAhead

LEMMA GInvIsInductive == GInv /\ [GuidanceNext]_guidanceVars => GInv'
<1> SUFFICES ASSUME GInv, [GuidanceNext]_guidanceVars PROVE GInv'
  OBVIOUS
<1>t. /\ place \in Spot /\ available \in Seq(Entry) /\ orientation \in -1..359
  BY DEF GInv
<1>1. CASE Compass
  <2>1. /\ orientation' \in -1..359 /\ Forget /\ place' \in Spot /\ available' \in Seq(Entry)
    BY <1>1, <1>t, HeadingsAssumption DEF Compass, didUpdateHeading
  <2> QED BY <2>1, ForgetKeeps
<1>2. CASE Walk
  BY <1>2, <1>t, ForgetKeeps DEF Walk
<1>3. CASE Turn
  <2>1. /\ user = "told" /\ user' = "turned" /\ toNode' = toNode
        /\ orientation' = (orientation + correctionAngle) % 360
        /\ place' = place /\ available' = available /\ next' = next
    BY <1>3 DEF Turn, Follow
  <2>2. /\ Len(available) >= 3 /\ InOrder(available) /\ toNode \in Vector
        /\ ~InLine(available) =>
              next \in Node /\ toNode = Minus(next, Start(Location(available)))
        /\ correctionAngle = calculateAngle(toNode, orientation)
    BY <2>1 DEF GInv
  <2>3. correctionAngle \in Int
    BY <1>t, <2>2, AngleType
  <2>4. orientation' \in -1..359
    <3>1. orientation + correctionAngle \in Int
      BY <1>t, <2>3
    <3> QED BY <2>1, <3>1
  <2>5. FacesTheNodeAhead'
    <3> SUFFICES ASSUME toNode # <<0, 0>>, ~(toNode[1] < 0 /\ toNode[2] < 0)
                 PROVE  Toward(toNode, (45 - orientation') % 360)
      BY <2>1 DEF FacesTheNodeAhead, Facing, ThirdQuadrant
    <3>1. orientation' = (orientation + calculateAngle(toNode, orientation)) % 360
      BY <2>1, <2>2
    <3> QED BY <1>t, <2>2, <3>1, TurnsToTheNode
  <2>6. (InLine(available))' <=> InLine(available)
    BY <2>1 DEF InLine, Location
  <2>7. (Location(available))' = Location(available) /\ (InOrder(available))'
    BY <2>1, <2>2 DEF Location, InOrder
  <2> QED BY <1>t, <2>1, <2>2, <2>4, <2>5, <2>6, <2>7 DEF GInv
<1>4. CASE \E b \in Beacon : Find(b)
  <2>1. PICK b \in Beacon : Find(b)
    BY <1>4
  <2> DEFINE e == [id |-> b, distance |-> Infinity]
  <2>2. e \in Entry /\ available' = Append(available, e)
    BY <2>1 DEF Find, Entry, Infinity
  <2> HIDE DEF e
  <2>3. available' \in Seq(Entry)
    BY <1>t, <2>2
  <2> QED BY <1>t, <2>1, <2>3, HeadingsAssumption, ForgetKeeps DEF Find
<1>5. CASE \E b \in Beacon : Lost(b)
  <2>1. PICK b \in Beacon : Lost(b)
    BY <1>5
  <2>2. PICK i \in DOMAIN available : available' = RemoveAt(available, i)
    BY <2>1 DEF Lost
  <2>3. available' \in Seq(Entry)
    BY <1>t, <2>2, RemoveAtType
  <2> QED BY <1>t, <2>1, <2>3, ForgetKeeps DEF Lost
<1>6. CASE \E b \in Beacon : Measure(b)
  <2>1. PICK b \in Beacon : Measure(b)
    BY <1>6
  <2>2. /\ available' \in Measured(b) /\ orientation' \in -1..359 /\ place' \in Spot
    BY <1>t, <2>1 DEF Measure, Told, FindPath, Forget
  <2>3. available' \in Seq(Entry) /\ InOrder(available')
    BY <1>t, <2>2, MeasuredType
  <2>4. Forget \/ (Len(available') >= 3 /\ Told(available'))
    BY <2>1 DEF Measure
  <2>5. CASE Forget
    BY <2>2, <2>3, <2>5, ForgetKeeps
  <2>6. CASE Len(available') >= 3 /\ Told(available')
    BY <1>t, <2>2, <2>3, <2>6, ToldKeeps
  <2> QED BY <2>4, <2>5, <2>6
<1>7. CASE UNCHANGED guidanceVars
  <2>1. UNCHANGED <<orientation, toNode, correctionAngle, user, place, available, next>>
    BY <1>7 DEF guidanceVars
  <2> QED BY <2>1 DEF GInv, InOrder, InLine, Location, FacesTheNodeAhead, ThirdQuadrant, Facing
<1> QED BY <1>1, <1>2, <1>3, <1>4, <1>5, <1>6, <1>7 DEF GuidanceNext

LEMMA GInvHolds == GuidanceSpec => []GInv
<1>1. GuidanceInit => GInv
  <2> SUFFICES ASSUME GuidanceInit PROVE GInv
    OBVIOUS
  <2>1. user = "moving" /\ orientation = 0 /\ place \in Spot /\ available = <<>>
    BY DEF GuidanceInit, Init
  <2>2. available \in Seq(Entry)
    BY <2>1
  <2> QED BY <2>1, <2>2 DEF GInv, FacesTheNodeAhead
<1> QED BY <1>1, GInvIsInductive, PTL DEF GuidanceSpec

(* The range of the turn, in each quadrant.                                  *)
LEMMA AngleRange ==
    ASSUME NEW v \in Vector, NEW o \in -1..359
    PROVE  /\ calculateAngle(v, o) \in -180..269
           /\ ~(v[1] < 0 /\ v[2] < 0) => calculateAngle(v, o) =< 180
<1>1. PICK x \in -2..2, y \in -2..2 : v = <<x, y>>
  BY DEF Vector
<1>2. /\ NodeAngle(v) \in -269..359
      /\ ~(x < 0 /\ y < 0) => NodeAngle(v) >= 0
  <2>1. CASE x < 0 /\ y < 0
    <3>1. NodeAngle(v) = -180 + AtanLessPi(v)
      BY <1>1, <2>1 DEF NodeAngle
    <3>2. Steepness(y, x) \in {27, 45, 63}
      BY <2>1 DEF Steepness, Abs
    <3>3. AtanLessPi(v) \in {-69, -65, -49}
      BY <1>1, <3>2 DEF AtanLessPi
    <3> QED BY <2>1, <3>1, <3>3
  <2>2. CASE x = 0 /\ y = 0
    <3>1. NodeAngle(v) = 270
      BY <1>1, <2>2 DEF NodeAngle
    <3> QED BY <2>2, <3>1
  <2>3. CASE ~(x < 0 /\ y < 0) /\ ~(x = 0 /\ y = 0)
    BY <1>1, <2>3, NodeAngleIsTheDirection
  <2> QED BY <2>1, <2>2, <2>3
<1>3. UserAngle(o) \in 0..359
  BY UserAngleIsTheDirection
<1>4. v[1] = x /\ v[2] = y
  BY <1>1
<1> DEFINE n == NodeAngle(v)
<1> DEFINE t == UserAngle(o)
<1>5. n \in -269..359 /\ t \in 0..359
  BY <1>2, <1>3
<1>6. calculateAngle(v, o) = Correction(n, t)
  BY DEF calculateAngle
<1>7. n >= 0 \/ (v[1] < 0 /\ v[2] < 0)
  BY <1>2, <1>4
<1> HIDE DEF n, t
<1>8. Correction(n, t) \in -180..269 /\ (n >= 0 => Correction(n, t) =< 180)
  BY <1>5 DEF Correction, Abs
<1> QED BY <1>6, <1>7, <1>8

(* AngleFitsThePacket: packageCreator writes three digits and no sign, for   *)
(* every heading and vector, the third quadrant included.                    *)
THEOREM AnglesHaveThreeDigits == GuidanceSpec => []AngleFitsThePacket
<1>1. GuidanceInit => AngleFitsThePacket
  BY DEF GuidanceInit, Init, AngleFitsThePacket, ThirdQuadrant
<1>2. GInv /\ AngleFitsThePacket /\ [GuidanceNext]_guidanceVars => AngleFitsThePacket'
  <2> SUFFICES ASSUME GInv, AngleFitsThePacket, [GuidanceNext]_guidanceVars
               PROVE  AngleFitsThePacket'
    OBVIOUS
  <2>1. CASE UNCHANGED <<toNode, correctionAngle>>
    BY <2>1 DEF AngleFitsThePacket, ThirdQuadrant
  <2>2. CASE Forget
    BY <2>2 DEF AngleFitsThePacket, Forget, ThirdQuadrant
  <2>3. CASE FindPath
    <3>1. toNode' \in Vector /\ orientation \in -1..359
      BY <2>3 DEF FindPath, GInv
    <3>2. correctionAngle' = calculateAngle(toNode', orientation)
      BY <2>3 DEF FindPath
    <3>3. /\ correctionAngle' \in -180..269
          /\ ~(toNode'[1] < 0 /\ toNode'[2] < 0) => correctionAngle' =< 180
      BY <3>1, <3>2, AngleRange
    <3> QED BY <3>3 DEF AngleFitsThePacket, ThirdQuadrant
  <2>4. UNCHANGED <<toNode, correctionAngle>> \/ Forget \/ FindPath
    BY DEF GuidanceNext, Compass, didUpdateHeading, Walk, Turn, Follow, Find, Lost,
           Measure, Told, guidanceVars
  <2> QED BY <2>1, <2>2, <2>3, <2>4
<1> QED BY <1>1, <1>2, GInvHolds, PTL DEF GuidanceSpec

(* FacesTheNodeAhead: who turns by the angle of calculateAngle faces the     *)
(* node, for every heading and every vector outside the third quadrant.      *)
THEOREM TurnsAreRight == GuidanceSpec => []FacesTheNodeAhead
<1>1. GInv => FacesTheNodeAhead
  BY DEF GInv
<1> QED BY <1>1, GInvHolds, PTL

(* CommonToTheCircles: trilateration treats the three beacons alike, for     *)
(* every table of beacons and every list of them, exact or not.              *)
THEOREM LocationIsCommonToTheCircles == GuidanceSpec => []CommonToTheCircles
<1>1. GInv => CommonToTheCircles
  <2> SUFFICES ASSUME GInv, HasPlace PROVE CommonToTheCircles
    BY DEF CommonToTheCircles
  <2> DEFINE p(i) == Loc(available[i].id)
  <2> DEFINE R(i) == available[i].distance
  <2> DEFINE l == Location(available)
  <2>1. \A i \in First : available[i] \in Entry
    BY DEF GInv, HasPlace, First
  <2>2. \A i \in First : p(i) \in Point /\ R(i) \in Int
    BY <2>1, LocationsAreTyped DEF Entry
  <2>3. l = trilateration(p(1), p(2), p(3), R(1), R(2), R(3))
    BY DEF Location
  <2>4. 1 \in First /\ 2 \in First /\ 3 \in First
    BY DEF First
  <2> HIDE DEF p, R, l
  <2>5. Power(l, p(1), R(1)) = Power(l, p(2), R(2)) /\ Power(l, p(1), R(1)) = Power(l, p(3), R(3))
    BY <2>2, <2>3, <2>4, LocationIsCommon
  <2>6. First = {1, 2, 3}
    BY DEF First
  <2>7. \A i, k \in First : Power(l, p(i), R(i)) = Power(l, p(k), R(k))
    BY <2>5, <2>6
  <2> QED BY <2>7, Zenon DEF CommonToTheCircles, l, p, R
<1> QED BY <1>1, GInvHolds, PTL

(* ToldFromTheNearest: trilaterate works with the beacons at the head of a   *)
(* list in order, however many there are and however they were found.        *)
THEOREM TheNearestAreUsed == GuidanceSpec => []ToldFromTheNearest
<1>1. GInv => ToldFromTheNearest
  <2> SUFFICES ASSUME GInv, user # "moving", NEW i \in First, NEW k \in DOMAIN available \ First
               PROVE  available[i].distance =< available[k].distance
    BY DEF ToldFromTheNearest
  <2>1. available \in Seq(Entry) /\ Len(available) >= 3 /\ InOrder(available)
    BY DEF GInv
  <2>2. i \in DOMAIN available /\ k \in DOMAIN available /\ i < k
    BY <2>1 DEF First
  <2> QED BY <2>1, <2>2 DEF InOrder
<1> QED BY <1>1, GInvHolds, PTL

(* FacesTheNextNode: three beacons of the table that are not in a line,      *)
(* measured from where the user stands, give that very place, and the turn   *)
(* leads from it to the node, for every map and every order of the list.     *)
THEOREM ExactDistancesLeadToTheNode == GuidanceSpec => []FacesTheNextNode
<1>1. GInv => FacesTheNextNode
  <2> DEFINE p(i) == Position[available[i].id]
  <2> DEFINE l == Location(available)
  <2> SUFFICES ASSUME GInv, user = "turned", ~InLine(available), ~ThirdQuadrant,
                      \A i \in First : /\ available[i].id \in Known
                                       /\ available[i].distance = SquaredDistance(p(i), place),
                      next # place
               PROVE  Toward(Minus(next, place), Facing)
    BY DEF FacesTheNextNode
  <2>1. /\ available \in Seq(Entry) /\ Len(available) >= 3 /\ place \in Point
        /\ next \in Point /\ toNode = Minus(next, Start(l)) /\ FacesTheNodeAhead
    BY PlacesAssumption DEF GInv, Point
  <2>2. \A i \in First : available[i] \in Entry
    BY <2>1 DEF First
  <2>3. \A i \in First : p(i) \in Point /\ Loc(available[i].id) = p(i)
    BY <2>2, PositionAssumption DEF Entry, Loc, Point
  <2>4. 1 \in First /\ 2 \in First /\ 3 \in First
    BY DEF First
  <2>5. /\ l = trilateration(p(1), p(2), p(3), SquaredDistance(p(1), place),
                             SquaredDistance(p(2), place), SquaredDistance(p(3), place))
        /\ l.by # 0
    BY <2>3, <2>4 DEF Location, InLine
  <2> HIDE DEF p, l
  <2>6. l.by \in Int /\ l.x = place[1] * l.by /\ l.y = place[2] * l.by
    BY <2>1, <2>3, <2>4, <2>5, ExactLocation
  <2>7. place[1] \in Int /\ place[2] \in Int /\ place = <<place[1], place[2]>>
    BY <2>1, PointsAreTyped
  <2>8. Start(l) = place
    BY <2>5, <2>6, <2>7, TruncateOfProduct DEF Start
  <2>9. toNode = Minus(next, place)
    BY <2>1, <2>8
  <2>10. toNode # <<0, 0>>
    BY <2>1, <2>9 DEF Minus, Point
  <2> QED BY <2>1, <2>9, <2>10 DEF FacesTheNodeAhead
<1> QED BY <1>1, GInvHolds, PTL

=============================================================================
