--------------------------- MODULE OutlineProofs ---------------------------
(* The outline of a part, for any coordinates and any number of pins. *)
EXTENDS PartOutlines, GeometryProofs

-----------------------------------------------------------------------------
(* Turns.  All vectors between points that are passed in one direction lie in  *)
(* one half plane, where turning left is transitive.                          *)

Pair == Int \X Int

\* The order of the points, or its reverse.
Ahead(up, p, q) == IF up THEN Before(p, q) ELSE Before(q, p)

\* How the vector from a to b lies to that from c to d; positive: left of it.
Cross(a, b, c, d) == Wedge(Minus(b, a), Minus(d, c))

Forward(x, y) == x > 0 \/ (x = 0 /\ y > 0)

LEMMA Sums ==
    ASSUME NEW a \in Int, NEW b \in Int, a >= 0, b >= 0
    PROVE  a * b >= 0
OBVIOUS

LEMMA Cancels ==
    ASSUME NEW a \in Int, NEW b \in Int, a > 0, a * b >= 0
    PROVE  b >= 0
<1> SUFFICES ASSUME b <= -1 PROVE FALSE
    OBVIOUS
<1>1. a * (-1 - b) >= 0
    <2>1. -1 - b \in Int /\ -1 - b >= 0 /\ a >= 0
        OBVIOUS
    <2> QED BY <2>1, Sums
<1>2. a * (-1 - b) = -a - a * b
    OBVIOUS
<1> QED BY <1>1, <1>2

LEMMA HalfPlane ==
    ASSUME NEW u1 \in Int, NEW u2 \in Int, NEW v1 \in Int, NEW v2 \in Int,
           NEW w1 \in Int, NEW w2 \in Int,
           Forward(u1, u2), Forward(v1, v2), Forward(w1, w2),
           u1 * v2 - u2 * v1 >= 0, v1 * w2 - v2 * w1 >= 0
    PROVE  u1 * w2 - u2 * w1 >= 0
<1> DEFINE uv == u1 * v2 - u2 * v1
           vw == v1 * w2 - v2 * w1
           uw == u1 * w2 - u2 * w1
<1>1. uv \in Int /\ vw \in Int /\ uw \in Int /\ uv >= 0 /\ vw >= 0
    OBVIOUS
<1>2. v1 * uw = u1 * vw + w1 * uv /\ v2 * uw = u2 * vw + w2 * uv
    OBVIOUS
<1>3. u1 >= 0 /\ w1 >= 0
    BY DEF Forward
<1>4. CASE v1 > 0
    <2> HIDE DEF uv, vw, uw
    <2>1. u1 * vw >= 0 /\ w1 * uv >= 0
        BY <1>1, <1>3, Sums
    <2>2. v1 * uw >= 0
        BY <1>1, <1>2, <2>1
    <2>3. uw >= 0
        BY <1>1, <1>4, <2>2, Cancels
    <2> QED BY <2>3 DEF uw
<1>5. CASE v1 = 0 /\ v2 > 0
    <2>1. vw = -(v2 * w1)
        BY <1>5
    <2>2. v2 * (-w1) >= 0
        BY <1>1, <2>1
    <2>3. -w1 >= 0
        BY <1>5, <2>2, Cancels
    <2>4. w1 = 0 /\ vw = 0
        BY <1>3, <2>1, <2>3
    <2>5. w2 > 0
        BY <2>4 DEF Forward
    <2> HIDE DEF uv, vw, uw
    <2>6. w2 * uv >= 0 /\ u2 * vw = 0
        BY <1>1, <2>4, <2>5, Sums
    <2>7. v2 * uw >= 0
        BY <1>1, <1>2, <2>6
    <2>8. uw >= 0
        BY <1>1, <1>5, <2>7, Cancels
    <2> QED BY <2>8 DEF uw
<1> QED BY <1>4, <1>5 DEF Forward

LEMMA AheadIs ==
    ASSUME NEW up \in BOOLEAN, NEW p \in Pair, NEW q \in Pair, Ahead(up, p, q)
    PROVE  IF up THEN Forward(q[1] - p[1], q[2] - p[2]) ELSE Forward(p[1] - q[1], p[2] - q[2])
BY DEF Ahead, Before, Forward, Pair

LEMMA CrossIs ==
    ASSUME NEW a \in Pair, NEW b \in Pair, NEW c \in Pair, NEW d \in Pair
    PROVE  /\ Cross(a, b, c, d) \in Int
           /\ Cross(a, b, c, d) = (b[1] - a[1]) * (d[2] - c[2]) - (b[2] - a[2]) * (d[1] - c[1])
BY DEF Cross, Wedge, Minus, Pair

LEMMA Fan ==
    ASSUME NEW up \in BOOLEAN,
           NEW a \in Pair, NEW b \in Pair, NEW c \in Pair, NEW d \in Pair,
           NEW e \in Pair, NEW f \in Pair,
           Ahead(up, a, b), Ahead(up, c, d), Ahead(up, e, f),
           Cross(a, b, c, d) >= 0, Cross(c, d, e, f) >= 0
    PROVE  Cross(a, b, e, f) >= 0
<1>1. PICK u1 \in Int, u2 \in Int : u1 = b[1] - a[1] /\ u2 = b[2] - a[2]
    BY DEF Pair
<1>2. PICK v1 \in Int, v2 \in Int : v1 = d[1] - c[1] /\ v2 = d[2] - c[2]
    BY DEF Pair
<1>3. PICK w1 \in Int, w2 \in Int : w1 = f[1] - e[1] /\ w2 = f[2] - e[2]
    BY DEF Pair
<1>4. u1 * v2 - u2 * v1 >= 0 /\ v1 * w2 - v2 * w1 >= 0
    BY <1>1, <1>2, <1>3, CrossIs
<1>5. u1 * w2 - u2 * w1 >= 0
    <2>1. CASE up
        <3>1. Forward(u1, u2) /\ Forward(v1, v2) /\ Forward(w1, w2)
            BY <1>1, <1>2, <1>3, <2>1, AheadIs
        <3> QED BY <1>4, <3>1, HalfPlane
    <2>2. CASE ~up
        <3>1. /\ a[1] - b[1] = -u1 /\ a[2] - b[2] = -u2 /\ c[1] - d[1] = -v1
              /\ c[2] - d[2] = -v2 /\ e[1] - f[1] = -w1 /\ e[2] - f[2] = -w2
            BY <1>1, <1>2, <1>3 DEF Pair
        <3>2. Forward(-u1, -u2) /\ Forward(-v1, -v2) /\ Forward(-w1, -w2)
            BY <2>2, <3>1, AheadIs
        <3>3. PICK x1 \in Int, x2 \in Int, y1 \in Int, y2 \in Int, z1 \in Int, z2 \in Int :
                x1 = -u1 /\ x2 = -u2 /\ y1 = -v1 /\ y2 = -v2 /\ z1 = -w1 /\ z2 = -w2
            OBVIOUS
        <3>4. x1 * y2 - x2 * y1 >= 0 /\ y1 * z2 - y2 * z1 >= 0
            BY <1>4, <3>3
        <3>5. x1 * z2 - x2 * z1 >= 0
            BY <3>2, <3>3, <3>4, HalfPlane
        <3> QED BY <3>3, <3>5
    <2> QED BY <2>1, <2>2
<1> QED BY <1>1, <1>3, <1>5, CrossIs

\* What turns have to do with each other.
LEMMA TurnIs ==
    ASSUME NEW o \in Pair, NEW a \in Pair, NEW b \in Pair
    PROVE  /\ Turn(o, a, b) \in Int
           /\ Turn(o, a, b) = (a[1] - o[1]) * (b[2] - o[2]) - (a[2] - o[2]) * (b[1] - o[1])
BY DEF Turn, Wedge, Minus, Pair

LEMMA Coordinates ==
    ASSUME NEW p \in Pair
    PROVE  \E x, y \in Int : p[1] = x /\ p[2] = y
BY DEF Pair

LEMMA TurnsBack ==
    ASSUME NEW a \in Pair, NEW b \in Pair, NEW c \in Pair
    PROVE  /\ Turn(a, b, c) = Cross(a, b, a, c)
           /\ Turn(a, b, c) = Cross(a, b, b, c)
           /\ Turn(a, b, c) = Cross(c, b, a, b)
           /\ Turn(a, b, c) = Cross(c, a, a, b)
           /\ Turn(a, b, c) = Cross(b, a, c, a)
           /\ Turn(a, b, c) = -Cross(a, b, c, b)
           /\ Turn(a, b, c) = -Cross(a, c, a, b)
           /\ Turn(a, b, a) = 0 /\ Turn(a, b, b) = 0 /\ Turn(a, a, b) = 0
<1>1. PICK a1 \in Int, a2 \in Int : a[1] = a1 /\ a[2] = a2
    BY Coordinates
<1>2. PICK b1 \in Int, b2 \in Int : b[1] = b1 /\ b[2] = b2
    BY Coordinates
<1>3. PICK c1 \in Int, c2 \in Int : c[1] = c1 /\ c[2] = c2
    BY Coordinates
<1>4. Turn(a, b, c) = (b1 - a1) * (c2 - a2) - (b2 - a2) * (c1 - a1)
    BY <1>1, <1>2, <1>3, TurnIs
<1>5. Cross(a, b, a, c) = (b1 - a1) * (c2 - a2) - (b2 - a2) * (c1 - a1)
    BY ZenonT(60), <1>1, <1>2, <1>3, CrossIs
<1>6. Cross(a, b, b, c) = (b1 - a1) * (c2 - b2) - (b2 - a2) * (c1 - b1)
    BY <1>1, <1>2, <1>3, CrossIs
<1>7. Cross(c, b, a, b) = (b1 - c1) * (b2 - a2) - (b2 - c2) * (b1 - a1)
    BY ZenonT(60), <1>1, <1>2, <1>3, CrossIs
<1>8. Cross(c, a, a, b) = (a1 - c1) * (b2 - a2) - (a2 - c2) * (b1 - a1)
    BY ZenonT(60), <1>1, <1>2, <1>3, CrossIs
<1>9. Cross(b, a, c, a) = (a1 - b1) * (a2 - c2) - (a2 - b2) * (a1 - c1)
    BY <1>1, <1>2, <1>3, CrossIs
<1>10. Cross(a, b, c, b) = (b1 - a1) * (b2 - c2) - (b2 - a2) * (b1 - c1)
    BY <1>1, <1>2, <1>3, CrossIs
<1>11. Cross(a, c, a, b) = (c1 - a1) * (b2 - a2) - (c2 - a2) * (b1 - a1)
    BY ZenonT(60), <1>1, <1>2, <1>3, CrossIs
<1>12. Turn(a, b, a) = (b1 - a1) * (a2 - a2) - (b2 - a2) * (a1 - a1)
    BY <1>1, <1>2, TurnIs
<1>13. Turn(a, b, b) = (b1 - a1) * (b2 - a2) - (b2 - a2) * (b1 - a1)
    BY <1>1, <1>2, TurnIs
<1>14. Turn(a, a, b) = (a1 - a1) * (b2 - a2) - (a2 - a2) * (b1 - a1)
    BY <1>1, <1>2, TurnIs
<1>15. Turn(a, b, c) = Cross(a, b, a, c) /\ Turn(a, b, c) = Cross(a, b, b, c)
    BY <1>4, <1>5, <1>6
<1>16. Turn(a, b, c) = Cross(c, b, a, b) /\ Turn(a, b, c) = Cross(c, a, a, b)
    BY <1>4, <1>7, <1>8
<1>17. Turn(a, b, c) = Cross(b, a, c, a) /\ Turn(a, b, c) = -Cross(a, b, c, b)
    BY <1>4, <1>9, <1>10
<1>18. Turn(a, b, c) = -Cross(a, c, a, b)
    BY <1>4, <1>11
<1>19. Turn(a, b, a) = 0 /\ Turn(a, b, b) = 0 /\ Turn(a, a, b) = 0
    BY <1>12, <1>13, <1>14
<1> QED BY <1>15, <1>16, <1>17, <1>18, <1>19

\* Of a point b of the chain and the next one, c, which is dropped for p: what was
\* to the left of b and c is to the left of b and p, if it comes after b.
LEMMA LaterIsLeft ==
    ASSUME NEW up \in BOOLEAN, NEW b \in Pair, NEW c \in Pair, NEW p \in Pair, NEW q \in Pair,
           Ahead(up, b, c), Ahead(up, b, p), Ahead(up, b, q),
           Turn(b, c, q) >= 0, ~(Turn(b, c, p) > 0)
    PROVE  Turn(b, p, q) >= 0
<1>1. Turn(b, c, p) \in Int /\ Cross(b, p, b, c) \in Int
    BY TurnIs, CrossIs
<1>2. Turn(b, c, p) = -Cross(b, p, b, c)
    BY TurnsBack
<1>3. Cross(b, p, b, c) >= 0 /\ Cross(b, c, b, q) >= 0
    BY <1>1, <1>2, TurnsBack
<1>4. Cross(b, p, b, q) >= 0
    BY <1>3, Fan
<1> QED BY <1>4, TurnsBack

\* The same if it comes before b: it was to the left of a and b, and so is p.
LEMMA EarlierIsLeft ==
    ASSUME NEW up \in BOOLEAN, NEW a \in Pair, NEW b \in Pair, NEW p \in Pair, NEW q \in Pair,
           Ahead(up, a, b), Ahead(up, b, p), Ahead(up, q, b),
           Turn(a, b, q) >= 0, Turn(a, b, p) > 0
    PROVE  Turn(b, p, q) >= 0
<1>1. Turn(a, b, p) \in Int /\ Turn(a, b, p) >= 0
    BY TurnIs
<1>2. Cross(q, b, a, b) >= 0 /\ Cross(a, b, b, p) >= 0
    BY <1>1, TurnsBack
<1>3. Cross(q, b, b, p) >= 0
    BY <1>2, Fan
<1> QED BY <1>3, TurnsBack

\* An edge that stays has p to its left, because the last one that stays has.
LEMMA NextIsLeft ==
    ASSUME NEW up \in BOOLEAN, NEW e \in Pair, NEW f \in Pair,
           NEW a \in Pair, NEW b \in Pair, NEW p \in Pair,
           Ahead(up, e, f), Ahead(up, f, b), Ahead(up, a, b), Ahead(up, b, p),
           Turn(e, f, b) >= 0, Turn(a, b, f) >= 0, Turn(a, b, p) > 0
    PROVE  Turn(e, f, p) >= 0
<1>1. Turn(a, b, p) \in Int /\ Turn(a, b, p) >= 0
    BY TurnIs
<1>2. Cross(e, f, f, b) >= 0 /\ Cross(f, b, a, b) >= 0 /\ Cross(a, b, b, p) >= 0
    BY <1>1, TurnsBack
<1>3. Cross(e, f, a, b) >= 0
    BY <1>2, Fan
<1>4. Cross(e, f, b, p) >= 0
    BY <1>2, <1>3, Fan
<1>5. Turn(e, f, p) = Cross(e, f, f, p)
    BY TurnsBack
<1>6. Cross(e, f, f, p) = Cross(e, f, f, b) + Cross(e, f, b, p)
    <2>1. PICK u1 \in Int, u2 \in Int : u1 = f[1] - e[1] /\ u2 = f[2] - e[2]
        BY DEF Pair
    <2>2. PICK f1 \in Int, f2 \in Int : f[1] = f1 /\ f[2] = f2
        BY Coordinates
    <2>3. PICK b1 \in Int, b2 \in Int : b[1] = b1 /\ b[2] = b2
        BY Coordinates
    <2>4. PICK p1 \in Int, p2 \in Int : p[1] = p1 /\ p[2] = p2
        BY Coordinates
    <2>5. Cross(e, f, f, p) = u1 * (p2 - f2) - u2 * (p1 - f1)
        BY <2>1, <2>2, <2>4, CrossIs
    <2>6. Cross(e, f, f, b) = u1 * (b2 - f2) - u2 * (b1 - f1)
        BY <2>1, <2>2, <2>3, CrossIs
    <2>7. Cross(e, f, b, p) = u1 * (p2 - b2) - u2 * (p1 - b1)
        BY <2>1, <2>3, <2>4, CrossIs
    <2> QED BY <2>5, <2>6, <2>7
<1>7. Cross(e, f, f, b) \in Int /\ Cross(e, f, b, p) \in Int
    BY CrossIs
<1> QED BY <1>2, <1>4, <1>5, <1>6, <1>7

\* Where the two chains meet in e without a turn, there is only one line.
LEMMA JointIsFlat ==
    ASSUME NEW up \in BOOLEAN, NEW a \in Pair, NEW e \in Pair, NEW d \in Pair, NEW q \in Pair,
           Ahead(up, a, e), Ahead(up, d, e), Ahead(up, q, e) \/ q = e,
           Turn(a, e, q) >= 0, Turn(e, d, q) >= 0, Turn(a, e, d) = 0
    PROVE  Turn(a, e, q) = 0
<1>1. CASE q = e
    BY <1>1, TurnsBack
<1>2. CASE Ahead(up, q, e)
    <2>1. Turn(a, e, d) = -Cross(a, e, d, e) /\ Cross(a, e, d, e) \in Int
        BY TurnsBack, CrossIs
    <2>2. Cross(a, e, d, e) >= 0 /\ Cross(d, e, q, e) >= 0
        BY <2>1, TurnsBack
    <2>3. Cross(a, e, q, e) >= 0
        BY <1>2, <2>2, Fan
    <2>4. Turn(a, e, q) = -Cross(a, e, q, e) /\ Cross(a, e, q, e) \in Int
        BY TurnsBack, CrossIs
    <2> QED BY <2>3, <2>4
<1> QED BY <1>1, <1>2

\* On one line nothing turns.
LEMMA LineIsFlat ==
    ASSUME NEW up \in BOOLEAN, NEW a \in Pair, NEW e \in Pair, Ahead(up, a, e),
           NEW x \in Pair, NEW y \in Pair, NEW z \in Pair,
           \A q \in {x, y, z} : (Ahead(up, q, e) \/ q = e) /\ Turn(a, e, q) = 0
    PROVE  Turn(x, y, z) = 0
<1>1. ASSUME NEW p \in {x, y, z}, NEW q \in {x, y, z}
      PROVE  Cross(p, e, q, e) >= 0
    <2>1. p \in Pair /\ q \in Pair
        OBVIOUS
    <2>2. CASE p = e \/ q = e
        <3>1. PICK p1 \in Int, p2 \in Int : p[1] = p1 /\ p[2] = p2
            BY <2>1, Coordinates
        <3>2. PICK q1 \in Int, q2 \in Int : q[1] = q1 /\ q[2] = q2
            BY <2>1, Coordinates
        <3>3. CASE p = e
            <4>1. Cross(e, e, q, e) = (p1 - p1) * (p2 - q2) - (p2 - p2) * (p1 - q1)
                BY <2>1, <3>1, <3>2, <3>3, CrossIs
            <4>2. (p1 - p1) * (p2 - q2) - (p2 - p2) * (p1 - q1) = 0
                OBVIOUS
            <4> QED BY <3>3, <4>1, <4>2
        <3>4. CASE q = e
            <4>1. Cross(p, e, e, e) = (q1 - p1) * (q2 - q2) - (q2 - p2) * (q1 - q1)
                BY <2>1, <3>1, <3>2, <3>4, CrossIs
            <4>2. (q1 - p1) * (q2 - q2) - (q2 - p2) * (q1 - q1) = 0
                OBVIOUS
            <4> QED BY <3>4, <4>1, <4>2
        <3> QED BY <2>2, <3>3, <3>4
    <2>3. CASE Ahead(up, p, e) /\ Ahead(up, q, e)
        <3>1. Turn(a, e, p) = Cross(p, e, a, e) /\ Turn(a, e, p) = 0
            BY <2>1, TurnsBack
        <3>2. Turn(a, e, q) = -Cross(a, e, q, e) /\ Turn(a, e, q) = 0
              /\ Cross(a, e, q, e) \in Int
            BY <2>1, TurnsBack, CrossIs
        <3>3. Cross(p, e, a, e) >= 0 /\ Cross(a, e, q, e) >= 0
            BY <3>1, <3>2
        <3> QED BY SMTT(60), <2>1, <2>3, <3>3, Fan
    <2> QED BY <2>2, <2>3
<1>2. PICK x1 \in Int, x2 \in Int : x[1] = x1 /\ x[2] = x2
    BY Coordinates
<1>3. PICK y1 \in Int, y2 \in Int : y[1] = y1 /\ y[2] = y2
    BY Coordinates
<1>4. PICK z1 \in Int, z2 \in Int : z[1] = z1 /\ z[2] = z2
    BY Coordinates
<1>5. PICK e1 \in Int, e2 \in Int : e[1] = e1 /\ e[2] = e2
    BY Coordinates
<1>6. /\ (e1 - x1) * (e2 - y2) - (e2 - x2) * (e1 - y1) >= 0
      /\ (e1 - y1) * (e2 - x2) - (e2 - y2) * (e1 - x1) >= 0
    <2>1. Cross(x, e, y, e) >= 0 /\ Cross(y, e, x, e) >= 0
        BY <1>1
    <2> QED BY <1>2, <1>3, <1>5, <2>1, CrossIs
<1>7. /\ (e1 - y1) * (e2 - z2) - (e2 - y2) * (e1 - z1) >= 0
      /\ (e1 - z1) * (e2 - y2) - (e2 - z2) * (e1 - y1) >= 0
    <2>1. Cross(y, e, z, e) >= 0 /\ Cross(z, e, y, e) >= 0
        BY <1>1
    <2> QED BY <1>3, <1>4, <1>5, <2>1, CrossIs
<1>8. /\ (e1 - x1) * (e2 - z2) - (e2 - x2) * (e1 - z1) >= 0
      /\ (e1 - z1) * (e2 - x2) - (e2 - z2) * (e1 - x1) >= 0
    <2>1. Cross(x, e, z, e) >= 0 /\ Cross(z, e, x, e) >= 0
        BY <1>1
    <2> QED BY <1>2, <1>4, <1>5, <2>1, CrossIs
<1>9. /\ (e1 - x1) * (e2 - y2) - (e2 - x2) * (e1 - y1) = 0
      /\ (e1 - y1) * (e2 - z2) - (e2 - y2) * (e1 - z1) = 0
      /\ (e1 - x1) * (e2 - z2) - (e2 - x2) * (e1 - z1) = 0
    BY <1>6, <1>7, <1>8
<1>10. Turn(x, y, z) = (y1 - x1) * (z2 - x2) - (y2 - x2) * (z1 - x1)
    BY <1>2, <1>3, <1>4, TurnIs
<1>11. (y1 - x1) * (z2 - x2) - (y2 - x2) * (z1 - x1)
        =  ((e1 - x1) * (e2 - y2) - (e2 - x2) * (e1 - y1))
         + ((e1 - y1) * (e2 - z2) - (e2 - y2) * (e1 - z1))
         - ((e1 - x1) * (e2 - z2) - (e2 - x2) * (e1 - z1))
    OBVIOUS
<1> QED BY <1>9, <1>10, <1>11

-----------------------------------------------------------------------------
(* The chain *)

\* What holds of the chain after k points: it goes from the first to the last of
\* them in their order, turns left, and has all of them to its left.
Chained(up, points, k, c) ==
    /\ c \in Seq(Pair) \ {<<>>}
    /\ c[1] = points[1] /\ c[Len(c)] = points[k]
    /\ \A i \in 1 .. Len(c) : \E j \in 1 .. k : c[i] = points[j]
    /\ \A i, j \in 1 .. Len(c) : i < j => Ahead(up, c[i], c[j])
    /\ \A i \in 1 .. (Len(c) - 2) : Turn(c[i], c[i + 1], c[i + 2]) > 0
    /\ \A i \in 1 .. (Len(c) - 1), j \in 1 .. k : Turn(c[i], c[i + 1], points[j]) >= 0

LEMMA Antisymmetry ==
    ASSUME NEW up \in BOOLEAN, NEW p \in Pair, NEW q \in Pair
    PROVE  /\ ~(Ahead(up, p, q) /\ Ahead(up, q, p))
           /\ Ahead(up, p, q) \/ Ahead(up, q, p) \/ p = q
           /\ ~Ahead(up, p, p)
BY DEF Ahead, Before, Pair

\* What is added to a chain is the point after its first t.
Onto(c, t, p) == Append(SubSeq(c, 1, t), p)

LEMMA PrefixIs ==
    ASSUME NEW c \in Seq(Pair), NEW t \in 1 .. Len(c), NEW p \in Pair
    PROVE  /\ Onto(c, t, p) \in Seq(Pair) \ {<<>>} /\ Len(Onto(c, t, p)) = t + 1
           /\ Onto(c, t, p)[t + 1] = p
           /\ \A i \in 1 .. t : Onto(c, t, p)[i] = c[i]
<1>1. SubSeq(c, 1, t) \in Seq(Pair) /\ Len(SubSeq(c, 1, t)) = t
      /\ \A i \in 1 .. t : SubSeq(c, 1, t)[i] = c[i]
    OBVIOUS
<1> DEFINE s == SubSeq(c, 1, t)
<1>2. s \in Seq(Pair) /\ Len(s) = t /\ \A i \in 1 .. t : s[i] = c[i]
    BY <1>1
<1>3. Onto(c, t, p) = Append(s, p)
    BY DEF Onto
<1> HIDE DEF s
<1>4. PICK k \in Nat : k = t
    OBVIOUS
<1>5. Append(s, p) \in Seq(Pair) /\ Len(Append(s, p)) = k + 1
      /\ Append(s, p)[k + 1] = p /\ \A i \in 1 .. k : Append(s, p)[i] = s[i]
    BY <1>2, <1>4
<1>6. Append(s, p) # <<>>
    <2> DEFINE d == Append(s, p)
    <2>1. Len(d) # 0
        BY <1>5
    <2> HIDE DEF d
    <2>2. d # <<>>
        BY <2>1
    <2> QED BY <2>2 DEF d
<1> QED BY <1>2, <1>3, <1>4, <1>5, <1>6

LEMMA ChainGrows ==
    ASSUME NEW up \in BOOLEAN, NEW n \in Nat, NEW points \in [1 .. n -> Pair],
           \A i, j \in 1 .. n : i < j => Ahead(up, points[i], points[j]),
           NEW k \in 1 .. (n - 1), NEW c, Chained(up, points, k, c)
    PROVE  Chained(up, points, k + 1, Append(Trim(c, points[k + 1]), points[k + 1]))
<1>1. PICK p \in Pair : p = points[k + 1]
    OBVIOUS
<1>2. c \in Seq(Pair) /\ c # <<>>
    BY DEF Chained
<1>3. PICK m \in Nat : m = Len(c) /\ m > 0
    BY <1>2
<1>4. PICK t \in 1 .. m :
        /\ Trim(c, p) = SubSeq(c, 1, t)
        /\ t > 1 => Turn(c[t - 1], c[t], p) > 0
        /\ t < m => ~(Turn(c[t], c[t + 1], p) > 0)
    BY <1>2, <1>3, TrimIs
<1>5. PICK d : d = Append(Trim(c, p), p)
    OBVIOUS
<1>6. /\ d \in Seq(Pair) \ {<<>>} /\ Len(d) = t + 1 /\ d[t + 1] = p
      /\ \A i \in 1 .. t : d[i] = c[i]
    <2>1. t \in 1 .. Len(c) /\ d = Onto(c, t, p)
        BY <1>3, <1>4, <1>5 DEF Onto
    <2> QED BY <1>2, <2>1, PrefixIs
\* The old chain.
<1>7. \A i \in 1 .. m : c[i] \in Pair
    BY <1>2, <1>3
<1>8. \A i \in 1 .. m : \E j \in 1 .. k : c[i] = points[j]
    BY <1>3 DEF Chained
<1>9. \A i, j \in 1 .. m : i < j => Ahead(up, c[i], c[j])
    BY <1>3 DEF Chained
<1>10. \A i \in 1 .. (m - 2) : Turn(c[i], c[i + 1], c[i + 2]) > 0
    BY <1>3 DEF Chained
<1>11. \A i \in 1 .. (m - 1), j \in 1 .. k : Turn(c[i], c[i + 1], points[j]) >= 0
    BY <1>3 DEF Chained
<1>12. c[1] = points[1] /\ c[m] = points[k]
    BY <1>3 DEF Chained
<1>13. \A j \in 1 .. k : points[j] \in Pair /\ Ahead(up, points[j], p)
    <2> TAKE j \in 1 .. k
    <2>1. j \in 1 .. n /\ k + 1 \in 1 .. n /\ j < k + 1
        OBVIOUS
    <2> QED BY <1>1, <2>1
<1>14. \A i \in 1 .. m : Ahead(up, c[i], p)
    BY <1>8, <1>13
<1>15. PICK b \in Pair : b = c[t] /\ Ahead(up, b, p)
    BY <1>7, <1>14
\* The new one.
<1>16. d[1] = points[1] /\ d[Len(d)] = points[k + 1]
    BY <1>1, <1>6, <1>12
<1>17. \A i \in 1 .. (t + 1) : \E j \in 1 .. (k + 1) : d[i] = points[j]
    <2> TAKE i \in 1 .. (t + 1)
    <2>1. CASE i = t + 1
        BY <1>1, <1>6, <2>1
    <2>2. CASE i \in 1 .. t
        <3>1. PICK j \in 1 .. k : c[i] = points[j]
            BY <1>8, <2>2
        <3> QED BY <1>6, <2>2, <3>1
    <2> QED BY <2>1, <2>2
<1>18. \A i, j \in 1 .. (t + 1) : i < j => Ahead(up, d[i], d[j])
    <2> SUFFICES ASSUME NEW i \in 1 .. (t + 1), NEW j \in 1 .. (t + 1), i < j
                 PROVE  Ahead(up, d[i], d[j])
        OBVIOUS
    <2>1. i \in 1 .. t /\ i \in 1 .. m /\ d[i] = c[i]
        BY <1>6
    <2>2. CASE j = t + 1
        BY <1>6, <1>14, <2>1, <2>2
    <2>3. CASE j \in 1 .. t
        BY <1>6, <1>9, <2>1, <2>3
    <2> QED BY <2>2, <2>3
<1>19. \A i \in 1 .. (t - 1) : Turn(d[i], d[i + 1], d[i + 2]) > 0
    <2> TAKE i \in 1 .. (t - 1)
    <2>1. i \in 1 .. t /\ i + 1 \in 1 .. t /\ d[i] = c[i] /\ d[i + 1] = c[i + 1]
        BY <1>6
    <2>2. CASE i = t - 1
        <3>1. i + 1 = t /\ i + 2 = t + 1 /\ t > 1
            BY <2>2
        <3> QED BY <1>4, <1>6, <2>1, <2>2, <3>1
    <2>3. CASE i < t - 1
        <3>1. i + 2 \in 1 .. t /\ i \in 1 .. (m - 2)
            BY <2>3
        <3> QED BY <1>6, <1>10, <2>1, <3>1
    <2> QED BY <2>2, <2>3
<1>20. \A i \in 1 .. t, j \in 1 .. (k + 1) : Turn(d[i], d[i + 1], points[j]) >= 0
    <2> TAKE i \in 1 .. t, j \in 1 .. (k + 1)
    <2>1. PICK q \in Pair : q = points[j]
        OBVIOUS
    <2>2. CASE i = t /\ j = k + 1
        <3>1. Turn(b, p, p) = 0
            BY TurnsBack
        <3> QED BY <1>1, <1>6, <1>15, <2>2, <3>1
    <2>3. CASE i = t /\ j \in 1 .. k
        <3>1. Turn(b, p, q) >= 0
            <4>1. CASE q = b
                BY <4>1, TurnsBack
            <4>2. CASE Ahead(up, b, q)
                <5>1. t < m
                    <6> SUFFICES ASSUME t = m PROVE FALSE
                        OBVIOUS
                    <6>1. b = points[k]
                        BY <1>12, <1>15
                    <6>2. j = k \/ Ahead(up, q, b)
                        <7>1. j \in 1 .. n /\ k \in 1 .. n
                            OBVIOUS
                        <7> QED BY <2>1, <2>3, <6>1, <7>1
                    <6> QED BY <2>1, <4>2, <6>1, <6>2, Antisymmetry
                <5>2. t + 1 \in 1 .. m /\ t \in 1 .. (m - 1)
                    BY <5>1
                <5>3. PICK e \in Pair : e = c[t + 1]
                    BY <1>7, <5>2
                <5>4. Ahead(up, b, e) /\ Turn(b, e, q) >= 0 /\ ~(Turn(b, e, p) > 0)
                    BY <1>4, <1>9, <1>11, <1>15, <2>1, <2>3, <5>1, <5>2, <5>3
                <5> QED BY <1>15, <4>2, <5>4, LaterIsLeft
            <4>3. CASE Ahead(up, q, b)
                <5>1. t > 1
                    <6> SUFFICES ASSUME t = 1 PROVE FALSE
                        OBVIOUS
                    <6>1. b = points[1]
                        BY <1>12, <1>15
                    <6>2. j = 1 \/ Ahead(up, b, q)
                        <7>1. j \in 1 .. n /\ 1 \in 1 .. n
                            OBVIOUS
                        <7> QED BY <2>1, <2>3, <6>1, <7>1
                    <6> QED BY <2>1, <4>3, <6>1, <6>2, Antisymmetry
                <5>2. t - 1 \in 1 .. m /\ t - 1 \in 1 .. (m - 1) /\ (t - 1) + 1 = t
                    BY <5>1
                <5>3. PICK a \in Pair : a = c[t - 1]
                    BY <1>7, <5>2
                <5>4. Ahead(up, a, b) /\ Turn(a, b, q) >= 0 /\ Turn(a, b, p) > 0
                    BY <1>4, <1>9, <1>11, <1>15, <2>1, <2>3, <5>1, <5>2, <5>3
                <5> QED BY <1>15, <4>3, <5>4, EarlierIsLeft
            <4> QED BY <4>1, <4>2, <4>3, Antisymmetry
        <3> QED BY <1>6, <1>15, <2>1, <2>3, <3>1
    <2>4. CASE i < t /\ j \in 1 .. k
        <3>1. i + 1 \in 1 .. t /\ i \in 1 .. (m - 1)
            BY <2>4
        <3> QED BY <1>6, <1>11, <2>4, <3>1
    <2>5. CASE i < t /\ j = k + 1
        <3>1. i + 1 \in 1 .. t /\ i \in 1 .. (m - 1) /\ i \in 1 .. m /\ i + 1 \in 1 .. m
            BY <2>5
        <3>2. PICK e \in Pair, f \in Pair : e = c[i] /\ f = c[i + 1]
            BY <1>7, <3>1
        <3>3. Turn(e, f, p) >= 0
            <4>1. t > 1 /\ t - 1 \in 1 .. m /\ t - 1 \in 1 .. (m - 1) /\ (t - 1) + 1 = t
                BY <2>5
            <4>2. PICK a \in Pair : a = c[t - 1]
                BY <1>7, <4>1
            <4>3. Turn(a, b, p) > 0 /\ Turn(a, b, p) \in Int
                BY <1>4, <1>15, <4>1, <4>2, TurnIs
            <4>4. CASE i + 1 = t
                <5>1. e = a /\ f = b
                    BY <1>15, <3>2, <4>2, <4>4
                <5> QED BY <4>3, <5>1
            <4>5. CASE i + 1 < t
                <5>1. Ahead(up, e, f) /\ Ahead(up, f, b) /\ Ahead(up, a, b)
                    BY <1>9, <1>15, <3>1, <3>2, <4>1, <4>2, <4>5
                <5>2. Turn(e, f, b) >= 0
                    <6>1. PICK l \in 1 .. k : c[t] = points[l]
                        BY <1>8
                    <6> QED BY <1>11, <1>15, <3>1, <3>2, <6>1
                <5>3. Turn(a, b, f) >= 0
                    <6>1. PICK l \in 1 .. k : c[i + 1] = points[l]
                        BY <1>8, <3>1
                    <6> QED BY <1>11, <1>15, <3>2, <4>1, <4>2, <6>1
                <5> QED BY <1>15, <4>3, <5>1, <5>2, <5>3, NextIsLeft
            <4> QED BY <3>1, <4>4, <4>5
        <3> QED BY <1>1, <1>6, <2>5, <3>1, <3>2, <3>3
    <2> QED BY <2>2, <2>3, <2>4, <2>5
<1>21. Len(d) - 1 = t /\ Len(d) - 2 = t - 1
    BY <1>6
<1>22. Chained(up, points, k + 1, d)
    BY <1>6, <1>16, <1>17, <1>18, <1>19, <1>20, <1>21 DEF Chained
<1> QED BY <1>1, <1>5, <1>22

LEMMA ChainedChain ==
    ASSUME NEW up \in BOOLEAN, NEW n \in Nat, n > 0, NEW points \in [1 .. n -> Pair],
           \A i, j \in 1 .. n : i < j => Ahead(up, points[i], points[j])
    PROVE  Chained(up, points, n, Chain(points))
<1>1. PICK chain : Passes(Pair, n, points, chain)
    BY ChainSteps
<1> DEFINE K == {k \in 0 .. n : k = 0 \/ Chained(up, points, k, chain[k])}
<1>2. 0 .. n \subseteq K
    <2>1. 0 \in K
        OBVIOUS
    <2>2. ASSUME NEW k \in 0 .. (n - 1), k \in K PROVE k + 1 \in K
        <3>1. CASE k = 0
            <4>1. points[1] \in Pair /\ 1 \in 1 .. n
                OBVIOUS
            <4>2. PICK p \in Pair : p = points[1]
                BY <4>1
            <4>3. chain[1] = <<p>>
                BY <1>1, <4>2 DEF Passes
            <4>4. <<p>> \in Seq(Pair) /\ Len(<<p>>) = 1 /\ <<p>>[1] = p /\ <<p>> # <<>>
                OBVIOUS
            <4>5. ~Ahead(up, p, p)
                BY Antisymmetry
            <4>6. Chained(up, points, 1, <<p>>)
                BY <4>2, <4>4 DEF Chained
            <4> QED BY <3>1, <4>1, <4>3, <4>6
        <3>2. CASE k # 0
            <4>1. k \in 1 .. (n - 1) /\ k + 1 \in 0 .. n
                BY <3>2
            <4>2. chain[k + 1] = Append(Trim(chain[k], points[k + 1]), points[k + 1])
                BY <1>1, <4>1 DEF Passes
            <4>3. Chained(up, points, k, chain[k])
                BY <2>2, <3>2
            <4>4. Chained(up, points, k + 1, chain[k + 1])
                BY <4>1, <4>2, <4>3, ChainGrows
            <4> QED BY <4>1, <4>4
        <3> QED BY <3>1, <3>2
    <2>3. \A k \in 0 .. (n - 1) : k \in K => k + 1 \in K
        BY <2>2
    <2> HIDE DEF K
    <2> QED BY <2>1, <2>3, Induction
<1>3. n \in 0 .. n
    OBVIOUS
<1>4. Chained(up, points, n, chain[n])
    BY <1>2, <1>3
<1> QED BY <1>1, <1>4 DEF Passes

-----------------------------------------------------------------------------
(* The hull *)

\* Half of the hull of S: a chain around all of S to the last point in its order.
Half(up, S, c) ==
    /\ c \in Seq(S) /\ Len(c) > 1
    /\ \A i, j \in 1 .. Len(c) : i < j => Ahead(up, c[i], c[j])
    /\ \A i \in 1 .. (Len(c) - 2) : Turn(c[i], c[i + 1], c[i + 2]) > 0
    /\ \A i \in 1 .. (Len(c) - 1), q \in S : Turn(c[i], c[i + 1], q) >= 0
    /\ \A q \in S : q = c[Len(c)] \/ Ahead(up, q, c[Len(c)])

LEMMA HalfIs ==
    ASSUME NEW up \in BOOLEAN, NEW S \in SUBSET Pair, NEW n \in Nat, n > 1,
           NEW points \in [1 .. n -> S], \A q \in S : \E i \in 1 .. n : q = points[i],
           \A i, j \in 1 .. n : i < j => Ahead(up, points[i], points[j])
    PROVE  /\ Half(up, S, Chain(points))
           /\ Chain(points)[1] = points[1]
           /\ Chain(points)[Len(Chain(points))] = points[n]
<1>1. PICK c \in Seq(S) : c = Chain(points) /\ Len(c) > 1
    BY ChainIn
<1>2. points \in [1 .. n -> Pair] /\ n > 0
    OBVIOUS
<1>3. Chained(up, points, n, c)
    BY <1>1, <1>2, ChainedChain
<1>4. c[1] = points[1] /\ c[Len(c)] = points[n]
    BY <1>3 DEF Chained
<1>5. \A i, j \in 1 .. Len(c) : i < j => Ahead(up, c[i], c[j])
    BY <1>3 DEF Chained
<1>6. \A i \in 1 .. (Len(c) - 2) : Turn(c[i], c[i + 1], c[i + 2]) > 0
    BY <1>3 DEF Chained
<1>7. \A i \in 1 .. (Len(c) - 1), q \in S : Turn(c[i], c[i + 1], q) >= 0
    <2> TAKE i \in 1 .. (Len(c) - 1), q \in S
    <2>1. PICK j \in 1 .. n : q = points[j]
        OBVIOUS
    <2> QED BY <1>3, <2>1 DEF Chained
<1>8. \A q \in S : q = c[Len(c)] \/ Ahead(up, q, c[Len(c)])
    <2> TAKE q \in S
    <2>1. PICK j \in 1 .. n : q = points[j]
        OBVIOUS
    <2>2. j = n \/ j < n
        OBVIOUS
    <2>3. n \in 1 .. n
        OBVIOUS
    <2> QED BY <1>4, <2>1, <2>2, <2>3
<1> QED BY <1>1, <1>4, <1>5, <1>6, <1>7, <1>8 DEF Half

\* Where one half ends the other begins, with a turn to the left; unless there is
\* only one line, and then both are just that.
LEMMA JointTurns ==
    ASSUME NEW up \in BOOLEAN, NEW S \in SUBSET Pair, NEW c, NEW d,
           Half(up, S, c), Half(~up, S, d), c[Len(c)] = d[1]
    PROVE  \/ Turn(c[Len(c) - 1], d[1], d[2]) > 0
           \/ Len(c) = 2 /\ Len(d) = 2
<1>1. PICK m \in Nat, n \in Nat : m = Len(c) /\ n = Len(d) /\ m > 1 /\ n > 1
    BY DEF Half
<1>2. /\ \A i \in 1 .. m : c[i] \in S
      /\ \A i \in 1 .. n : d[i] \in S
    BY <1>1 DEF Half
<1>3. m - 1 \in 1 .. m /\ m \in 1 .. m /\ 1 \in 1 .. n /\ 2 \in 1 .. n
      /\ (m - 1) + 1 = m /\ m - 1 \in 1 .. (m - 1) /\ 1 \in 1 .. (n - 1) /\ 1 + 1 = 2
    BY <1>1
<1>4. PICK a \in Pair, e \in Pair, f \in Pair : a = c[m - 1] /\ e = d[1] /\ f = d[2]
    BY <1>2, <1>3
<1>5. Ahead(up, a, e)
    BY <1>1, <1>3, <1>4 DEF Half
<1>6. Ahead(up, f, e)
    <2>1. Ahead(~up, e, f)
        BY <1>1, <1>3, <1>4 DEF Half
    <2> QED BY <2>1 DEF Ahead
<1>7. \A q \in S : /\ q \in Pair /\ (q = e \/ Ahead(up, q, e))
                   /\ Turn(a, e, q) >= 0 /\ Turn(e, f, q) >= 0
    <2> TAKE q \in S
    <2>1. q = e \/ Ahead(up, q, e)
        BY <1>1, <1>4 DEF Half
    <2>2. Turn(c[m - 1], c[(m - 1) + 1], q) >= 0
        BY <1>1, <1>3 DEF Half
    <2>3. Turn(d[1], d[1 + 1], q) >= 0
        BY <1>1, <1>3 DEF Half
    <2> QED BY <1>1, <1>3, <1>4, <2>1, <2>2, <2>3
<1>8. CASE Turn(a, e, f) = 0
    <2>1. \A q \in S : Turn(a, e, q) = 0
        BY <1>5, <1>6, <1>7, <1>8, JointIsFlat
    <2>2. \A x, y, z \in S : Turn(x, y, z) = 0
        <3> TAKE x, y, z \in S
        <3>1. \A q \in {x, y, z} : (Ahead(up, q, e) \/ q = e) /\ Turn(a, e, q) = 0
            BY <1>7, <2>1
        <3> QED BY <1>5, <1>7, <3>1, LineIsFlat
    <2>3. m = 2
        <3> SUFFICES ASSUME m > 2 PROVE FALSE
            BY <1>1
        <3>1. 1 \in 1 .. (m - 2) /\ 1 \in 1 .. m /\ 1 + 1 \in 1 .. m /\ 1 + 2 \in 1 .. m
            OBVIOUS
        <3>2. Turn(c[1], c[1 + 1], c[1 + 2]) > 0
            BY <1>1, <3>1 DEF Half
        <3>3. Turn(c[1], c[1 + 1], c[1 + 2]) = 0
            BY <1>2, <2>2, <3>1
        <3> QED BY <3>2, <3>3
    <2>4. n = 2
        <3> SUFFICES ASSUME n > 2 PROVE FALSE
            BY <1>1
        <3>1. 1 \in 1 .. (n - 2) /\ 1 \in 1 .. n /\ 1 + 1 \in 1 .. n /\ 1 + 2 \in 1 .. n
            OBVIOUS
        <3>2. Turn(d[1], d[1 + 1], d[1 + 2]) > 0
            BY <1>1, <3>1 DEF Half
        <3>3. Turn(d[1], d[1 + 1], d[1 + 2]) = 0
            BY <1>2, <2>2, <3>1
        <3> QED BY <3>2, <3>3
    <2> QED BY <1>1, <2>3, <2>4
<1>9. CASE Turn(a, e, f) # 0
    <2>1. f \in S /\ Turn(a, e, f) \in Int
        BY <1>2, <1>3, <1>4, TurnIs
    <2>2. Turn(a, e, f) > 0
        BY <1>7, <1>9, <2>1
    <2> QED BY <1>1, <1>4, <2>2
<1> QED BY <1>8, <1>9

\* The two halves without their last points, one after the other.
LEMMA FrontIs ==
    ASSUME NEW S, NEW c \in Seq(S), Len(c) > 1
    PROVE  /\ Front(c) \in Seq(S) /\ Len(Front(c)) = Len(c) - 1
           /\ \A i \in 1 .. (Len(c) - 1) : Front(c)[i] = c[i]
BY DEF Front

LEMMA AppendIs ==
    ASSUME NEW S, NEW c \in Seq(S), NEW d \in Seq(S)
    PROVE  /\ c \o d \in Seq(S) /\ Len(c \o d) = Len(c) + Len(d)
           /\ \A i \in 1 .. Len(c) : (c \o d)[i] = c[i]
           /\ \A i \in 1 .. Len(d) : (c \o d)[Len(c) + i] = d[i]
OBVIOUS

Round(c, d) == Front(c) \o Front(d)

\* A sequence of a and b elements, those of c and those of d.
Joined(S, a, b, c, d, hull) ==
    /\ hull \in Seq(S) /\ Len(hull) = a + b
    /\ \A i \in 1 .. a : hull[i] = c[i]
    /\ \A i \in 1 .. b : hull[a + i] = d[i]

LEMMA RoundIs ==
    ASSUME NEW S, NEW c \in Seq(S), NEW d \in Seq(S), NEW a \in Nat, NEW b \in Nat,
           a > 0, b > 0, Len(c) = a + 1, Len(d) = b + 1
    PROVE  Joined(S, a, b, c, d, Round(c, d))
<1>1. Len(c) > 1 /\ Len(d) > 1 /\ Len(c) - 1 = a /\ Len(d) - 1 = b
    OBVIOUS
<1>2. PICK e \in Seq(S) : e = Front(c) /\ Len(e) = a /\ \A i \in 1 .. a : e[i] = c[i]
    BY <1>1, FrontIs
<1>3. PICK f \in Seq(S) : f = Front(d) /\ Len(f) = b /\ \A i \in 1 .. b : f[i] = d[i]
    BY <1>1, FrontIs
<1>4. Round(c, d) = e \o f
    BY <1>2, <1>3 DEF Round
<1>5. PICK g : g = e \o f
    OBVIOUS
<1>6. /\ g \in Seq(S) /\ Len(g) = Len(e) + Len(f)
      /\ \A i \in 1 .. Len(e) : g[i] = e[i]
      /\ \A i \in 1 .. Len(f) : g[Len(e) + i] = f[i]
    BY <1>5
<1>7. Joined(S, a, b, c, d, g)
    BY <1>2, <1>3, <1>6 DEF Joined
<1> QED BY <1>4, <1>5, <1>7

LEMMA OneLess ==
    ASSUME NEW S, NEW c \in Seq(S), Len(c) > 1
    PROVE  \E a \in Nat : Len(c) = a + 1 /\ a > 0
<1>1. PICK m \in Nat : m = Len(c)
    OBVIOUS
<1>2. m - 1 \in Nat /\ m = (m - 1) + 1 /\ m - 1 > 0
    BY <1>1
<1> QED BY <1>1, <1>2

LEMMA Turning ==
    ASSUME NEW n \in Nat, NEW i \in 1 .. n
    PROVE  (i % n) + 1 = IF i = n THEN 1 ELSE i + 1
OBVIOUS

\* What is promised of the hull.
Encloses(S, hull) ==
    LET n == Len(hull)
        After(i) == hull[(i % n) + 1] IN
    /\ \A i \in 1 .. n : hull[i] \in S
    /\ \A i \in 1 .. n, p \in S : Turn(hull[i], After(i), p) >= 0
    /\ n > 2 => \A i \in 1 .. n : Turn(hull[i], After(i), After((i % n) + 1)) > 0
    /\ S # {} => HasEnds(hull, S)

LEMMA GreatestIsThat ==
    ASSUME NEW S \in SUBSET Int, NEW u \in S, \A a \in S : a <= u
    PROVE  Greatest(S) = u
<1>1. u \in Int /\ S # {}
    OBVIOUS
<1>2. PICK g : g = Greatest(S)
    OBVIOUS
<1>3. g \in S /\ u <= g
    BY <1>1, <1>2, GreatestIs
<1>4. g \in Int /\ g <= u
    BY <1>3
<1> QED BY <1>1, <1>2, <1>3, <1>4

\* The vertex after the i-th, and the last one's is the first.
Follower(hull, i) == hull[(i % Len(hull)) + 1]

\* The edges of the hull are those of its halves.
Edged(S, a, b, c, d, hull) ==
    /\ Joined(S, a, b, c, d, hull)
    /\ \A i \in 1 .. a : Follower(hull, i) = c[i + 1]
    /\ \A i \in 1 .. b : Follower(hull, a + i) = d[i + 1]

LEMMA RoundIsEdged ==
    ASSUME NEW S, NEW c \in Seq(S), NEW d \in Seq(S), NEW a \in Nat, NEW b \in Nat,
           a > 0, b > 0, Len(c) = a + 1, Len(d) = b + 1, c[a + 1] = d[1], d[b + 1] = c[1]
    PROVE  Edged(S, a, b, c, d, Round(c, d))
<1>1. PICK hull : hull = Round(c, d)
    OBVIOUS
<1>2. PICK n \in Nat : n = a + b
    OBVIOUS
<1>3. Joined(S, a, b, c, d, hull)
    BY <1>1, RoundIs
<1>4. /\ hull \in Seq(S) /\ Len(hull) = n
      /\ \A i \in 1 .. a : hull[i] = c[i]
      /\ \A i \in 1 .. b : hull[a + i] = d[i]
    BY <1>2, <1>3 DEF Joined
<1> DEFINE After(i) == hull[(i % n) + 1]
<1>5. \A i \in 1 .. a : After(i) = c[i + 1]
    <2> TAKE i \in 1 .. a
    <2>1. (i % n) + 1 = i + 1
        <3>1. i \in 1 .. n /\ i # n
            BY <1>2
        <3> QED BY <3>1, Turning
    <2>2. CASE i < a
        <3>1. i + 1 \in 1 .. a
            BY <2>2
        <3> QED BY <1>4, <2>1, <3>1
    <2>3. CASE i = a
        <3>1. 1 \in 1 .. b
            BY <1>2
        <3> QED BY <1>4, <2>1, <2>3, <3>1
    <2> HIDE DEF After
    <2> QED BY <2>2, <2>3
<1>6. \A i \in 1 .. b : After(a + i) = d[i + 1]
    <2> TAKE i \in 1 .. b
    <2>1. a + i \in 1 .. n
        BY <1>2
    <2>2. CASE i < b
        <3>0. i + 1 \in 1 .. b /\ (a + i) + 1 = a + (i + 1)
            BY <2>2
        <3>1. ((a + i) % n) + 1 = a + (i + 1)
            <4>1. a + i # n
                BY <1>2, <2>2
            <4>2. ((a + i) % n) + 1 = (a + i) + 1
                BY <2>1, <4>1, Turning
            <4> QED BY <3>0, <4>2
        <3> QED BY <1>4, <3>0, <3>1
    <2>3. CASE i = b
        <3>1. ((a + i) % n) + 1 = 1
            <4>1. a + i = n
                BY <1>2, <2>3
            <4> QED BY <2>1, <4>1, Turning
        <3>2. 1 \in 1 .. a
            BY <1>2
        <3> QED BY <1>4, <2>3, <3>1, <3>2
    <2> HIDE DEF After
    <2> QED BY <2>2, <2>3
<1>7. \A i \in 1 .. a : Follower(hull, i) = c[i + 1]
    BY <1>4, <1>5 DEF Follower
<1>8. \A i \in 1 .. b : Follower(hull, a + i) = d[i + 1]
    BY <1>4, <1>6 DEF Follower
<1> QED BY <1>1, <1>3, <1>7, <1>8 DEF Edged

\* The two halves make a hull.
LEMMA HalvesEnclose ==
    ASSUME NEW S \in SUBSET Pair, NEW c, NEW d, NEW hull,
           Half(TRUE, S, c), Half(FALSE, S, d), c[Len(c)] = d[1], d[Len(d)] = c[1],
           hull = Round(c, d)
    PROVE  Encloses(S, hull)
<1>1. c \in Seq(S) /\ d \in Seq(S) /\ Len(c) > 1 /\ Len(d) > 1
    BY DEF Half
<1>2. PICK a \in Nat, b \in Nat, n \in Nat :
        Len(c) = a + 1 /\ Len(d) = b + 1 /\ n = a + b /\ a > 0 /\ b > 0
    <2>1. PICK a \in Nat : Len(c) = a + 1 /\ a > 0
        BY <1>1, OneLess
    <2>2. PICK b \in Nat : Len(d) = b + 1 /\ b > 0
        BY <1>1, OneLess
    <2>3. a + b \in Nat
        OBVIOUS
    <2> QED BY <2>1, <2>2, <2>3
<1>3. hull \in Seq(S) /\ Len(hull) = n
      /\ (\A i \in 1 .. a : hull[i] = c[i])
      /\ (\A i \in 1 .. b : hull[a + i] = d[i])
    <2>1. Joined(S, a, b, c, d, Round(c, d))
        BY <1>1, <1>2, RoundIs
    <2> QED BY <1>2, <2>1 DEF Joined
<1>4. /\ \A i \in 1 .. (a + 1) : c[i] \in S
      /\ \A i \in 1 .. (b + 1) : d[i] \in S
    BY <1>1, <1>2
<1>5. c[a + 1] = d[1] /\ d[b + 1] = c[1]
    BY <1>2
<1> DEFINE After(i) == hull[(i % n) + 1]
<1>0. Edged(S, a, b, c, d, hull)
    BY <1>1, <1>2, <1>5, RoundIsEdged
<1>6. \A i \in 1 .. a : After(i) = c[i + 1]
    BY <1>0, <1>3 DEF Edged, Follower
<1>7. \A i \in 1 .. b : After(a + i) = d[i + 1]
    BY <1>0, <1>3 DEF Edged, Follower
<1>8. \A i \in 1 .. n : i \in 1 .. a \/ \E j \in 1 .. b : i = a + j
    <2> TAKE i \in 1 .. n
    <2>1. i \in 1 .. a \/ (i - a \in 1 .. b /\ i = a + (i - a))
        BY <1>2
    <2> QED BY <2>1
<1>9. \A i \in 1 .. n : hull[i] \in S
    BY <1>3
<1>10. \A i \in 1 .. n, p \in S : Turn(hull[i], After(i), p) >= 0
    <2> TAKE i \in 1 .. n, p \in S
    <2>1. CASE i \in 1 .. a
        <3>1. Turn(c[i], c[i + 1], p) >= 0
            BY <1>2, <2>1 DEF Half
        <3> HIDE DEF After
        <3> QED BY <1>3, <1>6, <2>1, <3>1
    <2>2. ASSUME NEW j \in 1 .. b, i = a + j PROVE Turn(hull[i], After(i), p) >= 0
        <3>1. Turn(d[j], d[j + 1], p) >= 0
            BY <1>2 DEF Half
        <3> HIDE DEF After
        <3> QED BY <1>3, <1>7, <2>2, <3>1
    <2> QED BY <1>8, <2>1, <2>2
<1>11. ASSUME n > 2, NEW i \in 1 .. n
       PROVE  Turn(hull[i], After(i), After((i % n) + 1)) > 0
    <2>1. CASE i \in 1 .. a /\ i < a
        <3>1. (i % n) + 1 = i + 1
            <4>1. i # n
                BY <1>2, <2>1
            <4> QED BY <4>1, Turning
        <3>2. i + 1 \in 1 .. a /\ i \in 1 .. (Len(c) - 2) /\ (i + 1) + 1 = i + 2
            BY <1>2, <2>1
        <3>3. Turn(c[i], c[i + 1], c[i + 2]) > 0
            BY <3>2 DEF Half
        <3> HIDE DEF After
        <3>4. After((i % n) + 1) = c[(i + 1) + 1]
            BY <1>6, <3>1, <3>2
        <3>5. After(i) = c[i + 1] /\ hull[i] = c[i]
            BY <1>3, <1>6, <2>1
        <3> QED BY <3>2, <3>3, <3>4, <3>5
    <2>2. CASE i = a
        <3>1. (i % n) + 1 = a + 1
            <4>1. i # n
                BY <1>2, <2>2
            <4> QED BY <2>2, <4>1, Turning
        <3>2. 1 \in 1 .. b /\ a \in 1 .. a /\ 1 + 1 = 2 /\ Len(c) - 1 = a
            BY <1>2
        <3>3. Turn(c[a], d[1], d[2]) > 0
            <4>1. FALSE = ~TRUE /\ TRUE \in BOOLEAN
                OBVIOUS
            <4>2. Turn(c[Len(c) - 1], d[1], d[2]) > 0 \/ (Len(c) = 2 /\ Len(d) = 2)
                BY <4>1, JointTurns
            <4> QED BY <1>2, <1>11, <3>2, <4>2
        <3> HIDE DEF After
        <3>4. After((i % n) + 1) = d[1 + 1]
            BY <1>7, <3>1, <3>2
        <3>5. After(i) = d[1] /\ hull[i] = c[a]
            BY <1>3, <1>5, <1>6, <2>2, <3>2
        <3> QED BY <3>2, <3>3, <3>4, <3>5
    <2>3. ASSUME NEW j \in 1 .. b, i = a + j, j < b
          PROVE  Turn(hull[i], After(i), After((i % n) + 1)) > 0
        <3>1. (i % n) + 1 = a + (j + 1)
            <4>1. i # n
                BY <1>2, <2>3
            <4>2. (i % n) + 1 = i + 1
                BY <4>1, Turning
            <4> QED BY <2>3, <4>2
        <3>2. j + 1 \in 1 .. b /\ j \in 1 .. (Len(d) - 2) /\ (j + 1) + 1 = j + 2
            BY <1>2, <2>3
        <3>3. Turn(d[j], d[j + 1], d[j + 2]) > 0
            BY <3>2 DEF Half
        <3> HIDE DEF After
        <3>4. After((i % n) + 1) = d[(j + 1) + 1]
            BY <1>7, <3>1, <3>2
        <3>5. After(i) = d[j + 1] /\ hull[i] = d[j]
            BY <1>3, <1>7, <2>3
        <3> QED BY <3>2, <3>3, <3>4, <3>5
    <2>4. CASE i = n
        <3>1. (i % n) + 1 = 1
            BY <2>4, Turning
        <3>2. 1 \in 1 .. a /\ b \in 1 .. b /\ 1 + 1 = 2 /\ Len(d) - 1 = b /\ i = a + b
            BY <1>2, <2>4
        <3>3. Turn(d[b], c[1], c[2]) > 0
            <4>1. TRUE = ~FALSE /\ FALSE \in BOOLEAN
                OBVIOUS
            <4>2. Turn(d[Len(d) - 1], c[1], c[2]) > 0 \/ (Len(d) = 2 /\ Len(c) = 2)
                BY <4>1, JointTurns
            <4> QED BY <1>2, <1>11, <3>2, <4>2
        <3> HIDE DEF After
        <3>4. After((i % n) + 1) = c[1 + 1]
            BY <1>6, <3>1, <3>2
        <3>5. After(i) = c[1] /\ hull[i] = d[b]
            BY <1>3, <1>5, <1>7, <3>2
        <3> QED BY <3>2, <3>3, <3>4, <3>5
    <2> HIDE DEF After
    <2>5. CASE i \in 1 .. a
        <3>1. i < a \/ i = a
            BY <2>5
        <3> QED BY <2>1, <2>2, <2>5, <3>1
    <2>6. ASSUME NEW j \in 1 .. b, i = a + j
          PROVE  Turn(hull[i], After(i), After((i % n) + 1)) > 0
        <3>1. j < b \/ i = n
            BY <1>2, <2>6
        <3> QED BY <2>3, <2>4, <2>6, <3>1
    <2> QED BY <1>8, <2>5, <2>6
<1>12. HasEnds(hull, S)
    <2>1. 1 \in 1 .. n /\ 1 \in 1 .. a /\ 1 \in 1 .. b /\ a + 1 \in 1 .. n
        BY <1>2
    <2>2. hull[1] = d[Len(d)] /\ hull[a + 1] = c[Len(c)]
        BY <1>3, <2>1
    <2>3. \A p \in S : p = hull[1] \/ Before(hull[1], p)
        BY <2>2 DEF Half, Ahead
    <2>4. \A p \in S : p = hull[a + 1] \/ Before(p, hull[a + 1])
        BY <2>2 DEF Half, Ahead
    <2> QED BY <1>3, <2>1, <2>3, <2>4 DEF HasEnds
<1>13. n > 2 => \A i \in 1 .. n : Turn(hull[i], After(i), After((i % n) + 1)) > 0
    <2> HIDE DEF After
    <2> QED BY <1>11
<1> QED BY <1>3, <1>9, <1>10, <1>12, <1>13 DEF Encloses

LEMMA EndsAre ==
    ASSUME NEW S, NEW hull, NEW i \in 1 .. Len(hull), NEW j \in 1 .. Len(hull),
           \A p \in S : /\ p = hull[i] \/ Before(hull[i], p)
                        /\ p = hull[j] \/ Before(p, hull[j])
    PROVE  HasEnds(hull, S)
BY Zenon DEF HasEnds

LEMMA FewEnclose ==
    ASSUME NEW S \in SUBSET Pair, NEW n \in Nat, n <= 2, NEW hull \in [1 .. n -> S],
           \A p \in S : \E i \in 1 .. n : hull[i] = p
    PROVE  Encloses(S, hull)
<1>1. hull \in Seq(S) /\ Len(hull) = n
    OBVIOUS
<1>2. ASSUME NEW i \in 1 .. n, NEW p \in S
      PROVE  Turn(hull[i], hull[(i % n) + 1], p) >= 0
    <2>1. PICK j \in 1 .. n : hull[j] = p
        OBVIOUS
    <2>2. (i % n) + 1 = IF i = n THEN 1 ELSE i + 1
        BY Turning
    <2>3. hull[i] \in Pair /\ hull[(i % n) + 1] \in Pair
        BY <2>2
    <2>4. p = hull[i] \/ p = hull[(i % n) + 1]
        BY <2>1, <2>2
    <2> QED BY <2>3, <2>4, TurnsBack
<1>3. \A i \in 1 .. n : hull[i] \in S
    OBVIOUS
<1>4. ASSUME S # {}
      PROVE  HasEnds(hull, S)
    <2>1. n = 1 \/ n = 2
        BY <1>4
    <2>2. CASE n = 1
        <3>1. 1 \in 1 .. n /\ \A p \in S : p = hull[1]
            BY <2>2
        <3> QED BY <1>1, <3>1 DEF HasEnds
    <2>3. CASE n = 2
        <3>1. 1 \in 1 .. n /\ 2 \in 1 .. n
            BY <2>3
        <3>2. \A p \in S : p = hull[1] \/ p = hull[2]
            <4>1. \A i \in 1 .. n : i = 1 \/ i = 2
                BY <2>3
            <4> QED BY <4>1
        <3>3. PICK p \in Pair, q \in Pair : p = hull[1] /\ q = hull[2]
            BY <1>3, <3>1
        <3>4. Before(p, q) \/ Before(q, p) \/ p = q
            BY Antisymmetry DEF Ahead
        <3>5. CASE Before(p, q) \/ p = q
            <4>1. \A r \in S : /\ r = hull[1] \/ Before(hull[1], r)
                               /\ r = hull[2] \/ Before(r, hull[2])
                BY <3>2, <3>3, <3>5
            <4>2. 1 \in 1 .. Len(hull) /\ 2 \in 1 .. Len(hull)
                BY <1>1, <3>1
            <4> QED BY <4>1, <4>2, EndsAre
        <3>6. CASE Before(q, p)
            <4>1. \A r \in S : /\ r = hull[2] \/ Before(hull[2], r)
                               /\ r = hull[1] \/ Before(r, hull[1])
                BY <3>2, <3>3, <3>6
            <4>2. 1 \in 1 .. Len(hull) /\ 2 \in 1 .. Len(hull)
                BY <1>1, <3>1
            <4> QED BY <4>1, <4>2, EndsAre
        <3> QED BY <3>4, <3>5, <3>6
    <2> QED BY <2>1, <2>2, <2>3
<1> QED BY <1>1, <1>2, <1>3, <1>4 DEF Encloses

LEMMA BackwardsIs ==
    ASSUME NEW S, NEW n \in Nat, NEW points \in [1 .. n -> S]
    PROVE  \E back \in [1 .. n -> S] :
               back = Reverse(points) /\ \A i \in 1 .. n : back[i] = points[(n - i) + 1]
<1>1. points \in Seq(S) /\ Len(points) = n
    OBVIOUS
<1>2. \A i \in 1 .. n : (n - i) + 1 \in 1 .. n
    OBVIOUS
<1>3. Reverse(points) = [i \in 1 .. n |-> points[(n - i) + 1]]
    BY <1>1 DEF Reverse
<1> DEFINE back == [i \in 1 .. n |-> points[(n - i) + 1]]
<1>4. back \in [1 .. n -> S] /\ \A i \in 1 .. n : back[i] = points[(n - i) + 1]
    BY <1>2
<1>5. back = Reverse(points)
    BY <1>3
<1> HIDE DEF back
<1> QED BY <1>4, <1>5

\* The convex hull of more than two points consists of two halves.
LEMMA HullHalves ==
    ASSUME NEW S \in SUBSET Pair, IsFiniteSet(S), Cardinality(S) > 2
    PROVE  \E c, d : /\ Half(TRUE, S, c) /\ Half(FALSE, S, d)
                      /\ c[Len(c)] = d[1] /\ d[Len(d)] = c[1]
                      /\ ConvexHull(S) = Round(c, d)
<1>1. PICK n \in Nat : n = Cardinality(S) /\ n > 2
    BY FS_CardinalityType
<1>2. PICK points \in [1 .. n -> S] :
        /\ points = Sorted(S)
        /\ \A i \in 1 .. n : Rank(S, points[i]) = i - 1
        /\ \A p \in S : \E i \in 1 .. n : points[i] = p
    BY <1>1, SortedIs DEF Pair
<1>3. Len(points) = n
    OBVIOUS
<1>4. \A i, j \in 1 .. n : i < j => Ahead(TRUE, points[i], points[j])
    <2> SUFFICES ASSUME NEW i \in 1 .. n, NEW j \in 1 .. n, i < j
                 PROVE  Ahead(TRUE, points[i], points[j])
        OBVIOUS
    <2>1. points[i] \in S /\ points[j] \in S
        OBVIOUS
    <2>2. PICK p \in S, q \in S : p = points[i] /\ q = points[j]
        BY <2>1
    <2>3. Rank(S, p) = i - 1 /\ Rank(S, q) = j - 1
        BY <1>2, <2>2
    <2>4. ~Before(q, p)
        <3> SUFFICES ASSUME Before(q, p) PROVE FALSE
            OBVIOUS
        <3>1. Rank(S, q) < Rank(S, p)
            BY RankGrows DEF Pair
        <3> QED BY <2>3, <3>1
    <2>5. p # q
        BY <2>3
    <2>6. p \in Pair /\ q \in Pair
        OBVIOUS
    <2>7. Before(p, q)
        BY <2>4, <2>5, <2>6, Antisymmetry DEF Ahead
    <2> QED BY <2>2, <2>7 DEF Ahead
<1>5. PICK back \in [1 .. n -> S] :
        back = Reverse(points) /\ \A i \in 1 .. n : back[i] = points[(n - i) + 1]
    BY ZenonT(60), BackwardsIs
<1>6. \A i, j \in 1 .. n : i < j => Ahead(FALSE, back[i], back[j])
    <2> SUFFICES ASSUME NEW i \in 1 .. n, NEW j \in 1 .. n, i < j
                 PROVE  Ahead(FALSE, back[i], back[j])
        OBVIOUS
    <2>1. (n - j) + 1 \in 1 .. n /\ (n - i) + 1 \in 1 .. n /\ (n - j) + 1 < (n - i) + 1
        OBVIOUS
    <2>2. Ahead(TRUE, points[(n - j) + 1], points[(n - i) + 1])
        BY <1>4, <2>1
    <2> QED BY <1>5, <2>2 DEF Ahead
<1>7. \A q \in S : \E i \in 1 .. n : q = back[i]
    <2> TAKE q \in S
    <2>1. PICK j \in 1 .. n : points[j] = q
        BY <1>2
    <2>2. (n - j) + 1 \in 1 .. n /\ (n - ((n - j) + 1)) + 1 = j
        OBVIOUS
    <2>3. back[(n - j) + 1] = q
        BY <1>5, <2>1, <2>2
    <2> QED BY <2>2, <2>3
<1>8. back[1] = points[n] /\ back[n] = points[1]
    <2>1. 1 \in 1 .. n /\ n \in 1 .. n /\ (n - 1) + 1 = n /\ (n - n) + 1 = 1
        BY <1>1
    <2> QED BY <1>5, <2>1
<1>9. PICK c : c = Chain(points)
    OBVIOUS
<1>10. PICK d : d = Chain(back)
    OBVIOUS
<1>11. Half(TRUE, S, c) /\ c[1] = points[1] /\ c[Len(c)] = points[n]
    <2>1. n > 1 /\ TRUE \in BOOLEAN /\ \A q \in S : \E i \in 1 .. n : q = points[i]
        BY <1>1, <1>2
    <2> QED BY <1>4, <1>9, <2>1, HalfIs
<1>12. Half(FALSE, S, d) /\ d[1] = back[1] /\ d[Len(d)] = back[n]
    <2>1. n > 1 /\ FALSE \in BOOLEAN
        BY <1>1
    <2> QED BY <1>6, <1>7, <1>10, <2>1, HalfIs
<1>13. ConvexHull(S) = Round(c, d)
    BY <1>1, <1>2, <1>3, <1>5, <1>9, <1>10 DEF ConvexHull, Round
<1> QED BY <1>8, <1>11, <1>12, <1>13

\* The convex hull of a finite set of points.
LEMMA HullEncloses ==
    ASSUME NEW S \in SUBSET Pair, IsFiniteSet(S)
    PROVE  Encloses(S, ConvexHull(S))
<1>1. PICK n \in Nat : n = Cardinality(S)
    BY FS_CardinalityType
<1>2. PICK points \in [1 .. n -> S] :
        /\ points = Sorted(S)
        /\ \A i \in 1 .. n : Rank(S, points[i]) = i - 1
        /\ \A p \in S : \E i \in 1 .. n : points[i] = p
    BY <1>1, SortedIs DEF Pair
<1>3. Len(points) = n
    OBVIOUS
<1>4. CASE n <= 2
    <2>1. ConvexHull(S) = points
        BY <1>2, <1>3, <1>4 DEF ConvexHull
    <2> QED BY <1>2, <1>4, <2>1, FewEnclose
<1>5. CASE n > 2
    <2>1. PICK c, d : /\ Half(TRUE, S, c) /\ Half(FALSE, S, d)
                      /\ c[Len(c)] = d[1] /\ d[Len(d)] = c[1]
                      /\ ConvexHull(S) = Round(c, d)
        BY <1>1, <1>5, HullHalves
    <2>2. PICK hull : hull = Round(c, d)
        OBVIOUS
    <2>3. Encloses(S, hull)
        BY <2>1, <2>2, HalvesEnclose
    <2> QED BY <2>1, <2>2, <2>3
<1> QED BY <1>4, <1>5

-----------------------------------------------------------------------------
(* Numbers *)

LEMMA CancelsStrictly ==
    ASSUME NEW a \in Int, NEW b \in Int, a > 0, a * b > 0
    PROVE  b > 0
<1> SUFFICES ASSUME b <= 0 PROVE FALSE
    OBVIOUS
<1>1. a * (-b) >= 0
    BY Sums
<1>2. a * (-b) = -(a * b)
    OBVIOUS
<1> QED BY <1>1, <1>2

LEMMA Multiplies ==
    ASSUME NEW a \in Int, NEW b \in Int, a > 0, b > 0
    PROVE  a * b > 0
<1>1. a * (b - 1) >= 0
    BY Sums
<1>2. a * (b - 1) = a * b - a
    OBVIOUS
<1> QED BY <1>1, <1>2

LEMMA SquareIsPositive ==
    ASSUME NEW a \in Int
    PROVE  a * a >= 0 /\ (a * a = 0 => a = 0)
<1>1. CASE a > 0
    <2>1. a * a > 0
        BY <1>1, Multiplies
    <2> QED BY <2>1
<1>2. CASE a < 0
    <2>1. (-a) * (-a) > 0
        BY <1>2, Multiplies
    <2>2. (-a) * (-a) = a * a
        OBVIOUS
    <2> QED BY <2>1, <2>2
<1>3. CASE a = 0
    BY <1>3
<1> QED BY <1>1, <1>2, <1>3

\* a by x is not more than b by y.
NotMore(a, x, b, y) == a * y <= b * x

LEMMA RatiosCompose ==
    ASSUME NEW a \in Int, NEW b \in Int, NEW c \in Int,
           NEW x \in Int, NEW y \in Int, NEW z \in Int,
           x > 0, y > 0, z > 0, NotMore(a, x, b, y), NotMore(b, y, c, z)
    PROVE  NotMore(a, x, c, z)
<1>0. a * y <= b * x /\ b * z <= c * y
    BY DEF NotMore
<1> DEFINE s == b * x - a * y
           t == c * y - b * z
           r == c * x - a * z
<1>1. s \in Int /\ t \in Int /\ r \in Int /\ s >= 0 /\ t >= 0
    BY <1>0
<1>2. y * r = t * x + s * z
    OBVIOUS
<1>3. t * x >= 0 /\ s * z >= 0 /\ t * x \in Int /\ s * z \in Int
    <2> HIDE DEF s, t
    <2> QED BY <1>1, Sums
<1>4. y * r >= 0
    BY <1>2, <1>3
<1>5. r >= 0
    <2> HIDE DEF r
    <2> QED BY <1>1, <1>4, Cancels
<1> QED BY <1>5 DEF NotMore

\* x is to f as k is to n.
Proportional(n, k, x, f) == n * x = k * f

LEMMA Roots ==
    ASSUME NEW x \in Int, NEW y \in Int, x >= 0, x * x >= y * y
    PROVE  x >= y
<1> SUFFICES ASSUME y > x PROVE FALSE
    OBVIOUS
<1>1. y - x > 0 /\ y + x > 0
    OBVIOUS
<1>2. (y - x) * (y + x) > 0
    BY <1>1, Multiplies
<1>3. (y - x) * (y + x) = y * y - x * x
    OBVIOUS
<1> QED BY <1>2, <1>3

\* Twice a product of two numbers that one turns into the other is not less than
\* their geometric mean suggests.
LEMMA MixedIsLarge ==
    ASSUME NEW p1 \in Int, NEW q1 \in Int, NEW p2 \in Int, NEW q2 \in Int,
           p1 >= 0, q1 >= 0, p2 >= 0, q2 >= 0,
           NEW N1 \in Int, NEW N2 \in Int, N1 > 0, N2 > 0,
           NEW D \in Int, D * D <= N1 * N2,
           (p1 * q1) * N2 <= (p2 * q2) * N1
    PROVE  N1 * (p1 * q2 + p2 * q1) >= 2 * (p1 * q1) * D
<1>1. PICK F1 \in Int : F1 = p1 * q1
    OBVIOUS
<1>2. PICK F2 \in Int : F2 = p2 * q2
    OBVIOUS
<1>3. PICK c \in Int : c = p1 * q2 + p2 * q1
    OBVIOUS
<1>4. PICK E \in Int : E = p1 * q2 - p2 * q1
    OBVIOUS
<1>5. F1 >= 0 /\ F2 >= 0 /\ c >= 0
    <2>1. p1 * q1 >= 0 /\ p2 * q2 >= 0 /\ p1 * q2 >= 0 /\ p2 * q1 >= 0
        BY Sums
    <2> QED BY <1>1, <1>2, <1>3, <2>1
<1>6. c * c = 4 * (F1 * F2) + E * E
    BY <1>1, <1>2, <1>3, <1>4
<1>7. E * E >= 0
    BY SquareIsPositive
<1>8. PICK G \in Int : G = F2 * N1 - F1 * N2
    OBVIOUS
<1>9. G >= 0
    BY <1>1, <1>2, <1>8
<1>10. PICK H \in Int : H = N1 * N2 - D * D
    OBVIOUS
<1>11. H >= 0
    BY <1>10
<1>12. PICK M \in Int : M = N1 * F1 /\ M >= 0
    <2>1. N1 * F1 >= 0 /\ N1 * F1 \in Int
        BY <1>5, Sums
    <2> QED BY <2>1
<1>13. PICK FF \in Int : FF = F1 * F1 /\ FF >= 0
    BY SquareIsPositive
<1>14. PICK NN \in Int : NN = N1 * N1 /\ NN >= 0
    BY SquareIsPositive
<1>15. (N1 * c) * (N1 * c) - (2 * F1 * D) * (2 * F1 * D)
         = NN * (E * E) + 4 * (M * G) + 4 * (FF * H)
    <2>1. (N1 * c) * (N1 * c) = NN * (c * c)
        BY <1>14
    <2>2. NN * (c * c) = NN * (4 * (F1 * F2) + E * E)
        BY <1>6
    <2>3. NN * (4 * (F1 * F2) + E * E) = 4 * (NN * (F1 * F2)) + NN * (E * E)
        OBVIOUS
    <2>4. NN * (F1 * F2) = M * (F2 * N1)
        BY <1>12, <1>14
    <2>5. F2 * N1 = G + F1 * N2
        BY <1>8
    <2>6. M * (F2 * N1) = M * G + M * (F1 * N2)
        BY <2>5
    <2>7. M * (F1 * N2) = FF * (N1 * N2)
        BY <1>12, <1>13
    <2>8. N1 * N2 = H + D * D
        BY <1>10
    <2>9. FF * (N1 * N2) = FF * H + FF * (D * D)
        BY <2>8
    <2>10. (2 * F1 * D) * (2 * F1 * D) = 4 * (FF * (D * D))
        BY <1>13
    <2>11. (N1 * c) * (N1 * c) = 4 * (NN * (F1 * F2)) + NN * (E * E)
        BY <2>1, <2>2, <2>3
    <2>12. PICK x \in Int : x = (N1 * c) * (N1 * c)
        OBVIOUS
    <2>13. PICK y \in Int : y = (2 * F1 * D) * (2 * F1 * D)
        OBVIOUS
    <2>14. PICK z \in Int : z = NN * (F1 * F2)
        OBVIOUS
    <2>15. PICK w \in Int : w = FF * (D * D)
        OBVIOUS
    <2>16. PICK e \in Int, g \in Int, h \in Int : e = NN * (E * E) /\ g = M * G /\ h = FF * H
        OBVIOUS
    <2>17. x = 4 * z + e
        BY <2>11, <2>12, <2>14, <2>16
    <2>18. z = g + M * (F1 * N2)
        BY <2>4, <2>6, <2>14, <2>16
    <2>19. M * (F1 * N2) = h + w
        BY <2>7, <2>9, <2>15, <2>16
    <2>20. y = 4 * w
        BY <2>10, <2>13, <2>15
    <2>21. x - y = e + 4 * g + 4 * h
        <3>1. z = g + (h + w)
            BY <2>18, <2>19
        <3> QED BY <2>17, <2>20, <3>1
    <2> QED BY <2>12, <2>13, <2>16, <2>21
<1>16. NN * (E * E) >= 0 /\ M * G >= 0 /\ FF * H >= 0
    BY <1>7, <1>9, <1>11, <1>12, <1>13, <1>14, Sums
<1>17. PICK X \in Int : X = N1 * c
    OBVIOUS
<1>18. PICK Y \in Int : Y = 2 * F1 * D
    OBVIOUS
<1>19. X >= 0
    BY <1>5, <1>17, Sums
<1>20. X * X >= Y * Y
    <2>1. X * X - Y * Y = NN * (E * E) + 4 * (M * G) + 4 * (FF * H)
        BY <1>15, <1>17, <1>18
    <2> QED BY <1>16, <2>1
<1>21. X >= Y
    BY <1>19, <1>20, Roots
<1> QED BY <1>1, <1>3, <1>17, <1>18, <1>21

\* The sum of l times x and m times y is k times z, and that of their squares.
Combined(k, l, m, z, x, y) == k * z = l * x + m * y
Squared(k, l, m, z, x, y, D) == k * k * z = l * l * x + m * m * y + 2 * l * m * D

\* The area between two directions is not less than the lesser of the two.
LEMMA BetweenIsLarge ==
    ASSUME NEW p1 \in Int, NEW q1 \in Int, NEW p2 \in Int, NEW q2 \in Int,
           p1 >= 0, q1 >= 0, p2 >= 0, q2 >= 0,
           NEW N1 \in Int, NEW N2 \in Int, N1 > 0, N2 > 0,
           NEW D \in Int, D * D <= N1 * N2,
           NotMore(p1 * q1, N1, p2 * q2, N2),
           NEW a \in Int, NEW b \in Int, a > 0, b > 0,
           NEW p \in Int, NEW q \in Int, NEW N \in Int, NEW k \in Int, k > 0,
           Combined(k, a, b, p, p1, p2), Combined(k, a, b, q, q1, q2),
           Squared(k, a, b, N, N1, N2, D)
    PROVE  NotMore(p1 * q1, N1, p * q, N)
<1>0. /\ (p1 * q1) * N2 <= (p2 * q2) * N1
      /\ k * p = a * p1 + b * p2 /\ k * q = a * q1 + b * q2
      /\ k * k * N = a * a * N1 + b * b * N2 + 2 * a * b * D
    BY DEF NotMore, Combined, Squared
<1>1. PICK F1 \in Int : F1 = p1 * q1
    OBVIOUS
<1>2. PICK F2 \in Int : F2 = p2 * q2
    OBVIOUS
<1>3. PICK c \in Int : c = p1 * q2 + p2 * q1
    OBVIOUS
<1>4. N1 * c >= 2 * F1 * D
    BY <1>0, <1>1, <1>3, MixedIsLarge
<1>5. PICK X \in Int : X = N1 * c - 2 * F1 * D /\ X >= 0
    BY <1>4
<1>6. PICK G \in Int : G = F2 * N1 - F1 * N2 /\ G >= 0
    BY <1>0, <1>1, <1>2
<1>7. PICK kk \in Int : kk = k * k /\ kk > 0
    BY Multiplies
<1>8. PICK ab \in Int : ab = a * b /\ ab > 0
    BY Multiplies
<1>9. PICK bb \in Int : bb = b * b /\ bb > 0
    BY Multiplies
<1>10. kk * (p * q) = (a * a) * F1 + bb * F2 + ab * c
    <2>1. kk * (p * q) = (k * p) * (k * q)
        BY <1>7
    <2>2. (k * p) * (k * q) = (a * p1 + b * p2) * (a * q1 + b * q2)
        BY <1>0
    <2>3. (a * p1 + b * p2) * (a * q1 + b * q2)
            = (a * a) * (p1 * q1) + (b * b) * (p2 * q2) + (a * b) * (p1 * q2 + p2 * q1)
        OBVIOUS
    <2> QED BY <1>1, <1>2, <1>3, <1>8, <1>9, <2>1, <2>2, <2>3
<1>11. kk * N = (a * a) * N1 + bb * N2 + 2 * (ab * D)
    BY <1>0, <1>7, <1>8, <1>9
<1>12. PICK Z \in Int : Z = (p * q) * N1 - F1 * N
    OBVIOUS
<1>13. kk * Z = bb * G + ab * X
    <2>1. kk * Z = (kk * (p * q)) * N1 - F1 * (kk * N)
        BY <1>12
    <2>2. PICK aa \in Int : aa = a * a
        OBVIOUS
    <2>3. kk * Z = (aa * F1 + bb * F2 + ab * c) * N1 - F1 * (aa * N1 + bb * N2 + 2 * (ab * D))
        BY <1>10, <1>11, <2>1, <2>2
    <2>4. (aa * F1 + bb * F2 + ab * c) * N1 - F1 * (aa * N1 + bb * N2 + 2 * (ab * D))
            = bb * (F2 * N1 - F1 * N2) + ab * (N1 * c - 2 * F1 * D)
        OBVIOUS
    <2> QED BY <1>5, <1>6, <2>3, <2>4
<1>14. bb * G >= 0 /\ ab * X >= 0
    BY <1>5, <1>6, <1>8, <1>9, Sums
<1>15. kk * Z >= 0
    BY <1>13, <1>14
<1>16. Z >= 0
    BY <1>7, <1>15, Cancels
<1> QED BY <1>1, <1>12, <1>16 DEF NotMore

-----------------------------------------------------------------------------
(* Vectors *)

LEMMA ProductsAre ==
    ASSUME NEW v \in Pair, NEW w \in Pair
    PROVE  /\ Dot(v, w) \in Int /\ Wedge(v, w) \in Int
           /\ Dot(v, w) = v[1] * w[1] + v[2] * w[2]
           /\ Wedge(v, w) = v[1] * w[2] - v[2] * w[1]
           /\ Dot(w, v) = Dot(v, w) /\ Wedge(w, v) = -Wedge(v, w)
           /\ Wedge(v, v) = 0
<1>1. v[1] \in Int /\ v[2] \in Int /\ w[1] \in Int /\ w[2] \in Int
    BY DEF Pair
<1>2. Dot(v, w) = v[1] * w[1] + v[2] * w[2] /\ Wedge(v, w) = v[1] * w[2] - v[2] * w[1]
    BY DEF Dot, Wedge
<1>3. Dot(w, v) = w[1] * v[1] + w[2] * v[2] /\ Wedge(w, v) = w[1] * v[2] - w[2] * v[1]
    BY DEF Dot, Wedge
<1>4. Wedge(v, v) = v[1] * v[2] - v[2] * v[1]
    BY DEF Wedge
<1> QED BY <1>1, <1>2, <1>3, <1>4

LEMMA DifferenceIs ==
    ASSUME NEW p \in Pair, NEW q \in Pair, NEW w \in Pair
    PROVE  /\ Minus(p, q) \in Pair
           /\ Minus(p, q) = <<0, 0>> => p = q
           /\ Dot(w, Minus(p, q)) = Dot(w, p) - Dot(w, q)
           /\ Wedge(w, Minus(p, q)) = Wedge(w, p) - Wedge(w, q)
<1>1. p[1] \in Int /\ p[2] \in Int /\ q[1] \in Int /\ q[2] \in Int /\ w[1] \in Int /\ w[2] \in Int
      /\ p = <<p[1], p[2]>> /\ q = <<q[1], q[2]>>
    BY DEF Pair
<1>2. Minus(p, q) = <<p[1] - q[1], p[2] - q[2]>>
    BY DEF Minus
<1>3. Minus(p, q) \in Pair
    BY <1>1, <1>2 DEF Pair
<1>4. Minus(p, q) = <<0, 0>> => p = q
    <2> SUFFICES ASSUME Minus(p, q) = <<0, 0>> PROVE p = q
        OBVIOUS
    <2>1. p[1] - q[1] = 0 /\ p[2] - q[2] = 0
        BY <1>2
    <2>2. p[1] = q[1] /\ p[2] = q[2]
        BY <1>1, <2>1
    <2> QED BY <1>1, <2>2
<1>5. Dot(w, Minus(p, q)) = w[1] * (p[1] - q[1]) + w[2] * (p[2] - q[2])
    BY <1>2 DEF Dot
<1>6. Wedge(w, Minus(p, q)) = w[1] * (p[2] - q[2]) - w[2] * (p[1] - q[1])
    BY <1>2 DEF Wedge
<1>7. /\ Dot(w, p) = w[1] * p[1] + w[2] * p[2] /\ Wedge(w, p) = w[1] * p[2] - w[2] * p[1]
      /\ Dot(w, q) = w[1] * q[1] + w[2] * q[2] /\ Wedge(w, q) = w[1] * q[2] - w[2] * q[1]
    BY DEF Dot, Wedge
<1> QED BY <1>1, <1>3, <1>4, <1>5, <1>6, <1>7

LEMMA SquareIs ==
    ASSUME NEW v \in Pair, v # <<0, 0>>
    PROVE  Dot(v, v) \in Int /\ Dot(v, v) > 0
<1>1. v[1] \in Int /\ v[2] \in Int /\ v = <<v[1], v[2]>>
    BY DEF Pair
<1>2. v[1] # 0 \/ v[2] # 0
    BY <1>1
<1>3. Dot(v, v) = v[1] * v[1] + v[2] * v[2]
    BY ProductsAre
<1>4. /\ v[1] * v[1] >= 0 /\ (v[1] * v[1] = 0 => v[1] = 0)
      /\ v[2] * v[2] >= 0 /\ (v[2] * v[2] = 0 => v[2] = 0)
    BY <1>1, SquareIsPositive
<1>5. PICK x \in Int, y \in Int : x = v[1] * v[1] /\ y = v[2] * v[2]
    BY <1>1
<1> QED BY <1>2, <1>3, <1>4, <1>5

\* Products of two vectors, taken along and across a third.
LEMMA Decomposed ==
    ASSUME NEW v \in Pair, NEW w \in Pair, NEW y \in Pair
    PROVE  /\ Dot(y, y) * Dot(v, w) = Dot(y, v) * Dot(y, w) + Wedge(y, v) * Wedge(y, w)
           /\ Dot(y, y) * Wedge(v, w) = Dot(y, v) * Wedge(y, w) - Wedge(y, v) * Dot(y, w)
<1>1. PICK v1 \in Int, v2 \in Int : v[1] = v1 /\ v[2] = v2
    BY Coordinates
<1>2. PICK w1 \in Int, w2 \in Int : w[1] = w1 /\ w[2] = w2
    BY Coordinates
<1>3. PICK y1 \in Int, y2 \in Int : y[1] = y1 /\ y[2] = y2
    BY Coordinates
<1>4. /\ Dot(y, y) = y1 * y1 + y2 * y2
      /\ Dot(v, w) = v1 * w1 + v2 * w2 /\ Wedge(v, w) = v1 * w2 - v2 * w1
      /\ Dot(y, v) = y1 * v1 + y2 * v2 /\ Wedge(y, v) = y1 * v2 - y2 * v1
      /\ Dot(y, w) = y1 * w1 + y2 * w2 /\ Wedge(y, w) = y1 * w2 - y2 * w1
    BY <1>1, <1>2, <1>3, ProductsAre
<1>5. (y1 * y1 + y2 * y2) * (v1 * w1 + v2 * w2)
        = (y1 * v1 + y2 * v2) * (y1 * w1 + y2 * w2) + (y1 * v2 - y2 * v1) * (y1 * w2 - y2 * w1)
    OBVIOUS
<1>6. (y1 * y1 + y2 * y2) * (v1 * w2 - v2 * w1)
        = (y1 * v1 + y2 * v2) * (y1 * w2 - y2 * w1) - (y1 * v2 - y2 * v1) * (y1 * w1 + y2 * w2)
    OBVIOUS
<1> QED BY <1>4, <1>5, <1>6

LEMMA Cauchy ==
    ASSUME NEW v \in Pair, NEW w \in Pair
    PROVE  Dot(v, w) * Dot(v, w) <= Dot(v, v) * Dot(w, w)
<1>1. PICK d \in Int, e \in Int : d = Dot(v, w) /\ e = Wedge(v, w)
    BY ProductsAre
<1>2. Dot(v, v) * Dot(w, w) = d * d + e * e
    BY <1>1, Decomposed
<1>3. e * e >= 0
    BY SquareIsPositive
<1>4. PICK x \in Int, y \in Int : x = d * d /\ y = e * e
    OBVIOUS
<1> QED BY <1>1, <1>2, <1>3, <1>4

LEMMA Cyclic ==
    ASSUME NEW u \in Pair, NEW x \in Pair, NEW h \in Pair, NEW g \in Pair
    PROVE  Dot(u, h) * Wedge(x, g) = Dot(u, x) * Wedge(h, g) + Dot(u, g) * Wedge(x, h)
<1>1. PICK u1 \in Int, u2 \in Int : u[1] = u1 /\ u[2] = u2
    BY Coordinates
<1>2. PICK x1 \in Int, x2 \in Int : x[1] = x1 /\ x[2] = x2
    BY Coordinates
<1>3. PICK h1 \in Int, h2 \in Int : h[1] = h1 /\ h[2] = h2
    BY Coordinates
<1>4. PICK g1 \in Int, g2 \in Int : g[1] = g1 /\ g[2] = g2
    BY Coordinates
<1>5. /\ Dot(u, h) = u1 * h1 + u2 * h2 /\ Wedge(x, g) = x1 * g2 - x2 * g1
      /\ Dot(u, x) = u1 * x1 + u2 * x2 /\ Wedge(h, g) = h1 * g2 - h2 * g1
      /\ Dot(u, g) = u1 * g1 + u2 * g2 /\ Wedge(x, h) = x1 * h2 - x2 * h1
    BY <1>1, <1>2, <1>3, <1>4, ProductsAre
<1>6. (u1 * h1 + u2 * h2) * (x1 * g2 - x2 * g1)
        = (u1 * x1 + u2 * x2) * (h1 * g2 - h2 * g1) + (u1 * g1 + u2 * g2) * (x1 * h2 - x2 * h1)
    OBVIOUS
<1> QED BY <1>5, <1>6

\* In one direction, in the opposite one, or at a right angle.
Aligned(v, w) == Wedge(v, w) = 0 \/ Dot(v, w) = 0

LEMMA ZeroProduct ==
    ASSUME NEW a \in Int, NEW b \in Int, a > 0, a * b = 0
    PROVE  b = 0
<1>1. CASE b > 0
    BY <1>1, Multiplies
<1>2. CASE b < 0
    <2>1. a * (-b) > 0
        BY <1>2, Multiplies
    <2>2. a * (-b) = -(a * b)
        OBVIOUS
    <2> QED BY <2>1, <2>2
<1> QED BY <1>1, <1>2

LEMMA AlignedCommutes ==
    ASSUME NEW v \in Pair, NEW w \in Pair, Aligned(v, w)
    PROVE  Aligned(w, v)
BY ProductsAre DEF Aligned

LEMMA AlignedIsTransitive ==
    ASSUME NEW v \in Pair, NEW y \in Pair, NEW w \in Pair, y # <<0, 0>>,
           Aligned(v, y), Aligned(y, w)
    PROVE  Aligned(v, w)
<1>1. PICK a \in Int, b \in Int : a = Dot(y, v) /\ b = Wedge(y, v) /\ (a = 0 \/ b = 0)
    BY ProductsAre DEF Aligned
<1>2. PICK c \in Int, d \in Int : c = Dot(y, w) /\ d = Wedge(y, w) /\ (c = 0 \/ d = 0)
    BY ProductsAre DEF Aligned
<1>3. PICK n \in Int, x \in Int, z \in Int :
        n = Dot(y, y) /\ x = Dot(v, w) /\ z = Wedge(v, w) /\ n > 0
    BY SquareIs, ProductsAre
<1>4. n * x = a * c + b * d /\ n * z = a * d - b * c
    BY <1>1, <1>2, <1>3, Decomposed
<1>5. n * x = 0 \/ n * z = 0
    <2>1. CASE a = 0 /\ c = 0
        BY <1>4, <2>1
    <2>2. CASE a = 0 /\ d = 0
        BY <1>4, <2>2
    <2>3. CASE b = 0 /\ c = 0
        BY <1>4, <2>3
    <2>4. CASE b = 0 /\ d = 0
        BY <1>4, <2>4
    <2> QED BY <1>1, <1>2, <2>1, <2>2, <2>3, <2>4
<1>6. x = 0 \/ z = 0
    BY <1>3, <1>5, ZeroProduct
<1> QED BY <1>3, <1>6 DEF Aligned

-----------------------------------------------------------------------------
(* The area of a rectangle along a vector *)

Area(S, w) == AreaTimes(Rectangle(S, w))

\* The points that hold the rectangle: the last and the first along w, and across.
Supports(S, w, a, b, c, d) ==
    /\ a \in S /\ b \in S /\ c \in S /\ d \in S
    /\ \A s \in S : Dot(w, b) <= Dot(w, s) /\ Dot(w, s) <= Dot(w, a)
    /\ \A s \in S : Wedge(w, d) <= Wedge(w, s) /\ Wedge(w, s) <= Wedge(w, c)

LEMMA LeastIsThat ==
    ASSUME NEW S \in SUBSET Int, NEW u \in S, \A a \in S : u <= a
    PROVE  Least(S) = u
<1>1. u \in Int /\ S # {}
    OBVIOUS
<1>2. PICK g : g = Least(S)
    OBVIOUS
<1>3. g \in S /\ g <= u
    BY <1>1, <1>2, LeastIs
<1>4. g \in Int /\ u <= g
    BY <1>3
<1> QED BY <1>1, <1>2, <1>3, <1>4

LEMMA AreaIs ==
    ASSUME NEW S \in SUBSET Pair, NEW w \in Pair, NEW a, NEW b, NEW c, NEW d,
           Supports(S, w, a, b, c, d)
    PROVE  Area(S, w) = (Dot(w, a) - Dot(w, b)) * (Wedge(w, c) - Wedge(w, d))
<1> DEFINE L == {Dot(w, p) : p \in S}
           W == {Wedge(w, p) : p \in S}
<1>1. \A s \in S : Dot(w, s) \in Int /\ Wedge(w, s) \in Int
    BY ProductsAre
<1>2. L \in SUBSET Int /\ W \in SUBSET Int
    BY <1>1
<1>3. /\ Dot(w, a) \in L /\ Dot(w, b) \in L
      /\ \A x \in L : Dot(w, b) <= x /\ x <= Dot(w, a)
    BY DEF Supports
<1>4. /\ Wedge(w, c) \in W /\ Wedge(w, d) \in W
      /\ \A x \in W : Wedge(w, d) <= x /\ x <= Wedge(w, c)
    BY DEF Supports
<1>5. Rectangle(S, w) = [kind |-> "box", along |-> w, minx |-> Least(L), maxx |-> Greatest(L),
                         miny |-> Least(W), maxy |-> Greatest(W)]
    BY DEF Rectangle
<1> HIDE DEF L, W
<1>6. Greatest(L) = Dot(w, a) /\ Least(L) = Dot(w, b)
    BY <1>2, <1>3, GreatestIsThat, LeastIsThat
<1>7. Greatest(W) = Wedge(w, c) /\ Least(W) = Wedge(w, d)
    BY <1>2, <1>4, GreatestIsThat, LeastIsThat
<1> QED BY <1>5, <1>6, <1>7 DEF Area, AreaTimes

LEMMA SupportsExist ==
    ASSUME NEW S \in SUBSET Pair, IsFiniteSet(S), S # {}, NEW w \in Pair
    PROVE  \E a, b, c, d \in S : Supports(S, w, a, b, c, d)
<1> DEFINE L == {Dot(w, p) : p \in S}
           W == {Wedge(w, p) : p \in S}
           along == [p \in S |-> Dot(w, p)]
           across == [p \in S |-> Wedge(w, p)]
<1>1. \A s \in S : Dot(w, s) \in Int /\ Wedge(w, s) \in Int
    BY ProductsAre
<1>2. L \in SUBSET Int /\ W \in SUBSET Int /\ L # {} /\ W # {}
    BY <1>1
<1>3. IsFiniteSet(L)
    <2>1. along \in Surjection(S, L)
        BY DEF Surjection
    <2> HIDE DEF L, along
    <2> QED BY <2>1, FS_Surjection
<1>4. IsFiniteSet(W)
    <2>1. across \in Surjection(S, W)
        BY DEF Surjection
    <2> HIDE DEF W, across
    <2> QED BY <2>1, FS_Surjection
<1>5. /\ Least(L) \in L /\ \A x \in L : Least(L) <= x
      /\ Greatest(L) \in L /\ \A x \in L : x <= Greatest(L)
    <2> HIDE DEF L
    <2> QED BY <1>2, <1>3, FiniteHasExtrema
<1>6. /\ Least(W) \in W /\ \A x \in W : Least(W) <= x
      /\ Greatest(W) \in W /\ \A x \in W : x <= Greatest(W)
    <2> HIDE DEF W
    <2> QED BY <1>2, <1>4, FiniteHasExtrema
<1>7. PICK a \in S : Dot(w, a) = Greatest(L)
    BY <1>5
<1>8. PICK b \in S : Dot(w, b) = Least(L)
    BY <1>5
<1>9. PICK c \in S : Wedge(w, c) = Greatest(W)
    BY <1>6
<1>10. PICK d \in S : Wedge(w, d) = Least(W)
    BY <1>6
<1>11. \A s \in S : Dot(w, s) \in L /\ Wedge(w, s) \in W
    OBVIOUS
<1> HIDE DEF L, W
<1>12. Supports(S, w, a, b, c, d)
    BY <1>5, <1>6, <1>7, <1>8, <1>9, <1>10, <1>11 DEF Supports
<1> QED BY <1>12

LEMMA AreaIsInt ==
    ASSUME NEW S \in SUBSET Pair, IsFiniteSet(S), S # {}, NEW w \in Pair
    PROVE  Area(S, w) \in Int
<1>1. PICK a \in S, b \in S, c \in S, d \in S : Supports(S, w, a, b, c, d)
    BY SupportsExist
<1>2. /\ Dot(w, a) \in Int /\ Dot(w, b) \in Int
      /\ Wedge(w, c) \in Int /\ Wedge(w, d) \in Int
    BY ProductsAre
<1>3. Area(S, w) = (Dot(w, a) - Dot(w, b)) * (Wedge(w, c) - Wedge(w, d))
    BY <1>1, AreaIs
<1> QED BY <1>2, <1>3

\* The rectangle along v is not larger than the one along w.
AtMost(S, v, w) == NotMore(Area(S, v), Dot(v, v), Area(S, w), Dot(w, w))

LEMMA AtMostIsTransitive ==
    ASSUME NEW S \in SUBSET Pair, IsFiniteSet(S), S # {},
           NEW v \in Pair, NEW y \in Pair, NEW w \in Pair,
           v # <<0, 0>>, y # <<0, 0>>, w # <<0, 0>>, AtMost(S, v, y), AtMost(S, y, w)
    PROVE  AtMost(S, v, w)
<1>1. PICK a \in Int, b \in Int, c \in Int : a = Area(S, v) /\ b = Area(S, y) /\ c = Area(S, w)
    BY AreaIsInt
<1>2. PICK l \in Int, m \in Int, n \in Int :
        /\ l = Dot(v, v) /\ m = Dot(y, y) /\ n = Dot(w, w)
        /\ l > 0 /\ m > 0 /\ n > 0
    BY SquareIs
<1>3. NotMore(a, l, b, m) /\ NotMore(b, m, c, n)
    BY <1>1, <1>2 DEF AtMost
<1>4. NotMore(a, l, c, n)
    BY <1>2, <1>3, RatiosCompose
<1> QED BY <1>1, <1>2, <1>4 DEF AtMost

LEMMA Monotone ==
    ASSUME NEW n \in Int, NEW k \in Int, n > 0, k > 0,
           NEW x \in Int, NEW y \in Int, NEW f \in Int, NEW g \in Int,
           Proportional(n, k, x, f), Proportional(n, k, y, g), f <= g
    PROVE  x <= y
<1>0. n * x = k * f /\ n * y = k * g
    BY DEF Proportional
<1>1. k * (g - f) >= 0
    BY Sums
<1>2. n * (y - x) = k * (g - f)
    BY <1>0
<1>3. n * (y - x) >= 0
    BY <1>1, <1>2
<1>4. y - x >= 0
    BY <1>3, Cancels
<1> QED BY <1>4

LEMMA ScaledArea ==
    ASSUME NEW n \in Int, NEW k \in Int, n > 0, NEW W \in Int,
           Proportional(n, k, W, k),
           NEW x \in Int, NEW y \in Int, NEW f \in Int, NEW g \in Int,
           Proportional(n, k, x, f), Proportional(n, k, y, g)
    PROVE  Proportional(n, W, x * y, f * g)
<1>0. n * x = k * f /\ n * y = k * g /\ n * W = k * k
    BY DEF Proportional
<1>1. n * (n * (x * y)) = (n * x) * (n * y)
    OBVIOUS
<1>2. (n * x) * (n * y) = (k * f) * (k * g)
    BY <1>0
<1>3. (k * f) * (k * g) = (k * k) * (f * g)
    OBVIOUS
<1>4. (k * k) * (f * g) = n * (W * (f * g))
    BY <1>0
<1>5. PICK A \in Int, B \in Int : A = n * (x * y) /\ B = W * (f * g)
    OBVIOUS
<1>6. n * (A - B) = 0
    <2>1. n * A = n * B
        BY <1>1, <1>2, <1>3, <1>4, <1>5
    <2>2. n * (A - B) = n * A - n * B
        OBVIOUS
    <2> QED BY <2>1, <2>2
<1>7. A - B = 0
    BY <1>6, ZeroProduct
<1> QED BY <1>5, <1>7 DEF Proportional

\* What is measured along and across w is what F and G measure, in another unit.
LEMMA AreaScales ==
    ASSUME NEW S \in SUBSET Pair, NEW w \in Pair,
           NEW n \in Int, NEW k \in Int, n > 0, k > 0, Proportional(n, k, Dot(w, w), k),
           NEW F \in [S -> Int], NEW G \in [S -> Int],
           \A s \in S : /\ Proportional(n, k, Dot(w, s), F[s])
                        /\ Proportional(n, k, Wedge(w, s), G[s]),
           NEW a \in S, NEW b \in S, NEW c \in S, NEW d \in S,
           \A s \in S : F[b] <= F[s] /\ F[s] <= F[a],
           \A s \in S : G[d] <= G[s] /\ G[s] <= G[c]
    PROVE  Proportional(n, Dot(w, w), Area(S, w), (F[a] - F[b]) * (G[c] - G[d]))
<1>1. \A s \in S : /\ Dot(w, s) \in Int /\ Wedge(w, s) \in Int
                   /\ F[s] \in Int /\ G[s] \in Int
    BY ProductsAre
<1>2. \A s, t \in S : F[s] <= F[t] => Dot(w, s) <= Dot(w, t)
    BY <1>1, Monotone
<1>3. \A s, t \in S : G[s] <= G[t] => Wedge(w, s) <= Wedge(w, t)
    BY <1>1, Monotone
<1>4. Supports(S, w, a, b, c, d)
    BY <1>2, <1>3 DEF Supports
<1>5. PICK x \in Int, y \in Int : x = Dot(w, a) - Dot(w, b) /\ y = Wedge(w, c) - Wedge(w, d)
    BY <1>1
<1>6. PICK f \in Int, g \in Int : f = F[a] - F[b] /\ g = G[c] - G[d]
    BY <1>1
<1>7. Proportional(n, k, x, f)
    <2>0. n * Dot(w, a) = k * F[a] /\ n * Dot(w, b) = k * F[b]
        BY DEF Proportional
    <2>1. n * x = n * Dot(w, a) - n * Dot(w, b)
        BY <1>1, <1>5
    <2>2. k * f = k * F[a] - k * F[b]
        BY <1>1, <1>6
    <2> QED BY <2>0, <2>1, <2>2 DEF Proportional
<1>8. Proportional(n, k, y, g)
    <2>0. n * Wedge(w, c) = k * G[c] /\ n * Wedge(w, d) = k * G[d]
        BY DEF Proportional
    <2>1. n * y = n * Wedge(w, c) - n * Wedge(w, d)
        BY <1>1, <1>5
    <2>2. k * g = k * G[c] - k * G[d]
        BY <1>1, <1>6
    <2> QED BY <2>0, <2>1, <2>2 DEF Proportional
<1>9. PICK W \in Int : W = Dot(w, w)
    BY ProductsAre
<1>10. Proportional(n, W, x * y, f * g)
    BY <1>7, <1>8, <1>9, ScaledArea
<1>11. Area(S, w) = x * y
    BY <1>4, <1>5, AreaIs
<1> QED BY <1>6, <1>9, <1>10, <1>11

\* Turning a rectangle by a right angle, or stretching its vector, does not change
\* its area.
LEMMA AlignedAreas ==
    ASSUME NEW S \in SUBSET Pair, IsFiniteSet(S), S # {},
           NEW v \in Pair, NEW w \in Pair, v # <<0, 0>>, w # <<0, 0>>, Aligned(v, w)
    PROVE  AtMost(S, v, w)
<1>1. PICK a \in S, b \in S, c \in S, d \in S : Supports(S, v, a, b, c, d)
    BY SupportsExist
<1>2. PICK n \in Int : n = Dot(v, v) /\ n > 0
    BY SquareIs
<1>3. PICK W \in Int : W = Dot(w, w) /\ W > 0
    BY SquareIs
<1>4. PICK m \in Int, e \in Int : m = Dot(v, w) /\ e = Wedge(v, w) /\ (m = 0 \/ e = 0)
    BY ProductsAre DEF Aligned
<1>5. n * W = m * m + e * e
    BY <1>2, <1>3, <1>4, Decomposed
<1> DEFINE F == [s \in S |-> Dot(v, s)]
           G == [s \in S |-> Wedge(v, s)]
           F2 == [s \in S |-> -Dot(v, s)]
           G2 == [s \in S |-> -Wedge(v, s)]
<1>6. \A s \in S : /\ Dot(v, s) \in Int /\ Wedge(v, s) \in Int
                   /\ Dot(w, s) \in Int /\ Wedge(w, s) \in Int
    BY ProductsAre
<1>7. /\ F \in [S -> Int] /\ G \in [S -> Int] /\ F2 \in [S -> Int] /\ G2 \in [S -> Int]
      /\ \A s \in S : F[s] = Dot(v, s) /\ G[s] = Wedge(v, s) /\ F2[s] = -F[s] /\ G2[s] = -G[s]
    BY <1>6
<1> HIDE DEF F, G, F2, G2
<1>8. \A s \in S : /\ n * Dot(w, s) = m * F[s] + e * G[s]
                   /\ n * Wedge(w, s) = m * G[s] - e * F[s]
    <2> TAKE s \in S
    <2>1. s \in Pair
        OBVIOUS
    <2>2. /\ Dot(v, v) * Dot(w, s) = Dot(v, w) * Dot(v, s) + Wedge(v, w) * Wedge(v, s)
          /\ Dot(v, v) * Wedge(w, s) = Dot(v, w) * Wedge(v, s) - Wedge(v, w) * Dot(v, s)
        BY <2>1, Decomposed
    <2> QED BY <1>2, <1>4, <1>7, <2>2
<1>9. /\ \A s \in S : F[b] <= F[s] /\ F[s] <= F[a]
      /\ \A s \in S : G[d] <= G[s] /\ G[s] <= G[c]
    BY <1>1, <1>7 DEF Supports
<1>10. /\ \A s \in S : F[s] \in Int /\ G[s] \in Int
       /\ \A s \in S : F2[a] <= F2[s] /\ F2[s] <= F2[b]
       /\ \A s \in S : G2[c] <= G2[s] /\ G2[s] <= G2[d]
    BY <1>7, <1>9
<1>11. PICK f \in Int, g \in Int :
         /\ f = F[a] - F[b] /\ g = G[c] - G[d]
         /\ f = F2[b] - F2[a] /\ g = G2[d] - G2[c]
    BY <1>7, <1>10
<1>12. Area(S, v) = f * g
    BY <1>1, <1>7, <1>11, AreaIs
<1>13. Proportional(n, W, Area(S, w), f * g)
    <2>1. CASE e = 0 /\ m > 0
        <3>1. \A s \in S : /\ Proportional(n, m, Dot(w, s), F[s])
                           /\ Proportional(n, m, Wedge(w, s), G[s])
            BY <1>8, <1>10, <2>1 DEF Proportional
        <3>2. Proportional(n, m, W, m)
            BY <1>5, <2>1 DEF Proportional
        <3>3. Proportional(n, W, Area(S, w), (F[a] - F[b]) * (G[c] - G[d]))
            BY <1>2, <1>3, <1>7, <1>9, <2>1, <3>1, <3>2, AreaScales
        <3> QED BY <1>11, <3>3
    <2>2. CASE e = 0 /\ m < 0
        <3>0. PICK k \in Int : k = -m /\ k > 0
            BY <2>2
        <3>1. \A s \in S : /\ Proportional(n, k, Dot(w, s), F2[s])
                           /\ Proportional(n, k, Wedge(w, s), G2[s])
            BY <1>7, <1>8, <1>10, <2>2, <3>0 DEF Proportional
        <3>2. Proportional(n, k, W, k)
            BY <1>5, <2>2, <3>0 DEF Proportional
        <3>3. Proportional(n, W, Area(S, w), (F2[b] - F2[a]) * (G2[d] - G2[c]))
            BY <1>2, <1>3, <1>7, <1>10, <3>0, <3>1, <3>2, AreaScales
        <3> QED BY <1>11, <3>3
    <2>3. CASE m = 0 /\ e > 0
        <3>1. \A s \in S : /\ Proportional(n, e, Dot(w, s), G[s])
                           /\ Proportional(n, e, Wedge(w, s), F2[s])
            BY <1>7, <1>8, <1>10, <2>3 DEF Proportional
        <3>2. Proportional(n, e, W, e)
            BY <1>5, <2>3 DEF Proportional
        <3>3. Proportional(n, W, Area(S, w), (G[c] - G[d]) * (F2[b] - F2[a]))
            BY <1>2, <1>3, <1>7, <1>9, <1>10, <2>3, <3>1, <3>2, AreaScales
        <3>4. g * f = f * g
            OBVIOUS
        <3> QED BY <1>11, <3>3, <3>4
    <2>4. CASE m = 0 /\ e < 0
        <3>0. PICK k \in Int : k = -e /\ k > 0
            BY <2>4
        <3>1. \A s \in S : /\ Proportional(n, k, Dot(w, s), G2[s])
                           /\ Proportional(n, k, Wedge(w, s), F[s])
            BY <1>7, <1>8, <1>10, <2>4, <3>0 DEF Proportional
        <3>2. Proportional(n, k, W, k)
            BY <1>5, <2>4, <3>0 DEF Proportional
        <3>3. Proportional(n, W, Area(S, w), (G2[d] - G2[c]) * (F[a] - F[b]))
            BY <1>2, <1>3, <1>7, <1>9, <1>10, <3>0, <3>1, <3>2, AreaScales
        <3>4. g * f = f * g
            OBVIOUS
        <3> QED BY <1>11, <3>3, <3>4
    <2>5. m # 0 \/ e # 0
        <3> SUFFICES ASSUME m = 0, e = 0 PROVE FALSE
            OBVIOUS
        <3>1. n * W > 0
            BY <1>2, <1>3, Multiplies
        <3> QED BY <1>5, <3>1
    <2> QED BY <1>4, <2>1, <2>2, <2>3, <2>4, <2>5
<1>14. PICK A \in Int, B \in Int : A = Area(S, w) /\ B = f * g
    BY AreaIsInt
<1>15. n * A = W * B
    BY <1>13, <1>14 DEF Proportional
<1>16. B * W <= A * n
    BY <1>15
<1> QED BY <1>2, <1>3, <1>12, <1>14, <1>16 DEF AtMost, NotMore

\* Between two directions in which the same points hold the rectangle, it is not
\* smaller than in both.
LEMMA BetweenIsNotSmaller ==
    ASSUME NEW S \in SUBSET Pair, IsFiniteSet(S), S # {},
           NEW u \in Pair, NEW v \in Pair, NEW w \in Pair,
           v # <<0, 0>>, w # <<0, 0>>,
           NEW a, NEW b, NEW c, NEW d,
           Supports(S, u, a, b, c, d), Supports(S, v, a, b, c, d), Supports(S, w, a, b, c, d),
           NEW k \in Int, NEW l \in Int, NEW m \in Int, k > 0, l > 0, m > 0,
           k * u[1] = l * v[1] + m * w[1], k * u[2] = l * v[2] + m * w[2],
           NotMore(Area(S, v), Dot(v, v), Area(S, w), Dot(w, w))
    PROVE  AtMost(S, v, u)
<1>1. /\ a \in Pair /\ b \in Pair /\ c \in Pair /\ d \in Pair
      /\ a \in S /\ b \in S /\ c \in S /\ d \in S
    BY DEF Supports
<1>2. PICK p1 \in Int, q1 \in Int :
        p1 = Dot(v, a) - Dot(v, b) /\ q1 = Wedge(v, c) - Wedge(v, d) /\ p1 >= 0 /\ q1 >= 0
    BY <1>1, ProductsAre DEF Supports
<1>3. PICK p2 \in Int, q2 \in Int :
        p2 = Dot(w, a) - Dot(w, b) /\ q2 = Wedge(w, c) - Wedge(w, d) /\ p2 >= 0 /\ q2 >= 0
    BY <1>1, ProductsAre DEF Supports
<1>4. PICK p \in Int, q \in Int :
        p = Dot(u, a) - Dot(u, b) /\ q = Wedge(u, c) - Wedge(u, d)
    BY <1>1, ProductsAre
<1>5. PICK N1 \in Int, N2 \in Int :
        N1 = Dot(v, v) /\ N2 = Dot(w, w) /\ N1 > 0 /\ N2 > 0
    BY SquareIs
<1>6. PICK N \in Int, D \in Int : N = Dot(u, u) /\ D = Dot(v, w)
    BY ProductsAre
<1>7. D * D <= N1 * N2
    BY <1>5, <1>6, Cauchy
<1>8. Area(S, v) = p1 * q1 /\ Area(S, w) = p2 * q2 /\ Area(S, u) = p * q
    BY <1>2, <1>3, <1>4, AreaIs
<1>9. NotMore(p1 * q1, N1, p2 * q2, N2)
    BY <1>5, <1>8
<1>10. PICK u1 \in Int, u2 \in Int : u[1] = u1 /\ u[2] = u2
    BY Coordinates
<1>11. PICK v1 \in Int, v2 \in Int : v[1] = v1 /\ v[2] = v2
    BY Coordinates
<1>12. PICK w1 \in Int, w2 \in Int : w[1] = w1 /\ w[2] = w2
    BY Coordinates
<1>13. k * u1 = l * v1 + m * w1 /\ k * u2 = l * v2 + m * w2
    BY <1>10, <1>11, <1>12
<1>14. \A s \in Pair : /\ k * Dot(u, s) = l * Dot(v, s) + m * Dot(w, s)
                       /\ k * Wedge(u, s) = l * Wedge(v, s) + m * Wedge(w, s)
    <2> TAKE s \in Pair
    <2>1. PICK s1 \in Int, s2 \in Int : s[1] = s1 /\ s[2] = s2
        BY Coordinates
    <2>2. /\ Dot(u, s) = u1 * s1 + u2 * s2 /\ Wedge(u, s) = u1 * s2 - u2 * s1
          /\ Dot(v, s) = v1 * s1 + v2 * s2 /\ Wedge(v, s) = v1 * s2 - v2 * s1
          /\ Dot(w, s) = w1 * s1 + w2 * s2 /\ Wedge(w, s) = w1 * s2 - w2 * s1
        BY <1>10, <1>11, <1>12, <2>1, ProductsAre
    <2>3. k * (u1 * s1 + u2 * s2) = (k * u1) * s1 + (k * u2) * s2
          /\ k * (u1 * s2 - u2 * s1) = (k * u1) * s2 - (k * u2) * s1
        OBVIOUS
    <2>4. (k * u1) * s1 + (k * u2) * s2 = (l * v1 + m * w1) * s1 + (l * v2 + m * w2) * s2
          /\ (k * u1) * s2 - (k * u2) * s1 = (l * v1 + m * w1) * s2 - (l * v2 + m * w2) * s1
        BY <1>13
    <2>5. (l * v1 + m * w1) * s1 + (l * v2 + m * w2) * s2
            = l * (v1 * s1 + v2 * s2) + m * (w1 * s1 + w2 * s2)
          /\ (l * v1 + m * w1) * s2 - (l * v2 + m * w2) * s1
            = l * (v1 * s2 - v2 * s1) + m * (w1 * s2 - w2 * s1)
        OBVIOUS
    <2> QED BY <2>2, <2>3, <2>4, <2>5
<1>15. k * p = l * p1 + m * p2
    <2>1. PICK x \in Int, y \in Int : x = Dot(u, a) /\ y = Dot(u, b)
        BY <1>1, ProductsAre
    <2>2. PICK x1 \in Int, y1 \in Int : x1 = Dot(v, a) /\ y1 = Dot(v, b)
        BY <1>1, ProductsAre
    <2>3. PICK x2 \in Int, y2 \in Int : x2 = Dot(w, a) /\ y2 = Dot(w, b)
        BY <1>1, ProductsAre
    <2>4. k * x = l * x1 + m * x2 /\ k * y = l * y1 + m * y2
        BY <1>1, <1>14, <2>1, <2>2, <2>3
    <2>5. p = x - y /\ p1 = x1 - y1 /\ p2 = x2 - y2
        BY <1>2, <1>3, <1>4, <2>1, <2>2, <2>3
    <2> QED BY <2>4, <2>5
<1>16. k * q = l * q1 + m * q2
    <2>1. PICK x \in Int, y \in Int : x = Wedge(u, c) /\ y = Wedge(u, d)
        BY <1>1, ProductsAre
    <2>2. PICK x1 \in Int, y1 \in Int : x1 = Wedge(v, c) /\ y1 = Wedge(v, d)
        BY <1>1, ProductsAre
    <2>3. PICK x2 \in Int, y2 \in Int : x2 = Wedge(w, c) /\ y2 = Wedge(w, d)
        BY <1>1, ProductsAre
    <2>4. k * x = l * x1 + m * x2 /\ k * y = l * y1 + m * y2
        BY <1>1, <1>14, <2>1, <2>2, <2>3
    <2>5. q = x - y /\ q1 = x1 - y1 /\ q2 = x2 - y2
        BY <1>2, <1>3, <1>4, <2>1, <2>2, <2>3
    <2> QED BY <2>4, <2>5
<1>17. k * k * N = l * l * N1 + m * m * N2 + 2 * l * m * D
    <2>1. /\ N = u1 * u1 + u2 * u2 /\ N1 = v1 * v1 + v2 * v2 /\ N2 = w1 * w1 + w2 * w2
          /\ D = v1 * w1 + v2 * w2
        BY <1>5, <1>6, <1>10, <1>11, <1>12, ProductsAre
    <2>2. k * k * (u1 * u1 + u2 * u2) = (k * u1) * (k * u1) + (k * u2) * (k * u2)
        OBVIOUS
    <2>3. (k * u1) * (k * u1) + (k * u2) * (k * u2)
            = (l * v1 + m * w1) * (l * v1 + m * w1) + (l * v2 + m * w2) * (l * v2 + m * w2)
        BY <1>13
    <2>4. (l * v1 + m * w1) * (l * v1 + m * w1) + (l * v2 + m * w2) * (l * v2 + m * w2)
            = l * l * (v1 * v1 + v2 * v2) + m * m * (w1 * w1 + w2 * w2)
              + 2 * l * m * (v1 * w1 + v2 * w2)
        OBVIOUS
    <2> QED BY <2>1, <2>2, <2>3, <2>4
<1>18. Combined(k, l, m, p, p1, p2) /\ Combined(k, l, m, q, q1, q2)
       /\ Squared(k, l, m, N, N1, N2, D)
    BY <1>15, <1>16, <1>17 DEF Combined, Squared
<1>19. NotMore(p1 * q1, N1, p * q, N)
    BY <1>2, <1>3, <1>5, <1>7, <1>9, <1>18, BetweenIsLarge
<1> QED BY <1>5, <1>6, <1>8, <1>19 DEF AtMost

-----------------------------------------------------------------------------
(* A line with all points on one side and two of them on it runs along an edge *)

LEMMA AheadIsTransitive ==
    ASSUME NEW up \in BOOLEAN, NEW p \in Pair, NEW q \in Pair, NEW r \in Pair,
           Ahead(up, p, q), Ahead(up, q, r)
    PROVE  Ahead(up, p, r)
BY DEF Ahead, Before, Pair

LEMMA CrossTurned ==
    ASSUME NEW a \in Pair, NEW b \in Pair, NEW c \in Pair, NEW d \in Pair
    PROVE  /\ Cross(a, b, c, d) = -Cross(c, d, a, b)
           /\ Cross(a, b, c, d) = -Cross(a, b, d, c)
<1>1. PICK v \in Pair : v = Minus(b, a)
    BY DifferenceIs
<1>2. PICK w \in Pair : w = Minus(d, c)
    BY DifferenceIs
<1>3. Wedge(v, w) = -Wedge(w, v)
    BY ProductsAre
<1>4. /\ Wedge(v, Minus(d, c)) = Wedge(v, d) - Wedge(v, c)
      /\ Wedge(v, Minus(c, d)) = Wedge(v, c) - Wedge(v, d)
    BY DifferenceIs
<1>5. Wedge(v, d) \in Int /\ Wedge(v, c) \in Int
    BY ProductsAre
<1>6. Wedge(v, Minus(d, c)) = -Wedge(v, Minus(c, d))
    BY <1>4, <1>5
<1> QED BY <1>1, <1>2, <1>3, <1>6 DEF Cross

\* An edge from e to f passes a point p of the line between its ends.
LEMMA EdgeOnLine ==
    ASSUME NEW up \in BOOLEAN, NEW e \in Pair, NEW f \in Pair, NEW p \in Pair, NEW s \in Pair,
           e = p \/ Ahead(up, e, p), Ahead(up, p, f), Ahead(up, p, s), Ahead(up, e, f),
           Turn(e, f, p) >= 0, Turn(e, f, s) >= 0, Turn(p, s, e) >= 0, Turn(p, s, f) >= 0
    PROVE  Cross(e, f, p, s) = 0
<1>1. CASE e = p
    <2>1. /\ Turn(p, s, f) = Cross(p, s, p, f) /\ Turn(p, f, s) = -Cross(p, s, p, f)
          /\ Turn(p, f, s) = Cross(p, f, p, s)
          /\ Cross(p, s, p, f) \in Int
        BY TurnsBack, CrossIs
    <2> QED BY <1>1, <2>1
<1>2. CASE Ahead(up, e, p)
    <2>1. Cross(e, p, p, s) >= 0 /\ Cross(p, s, p, f) >= 0
        BY TurnsBack
    <2>2. Cross(e, p, p, f) >= 0
        BY <1>2, <2>1, Fan
    <2>3. /\ Turn(e, f, p) = -Cross(e, p, e, f) /\ Turn(e, p, f) = Cross(e, p, e, f)
          /\ Turn(e, p, f) = Cross(e, p, p, f) /\ Turn(e, f, p) = Cross(p, f, e, f)
          /\ Turn(e, f, p) = Cross(e, f, e, p)
          /\ Cross(e, p, e, f) \in Int
        BY TurnsBack, CrossIs
    <2>4. Turn(e, f, p) = 0
        BY <2>2, <2>3
    <2>5. Cross(e, f, e, p) >= 0 /\ Cross(p, f, e, f) >= 0
        BY <2>3, <2>4
    <2>6. Cross(e, f, p, s) >= 0
        BY <1>2, <2>1, <2>5, Fan
    <2>7. Cross(p, s, e, f) >= 0
        BY <2>1, <2>5, Fan
    <2>8. Cross(e, f, p, s) = -Cross(p, s, e, f) /\ Cross(p, s, e, f) \in Int
        BY CrossTurned, CrossIs
    <2> QED BY <2>6, <2>7, <2>8
<1> QED BY <1>1, <1>2

LEMMA HalfHasEdge ==
    ASSUME NEW up \in BOOLEAN, NEW S \in SUBSET Pair, NEW c, Half(up, S, c),
           \A q \in S : q = c[1] \/ Ahead(up, c[1], q),
           NEW p \in S, NEW s \in S, Ahead(up, p, s), \A q \in S : Turn(p, s, q) >= 0
    PROVE  \E i \in 1 .. (Len(c) - 1) : Cross(c[i], c[i + 1], p, s) = 0
<1>1. PICK m \in Nat : m = Len(c) /\ m > 1
    BY DEF Half
<1>2. \A i \in 1 .. m : c[i] \in S
    BY <1>1 DEF Half
<1> DEFINE I == {i \in 1 .. m : c[i] = p \/ Ahead(up, c[i], p)}
<1>3. I \in SUBSET Int /\ 1 \in I /\ \A i \in I : i <= m
    <2>1. p = c[1] \/ Ahead(up, c[1], p)
        OBVIOUS
    <2> QED BY <1>1, <2>1
<1>4. PICK i \in I : \A j \in I : j <= i
    <2> HIDE DEF I
    <2>1. Greatest(I) \in I /\ \A j \in I : j <= Greatest(I)
        <3>1. m \in Int /\ I # {}
            BY <1>3
        <3> QED BY <1>3, <3>1, GreatestIs
    <2> QED BY <2>1
<1>5. i \in 1 .. m /\ (c[i] = p \/ Ahead(up, c[i], p))
    OBVIOUS
<1>6. i # m
    <2> SUFFICES ASSUME i = m PROVE FALSE
        OBVIOUS
    <2>1. c[m] \in Pair /\ p \in Pair /\ s \in Pair
        BY <1>1, <1>2
    <2>2. s = c[m] \/ Ahead(up, s, c[m])
        BY <1>1 DEF Half
    <2>3. Ahead(up, p, c[m])
        BY <2>1, <2>2, AheadIsTransitive
    <2> QED BY <1>5, <2>1, <2>3, Antisymmetry
<1>7. i \in 1 .. (m - 1) /\ i + 1 \in 1 .. m /\ i + 1 \notin I
    <2>1. i \in 1 .. (m - 1) /\ i + 1 \in 1 .. m /\ i + 1 > i
        BY <1>5, <1>6
    <2> HIDE DEF I
    <2> QED BY <1>4, <2>1
<1>8. PICK e \in S, f \in S : e = c[i] /\ f = c[i + 1]
    BY <1>2, <1>5, <1>7
<1>9. Ahead(up, p, f)
    <2>1. ~(f = p \/ Ahead(up, f, p))
        BY <1>7, <1>8
    <2> QED BY <2>1, Antisymmetry
<1>10. Ahead(up, e, f) /\ Turn(e, f, p) >= 0 /\ Turn(e, f, s) >= 0
    BY <1>1, <1>5, <1>7, <1>8 DEF Half
<1>11. Cross(e, f, p, s) = 0
    <2>1. e \in Pair /\ f \in Pair /\ p \in Pair /\ s \in Pair
        OBVIOUS
    <2> QED BY <1>5, <1>8, <1>9, <1>10, <2>1, EdgeOnLine
<1> QED BY <1>1, <1>7, <1>8, <1>11

\* The vector of an edge.
EdgeOf(hull, i) == Minus(Follower(hull, i), hull[i])

\* An edge that is no point and runs along x, to or fro.
Along(hull, i, x) ==
    EdgeOf(hull, i) \in Pair \ {<<0, 0>>} /\ Wedge(EdgeOf(hull, i), x) = 0

LEMMA HullHasEdge ==
    ASSUME NEW S \in SUBSET Pair, IsFiniteSet(S),
           NEW p \in S, NEW s \in S, p # s, \A q \in S : Turn(p, s, q) >= 0
    PROVE  \E i \in 1 .. Len(ConvexHull(S)) : Along(ConvexHull(S), i, Minus(s, p))
<1>1. PICK n \in Nat : n = Cardinality(S)
    BY FS_CardinalityType
<1>2. PICK hull : hull = ConvexHull(S)
    OBVIOUS
<1>3. p \in Pair /\ s \in Pair
    OBVIOUS
<1>4. CASE n <= 2
    <2>1. PICK points \in [1 .. n -> S] :
            points = Sorted(S) /\ \A q \in S : \E i \in 1 .. n : points[i] = q
        BY <1>1, SortedIs DEF Pair
    <2>2. hull = points /\ Len(hull) = n
        BY <1>1, <1>2, <1>4, <2>1 DEF ConvexHull
    <2>3. PICK i \in 1 .. n, j \in 1 .. n : hull[i] = p /\ hull[j] = s /\ i # j
        BY <2>1, <2>2
    <2>4. (i % n) + 1 = j
        <3>1. (i % n) + 1 = IF i = n THEN 1 ELSE i + 1
            BY Turning
        <3> QED BY <1>4, <2>3, <3>1
    <2>5. EdgeOf(hull, i) = Minus(s, p)
        BY <2>2, <2>3, <2>4 DEF EdgeOf, Follower
    <2>6. Wedge(Minus(s, p), Minus(s, p)) = 0
        BY <1>3, DifferenceIs, ProductsAre
    <2>7. Minus(s, p) \in Pair \ {<<0, 0>>}
        BY <1>3, DifferenceIs
    <2> QED BY <1>2, <2>2, <2>5, <2>6, <2>7 DEF Along
<1>5. CASE n > 2
    <2>1. PICK c, d : /\ Half(TRUE, S, c) /\ Half(FALSE, S, d)
                      /\ c[Len(c)] = d[1] /\ d[Len(d)] = c[1]
                      /\ hull = Round(c, d)
        BY <1>1, <1>2, <1>5, HullHalves
    <2>2. c \in Seq(S) /\ d \in Seq(S) /\ Len(c) > 1 /\ Len(d) > 1
        BY <2>1 DEF Half
    <2>3. PICK a \in Nat : Len(c) = a + 1 /\ a > 0
        BY <2>2, OneLess
    <2>4. PICK b \in Nat : Len(d) = b + 1 /\ b > 0
        BY <2>2, OneLess
    <2>5. Edged(S, a, b, c, d, hull)
        BY <2>1, <2>2, <2>3, <2>4, RoundIsEdged
    <2>6. Len(hull) = a + b
        BY <2>5 DEF Edged, Joined
    <2>7. CASE Ahead(TRUE, p, s)
        <3>1. \A q \in S : q = c[1] \/ Ahead(TRUE, c[1], q)
            BY <2>1 DEF Half, Ahead
        <3>2. TRUE \in BOOLEAN
            OBVIOUS
        <3>3. PICK i \in 1 .. (Len(c) - 1) : Cross(c[i], c[i + 1], p, s) = 0
            BY <2>1, <2>7, <3>1, <3>2, HalfHasEdge
        <3>4. i \in 1 .. a /\ i \in 1 .. (a + b)
            BY <2>3
        <3>5. EdgeOf(hull, i) = Minus(c[i + 1], c[i])
            BY <2>5, <3>4 DEF Edged, Joined, EdgeOf
        <3>6. i \in 1 .. Len(c) /\ i + 1 \in 1 .. Len(c) /\ i < i + 1
            BY <2>3, <3>4
        <3>7. c[i] \in Pair /\ c[i + 1] \in Pair /\ Ahead(TRUE, c[i], c[i + 1])
            <4>1. c[i] \in S /\ c[i + 1] \in S
                BY <2>2, <3>6
            <4>2. Ahead(TRUE, c[i], c[i + 1])
                BY <2>1, <3>6 DEF Half
            <4> QED BY <4>1, <4>2
        <3>8. Minus(c[i + 1], c[i]) \in Pair \ {<<0, 0>>}
            BY <3>2, <3>7, DifferenceIs, Antisymmetry
        <3>9. Along(hull, i, Minus(s, p))
            BY <3>3, <3>5, <3>8 DEF Cross, Along
        <3> QED BY <1>2, <2>6, <3>4, <3>9
    <2>8. CASE Ahead(FALSE, p, s)
        <3>1. \A q \in S : q = d[1] \/ Ahead(FALSE, d[1], q)
            BY <2>1 DEF Half, Ahead
        <3>2. FALSE \in BOOLEAN
            OBVIOUS
        <3>3. PICK i \in 1 .. (Len(d) - 1) : Cross(d[i], d[i + 1], p, s) = 0
            BY <2>1, <2>8, <3>1, <3>2, HalfHasEdge
        <3>4. i \in 1 .. b /\ a + i \in 1 .. (a + b)
            BY <2>4
        <3>5. EdgeOf(hull, a + i) = Minus(d[i + 1], d[i])
            BY <2>5, <3>4 DEF Edged, Joined, EdgeOf
        <3>6. i \in 1 .. Len(d) /\ i + 1 \in 1 .. Len(d) /\ i < i + 1
            BY <2>4, <3>4
        <3>7. d[i] \in Pair /\ d[i + 1] \in Pair /\ Ahead(FALSE, d[i], d[i + 1])
            <4>1. d[i] \in S /\ d[i + 1] \in S
                BY <2>2, <3>6
            <4>2. Ahead(FALSE, d[i], d[i + 1])
                BY <2>1, <3>6 DEF Half
            <4> QED BY <4>1, <4>2
        <3>8. Minus(d[i + 1], d[i]) \in Pair \ {<<0, 0>>}
            BY <3>2, <3>7, DifferenceIs, Antisymmetry
        <3>9. Along(hull, a + i, Minus(s, p))
            BY <3>3, <3>5, <3>8 DEF Cross, Along
        <3> QED BY <1>2, <2>6, <3>4, <3>9
    <2>9. Ahead(TRUE, p, s) \/ Ahead(FALSE, p, s)
        BY <1>3, Antisymmetry DEF Ahead
    <2> QED BY <2>7, <2>8, <2>9
<1> QED BY <1>1, <1>4, <1>5

LEMMA SignCarries ==
    ASSUME NEW n \in Int, NEW c \in Int, NEW m \in Int, NEW z \in Int,
           n > 0, c # 0, n * m = c * z
    PROVE  /\ c > 0 /\ m >= 0 => z >= 0
           /\ c > 0 /\ m <= 0 => z <= 0
           /\ c < 0 /\ m >= 0 => z <= 0
           /\ c < 0 /\ m <= 0 => z >= 0
<1>1. CASE m >= 0
    <2>1. n * m >= 0
        BY <1>1, Sums
    <2>2. c > 0 => z >= 0
        BY <2>1, Cancels
    <2>3. ASSUME c < 0 PROVE z <= 0
        <3>1. (-c) * (-z) = c * z
            OBVIOUS
        <3>2. -z >= 0
            BY <2>1, <2>3, <3>1, Cancels
        <3> QED BY <3>2
    <2>4. m <= 0 => z = 0
        <3> SUFFICES ASSUME m <= 0 PROVE z = 0
            OBVIOUS
        <3>1. m = 0
            BY <1>1
        <3>2. c * z = 0
            BY <3>1
        <3>3. CASE c > 0
            BY <3>2, <3>3, ZeroProduct
        <3>4. CASE c < 0
            <4>1. (-c) * z = 0
                <5>1. (-c) * z = -(c * z)
                    OBVIOUS
                <5> QED BY <3>2, <5>1
            <4> QED BY <3>4, <4>1, ZeroProduct
        <3> QED BY <3>3, <3>4
    <2> QED BY <1>1, <2>2, <2>3, <2>4
<1>2. CASE m < 0
    <2>1. n * (-m) >= 0
        BY <1>2, Sums
    <2>2. n * (-m) = -(c * z)
        <3>1. n * (-m) = -(n * m)
            OBVIOUS
        <3> QED BY <3>1
    <2>3. ASSUME c > 0 PROVE z <= 0
        <3>1. c * (-z) = -(c * z)
            OBVIOUS
        <3>2. -z >= 0
            BY <2>1, <2>2, <2>3, <3>1, Cancels
        <3> QED BY <3>2
    <2>4. ASSUME c < 0 PROVE z >= 0
        <3>1. (-c) * z = -(c * z)
            OBVIOUS
        <3> QED BY <2>1, <2>2, <2>4, <3>1, Cancels
    <2> QED BY <1>2, <2>3, <2>4
<1> QED BY <1>1, <1>2

LEMMA TurnedRound ==
    ASSUME NEW p \in Pair, NEW s \in Pair, NEW q \in Pair
    PROVE  /\ Turn(s, p, q) = -Wedge(Minus(p, s), Minus(p, q))
           /\ Turn(p, s, q) = Wedge(Minus(p, s), Minus(p, q))
           /\ Wedge(Minus(p, s), Minus(p, q)) \in Int
<1>1. /\ Turn(s, p, q) = -Cross(s, p, q, p)
      /\ Turn(p, s, q) = Cross(s, p, q, p)
    BY TurnsBack
<1>2. Cross(s, p, q, p) = Wedge(Minus(p, s), Minus(p, q))
    BY DEF Cross
<1> QED BY <1>1, <1>2, CrossIs

\* All points lie on one side of the line through p and s.
LEMMA OneSided ==
    ASSUME NEW S \in SUBSET Pair, NEW p \in S, NEW s \in S, NEW n \in Int, NEW c \in Int,
           n > 0, c # 0, NEW M \in [S -> Int],
           \A q \in S : Proportional(n, c, M[q], Wedge(Minus(p, s), Minus(p, q))),
           \A q \in S : M[q] >= 0
    PROVE  (\A q \in S : Turn(p, s, q) >= 0) \/ (\A q \in S : Turn(s, p, q) >= 0)
<1>1. ASSUME NEW q \in S
      PROVE  (c > 0 => Turn(p, s, q) >= 0) /\ (c < 0 => Turn(s, p, q) >= 0)
    <2>1. PICK z \in Int : z = Wedge(Minus(p, s), Minus(p, q))
                           /\ Turn(s, p, q) = -z /\ Turn(p, s, q) = z
        BY TurnedRound
    <2>2. n * M[q] = c * z /\ M[q] \in Int /\ M[q] >= 0
        BY <2>1 DEF Proportional
    <2>3. (c > 0 => z >= 0) /\ (c < 0 => z <= 0)
        BY <2>2, SignCarries
    <2> QED BY <2>1, <2>3
<1>2. c > 0 \/ c < 0
    OBVIOUS
<1> QED BY <1>1, <1>2

\* A side of the rectangle along w on which two points lie is along an edge.
LEMMA FlushWithEdge ==
    ASSUME NEW S \in SUBSET Pair, IsFiniteSet(S), NEW w \in Pair, w # <<0, 0>>,
           NEW p \in S, NEW s \in S, p # s,
           \/ Dot(w, Minus(p, s)) = 0 /\ \A q \in S : Dot(w, Minus(p, q)) >= 0
           \/ Dot(w, Minus(p, s)) = 0 /\ \A q \in S : Dot(w, Minus(p, q)) <= 0
           \/ Wedge(w, Minus(p, s)) = 0 /\ \A q \in S : Wedge(w, Minus(p, q)) >= 0
           \/ Wedge(w, Minus(p, s)) = 0 /\ \A q \in S : Wedge(w, Minus(p, q)) <= 0
    PROVE  \E i \in 1 .. Len(ConvexHull(S)) :
              /\ EdgeOf(ConvexHull(S), i) \in Pair \ {<<0, 0>>}
              /\ Aligned(EdgeOf(ConvexHull(S), i), w)
<1>1. PICK x \in Pair : x = Minus(p, s) /\ x # <<0, 0>>
    BY DifferenceIs
<1>2. PICK n \in Int : n = Dot(x, x) /\ n > 0
    BY <1>1, SquareIs
<1>3. PICK e \in Int, f \in Int :
        e = Dot(x, w) /\ f = Wedge(x, w) /\ e = Dot(w, x) /\ f = -Wedge(w, x)
    BY ProductsAre
<1>4. \A q \in S : /\ Minus(p, q) \in Pair
                   /\ Dot(w, Minus(p, q)) \in Int /\ Wedge(w, Minus(p, q)) \in Int
                   /\ Dot(x, Minus(p, q)) \in Int /\ Wedge(x, Minus(p, q)) \in Int
    BY DifferenceIs, ProductsAre
<1>5. \A q \in S :
        /\ n * Dot(w, Minus(p, q)) = e * Dot(x, Minus(p, q)) + f * Wedge(x, Minus(p, q))
        /\ n * Wedge(w, Minus(p, q)) = e * Wedge(x, Minus(p, q)) - f * Dot(x, Minus(p, q))
    <2> TAKE q \in S
    <2>1. PICK z \in Pair : z = Minus(p, q)
        BY <1>4
    <2>2. /\ Dot(x, x) * Dot(w, z) = Dot(x, w) * Dot(x, z) + Wedge(x, w) * Wedge(x, z)
          /\ Dot(x, x) * Wedge(w, z) = Dot(x, w) * Wedge(x, z) - Wedge(x, w) * Dot(x, z)
        BY Decomposed
    <2> QED BY <1>2, <1>3, <2>1, <2>2
<1>6. e # 0 \/ f # 0
    <2>1. n * Dot(w, w) = e * e + f * f
        <3>1. Dot(x, x) * Dot(w, w) = Dot(x, w) * Dot(x, w) + Wedge(x, w) * Wedge(x, w)
            BY Decomposed
        <3> QED BY <1>2, <1>3, <3>1
    <2>2. Dot(w, w) \in Int /\ Dot(w, w) > 0
        BY SquareIs
    <2>3. n * Dot(w, w) > 0
        BY <1>2, <2>2, Multiplies
    <2> SUFFICES ASSUME e = 0, f = 0 PROVE FALSE
        OBVIOUS
    <2> QED BY <2>1, <2>3
<1>7. Aligned(x, w)
    BY <1>1, <1>3 DEF Aligned
<1> DEFINE MD == [q \in S |-> Dot(w, Minus(p, q))]
           ND == [q \in S |-> -Dot(w, Minus(p, q))]
           MW == [q \in S |-> Wedge(w, Minus(p, q))]
           NW == [q \in S |-> -Wedge(w, Minus(p, q))]
<1>8. /\ MD \in [S -> Int] /\ ND \in [S -> Int] /\ MW \in [S -> Int] /\ NW \in [S -> Int]
      /\ \A q \in S : /\ MD[q] = Dot(w, Minus(p, q)) /\ ND[q] = -Dot(w, Minus(p, q))
                      /\ MW[q] = Wedge(w, Minus(p, q)) /\ NW[q] = -Wedge(w, Minus(p, q))
    BY <1>4
<1> HIDE DEF MD, ND, MW, NW
<1>9. (\A q \in S : Turn(p, s, q) >= 0) \/ (\A q \in S : Turn(s, p, q) >= 0)
    <2>1. CASE e = 0 /\ \A q \in S : Dot(w, Minus(p, q)) >= 0
        <3>1. \A q \in S : Proportional(n, f, MD[q], Wedge(Minus(p, s), Minus(p, q)))
            BY <1>1, <1>4, <1>5, <1>8, <2>1 DEF Proportional
        <3>2. \A q \in S : MD[q] >= 0
            BY <1>8, <2>1
        <3> QED BY <1>2, <1>6, <1>8, <2>1, <3>1, <3>2, OneSided
    <2>2. CASE e = 0 /\ \A q \in S : Dot(w, Minus(p, q)) <= 0
        <3>0. PICK g \in Int : g = -f
            OBVIOUS
        <3>1. ASSUME NEW q \in S
              PROVE  Proportional(n, g, ND[q], Wedge(Minus(p, s), Minus(p, q)))
            <4>1. PICK y \in Int, z \in Int :
                    y = Dot(w, Minus(p, q)) /\ z = Wedge(x, Minus(p, q))
                BY <1>4
            <4>2. n * y = f * z
                BY <1>4, <1>5, <2>2, <4>1
            <4>3. n * (-y) = g * z
                BY <3>0, <4>2
            <4> QED BY <1>1, <1>8, <4>1, <4>3 DEF Proportional
        <3>2. \A q \in S : ND[q] >= 0
            BY <1>4, <1>8, <2>2
        <3>3. g # 0
            BY <1>6, <2>2, <3>0
        <3> QED BY <1>2, <1>8, <3>1, <3>2, <3>3, OneSided
    <2>3. CASE f = 0 /\ \A q \in S : Wedge(w, Minus(p, q)) >= 0
        <3>1. \A q \in S : Proportional(n, e, MW[q], Wedge(Minus(p, s), Minus(p, q)))
            BY <1>1, <1>4, <1>5, <1>8, <2>3 DEF Proportional
        <3>2. \A q \in S : MW[q] >= 0
            BY <1>8, <2>3
        <3> QED BY <1>2, <1>6, <1>8, <2>3, <3>1, <3>2, OneSided
    <2>4. CASE f = 0 /\ \A q \in S : Wedge(w, Minus(p, q)) <= 0
        <3>0. PICK g \in Int : g = -e
            OBVIOUS
        <3>1. ASSUME NEW q \in S
              PROVE  Proportional(n, g, NW[q], Wedge(Minus(p, s), Minus(p, q)))
            <4>1. PICK y \in Int, z \in Int :
                    y = Wedge(w, Minus(p, q)) /\ z = Wedge(x, Minus(p, q))
                BY <1>4
            <4>2. n * y = e * z
                BY <1>4, <1>5, <2>4, <4>1
            <4>3. n * (-y) = g * z
                BY <3>0, <4>2
            <4> QED BY <1>1, <1>8, <4>1, <4>3 DEF Proportional
        <3>2. \A q \in S : NW[q] >= 0
            BY <1>4, <1>8, <2>4
        <3>3. g # 0
            BY <1>6, <2>4, <3>0
        <3> QED BY <1>2, <1>8, <3>1, <3>2, <3>3, OneSided
    <2>5. Dot(w, Minus(p, s)) = e /\ Wedge(w, Minus(p, s)) = -f
        BY <1>1, <1>3, ProductsAre
    <2> QED BY <2>1, <2>2, <2>3, <2>4, <2>5
<1>10. PICK hull : hull = ConvexHull(S)
    OBVIOUS
<1>11. \E i \in 1 .. Len(hull) : Along(hull, i, Minus(p, s)) \/ Along(hull, i, Minus(s, p))
    BY <1>9, <1>10, HullHasEdge
<1>12. PICK i \in 1 .. Len(hull) :
         Along(hull, i, Minus(p, s)) \/ Along(hull, i, Minus(s, p))
    BY <1>11
<1>13. EdgeOf(hull, i) \in Pair \ {<<0, 0>>}
    BY <1>12 DEF Along
<1>14. Wedge(EdgeOf(hull, i), x) = 0
    <2>1. PICK v \in Pair : v = EdgeOf(hull, i)
        BY <1>13
    <2>0. p \in Pair /\ s \in Pair
        OBVIOUS
    <2>2. /\ Wedge(v, Minus(p, s)) = Wedge(v, p) - Wedge(v, s)
          /\ Wedge(v, Minus(s, p)) = Wedge(v, s) - Wedge(v, p)
          /\ Wedge(v, p) \in Int /\ Wedge(v, s) \in Int
        <3>1. Wedge(v, Minus(p, s)) = Wedge(v, p) - Wedge(v, s)
            BY <2>0, DifferenceIs
        <3>2. Wedge(v, Minus(s, p)) = Wedge(v, s) - Wedge(v, p)
            BY <2>0, DifferenceIs
        <3>3. Wedge(v, p) \in Int /\ Wedge(v, s) \in Int
            BY <2>0, ProductsAre
        <3> QED BY <3>1, <3>2, <3>3
    <2>3. Wedge(v, Minus(p, s)) = 0 \/ Wedge(v, Minus(s, p)) = 0
        BY <1>12, <2>1 DEF Along
    <2>4. Wedge(v, Minus(p, s)) = 0
        BY <2>2, <2>3
    <2> QED BY <1>1, <2>1, <2>4
<1>15. Aligned(EdgeOf(hull, i), w)
    BY <1>1, <1>7, <1>13, <1>14, AlignedIsTransitive DEF Aligned
<1> QED BY <1>10, <1>13, <1>15

-----------------------------------------------------------------------------
(* The directions in which given points hold the rectangle form a sector *)

TurnedRight(v) == <<v[2], -v[1]>>
TurnedLeft(v) == <<-v[2], v[1]>>

LEMMA QuarterTurns ==
    ASSUME NEW v \in Pair, NEW w \in Pair
    PROVE  /\ TurnedRight(v) \in Pair /\ TurnedLeft(v) \in Pair
           /\ v # <<0, 0>> => TurnedRight(v) # <<0, 0>> /\ TurnedLeft(v) # <<0, 0>>
           /\ Dot(w, TurnedRight(v)) = Wedge(w, v)
           /\ Dot(TurnedRight(v), w) = Wedge(w, v)
           /\ Dot(TurnedLeft(v), w) = Wedge(v, w)
<1>1. v[1] \in Int /\ v[2] \in Int /\ w[1] \in Int /\ w[2] \in Int /\ v = <<v[1], v[2]>>
    BY DEF Pair
<1>2. TurnedRight(v) \in Pair /\ TurnedLeft(v) \in Pair
    BY <1>1 DEF TurnedRight, TurnedLeft, Pair
<1>3. v # <<0, 0>> => TurnedRight(v) # <<0, 0>> /\ TurnedLeft(v) # <<0, 0>>
    <2> SUFFICES ASSUME v # <<0, 0>>
                 PROVE  TurnedRight(v) # <<0, 0>> /\ TurnedLeft(v) # <<0, 0>>
        OBVIOUS
    <2>1. v[1] # 0 \/ v[2] # 0
        BY <1>1
    <2>2. -v[1] # 0 \/ v[2] # 0
        BY <1>1, <2>1
    <2>3. v[1] # 0 \/ -v[2] # 0
        BY <1>1, <2>1
    <2> QED BY <2>2, <2>3 DEF TurnedRight, TurnedLeft
<1>4. Dot(w, TurnedRight(v)) = w[1] * v[2] + w[2] * (-v[1])
    BY DEF TurnedRight, Dot
<1>5. Dot(TurnedRight(v), w) = v[2] * w[1] + (-v[1]) * w[2]
    BY DEF TurnedRight, Dot
<1>6. Dot(TurnedLeft(v), w) = (-v[2]) * w[1] + v[1] * w[2]
    BY DEF TurnedLeft, Dot
<1>7. Wedge(w, v) = w[1] * v[2] - w[2] * v[1] /\ Wedge(v, w) = v[1] * w[2] - v[2] * w[1]
    BY DEF Wedge
<1> QED BY <1>1, <1>2, <1>3, <1>4, <1>5, <1>6, <1>7

\* What must not point backwards for a and b to be the last and the first point
\* along a direction, and c and d those across it.
Gaps(S, a, b, c, d) ==
    (UNION {{Minus(a, s), Minus(s, b), TurnedRight(Minus(c, s)), TurnedRight(Minus(s, d))} :
            s \in S}) \ {<<0, 0>>}

LEMMA GapsAre ==
    ASSUME NEW S \in SUBSET Pair, IsFiniteSet(S),
           NEW a \in S, NEW b \in S, NEW c \in S, NEW d \in S
    PROVE  Gaps(S, a, b, c, d) \in SUBSET (Pair \ {<<0, 0>>})
           /\ IsFiniteSet(Gaps(S, a, b, c, d))
<1> DEFINE Four(s) ==
               {Minus(a, s), Minus(s, b), TurnedRight(Minus(c, s)), TurnedRight(Minus(s, d))}
           Fours == {Four(s) : s \in S}
           four == [s \in S |-> Four(s)]
<1>1. \A s \in S : Four(s) \in SUBSET Pair /\ IsFiniteSet(Four(s))
    <2> TAKE s \in S
    <2>1. s \in Pair /\ a \in Pair /\ b \in Pair /\ c \in Pair /\ d \in Pair
        OBVIOUS
    <2>2. PICK w \in Pair, x \in Pair, y \in Pair, z \in Pair :
            w = Minus(a, s) /\ x = Minus(s, b) /\ y = Minus(c, s) /\ z = Minus(s, d)
        BY <2>1, DifferenceIs
    <2>3. TurnedRight(y) \in Pair /\ TurnedRight(z) \in Pair
        BY QuarterTurns
    <2>4. Four(s) \in SUBSET Pair
        BY <2>2, <2>3
    <2>5. IsFiniteSet({w})
        BY FS_Singleton
    <2>6. IsFiniteSet({w} \cup {x})
        BY <2>5, FS_AddElement
    <2>7. IsFiniteSet(({w} \cup {x}) \cup {TurnedRight(y)})
        BY <2>6, FS_AddElement
    <2>8. IsFiniteSet((({w} \cup {x}) \cup {TurnedRight(y)}) \cup {TurnedRight(z)})
        BY <2>7, FS_AddElement
    <2>9. Four(s) = (({w} \cup {x}) \cup {TurnedRight(y)}) \cup {TurnedRight(z)}
        BY <2>2
    <2> HIDE DEF Four
    <2> QED BY <2>4, <2>8, <2>9
<1>2. IsFiniteSet(Fours)
    <2>1. four \in Surjection(S, Fours)
        BY DEF Surjection
    <2> HIDE DEF four, Fours
    <2> QED BY <2>1, FS_Surjection
<1>3. \A F \in Fours : F \in SUBSET Pair /\ IsFiniteSet(F)
    <2> HIDE DEF Four
    <2> QED BY <1>1
<1>4. Gaps(S, a, b, c, d) = (UNION Fours) \ {<<0, 0>>}
    BY DEF Gaps
<1> HIDE DEF Fours
<1>5. IsFiniteSet(UNION Fours)
    BY <1>2, <1>3, FS_UNION
<1>6. UNION Fours \in SUBSET Pair
    BY <1>3
<1>7. (UNION Fours) \ {<<0, 0>>} \in SUBSET UNION Fours
    OBVIOUS
<1>8. IsFiniteSet((UNION Fours) \ {<<0, 0>>})
    BY <1>5, <1>7, FS_Subset
<1>9. (UNION Fours) \ {<<0, 0>>} \in SUBSET (Pair \ {<<0, 0>>})
    BY <1>6
<1> QED BY <1>4, <1>8, <1>9

LEMMA GapsSupport ==
    ASSUME NEW S \in SUBSET Pair, NEW w \in Pair,
           NEW a \in S, NEW b \in S, NEW c \in S, NEW d \in S
    PROVE  Supports(S, w, a, b, c, d) <=> \A g \in Gaps(S, a, b, c, d) : Dot(w, g) >= 0
<1> DEFINE Four(s) ==
               {Minus(a, s), Minus(s, b), TurnedRight(Minus(c, s)), TurnedRight(Minus(s, d))}
<1>1. ASSUME NEW s \in S
      PROVE  /\ Dot(w, Minus(a, s)) >= 0 <=> Dot(w, s) <= Dot(w, a)
             /\ Dot(w, Minus(s, b)) >= 0 <=> Dot(w, b) <= Dot(w, s)
             /\ Dot(w, TurnedRight(Minus(c, s))) >= 0 <=> Wedge(w, s) <= Wedge(w, c)
             /\ Dot(w, TurnedRight(Minus(s, d))) >= 0 <=> Wedge(w, d) <= Wedge(w, s)
    <2>1. s \in Pair /\ a \in Pair /\ b \in Pair /\ c \in Pair /\ d \in Pair
        OBVIOUS
    <2>2. /\ Dot(w, s) \in Int /\ Dot(w, a) \in Int /\ Dot(w, b) \in Int
          /\ Wedge(w, s) \in Int /\ Wedge(w, c) \in Int /\ Wedge(w, d) \in Int
        BY <2>1, ProductsAre
    <2>3. Dot(w, Minus(a, s)) = Dot(w, a) - Dot(w, s)
        BY <2>1, DifferenceIs
    <2>4. Dot(w, Minus(s, b)) = Dot(w, s) - Dot(w, b)
        BY <2>1, DifferenceIs
    <2>5. Minus(c, s) \in Pair /\ Wedge(w, Minus(c, s)) = Wedge(w, c) - Wedge(w, s)
        BY <2>1, DifferenceIs
    <2>6. Minus(s, d) \in Pair /\ Wedge(w, Minus(s, d)) = Wedge(w, s) - Wedge(w, d)
        BY <2>1, DifferenceIs
    <2>7. Dot(w, TurnedRight(Minus(c, s))) = Wedge(w, Minus(c, s))
        BY <2>5, QuarterTurns
    <2>8. Dot(w, TurnedRight(Minus(s, d))) = Wedge(w, Minus(s, d))
        BY <2>6, QuarterTurns
    <2> QED BY <2>2, <2>3, <2>4, <2>5, <2>6, <2>7, <2>8
<1>2. Dot(w, <<0, 0>>) = 0
    <2>1. w[1] \in Int /\ w[2] \in Int
        BY DEF Pair
    <2> QED BY <2>1 DEF Dot
<1>3. (\A g \in Gaps(S, a, b, c, d) : Dot(w, g) >= 0)
        <=> \A s \in S : \A g \in Four(s) : Dot(w, g) >= 0
    <2>1. \A g : g \in Gaps(S, a, b, c, d) <=> g # <<0, 0>> /\ \E s \in S : g \in Four(s)
        BY DEF Gaps
    <2> HIDE DEF Four
    <2> QED BY <1>2, <2>1
<1>4. \A s \in S : (\A g \in Four(s) : Dot(w, g) >= 0)
        <=> /\ Dot(w, Minus(a, s)) >= 0 /\ Dot(w, Minus(s, b)) >= 0
            /\ Dot(w, TurnedRight(Minus(c, s))) >= 0 /\ Dot(w, TurnedRight(Minus(s, d))) >= 0
    OBVIOUS
<1> HIDE DEF Four
<1> QED BY <1>1, <1>3, <1>4 DEF Supports

\* Further to one side.
Beyond(left, x, h) == IF left THEN Wedge(h, x) > 0 ELSE Wedge(x, h) > 0

LEMMA BeyondIsTransitive ==
    ASSUME NEW left \in BOOLEAN, NEW u \in Pair, NEW x \in Pair, NEW y \in Pair, NEW z \in Pair,
           Dot(u, x) > 0, Dot(u, y) > 0, Dot(u, z) > 0, Beyond(left, x, y), Beyond(left, y, z)
    PROVE  Beyond(left, x, z)
<1>1. PICK i \in Int, j \in Int, k \in Int :
        i = Dot(u, x) /\ j = Dot(u, y) /\ k = Dot(u, z) /\ i > 0 /\ j > 0 /\ k > 0
    BY ProductsAre
<1>2. CASE left
    <2>1. PICK e \in Int, f \in Int, g \in Int :
            e = Wedge(y, x) /\ f = Wedge(z, y) /\ g = Wedge(z, x) /\ e > 0 /\ f > 0
        BY <1>2, ProductsAre DEF Beyond
    <2>2. Dot(u, y) * Wedge(z, x) = Dot(u, z) * Wedge(y, x) + Dot(u, x) * Wedge(z, y)
        BY Cyclic
    <2>3. j * g = k * e + i * f
        BY <1>1, <2>1, <2>2
    <2>4. k * e > 0 /\ i * f > 0 /\ k * e \in Int /\ i * f \in Int
        BY <1>1, <2>1, Multiplies
    <2>5. j * g > 0
        BY <2>3, <2>4
    <2>6. g > 0
        BY <1>1, <2>5, CancelsStrictly
    <2> QED BY <1>2, <2>1, <2>6 DEF Beyond
<1>3. CASE ~left
    <2>1. PICK e \in Int, f \in Int, g \in Int :
            e = Wedge(x, y) /\ f = Wedge(y, z) /\ g = Wedge(x, z) /\ e > 0 /\ f > 0
        BY <1>3, ProductsAre DEF Beyond
    <2>2. Dot(u, y) * Wedge(x, z) = Dot(u, x) * Wedge(y, z) + Dot(u, z) * Wedge(x, y)
        BY Cyclic
    <2>3. j * g = i * f + k * e
        BY <1>1, <2>1, <2>2
    <2>4. k * e > 0 /\ i * f > 0 /\ k * e \in Int /\ i * f \in Int
        BY <1>1, <2>1, Multiplies
    <2>5. j * g > 0
        BY <2>3, <2>4
    <2>6. g > 0
        BY <1>1, <2>5, CancelsStrictly
    <2> QED BY <1>3, <2>1, <2>6 DEF Beyond
<1> QED BY <1>2, <1>3

LEMMA Outermost ==
    ASSUME NEW left \in BOOLEAN, NEW u \in Pair, NEW G \in SUBSET Pair, IsFiniteSet(G), G # {},
           \A g \in G : Dot(u, g) > 0
    PROVE  \E h \in G : \A g \in G : ~Beyond(left, g, h)
<1> DEFINE Outer(h) == {g \in G : Beyond(left, g, h)}
           Counts == {Cardinality(Outer(h)) : h \in G}
<1>1. \A h \in G : IsFiniteSet(Outer(h)) /\ Cardinality(Outer(h)) \in Nat
    BY FS_Subset, FS_CardinalityType
<1>2. Counts \in SUBSET Nat /\ Counts # {}
    <2> HIDE DEF Outer
    <2> QED BY <1>1
<1>3. PICK m \in Counts : \A k \in Counts : m <= k
    <2> HIDE DEF Counts
    <2> QED BY <1>2, SomeLeast
<1>4. PICK h \in G : m = Cardinality(Outer(h))
    OBVIOUS
<1>5. ASSUME NEW g \in G, Beyond(left, g, h) PROVE FALSE
    <2>1. Outer(g) \cup {g} \in SUBSET Outer(h)
        BY <1>5, BeyondIsTransitive
    <2>2. g \notin Outer(g)
        BY ProductsAre DEF Beyond
    <2>3. Cardinality(Outer(g)) \in Counts
        OBVIOUS
    <2> HIDE DEF Outer, Counts
    <2>4. Cardinality(Outer(g) \cup {g}) = Cardinality(Outer(g)) + 1
        BY <1>1, <2>2, FS_AddElement
    <2>5. Cardinality(Outer(g) \cup {g}) <= Cardinality(Outer(h))
        BY <1>1, <2>1, FS_Subset
    <2>6. Cardinality(Outer(h)) <= Cardinality(Outer(g))
        BY <1>3, <1>4, <2>3
    <2> QED BY <1>1, <2>4, <2>5, <2>6
<1> QED BY <1>5

Sides(S) == {EdgeOf(ConvexHull(S), i) : i \in 1 .. Len(ConvexHull(S))} \cap (Pair \ {<<0, 0>>})

\* Where a gap is closed the rectangle lies along an edge.
LEMMA ClosedGap ==
    ASSUME NEW S \in SUBSET Pair, IsFiniteSet(S), NEW w \in Pair, w # <<0, 0>>,
           NEW a \in S, NEW b \in S, NEW c \in S, NEW d \in S, Supports(S, w, a, b, c, d),
           NEW g \in Gaps(S, a, b, c, d), Dot(w, g) = 0
    PROVE  \E v \in Sides(S) : Aligned(v, w)
<1>1. \A q \in S : Dot(w, q) \in Int /\ Wedge(w, q) \in Int
    BY ProductsAre
<1>2. \A p, q \in S : /\ Minus(p, q) \in Pair
                      /\ Dot(w, Minus(p, q)) = Dot(w, p) - Dot(w, q)
                      /\ Wedge(w, Minus(p, q)) = Wedge(w, p) - Wedge(w, q)
    BY DifferenceIs
<1>3. \A p \in S : Minus(p, p) = <<0, 0>> /\ TurnedRight(Minus(p, p)) = <<0, 0>>
    <2> TAKE p \in S
    <2>1. p[1] \in Int /\ p[2] \in Int
        BY DEF Pair
    <2>2. p[1] - p[1] = 0 /\ p[2] - p[2] = 0
        BY <2>1
    <2>3. Minus(p, p) = <<0, 0>>
        BY <2>2 DEF Minus
    <2>4. PICK x \in Int, y \in Int : Minus(p, p) = <<x, y>> /\ x = 0 /\ y = 0
        BY <2>3
    <2>5. -x = 0
        <3>1. -x = 0 - x
            OBVIOUS
        <3>2. 0 - x = 0
            BY <2>4
        <3> QED BY <3>1, <3>2
    <2>6. TurnedRight(<<x, y>>) = <<y, -x>>
        BY DEF TurnedRight
    <2> QED BY <2>3, <2>4, <2>5, <2>6
<1>4. \A p, q \in S : Dot(w, TurnedRight(Minus(p, q))) = Wedge(w, Minus(p, q))
    BY <1>2, QuarterTurns
<1>5. g # <<0, 0>>
    BY DEF Gaps
<1>6. PICK s \in S : \/ g = Minus(a, s) \/ g = Minus(s, b)
                     \/ g = TurnedRight(Minus(c, s)) \/ g = TurnedRight(Minus(s, d))
    BY DEF Gaps
<1>7. \A p \in S : (\/ Dot(w, Minus(p, s)) = 0 /\ \A q \in S : Dot(w, Minus(p, q)) >= 0
                    \/ Dot(w, Minus(p, s)) = 0 /\ \A q \in S : Dot(w, Minus(p, q)) <= 0
                    \/ Wedge(w, Minus(p, s)) = 0 /\ \A q \in S : Wedge(w, Minus(p, q)) >= 0
                    \/ Wedge(w, Minus(p, s)) = 0 /\ \A q \in S : Wedge(w, Minus(p, q)) <= 0)
        => (p # s => \E v \in Sides(S) : Aligned(v, w))
    BY FlushWithEdge DEF Sides
<1>8. CASE g = Minus(a, s)
    <2>1. a # s /\ Dot(w, Minus(a, s)) = 0
        BY <1>3, <1>5, <1>8
    <2>2. \A q \in S : Dot(w, Minus(a, q)) >= 0
        BY <1>1, <1>2 DEF Supports
    <2> QED BY <1>7, <2>1, <2>2
<1>9. CASE g = Minus(s, b)
    <2>1. b # s
        BY <1>3, <1>5, <1>9
    <2>2. Dot(w, Minus(b, s)) = 0
        BY <1>1, <1>2, <1>9
    <2>3. \A q \in S : Dot(w, Minus(b, q)) <= 0
        BY <1>1, <1>2 DEF Supports
    <2> QED BY <1>7, <2>1, <2>2, <2>3
<1>10. CASE g = TurnedRight(Minus(c, s))
    <2>1. c # s
        BY <1>3, <1>5, <1>10
    <2>2. Wedge(w, Minus(c, s)) = 0
        BY <1>4, <1>10
    <2>3. \A q \in S : Wedge(w, Minus(c, q)) >= 0
        BY <1>1, <1>2 DEF Supports
    <2> QED BY <1>7, <2>1, <2>2, <2>3
<1>11. CASE g = TurnedRight(Minus(s, d))
    <2>1. d # s
        BY <1>3, <1>5, <1>11
    <2>2. Wedge(w, Minus(d, s)) = 0
        <3>1. Wedge(w, Minus(s, d)) = 0
            BY <1>4, <1>11
        <3> QED BY <1>1, <1>2, <3>1
    <2>3. \A q \in S : Wedge(w, Minus(d, q)) <= 0
        BY <1>1, <1>2 DEF Supports
    <2> QED BY <1>7, <2>1, <2>2, <2>3
<1> QED BY <1>6, <1>8, <1>9, <1>10, <1>11

\* If all gaps open in one direction all points are one.
LEMMA GapsAreWide ==
    ASSUME NEW S \in SUBSET Pair, NEW w \in Pair, w # <<0, 0>>,
           NEW a \in S, NEW b \in S, NEW c \in S, NEW d \in S,
           \A g \in Gaps(S, a, b, c, d) : Dot(w, g) = 0,
           NEW s \in S
    PROVE  s = a
<1>1. \A g \in Gaps(S, a, b, c, d) : Dot(w, g) >= 0
    OBVIOUS
<1>2. Supports(S, w, a, b, c, d)
    BY <1>1, GapsSupport
<1>3. Dot(w, <<0, 0>>) = 0 /\ Dot(w, w) \in Int /\ Dot(w, w) > 0
    <2>1. w[1] \in Int /\ w[2] \in Int
        BY DEF Pair
    <2> QED BY <2>1, SquareIs DEF Dot
<1>4. ASSUME NEW q \in S PROVE Dot(w, q) = Dot(w, a) /\ Wedge(w, q) = Wedge(w, c)
    <2>1. PICK x \in Pair, y \in Pair : x = Minus(a, q) /\ y = Minus(c, q)
        BY DifferenceIs
    <2>2. x \in Gaps(S, a, b, c, d) \/ x = <<0, 0>>
        BY <2>1 DEF Gaps
    <2>3. TurnedRight(y) \in Gaps(S, a, b, c, d) \/ TurnedRight(y) = <<0, 0>>
        BY <2>1 DEF Gaps
    <2>4. Dot(w, x) = 0
        BY <1>3, <2>2
    <2>5. Wedge(w, y) = 0
        BY <1>3, <2>3, QuarterTurns
    <2>6. a \in Pair /\ c \in Pair /\ q \in Pair
        OBVIOUS
    <2>7. Dot(w, x) = Dot(w, a) - Dot(w, q) /\ Wedge(w, y) = Wedge(w, c) - Wedge(w, q)
        BY <2>1, <2>6, DifferenceIs
    <2>8. /\ Dot(w, a) \in Int /\ Dot(w, q) \in Int
          /\ Wedge(w, c) \in Int /\ Wedge(w, q) \in Int
        BY <2>6, ProductsAre
    <2> QED BY <2>4, <2>5, <2>7, <2>8
<1>5. PICK x \in Pair : x = Minus(s, a)
    BY DifferenceIs
<1>6. Dot(w, x) = 0 /\ Wedge(w, x) = 0
    <2>1. s \in Pair /\ a \in Pair
        OBVIOUS
    <2>2. Dot(w, x) = Dot(w, s) - Dot(w, a) /\ Wedge(w, x) = Wedge(w, s) - Wedge(w, a)
        BY <1>5, <2>1, DifferenceIs
    <2>3. Dot(w, a) \in Int /\ Wedge(w, a) \in Int
        BY <2>1, ProductsAre
    <2>4. Dot(w, s) = Dot(w, a) /\ Wedge(w, s) = Wedge(w, a)
        BY <1>4
    <2> QED BY <2>2, <2>3, <2>4
<1>7. Dot(w, w) * Dot(x, x) = 0
    <2>1. Dot(w, w) * Dot(x, x) = Dot(w, x) * Dot(w, x) + Wedge(w, x) * Wedge(w, x)
        BY Decomposed
    <2> QED BY <1>6, <2>1
<1>8. x = <<0, 0>>
    <2>1. Dot(x, x) \in Int
        BY ProductsAre
    <2>2. Dot(x, x) = 0
        BY <1>3, <1>7, <2>1, ZeroProduct
    <2> QED BY <2>2, SquareIs
<1>9. s \in Pair /\ a \in Pair
    OBVIOUS
<1> QED BY <1>5, <1>8, <1>9, DifferenceIs

\* Some rectangle along an edge is not larger than one along any other vector:
\* turned until one of its sides meets an edge, to the left or to the right, it does
\* not grow.
LEMMA Calipers ==
    ASSUME NEW S \in SUBSET Pair, IsFiniteSet(S), NEW p \in S, NEW q \in S, p # q,
           NEW u \in Pair, u # <<0, 0>>
    PROVE  \E v \in Sides(S) : AtMost(S, v, u)
<1>1. PICK a \in S, b \in S, c \in S, d \in S : Supports(S, u, a, b, c, d)
    BY SupportsExist
<1>2. PICK G : G = Gaps(S, a, b, c, d)
    OBVIOUS
<1>3. G \in SUBSET Pair /\ IsFiniteSet(G) /\ \A g \in G : g # <<0, 0>>
    BY <1>2, GapsAre
<1>4. \A g \in G : Dot(u, g) \in Int /\ Dot(u, g) >= 0
    BY <1>1, <1>2, <1>3, GapsSupport, ProductsAre
<1>5. \A w \in Pair : Supports(S, w, a, b, c, d) <=> \A g \in G : Dot(w, g) >= 0
    BY <1>2, GapsSupport
<1>6. ASSUME NEW w \in Pair, w # <<0, 0>>, \A g \in G : Dot(w, g) >= 0,
             NEW h \in G, Dot(w, h) = 0
      PROVE  \E v \in Sides(S) : AtMost(S, v, w)
    <2>1. Supports(S, w, a, b, c, d)
        BY <1>5, <1>6
    <2>2. PICK v \in Sides(S) : Aligned(v, w)
        BY <1>2, <1>6, <2>1, ClosedGap
    <2>3. v \in Pair /\ v # <<0, 0>> /\ S # {}
        BY DEF Sides
    <2> QED BY <1>6, <2>2, <2>3, AlignedAreas
<1>7. CASE \E g \in G : Dot(u, g) = 0
    <2>1. \A g \in G : Dot(u, g) >= 0
        BY <1>4
    <2>2. PICK h \in G : Dot(u, h) = 0
        BY <1>7
    <2> QED BY <1>6, <2>1, <2>2
<1>8. CASE \A g \in G : Dot(u, g) # 0
    <2>1. \A g \in G : Dot(u, g) > 0
        BY <1>4, <1>8
    <2>2. G # {}
        <3> SUFFICES ASSUME G = {} PROVE FALSE
            OBVIOUS
        <3>1. \A g \in Gaps(S, a, b, c, d) : Dot(u, g) = 0
            BY <1>2
        <3>2. p = a /\ q = a
            BY <3>1, GapsAreWide
        <3> QED BY <3>2
    <2>3. PICK g1 \in G : \A g \in G : ~Beyond(FALSE, g, g1)
        BY <1>3, <2>1, <2>2, Outermost
    <2>4. PICK g2 \in G : \A g \in G : ~Beyond(TRUE, g, g2)
        BY <1>3, <2>1, <2>2, Outermost
    <2>5. g1 \in Pair /\ g2 \in Pair /\ g1 # <<0, 0>> /\ g2 # <<0, 0>>
        BY <1>3
    <2>6. \A g \in G : Wedge(g1, g) \in Int /\ Wedge(g, g2) \in Int
                       /\ Wedge(g1, g) >= 0 /\ Wedge(g, g2) >= 0
        <3> TAKE g \in G
        <3>1. g \in Pair
            BY <1>3
        <3>2. /\ Wedge(g1, g) \in Int /\ Wedge(g, g1) = -Wedge(g1, g)
              /\ Wedge(g, g2) \in Int /\ Wedge(g2, g) = -Wedge(g, g2)
            BY <2>5, <3>1, ProductsAre
        <3>3. ~(Wedge(g, g1) > 0) /\ ~(Wedge(g2, g) > 0)
            BY <2>3, <2>4 DEF Beyond
        <3> QED BY <3>2, <3>3
    <2>7. PICK w1 \in Pair, w2 \in Pair : w1 = TurnedLeft(g1) /\ w2 = TurnedRight(g2)
        BY <2>5, QuarterTurns
    <2>8. w1 # <<0, 0>> /\ w2 # <<0, 0>>
        BY <2>5, <2>7, QuarterTurns
    <2>9. \A g \in G : Dot(w1, g) = Wedge(g1, g) /\ Dot(w2, g) = Wedge(g, g2)
        BY <1>3, <2>5, <2>7, QuarterTurns
    <2>10. Dot(w1, g1) = 0 /\ Dot(w2, g2) = 0
        BY <2>5, <2>9, ProductsAre
    <2>11. (\A g \in G : Dot(w1, g) >= 0) /\ (\A g \in G : Dot(w2, g) >= 0)
        BY <2>6, <2>9
    <2>12. Supports(S, w1, a, b, c, d) /\ Supports(S, w2, a, b, c, d)
        BY <1>5, <2>11
    <2>13. PICK k \in Int, l \in Int, m \in Int :
             /\ k = Wedge(g1, g2) /\ l = Dot(u, g1) /\ m = Dot(u, g2)
             /\ k >= 0 /\ l > 0 /\ m > 0
        BY <1>4, <2>1, <2>6
    <2>14. k # 0
        <3> SUFFICES ASSUME k = 0 PROVE FALSE
            OBVIOUS
        <3>1. \A g \in G : Dot(w1, g) = 0
            <4> TAKE g \in G
            <4>1. PICK i \in Int, x \in Int, y \in Int :
                    i = Dot(u, g) /\ x = Wedge(g1, g) /\ y = Wedge(g, g2) /\ x >= 0 /\ y >= 0
                BY <1>4, <2>6
            <4>2. g \in Pair
                BY <1>3
            <4>3. Dot(u, g) * Wedge(g1, g2) = Dot(u, g1) * Wedge(g, g2) + Dot(u, g2) * Wedge(g1, g)
                BY <2>5, <4>2, Cyclic
            <4>4. i * k = l * y + m * x
                BY <2>13, <4>1, <4>3
            <4>5. i * k = 0
                OBVIOUS
            <4>6. l * y >= 0 /\ l * y \in Int /\ m * x \in Int
                BY <2>13, <4>1, Sums
            <4>7. m * x <= 0
                BY <4>4, <4>5, <4>6
            <4>8. ~(m * x > 0)
                BY <4>6, <4>7
            <4>9. x = 0
                BY <2>13, <4>1, <4>8, Multiplies
            <4> QED BY <2>9, <4>1, <4>9
        <3>2. p = a /\ q = a
            BY <1>2, <2>8, <3>1, GapsAreWide
        <3> QED BY <3>2
    <2>15. k * u[1] = l * w2[1] + m * w1[1] /\ k * u[2] = l * w2[2] + m * w1[2]
        <3>1. PICK u1 \in Int, u2 \in Int : u[1] = u1 /\ u[2] = u2
            BY Coordinates
        <3>2. PICK x1 \in Int, y1 \in Int : g1[1] = x1 /\ g1[2] = y1
            BY <2>5, Coordinates
        <3>3. PICK x2 \in Int, y2 \in Int : g2[1] = x2 /\ g2[2] = y2
            BY <2>5, Coordinates
        <3>4. w1[1] = -y1 /\ w1[2] = x1 /\ w2[1] = y2 /\ w2[2] = -x2
            BY <2>7, <3>2, <3>3 DEF TurnedLeft, TurnedRight
        <3>5. k = x1 * y2 - y1 * x2 /\ l = u1 * x1 + u2 * y1 /\ m = u1 * x2 + u2 * y2
            BY <2>5, <2>13, <3>1, <3>2, <3>3, ProductsAre
        <3>6. /\ (x1 * y2 - y1 * x2) * u1 = (u1 * x1 + u2 * y1) * y2 + (u1 * x2 + u2 * y2) * (-y1)
              /\ (x1 * y2 - y1 * x2) * u2 = (u1 * x1 + u2 * y1) * (-x2) + (u1 * x2 + u2 * y2) * x1
            OBVIOUS
        <3> QED BY <3>1, <3>4, <3>5, <3>6
    <2>16. S # {} /\ Area(S, w1) \in Int /\ Area(S, w2) \in Int
        BY AreaIsInt
    <2>17. PICK A1 \in Int, A2 \in Int, n1 \in Int, n2 \in Int :
             A1 = Area(S, w1) /\ A2 = Area(S, w2) /\ n1 = Dot(w1, w1) /\ n2 = Dot(w2, w2)
        BY <2>16, ProductsAre
    <2>18. NotMore(A1, n1, A2, n2) \/ NotMore(A2, n2, A1, n1)
        BY DEF NotMore
    <2>19. \E w \in {w1, w2} : AtMost(S, w, u)
        <3>1. CASE NotMore(A1, n1, A2, n2)
            <4>1. k * u[1] = m * w1[1] + l * w2[1] /\ k * u[2] = m * w1[2] + l * w2[2]
                <5>1. PICK i1 \in Int, j1 \in Int : w1[1] = i1 /\ w1[2] = j1
                    BY Coordinates
                <5>2. PICK i2 \in Int, j2 \in Int : w2[1] = i2 /\ w2[2] = j2
                    BY Coordinates
                <5>3. l * i2 + m * i1 = m * i1 + l * i2 /\ l * j2 + m * j1 = m * j1 + l * j2
                    OBVIOUS
                <5> QED BY <2>15, <5>1, <5>2, <5>3
            <4>2. NotMore(Area(S, w1), Dot(w1, w1), Area(S, w2), Dot(w2, w2))
                BY <2>17, <3>1
            <4>3. k > 0
                BY <2>13, <2>14
            <4>4. AtMost(S, w1, u)
                BY <1>1, <2>8, <2>12, <2>13, <2>16, <4>1, <4>2, <4>3, BetweenIsNotSmaller
            <4> QED BY <4>4
        <3>2. CASE NotMore(A2, n2, A1, n1)
            <4>1. NotMore(Area(S, w2), Dot(w2, w2), Area(S, w1), Dot(w1, w1))
                BY <2>17, <3>2
            <4>2. k > 0
                BY <2>13, <2>14
            <4>3. AtMost(S, w2, u)
                BY <1>1, <2>8, <2>12, <2>13, <2>15, <2>16, <4>1, <4>2, BetweenIsNotSmaller
            <4> QED BY <4>3
        <3> QED BY <2>18, <3>1, <3>2
    <2>20. PICK w \in {w1, w2} : AtMost(S, w, u)
        BY <2>19
    <2>21. PICK v \in Sides(S) : AtMost(S, v, w)
        BY <1>6, <2>8, <2>10, <2>11
    <2>22. v \in Pair /\ v # <<0, 0>> /\ w \in Pair /\ w # <<0, 0>>
        BY <2>8 DEF Sides
    <2> QED BY <2>16, <2>20, <2>21, <2>22, AtMostIsTransitive
<1> QED BY <1>7, <1>8

\* The edge that was chosen last is not worse than any of those before it.
LEMMA ChosenIsSmallest ==
    ASSUME NEW S \in SUBSET Pair, IsFiniteSet(S), S # {}, NEW n \in Nat \ {0},
           NEW edges \in [1 .. n -> Pair], \A i \in 1 .. n : edges[i] # <<0, 0>>,
           NEW choice, Chooses(S, n, edges, choice)
    PROVE  choice[n] \in 1 .. n
           /\ \A i \in 1 .. n : AtMost(S, edges[choice[n]], edges[i])
<1> DEFINE K == {k \in 0 .. n : \A i \in 1 .. k : AtMost(S, edges[choice[k]], edges[i])}
<1>1. \A k \in 1 .. n : choice[k] \in 1 .. n
    BY DEF Chooses
<1>2. \A v \in Pair \ {<<0, 0>>} : AtMost(S, v, v)
    <2> TAKE v \in Pair \ {<<0, 0>>}
    <2>1. Wedge(v, v) = 0
        BY ProductsAre
    <2> QED BY <2>1, AlignedAreas DEF Aligned
<1>3. 0 \in K
    OBVIOUS
<1>4. ASSUME NEW k \in 0 .. (n - 1), k \in K PROVE k + 1 \in K
    <2>1. k + 1 \in 1 .. n /\ k + 1 \in 0 .. n /\ \A i \in 1 .. (k + 1) : i \in 1 .. n
        OBVIOUS
    <2>2. PICK j \in 1 .. n : j = choice[k + 1]
        BY <1>1, <2>1
    <2>3. CASE k = 0
        <3>1. j = 1
            BY <2>2, <2>3 DEF Chooses
        <3>2. \A i \in 1 .. (k + 1) : i = 1
            BY <2>3
        <3>3. edges[j] \in Pair \ {<<0, 0>>}
            OBVIOUS
        <3>4. \A i \in 1 .. (k + 1) : AtMost(S, edges[choice[k + 1]], edges[i])
            BY <1>2, <2>2, <3>1, <3>2, <3>3
        <3> QED BY <2>1, <3>4
    <2>4. CASE k # 0
        <3>1. k \in 1 .. n /\ k + 1 \in 2 .. n /\ (k + 1) - 1 = k
            BY <2>4
        <3>2. PICK g \in 1 .. n : g = choice[k]
            BY <1>1, <3>1
        <3>3. j = IF Smaller(Rectangle(S, edges[k + 1]), Rectangle(S, edges[g]))
                  THEN k + 1 ELSE g
            BY <2>2, <3>1, <3>2 DEF Chooses
        <3>4. PICK v \in Pair, w \in Pair :
                v = edges[k + 1] /\ w = edges[g] /\ v # <<0, 0>> /\ w # <<0, 0>>
            BY <2>1
        <3>5. PICK x \in Int, y \in Int, m \in Int, l \in Int :
                x = Area(S, v) /\ y = Area(S, w) /\ m = Dot(v, v) /\ l = Dot(w, w)
            BY AreaIsInt, ProductsAre
        <3>6. Smaller(Rectangle(S, v), Rectangle(S, w)) <=> x * l < y * m
            BY <3>5 DEF Smaller, Area, Rectangle
        <3>7. AtMost(S, v, w) <=> x * l <= y * m
            BY <3>5 DEF AtMost, NotMore
        <3>8. AtMost(S, w, v) <=> y * m <= x * l
            BY <3>5 DEF AtMost, NotMore
        <3>9. AtMost(S, edges[j], v) /\ AtMost(S, edges[j], w)
            <4>1. CASE Smaller(Rectangle(S, v), Rectangle(S, w))
                <5>1. edges[j] = v
                    BY <3>3, <3>4, <4>1
                <5>2. AtMost(S, v, w)
                    <6>1. PICK e \in Int, f \in Int : e = x * l /\ f = y * m
                        OBVIOUS
                    <6> QED BY <3>6, <3>7, <4>1, <6>1
                <5> QED BY <1>2, <3>4, <5>1, <5>2
            <4>2. CASE ~Smaller(Rectangle(S, v), Rectangle(S, w))
                <5>1. edges[j] = w
                    BY <3>3, <3>4, <4>2
                <5>2. AtMost(S, w, v)
                    <6>1. PICK e \in Int, f \in Int : e = x * l /\ f = y * m
                        OBVIOUS
                    <6> QED BY <3>6, <3>8, <4>2, <6>1
                <5> QED BY <1>2, <3>4, <5>1, <5>2
            <4> QED BY <4>1, <4>2
        <3>10. edges[j] \in Pair /\ edges[j] # <<0, 0>>
            OBVIOUS
        <3>11. ASSUME NEW i \in 1 .. (k + 1) PROVE AtMost(S, edges[j], edges[i])
            <4>1. CASE i = k + 1
                BY <3>4, <3>9, <4>1
            <4>2. CASE i # k + 1
                <5>1. i \in 1 .. k /\ i \in 1 .. n
                    BY <2>1, <4>2
                <5>2. AtMost(S, w, edges[i])
                    BY <1>4, <3>2, <3>4, <5>1
                <5>3. edges[i] \in Pair /\ edges[i] # <<0, 0>>
                    BY <5>1
                <5> QED BY <3>4, <3>9, <3>10, <5>2, <5>3, AtMostIsTransitive
            <4> QED BY <4>1, <4>2
        <3> QED BY <2>1, <2>2, <3>11
    <2> QED BY <2>3, <2>4
<1>5. n \in K
    <2>1. \A k \in 0 .. (n - 1) : k \in K => k + 1 \in K
        BY <1>4
    <2> HIDE DEF K
    <2>2. 0 .. n \subseteq K
        BY <1>3, <2>1, Induction
    <2> QED BY <2>2
<1> QED BY <1>1, <1>5

\* The rectangle of a part with many pins is not larger than that along any vector.
LEMMA MultiPinIsSmallest ==
    ASSUME NEW S \in SUBSET Point, IsFiniteSet(S), NEW p \in S, NEW q \in S, p # q,
           NEW u \in Pair, u # <<0, 0>>
    PROVE  ~Smaller(Rectangle(S, u), MultiPin(S))
<1>1. S \in SUBSET Pair /\ S # {}
    BY PointIsInt DEF Pair
<1>2. PICK n \in Nat \ {0} :
        \E choice : LET edges == Edges(ConvexHull(S)) IN
                    /\ ConvexHull(S) \in [1 .. n -> S]
                    /\ edges \in [1 .. n -> Int \X Int]
                    /\ Chooses(S, n, edges, choice)
                    /\ MultiPin(S) = Rectangle(S, edges[choice[n]])
    BY <1>1, MultiPinIs
<1>3. PICK choice, hull, edges :
        /\ hull = ConvexHull(S) /\ edges = Edges(hull)
        /\ hull \in [1 .. n -> S]
        /\ edges \in [1 .. n -> Pair]
        /\ Chooses(S, n, edges, choice)
        /\ MultiPin(S) = Rectangle(S, edges[choice[n]])
    BY <1>2 DEF Pair
<1>4. Len(hull) = n
    BY <1>3
<1>5. ASSUME NEW i \in 1 .. n
      PROVE  /\ edges[i] \in Pair /\ edges[i] # <<0, 0>>
             /\ EdgeOf(hull, i) # <<0, 0>> => Wedge(EdgeOf(hull, i), edges[i]) = 0
    <2>1. (i % n) + 1 \in 1 .. n
        OBVIOUS
    <2>2. PICK x \in Point, y \in Point : x = hull[(i % n) + 1] /\ y = hull[i]
        BY <1>3, <2>1
    <2>3. edges[i] = Heading[Minus(x, y)]
        BY <1>3, <1>4, <2>2 DEF Edges
    <2>4. EdgeOf(hull, i) = Minus(x, y)
        BY <1>4, <2>2 DEF EdgeOf, Follower
    <2>5. x \in Int \X Int /\ y \in Int \X Int
        BY PointIsInt
    <2> QED BY <2>3, <2>4, <2>5, HeadingIs DEF Pair
<1>6. choice[n] \in 1 .. n /\ \A i \in 1 .. n : AtMost(S, edges[choice[n]], edges[i])
    BY <1>1, <1>3, <1>5, ChosenIsSmallest
<1>7. PICK e \in Pair : e = edges[choice[n]] /\ e # <<0, 0>>
    BY <1>5, <1>6
<1>8. PICK v \in Sides(S) : AtMost(S, v, u)
    BY <1>1, Calipers
<1>9. PICK i \in 1 .. n : v = EdgeOf(hull, i) /\ v \in Pair /\ v # <<0, 0>>
    BY <1>3, <1>4 DEF Sides
<1>10. PICK f \in Pair : f = edges[i] /\ f # <<0, 0>> /\ Wedge(v, f) = 0 /\ AtMost(S, e, f)
    BY <1>5, <1>6, <1>7, <1>9
<1>11. AtMost(S, f, v)
    <2>1. Aligned(f, v)
        BY <1>9, <1>10, AlignedCommutes DEF Aligned
    <2> QED BY <1>1, <1>9, <1>10, <2>1, AlignedAreas
<1>12. AtMost(S, e, u)
    <2>1. AtMost(S, e, v)
        BY <1>1, <1>7, <1>9, <1>10, <1>11, AtMostIsTransitive
    <2> QED BY <1>1, <1>7, <1>8, <1>9, <2>1, AtMostIsTransitive
<1>13. PICK x \in Int, y \in Int, m \in Int, l \in Int :
         x = Area(S, u) /\ y = Area(S, e) /\ m = Dot(u, u) /\ l = Dot(e, e)
    BY <1>1, AreaIsInt, ProductsAre
<1>14. y * m <= x * l
    BY <1>12, <1>13 DEF AtMost, NotMore
<1>15. Smaller(Rectangle(S, u), Rectangle(S, e)) <=> x * l < y * m
    BY <1>13 DEF Smaller, Area, Rectangle
<1>16. ~(x * l < y * m)
    <2>1. PICK g \in Int, h \in Int : g = x * l /\ h = y * m
        OBVIOUS
    <2> QED BY <1>14, <2>1
<1> QED BY <1>3, <1>7, <1>15, <1>16

-----------------------------------------------------------------------------
(* The outline of a part *)

\* The pins of a part are points.
PinsInv == pins \in Seq(Point)

LEMMA PinsInvariance == Spec => []PinsInv
<1>1. Init => PinsInv
    BY DEF Init, PinsInv
<1>2. PinsInv /\ [Next]_vars => PinsInv'
    <2> SUFFICES ASSUME PinsInv, [Next]_vars PROVE PinsInv'
        OBVIOUS
    <2>1. ASSUME NEW p \in Point, AddPin(p) PROVE PinsInv'
        BY <2>1 DEF PinsInv, AddPin
    <2>2. CASE UNCHANGED vars
        BY <2>2 DEF PinsInv, vars
    <2> QED BY <2>1, <2>2 DEF Next
<1> QED BY <1>1, <1>2, PTL DEF Spec

LEMMA PlacesAre == PinsInv => Places \in SUBSET Point /\ IsFiniteSet(Places)
<1> SUFFICES ASSUME PinsInv PROVE Places \in SUBSET Point /\ IsFiniteSet(Places)
    OBVIOUS
<1>1. PICK n \in Nat : n = Len(pins) /\ DOMAIN pins = 1 .. n
    BY DEF PinsInv
<1>2. pins \in [1 .. n -> Point]
    BY <1>1 DEF PinsInv
<1>3. Places \in SUBSET Point
    BY <1>1, <1>2 DEF Places
<1>4. IsFiniteSet(1 .. n)
    <2>1. 1 \in Int /\ n \in Int
        OBVIOUS
    <2> QED BY <2>1, FS_Interval
<1>5. pins \in Surjection(1 .. n, Places)
    BY <1>1, <1>2 DEF Surjection, Places
<1> QED BY <1>3, <1>4, <1>5, FS_Surjection

LEMMA HullHolds == PinsInv => HullIsConvex
<1> SUFFICES ASSUME PinsInv PROVE HullIsConvex
    OBVIOUS
<1>1. Places \in SUBSET Pair /\ IsFiniteSet(Places)
    BY PlacesAre, PointIsInt DEF Pair
<1>2. Encloses(Places, ConvexHull(Places))
    BY <1>1, HullEncloses
<1> QED BY <1>2 DEF Encloses, HullIsConvex

LEMMA BoxIsSmallest == PinsInv => NoSmallerRectangle
<1> SUFFICES ASSUME PinsInv, Outline.kind = "box" PROVE NoSmallerRectangle
    BY DEF NoSmallerRectangle
<1>1. Places \in SUBSET Point /\ IsFiniteSet(Places)
    BY PlacesAre
<1>2. /\ pins # <<>> /\ Cardinality(Places) # 1
      /\ Outline = MultiPin(Places)
    BY DEF Outline, PartGeometry, Places, SinglePad, TwoPin
<1>3. PICK p \in Places : TRUE
    BY <1>2 DEF PinsInv, Places
<1>4. PICK q \in Places : p # q
    <2>1. Cardinality({p}) = 1
        BY FS_Singleton
    <2>2. Places # {p}
        BY <1>2, <2>1
    <2> QED BY <2>2
<1>5. ASSUME NEW u \in Pair, u # <<0, 0>> PROVE ~Smaller(Rectangle(Places, u), Outline)
    BY <1>1, <1>2, <1>4, <1>5, MultiPinIsSmallest
<1>6. ~Smaller(Rectangle(Places, <<1, 0>>), Outline)
    <2>1. <<1, 0>> \in Pair /\ <<1, 0>> # <<0, 0>>
        BY DEF Pair
    <2>2. PICK u : u = <<1, 0>>
        OBVIOUS
    <2> QED BY <1>5, <2>1, <2>2
<1>7. ASSUME NEW x \in Places, NEW y \in Places
      PROVE  ~Smaller(Rectangle(Places, Heading[Minus(x, y)]), Outline)
    <2>1. x \in Point /\ y \in Point
        BY <1>1
    <2>2. x \in Int \X Int /\ y \in Int \X Int
        BY <2>1, PointIsInt
    <2>3. Heading[Minus(x, y)] \in Pair /\ Heading[Minus(x, y)] # <<0, 0>>
        BY <2>1, <2>2, HeadingIs DEF Pair
    <2> QED BY <1>5, <2>3
<1> QED BY <1>6, <1>7 DEF NoSmallerRectangle

\* Whatever pins a part has, the hull turns left at each of its vertices, all of them
\* pins, and leaves no pin outside; the first and the last pin in Python's order are
\* vertices, so of two places or of a line it has both ends (geometry.py:37-61).
THEOREM HullAlwaysConvex == Spec => []HullIsConvex
BY HullHolds, PinsInvariance, PTL

\* Of all rectangles that hold the pins of a part with many, none along an axis or
\* a line through two pins is smaller than the one that is drawn
\* (geometry.py:198-218).
THEOREM OutlineAlwaysSmallest == Spec => []NoSmallerRectangle
BY BoxIsSmallest, PinsInvariance, PTL

\* Whatever package compute_part_geometry takes a part for, and however many pins
\* it has, the outline holds each of them; only that of a three-pin passive need
\* not (geometry.py:278-306).
THEOREM OutlineAlwaysHoldsPins == Spec => []OutlineHoldsPins
<1>1. PinsInv => OutlineHoldsPins
    <2> SUFFICES ASSUME PinsInv, pins # <<>>, ~FromTwoOfThree, NEW p \in Places
                 PROVE  Covers(Outline, p)
        BY DEF OutlineHoldsPins
    <2>1. PICK i \in DOMAIN pins : p = pins[i]
        BY DEF Places
    <2>2. pins \in Seq(Point)
        BY DEF PinsInv
    <2>3. ~(Len(pins) = 3 /\ PartGeometry(letter, pins).kind = "two")
        BY DEF FromTwoOfThree, Outline
    <2> QED BY <2>1, <2>2, <2>3, PartGeometryHolds DEF Outline
<1> QED BY <1>1, PinsInvariance, PTL
=============================================================================
