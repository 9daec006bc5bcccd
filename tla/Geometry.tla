------------------------------ MODULE Geometry ------------------------------
(***************************************************************************)
(* The outline drawn around a part, from the positions of its pins         *)
(* (apps/boards/parsers/geometry.py).                                      *)
(*                                                                         *)
(* Coordinates are whole mils.  The code turns points by an angle and      *)
(* rounds; here an outline lies along an integer vector, and a distance is *)
(* compared by its square, so everything is exact.  The margin around a    *)
(* box, 10 mils on each side, is left out: no pin may rely on it.          *)
(***************************************************************************)
EXTENDS Integers, Sequences, FiniteSets, SequencesExt

CONSTANTS
    Coord,          \* the coordinates pins may have
    Passive         \* the letters of passives: C, R, L, D, F

ASSUME CoordAssumption == Coord \subseteq Int

Point == Coord \X Coord

Minus(p, q) == <<p[1] - q[1], p[2] - q[2]>>
Dot(p, q) == p[1] * q[1] + p[2] * q[2]
Wedge(p, q) == p[1] * q[2] - p[2] * q[1]

Least(S) == CHOOSE a \in S : \A b \in S : a <= b
Greatest(S) == CHOOSE a \in S : \A b \in S : b <= a

\* The directions between two points: the shortest vector along each of them, and
\* the x axis where they are one, as atan2 has it.
Size(a) == IF a < 0 THEN -a ELSE a
CommonDivisors(v) ==
    {g \in 1 .. (Size(v[1]) + Size(v[2])) : v[1] % g = 0 /\ v[2] % g = 0}
Shortest(v) ==
    LET gcd == Greatest(CommonDivisors(v)) IN <<v[1] \div gcd, v[2] \div gcd>>
Heading ==
    [v \in {Minus(p, q) : p, q \in Point} |->
        IF v = <<0, 0>> THEN <<1, 0>> ELSE Shortest(v)]

-----------------------------------------------------------------------------
(* _convex_hull *)

\* Python's order on pairs.
Before(p, q) == p[1] < q[1] \/ (p[1] = q[1] /\ p[2] < q[2])

\* Positive when o, a, b turn left.
Turn(o, a, b) == Wedge(Minus(a, o), Minus(b, o))

\* Popping stops one point too early.
TrimVariant(chain, p) ==
    SubSeq(chain, 1,
        Greatest({1} \cup {k \in 2 .. Len(chain) : Turn(chain[k - 1], chain[k], p) >= 0}))

\* Drop points from the end of a chain until it turns left towards p.
Trim(chain, p) ==
    SubSeq(chain, 1,
        Greatest({1} \cup {k \in 2 .. Len(chain) : Turn(chain[k - 1], chain[k], p) > 0}))

\* One pass of the monotone chain.
Chain(points) ==
    LET chain[k \in 1 .. Len(points)] ==
            IF k = 1 THEN <<points[1]>>
            ELSE Append(Trim(chain[k - 1], points[k]), points[k])
    IN  chain[Len(points)]

\* The points in Python's order.
Rank(S, p) == Cardinality({q \in S : Before(q, p)})
Sorted(S) == [i \in 1 .. Cardinality(S) |-> CHOOSE p \in S : Rank(S, p) = i - 1]

\* The vertices of the hull, counter-clockwise.
ConvexHull(S) ==
    LET points == Sorted(S)
    IN  IF Len(points) <= 2 THEN points
        ELSE Front(Chain(points)) \o Front(Chain(Reverse(points)))

-----------------------------------------------------------------------------
(* _single_pad_geometry, _two_pin_geometry, _multi_pin_ic_geometry *)

Pad == 10

SinglePad(p) == [kind |-> "pad", at |-> p]

\* Strictly between two distances, of which one has the square.
Within(square, low, high) == low * low < square /\ square < high * high

\* Pad radius, by the distance of the pins.
PinRadius(square) ==
    CASE Within(square, 247, 253) -> 50
      [] Within(square, 195, 199) -> 50
      [] Within(square, 165, 169) -> 35
      [] Within(square, 108, 112) -> 30
      [] Within(square, 101, 109) -> 30
      [] Within(square, 64, 68) -> 25
      [] Within(square, 52, 57) -> 15
      [] Within(square, 28, 32) -> 10
      [] Within(square, 18, 22) -> 5
      [] OTHER -> Pad

\* A rectangle along the vector from the first pin to the last, or along the
\* x axis if they are in one place.  It reaches armx beyond each of them and army
\* to each side; army is a quarter of a number whose square is army16, because
\* large inductors and capacitors get a half and a quarter of the distance.
TwoPin(letter, pins) ==
    LET first == Head(pins)
        across == Minus(pins[Len(pins)], first)
        square == Dot(across, across)
        radius == PinRadius(square)
        coil == letter = "L" /\ square > 50 * 50
        bulk == letter = "C" /\ square > 90 * 90
    IN  [kind |-> "two", at |-> first, far |-> square,
         along |-> IF square = 0 THEN <<1, 0>> ELSE across,
         armx |-> IF coil \/ bulk THEN 15 ELSE radius,
         army16 |-> CASE coil -> 4 * square
                      [] bulk -> square
                      [] OTHER -> 16 * radius * radius]

\* The rectangle along a vector that just holds the pins: the ranges of their
\* projections on it and across it, both times its length.
Rectangle(S, along) ==
    LET lengthwise == {Dot(along, p) : p \in S}
        across == {Wedge(along, p) : p \in S}
    IN  [kind |-> "box", along |-> along,
         minx |-> Least(lengthwise), maxx |-> Greatest(lengthwise),
         miny |-> Least(across), maxy |-> Greatest(across)]

\* Areas, each of them times a square, compared without dividing.
AreaTimes(r) == (r.maxx - r.minx) * (r.maxy - r.miny)
Smaller(r, s) ==
    AreaTimes(r) * Dot(s.along, s.along) < AreaTimes(s) * Dot(r.along, r.along)

\* The directions of the edges, and of the line through two points both ways.
Edges(hull) ==
    LET n == Len(hull)
    IN  [i \in 1 .. n |-> Heading[Minus(hull[(i % n) + 1], hull[i])]]

\* The first edge is taken.
MultiPinVariant(S) == Rectangle(S, Edges(ConvexHull(S))[1])

\* The first of the smallest rectangles along an edge of the hull.
MultiPin(S) ==
    LET edges == Edges(ConvexHull(S))
        best[k \in DOMAIN edges] ==
            LET here == Rectangle(S, edges[k]) IN
            IF k = 1 THEN here
            ELSE LET so_far == best[k - 1]
                 IN  IF Smaller(here, so_far) THEN here ELSE so_far
    IN  best[Len(edges)]

-----------------------------------------------------------------------------
(* compute_part_geometry *)

\* Passives with four pins are drawn along two of them as well.
PartGeometryVariant(letter, pins) ==
    LET places == {pins[i] : i \in DOMAIN pins} IN
    CASE pins = <<>> -> [kind |-> "none"]
      [] Cardinality(places) = 1 -> SinglePad(Head(pins))
      [] Cardinality(places) > 1 /\ Len(pins) <= 4 /\ letter \in Passive -> TwoPin(letter, pins)
      [] OTHER -> MultiPin(places)

PartGeometry(letter, pins) ==
    LET places == {pins[i] : i \in DOMAIN pins} IN
    CASE pins = <<>> -> [kind |-> "none"]
      [] Cardinality(places) = 1 -> SinglePad(Head(pins))
      [] Cardinality(places) > 1 /\ Len(pins) <= 3 /\ letter \in Passive -> TwoPin(letter, pins)
      [] OTHER -> MultiPin(places)

-----------------------------------------------------------------------------
(* What an outline holds *)

\* p lies within the outline; for a box, without its margin.
Covers(g, p) ==
    CASE g.kind = "none" -> FALSE
      [] g.kind = "pad" ->
            /\ p[1] - g.at[1] \in -Pad .. Pad
            /\ p[2] - g.at[2] \in -Pad .. Pad
      [] g.kind = "two" ->
            LET x == Dot(g.along, Minus(p, g.at))
                y == Wedge(g.along, Minus(p, g.at))
                unit == Dot(g.along, g.along)
            IN  /\ x < 0 => x * x <= g.armx * g.armx * unit
                /\ x > g.far => (x - g.far) * (x - g.far) <= g.armx * g.armx * unit
                /\ 16 * y * y <= g.army16 * unit
      [] g.kind = "box" ->
            /\ Dot(g.along, p) \in g.minx .. g.maxx
            /\ Wedge(g.along, p) \in g.miny .. g.maxy
=============================================================================
