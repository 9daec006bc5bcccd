---------------------------- MODULE PartOutlines ----------------------------
(***************************************************************************)
(* The pins of one part, in the order of its file, and the outline that    *)
(* compute_part_geometry draws around those read so far.  Each parser      *)
(* gathers the positions of a part in a list, in a loop over all pins, and *)
(* calls it at the end.                                                    *)
(***************************************************************************)
EXTENDS Geometry

CONSTANTS
    Letter,         \* first letters of part names
    MaxPins         \* bound: pins of a part, by its letter

ASSUME MaxPinsAssumption == MaxPins \in [Letter -> Nat]

VARIABLES
    letter,         \* of the part's name
    pins            \* part_pin_positions[part.id]

vars == <<letter, pins>>

Init == letter \in Letter /\ pins = <<>>

\* part_pin_positions[pin.part_id].append(...)
AddPin(p) ==
    /\ Len(pins) < MaxPins[letter]
    /\ pins' = Append(pins, p)
    /\ UNCHANGED letter

Next == \E p \in Point : AddPin(p)

Spec == Init /\ [][Next]_vars

-----------------------------------------------------------------------------

Places == {pins[i] : i \in DOMAIN pins}
Outline == PartGeometry(letter, pins)

\* A three-pin passive is drawn from its first and last pin alone.
FromTwoOfThree == Len(pins) = 3 /\ Outline.kind = "two"

\* The first and the last of some places in Python's order are among the vertices.
HasEnds(hull, S) ==
    \E i, j \in 1 .. Len(hull) : \A p \in S :
        /\ p = hull[i] \/ Before(hull[i], p)
        /\ p = hull[j] \/ Before(p, hull[j])

\* The hull is a polygon that turns left at every vertex, its vertices are pins,
\* and no pin lies outside it (geometry.py:37-61).  The first and the last of the
\* pins in Python's order are vertices: of two places, or of pins on one line
\* whatever its direction, the hull is both ends.
HullIsConvex ==
    LET hull == ConvexHull(Places)
        n == Len(hull)
        After(i) == hull[(i % n) + 1] IN
    /\ \A i \in 1 .. n : hull[i] \in Places
    /\ \A i \in 1 .. n, p \in Places : Turn(hull[i], After(i), p) >= 0
    /\ n > 2 => \A i \in 1 .. n : Turn(hull[i], After(i), After((i % n) + 1)) > 0
    /\ Places # {} => HasEnds(hull, Places)

\* Of the rectangles that hold the pins of a part with many, none along a line
\* through two pins or along an axis is smaller than the one that is drawn: the
\* edges of the hull are enough to look at (geometry.py:198-218).
NoSmallerRectangle ==
    LET drawn == Outline IN
    drawn.kind = "box" =>
        /\ ~Smaller(Rectangle(Places, <<1, 0>>), drawn)
        /\ \A p, q \in Places :
            p # q => ~Smaller(Rectangle(Places, Heading[Minus(p, q)]), drawn)

\* A part with pins has an outline, and it holds every pin, whatever package the
\* distance suggests; except that of a three-pin passive, which need not hold the
\* pin in the middle (geometry.py:278-306).
OutlineHoldsPins ==
    LET drawn == Outline IN
    pins # <<>> /\ ~FromTwoOfThree => \A p \in Places : Covers(drawn, p)
=============================================================================
