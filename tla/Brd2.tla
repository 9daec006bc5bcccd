-------------------------------- MODULE Brd2 --------------------------------
(***************************************************************************)
(* TOPTEST .brd files (apps/boards/parsers/brd2.py): COMPONENT lines with  *)
(* PIN lines under them, NAIL, OUTLINE and BRDOUT lines anywhere, and      *)
(* NET_LIST, after which components and pins are ignored.  section is      *)
(* "components" or "nets"; the part that pins go to is the last one.       *)
(***************************************************************************)
EXTENDS ParsedBoard

Brd2Net(n) == IF n \in {"?", "---", "NC"} THEN "" ELSE Upper[n]

\* A box that is a point, as every box is at first, stays one.
Brd2Expand(b, p) == IF b.width = 0 /\ b.height = 0 THEN b ELSE Grow(b, p)

\* A width that can be read counts even when the height cannot: h is then what the
\* height was.
Brdout(w, h) ==
    /\ size' = <<w, h>>
    /\ UNCHANGED <<section, board, outline, drawn>>

\* Places that cannot be read are the origin, and for a pin the corner of its
\* part's box: either way p is still some point.
Component(id, p) ==
    /\ section = "components"
    /\ AddPart(id, At(p))
    /\ UNCHANGED <<section, pins, nails, nets, shape>>

\* Pins belong to the current part, which NET_LIST forgets.
Pin(name, n, p) ==
    /\ section = "components" /\ parts # <<>>
    /\ LET last == Len(parts)
           part == parts[last] IN
        /\ AddPin(<<part.id, name>>, part.id, Brd2Net(n), p, last)
        /\ parts' = [parts EXCEPT ![last].bounds = Brd2Expand(@, p)]
    /\ UNCHANGED <<section, nails, shape>>

Nail(probe, n) ==
    /\ AddNail(<<"nail", probe>>, Brd2Net(n))
    /\ UNCHANGED <<section, parts, pins, shape>>

NetList ==
    /\ section' = "nets"
    /\ UNCHANGED <<board, shape>>

\* OUTLINE lines add up.
OutlineLine(p) ==
    /\ outline' = Append(outline, p)
    /\ UNCHANGED <<section, board, size, drawn>>

Brd2Line ==
    \/ \E w \in Coord, h \in Coord \cup {size[2]} : Brdout(w, h)
    \/ \E id \in Name, p \in Place : Component(id, p)
    \/ \E name \in PinName, n \in NetName, p \in Place : Pin(name, n, p)
    \/ \E probe \in Probe, n \in NetName : Nail(probe, n)
    \/ NetList
    \/ \E p \in Place : OutlineLine(p)

\* Without an outline, it and the dimensions come from the boxes of the parts.
Brd2End ==
    /\ Draw
    /\ IF outline = <<>> /\ parts # <<>>
       THEN LET S == UNION {Ends(parts[i].bounds) : i \in DOMAIN parts} IN
            /\ outline' = Corners(S)
            /\ size' = <<IF size[1] = 0 THEN Width(S) ELSE size[1],
                         IF size[2] = 0 THEN Height(S) ELSE size[2]>>
       ELSE UNCHANGED <<size, outline>>
    /\ UNCHANGED <<section, board>>
=============================================================================
