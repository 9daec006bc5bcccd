----------------------------- MODULE ParsedBoard -----------------------------
(***************************************************************************)
(* The board that the parsers of apps/boards/parsers fill in (models.py),  *)
(* and what they have in common.  A file is read line by line, or table    *)
(* row by table row; which one comes next is up to the file.               *)
(*                                                                         *)
(* Sides, diameters, rotations, package types and how a net is spelled     *)
(* matter to no property and are left out, and so are lines that a parser  *)
(* skips without looking further.                                          *)
(***************************************************************************)
EXTENDS Geometry

CONSTANTS
    Name,           \* reference designators of parts
    LetterOf,       \* the first letter of each
    PinName, Probe, \* names of pins, numbers of nails
    NetName,        \* nets as files spell them
    Upper,          \* how they are spelled in capitals
    Place           \* the points that files speak of

ASSUME PlaceAssumption == Place \subseteq Point /\ <<0, 0>> \in Place
ASSUME NameAssumption == "" \notin Name
ASSUME NetAssumption == Upper \in [NetName -> NetName] /\ "" \notin NetName

Box == [x : Int, y : Int, width : Nat, height : Nat]

VARIABLES
    phase,          \* "lines" are being read, "done", "failed"
    section,        \* where in the file the parser is
    lines,          \* how many lines it has read
    parts,          \* [id, bounds]
    pins,           \* [id, part, key, net, at, of]
    nails,          \* [id, key, net]
    nets,           \* net_map: by key [id, pins, nails]
    size,           \* board_width and board_height
    outline,        \* corners
    drawn           \* geometry of each part

reading == <<phase, section, lines>>
board == <<parts, pins, nails, nets>>
shape == <<size, outline, drawn>>

Empty ==
    /\ lines = 0
    /\ parts = <<>> /\ pins = <<>> /\ nails = <<>>
    /\ nets = [k \in {} |-> 0]
    /\ size = <<0, 0>> /\ outline = <<>> /\ drawn = <<>>

-----------------------------------------------------------------------------
(* Parts *)

At(p) == [x |-> p[1], y |-> p[2], width |-> 0, height |-> 0]
Inside(b, p) == p[1] \in b.x .. (b.x + b.width) /\ p[2] \in b.y .. (b.y + b.height)

\* The right edge is taken for the width.
GrowVariant(b, p) ==
    [x |-> Least({b.x, p[1]}), y |-> Least({b.y, p[2]}),
     width |-> Greatest({b.x + b.width, p[1]}) - b.x,
     height |-> Greatest({b.y + b.height, p[2]}) - b.y]

\* The smallest box that holds b and p.
Grow(b, p) ==
    LET left == Least({b.x, p[1]})
        low == Least({b.y, p[2]}) IN
    [x |-> left, y |-> low,
     width |-> Greatest({b.x + b.width, p[1]}) - left,
     height |-> Greatest({b.y + b.height, p[2]}) - low]

AddPart(id, b) == parts' = Append(parts, [id |-> id, bounds |-> b])
PartsNamed(id) == {i \in DOMAIN parts : parts[i].id = id}

-----------------------------------------------------------------------------
(* Pins, nails and the nets that list them.  key is what net_map files a net   *)
(* under, "" for a pin without a net; net is the id the pin is given; of is    *)
(* the part whose box the pin was added to, 0 if there was none.              *)

\* Nails are listed only where they are the first to meet a net.
ListingVariant(m, key, id, f, item) ==
    IF key = "" \/ (key \in DOMAIN m /\ f = "nails") THEN m
    ELSE LET net == IF key \in DOMAIN m THEN m[key]
                    ELSE [id |-> id, pins |-> <<>>, nails |-> <<>>]
         IN  [k \in DOMAIN m \cup {key} |->
                IF k = key THEN [net EXCEPT ![f] = Append(@, item)] ELSE m[k]]

\* A net is made when it is first met; f is "pins" or "nails".
Listing(m, key, id, f, item) ==
    IF key = "" THEN m
    ELSE LET net == IF key \in DOMAIN m THEN m[key]
                    ELSE [id |-> id, pins |-> <<>>, nails |-> <<>>]
         IN  [k \in DOMAIN m \cup {key} |->
                IF k = key THEN [net EXCEPT ![f] = Append(@, item)] ELSE m[k]]

\* For the formats whose nets have their key for an id.
AddPin(id, part, key, p, of) ==
    /\ pins' = Append(pins, [id |-> id, part |-> part, key |-> key, net |-> key,
                             at |-> p, of |-> of])
    /\ nets' = Listing(nets, key, key, "pins", id)

AddNail(id, key) ==
    /\ nails' = Append(nails, [id |-> id, key |-> key, net |-> key])
    /\ nets' = Listing(nets, key, key, "nails", id)

-----------------------------------------------------------------------------
(* The end of a parse *)

\* Pins without a net are passed over.
PositionsOfVariant(list, id) ==
    LET upto[k \in 0 .. Len(list)] ==
            IF k = 0 THEN <<>>
            ELSE LET before == upto[k - 1]
                 IN  IF list[k].part = id /\ list[k].key # ""
                     THEN Append(before, list[k].at) ELSE before
    IN  upto[Len(list)]

\* part_pin_positions: of all pins with the part's id, in their order.
PositionsOf(list, id) ==
    LET upto[k \in 0 .. Len(list)] ==
            IF k = 0 THEN <<>>
            ELSE LET before == upto[k - 1]
                 IN  IF list[k].part = id THEN Append(before, list[k].at) ELSE before
    IN  upto[Len(list)]

Draw ==
    drawn' = [i \in DOMAIN parts |->
                PartGeometry(LetterOf[parts[i].id], PositionsOf(pins, parts[i].id))]

Xs(S) == {p[1] : p \in S}
Ys(S) == {p[2] : p \in S}
Width(S) == Greatest(Xs(S)) - Least(Xs(S))
Height(S) == Greatest(Ys(S)) - Least(Ys(S))
Corners(S) ==
    << <<Least(Xs(S)), Least(Ys(S))>>, <<Greatest(Xs(S)), Least(Ys(S))>>,
       <<Greatest(Xs(S)), Greatest(Ys(S))>>, <<Least(Xs(S)), Greatest(Ys(S))>> >>

\* Both corners of a part's box.
Ends(b) == {<<b.x, b.y>>, <<b.x + b.width, b.y + b.height>>}
PinPlaces == {pins[i].at : i \in DOMAIN pins}
=============================================================================
