------------------------------- MODULE Landrex -------------------------------
(***************************************************************************)
(* Landrex .brd files (apps/boards/parsers/brd_landrex.py): the corners of *)
(* the board, then the sections Parts, Pins and Nails.  All rows are read  *)
(* first.  A part has no pins of its own: it says where its share of the   *)
(* pin rows ends, and the board is assembled part by part from the shares. *)
(*                                                                         *)
(* Every section has its header at most once and in this order, as in the  *)
(* files the parser describes.  Nets rows are not read.                    *)
(***************************************************************************)
EXTENDS ParsedBoard

CONSTANTS
    PartEnd,        \* where shares of pins may end
    NetNumber,      \* numbers of nets in pin rows; below 1: none
    MaxRows         \* bound: rows of a section

RawPart == [id : Name, end : PartEnd]
RawPin == [at : Place, net : NetName, number : NetNumber]
RawNail == [probe : Probe, net : NetName]

ASSUME LandrexAssumption ==
    /\ PartEnd \subseteq Nat /\ NetNumber \subseteq Int
    /\ MaxRows \in [{"corners", "parts", "pins", "nails"} -> Nat]

VARIABLES
    rows,           \* raw_parts, raw_pins, and the rows of nails
    taken           \* how many pin rows the part being assembled has had

raw == <<rows, taken>>

NoRows == rows = [parts |-> <<>>, pins |-> <<>>, nails |-> <<>>] /\ taken = 0

-----------------------------------------------------------------------------
(* Reading rows *)

Header(s) ==
    /\ <<section, s>> \in {<<"Corners", "Parts">>, <<"Parts", "Pins">>, <<"Pins", "Nails">>}
    /\ section' = s
    /\ UNCHANGED <<board, shape, raw>>

Corner(p) ==
    /\ section = "Corners" /\ Len(outline) < MaxRows["corners"]
    /\ outline' = Append(outline, p)
    /\ UNCHANGED <<section, board, size, drawn, raw>>

\* A row goes where its section's rows go; one that is too short goes nowhere.
Row(s, f, row) ==
    /\ section = s /\ Len(rows[f]) < MaxRows[f]
    /\ rows' = [rows EXCEPT ![f] = Append(@, row)]
    /\ UNCHANGED <<section, board, shape, taken>>

LandrexLine ==
    \/ \E s \in {"Parts", "Pins", "Nails"} : Header(s)
    \/ \E p \in Place : Corner(p)
    \/ \E row \in RawPart : Row("Parts", "parts", row)
    \/ \E row \in RawPin : Row("Pins", "pins", row)
    \/ \E row \in RawNail : Row("Nails", "nails", row)

-----------------------------------------------------------------------------
(* Assembling the board *)

\* The end is taken to be the last row and not the row after it.
ShareStartVariant(k) == IF k = 1 THEN 1 ELSE rows.parts[k - 1].end

\* The share of part k: from where the part before it ends up to its own end, as
\* far as there are rows; it may be empty.
ShareStart(k) == IF k = 1 THEN 1 ELSE rows.parts[k - 1].end + 1

ShareEnd(k) == IF rows.parts[k].end < Len(rows.pins) THEN rows.parts[k].end ELSE Len(rows.pins)

LandrexNet(n) == IF n \in {"NC", "UNCONNECTED", "---"} THEN "" ELSE n

\* Ids count the pins of a part.
MadeUpVariant == <<"n", taken>>

\* Ids count the nets that have a made-up one.
MadeUpLateVariant == <<"n", Cardinality({k \in DOMAIN nets : nets[k].id[1] = "n"})>>

MadeUp == <<"n", Cardinality(DOMAIN nets)>>

\* _get_net, and the listing that follows: a new net gets a made-up id, and a net
\* gets the number of every pin that has one.  Ids are <<"n", 0>> and <<"", 7>> for
\* n0 and 7.
Numbered(key, number, f, item) ==
    LET listed == Listing(nets, key, MadeUp, f, item) IN
    IF key # "" /\ number > 0 THEN [listed EXCEPT ![key].id = <<"", number>>] ELSE listed

\* The id that a pin or a nail records is the one its net has by now.
IdOf(m, key) == IF key = "" THEN key ELSE m[key].id

Current == Len(parts) + 1

\* Pins are numbered part by part.
PinIdVariant(part) == <<part, taken>>

\* Pins are numbered through, so their ids differ even when parts share a name.
PinIdOf(part) == <<part, Len(pins)>>

TakePin ==
    /\ Current <= Len(rows.parts) /\ ShareStart(Current) + taken <= ShareEnd(Current)
    /\ LET row == rows.pins[ShareStart(Current) + taken]
           part == rows.parts[Current].id
           id == PinIdOf(part)
           key == LandrexNet(row.net) IN
        /\ nets' = Numbered(key, row.number, "pins", id)
        /\ pins' = Append(pins, [id |-> id, part |-> part, key |-> key,
                                 net |-> IdOf(nets', key), at |-> row.at, of |-> Current])
    /\ taken' = taken + 1
    /\ UNCHANGED <<section, parts, nails, shape, rows>>

\* The box of a part is that of the pins it was given.
FinishPart ==
    /\ Current <= Len(rows.parts) /\ ShareStart(Current) + taken > ShareEnd(Current)
    /\ LET S == {pins[i].at : i \in {j \in DOMAIN pins : pins[j].of = Current}} IN
        AddPart(rows.parts[Current].id,
                IF S = {} THEN At(<<0, 0>>)
                ELSE [x |-> Least(Xs(S)), y |-> Least(Ys(S)),
                      width |-> Width(S), height |-> Height(S)])
    /\ taken' = 0
    /\ UNCHANGED <<section, pins, nails, nets, shape, rows>>

TakeNail ==
    /\ Len(parts) = Len(rows.parts) /\ Len(nails) < Len(rows.nails)
    /\ LET row == rows.nails[Len(nails) + 1]
           id == <<"nail", row.probe, Len(nails)>>
           key == LandrexNet(row.net) IN
        /\ nets' = Numbered(key, -1, "nails", id)
        /\ nails' = Append(nails, [id |-> id, key |-> key, net |-> IdOf(nets', key)])
    /\ UNCHANGED <<section, parts, pins, shape, raw>>

Assemble == TakePin \/ FinishPart \/ TakeNail

\* A file without the headers of parts and pins is no board.
Readable == section \in {"Pins", "Nails"}

\* The corner that closes the outline is dropped; the dimensions are those of the
\* outline, or of the pins.
LandrexEnd ==
    /\ Len(parts) = Len(rows.parts) /\ Len(nails) = Len(rows.nails)
    /\ Draw
    /\ outline' = IF Len(outline) >= 2 /\ outline[1] = outline[Len(outline)]
                  THEN Front(outline) ELSE outline
    /\ LET S == IF outline # <<>> THEN {outline[i] : i \in DOMAIN outline} ELSE PinPlaces IN
        size' = IF S = {} THEN size ELSE <<Width(S), Height(S)>>
    /\ UNCHANGED <<section, board, raw>>
=============================================================================
