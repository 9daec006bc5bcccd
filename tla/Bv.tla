--------------------------------- MODULE Bv ---------------------------------
(***************************************************************************)
(* BRDVIEW .bv files: the plain text form with its sections                *)
(* (apps/boards/parsers/bv.py), and the form that is an Access database,   *)
(* exported table by table with mdbtools (bv_mdb.py).                      *)
(***************************************************************************)
EXTENDS ParsedBoard

BvNet(n) == IF n \in {"?", "---", "NC", "UNCONNECTED"} THEN "" ELSE Upper[n]

-----------------------------------------------------------------------------
(* Text.  section is "" outside all sections. *)

\* Any END token ends any section; a section may come back.
Section(s) ==
    /\ section' = s
    /\ UNCHANGED <<board, shape>>

FileInfo(i, v) ==
    /\ section = "FILEINFO"
    /\ size' = [size EXCEPT ![i] = v]
    /\ UNCHANGED <<section, board, outline, drawn>>

BvPart(id, p) ==
    /\ section = "PARTS"
    /\ AddPart(id, At(p))
    /\ UNCHANGED <<section, pins, nails, nets, shape>>

\* Pins go to the part above them.
IndexedVariant(id) == Len(parts)

\* part_index: the last part of a name.
Indexed(id) == IF PartsNamed(id) = {} THEN 0 ELSE Greatest(PartsNamed(id))

\* A pin may name a part the file does not have, or not yet.
BvPin(id, name, n, p) ==
    /\ section = "PINS"
    /\ AddPin(<<id, name>>, id, BvNet(n), p, Indexed(id))
    /\ parts' = IF Indexed(id) = 0 THEN parts
                ELSE [parts EXCEPT ![Indexed(id)].bounds = Grow(@, p)]
    /\ UNCHANGED <<section, nails, shape>>

BvNail(probe, n) ==
    /\ section = "NAILS"
    /\ AddNail(<<"nail", probe>>, BvNet(n))
    /\ UNCHANGED <<section, parts, pins, shape>>

BvLine ==
    \/ \E s \in {"", "FILEINFO", "PARTS", "PINS", "NAILS", "NETS"} : Section(s)
    \/ \E i \in {1, 2}, v \in Coord : FileInfo(i, v)
    \/ \E id \in Name, p \in Place : BvPart(id, p)
    \/ \E id \in Name, name \in PinName, n \in NetName, p \in Place : BvPin(id, name, n, p)
    \/ \E probe \in Probe, n \in NetName : BvNail(probe, n)

\* The outline always comes from the parts and the pins.
BvEnd ==
    /\ Draw
    /\ LET S == PinPlaces \cup UNION {Ends(parts[i].bounds) : i \in DOMAIN parts} IN
        IF S # {}
        THEN /\ outline' = Corners(S)
             /\ size' = <<IF size[1] = 0 THEN Width(S) ELSE size[1],
                          IF size[2] = 0 THEN Height(S) ELSE size[2]>>
        ELSE UNCHANGED <<size, outline>>
    /\ UNCHANGED <<section, board>>

-----------------------------------------------------------------------------
(* Database.  section is the table whose rows are read; the tables are read    *)
(* in the order Layout, Pin, Nail.                                             *)

NextTable(s) ==
    /\ <<section, s>> \in {<<"Layout", "Pin">>, <<"Pin", "Nail">>}
    /\ section' = s
    /\ UNCHANGED <<board, shape>>

LayoutRow(p) ==
    /\ section = "Layout"
    /\ outline' = Append(outline, p)
    /\ UNCHANGED <<section, board, size, drawn>>

\* A box that is a point moves to the pin.
MdbExpand(b, p) == IF b.width = 0 /\ b.height = 0 THEN At(p) ELSE Grow(b, p)

\* A pin that names no part brings one too.
PinRowVariant(id, name, n, p) ==
    /\ section = "Pin"
    /\ LET known == PartsNamed(id)
           with == IF known # {} THEN parts
                   ELSE Append(parts, [id |-> id, bounds |-> At(p)])
           of == IF known = {} THEN Len(with) ELSE Greatest(known) IN
        /\ parts' = [with EXCEPT ![of].bounds = MdbExpand(@, p)]
        /\ AddPin(<<id, name>>, id, BvNet(n), p, of)
    /\ UNCHANGED <<section, nails, shape>>

\* The first pin of a part brings the part; a pin need not name one.
PinRow(id, name, n, p) ==
    /\ section = "Pin"
    /\ LET known == PartsNamed(id)
           with == IF id = "" \/ known # {} THEN parts
                   ELSE Append(parts, [id |-> id, bounds |-> At(p)])
           of == IF id = "" THEN 0 ELSE IF known = {} THEN Len(with) ELSE Greatest(known) IN
        /\ parts' = IF of = 0 THEN with
                    ELSE [with EXCEPT ![of].bounds = MdbExpand(@, p)]
        /\ AddPin(<<id, name>>, id, BvNet(n), p, of)
    /\ UNCHANGED <<section, nails, shape>>

\* A nail is named by its grid, or by the number of its row, for which the number
\* of rows read so far stands.
NailRow(grid, n) ==
    /\ section = "Nail"
    /\ AddNail(IF grid = "" THEN <<"row", lines>> ELSE <<"nail", grid>>, BvNet(n))
    /\ UNCHANGED <<section, parts, pins, shape>>

MdbLine ==
    \/ \E s \in {"Pin", "Nail"} : NextTable(s)
    \/ \E p \in Place : LayoutRow(p)
    \/ \E id \in Name \cup {""}, name \in PinName, n \in NetName, p \in Place :
            PinRow(id, name, n, p)
    \/ \E grid \in Probe \cup {""}, n \in NetName : NailRow(grid, n)

\* The outline stays as the file has it; the dimensions are those of the outline,
\* or of the pins.
MdbEnd ==
    /\ Draw
    /\ LET S == IF outline # <<>> THEN {outline[i] : i \in DOMAIN outline} ELSE PinPlaces IN
        size' = IF S = {} THEN size ELSE <<Width(S), Height(S)>>
    /\ UNCHANGED <<section, board, outline>>
=============================================================================
