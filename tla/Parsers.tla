------------------------------- MODULE Parsers -------------------------------
(***************************************************************************)
(* parse_board_file (apps/boards/parsers/__init__.py): a file's format is  *)
(* detected and its parser run; whatever goes wrong, the result is a       *)
(* failure and not an exception.                                           *)
(*                                                                         *)
(* A file is its extension, the signs detect_format looks for in it, and   *)
(* its lines, chosen as the parser reads them.                             *)
(***************************************************************************)
EXTENDS Brd2, Bv, Landrex

CONSTANTS
    Extension,      \* extensions of files
    MaxLines        \* bound: lines of a file, by its format

VARIABLE format     \* BoardFormat of the file

vars == <<format, phase, section, lines, board, shape, raw>>

Format == {"brd2", "brd_landrex", "bv", "bv_mdb", "fz", "asc", "cad", "cst", "unknown"}
Sign == {"brd2", "mdb", "bv", "cad", "binary"}

\* detect_format: signs are what the file's first bytes contain.
DetectFormat(ext, signs) ==
    CASE ext \in {"fz", "asc", "cad", "cst"} -> ext
      [] ext \in {"bv", "bvr"} -> IF "mdb" \in signs THEN "bv_mdb" ELSE "bv"
      [] ext = "brd" -> IF "binary" \in signs /\ "brd2" \notin signs
                        THEN "brd_landrex" ELSE "brd2"
      [] OTHER -> CASE "brd2" \in signs -> "brd2"
                    [] "bv" \in signs -> "bv"
                    [] "cad" \in signs -> "cad"
                    [] OTHER -> "unknown"

\* _REGISTRY: the modules fz and asc do not exist.
Registry == {"brd2", "brd_landrex", "bv", "bv_mdb"}

FirstSection == [f \in Registry |->
    CASE f = "brd2" -> "components"
      [] f = "bv" -> ""
      [] f = "bv_mdb" -> "Layout"
      [] f = "brd_landrex" -> "Corners"]

Init ==
    /\ \E ext \in Extension, signs \in SUBSET Sign : format = DetectFormat(ext, signs)
    /\ IF format \in Registry
       THEN phase = "lines" /\ section = FirstSection[format]
       ELSE phase = "failed" /\ section = ""
    /\ Empty
    /\ NoRows

\* One more line of the file.
ReadLine ==
    /\ phase = "lines" /\ lines < MaxLines[format]
    /\ lines' = lines + 1
    /\ \/ format = "brd2" /\ Brd2Line /\ UNCHANGED raw
       \/ format = "bv" /\ BvLine /\ UNCHANGED raw
       \/ format = "bv_mdb" /\ MdbLine /\ UNCHANGED raw
       \/ format = "brd_landrex" /\ LandrexLine
    /\ UNCHANGED <<format, phase>>

\* The last line has been read.
StartAssembly ==
    /\ phase = "lines" /\ format = "brd_landrex" /\ Readable
    /\ phase' = "assembly"
    /\ UNCHANGED <<format, section, lines, board, shape, raw>>

AssembleMore ==
    /\ phase = "assembly" /\ Assemble
    /\ UNCHANGED <<format, phase, lines>>

Finish ==
    /\ \/ phase = "lines" /\ format = "brd2" /\ Brd2End /\ UNCHANGED raw
       \/ phase = "lines" /\ format = "bv" /\ BvEnd /\ UNCHANGED raw
       \/ phase = "lines" /\ format = "bv_mdb" /\ MdbEnd /\ UNCHANGED raw
       \/ phase = "assembly" /\ LandrexEnd
    /\ phase' = "done"
    /\ UNCHANGED <<format, lines>>

\* An empty file, one without its headers, mdbtools that are missing or fail, a
\* row without a column: there is no board.
Fails ==
    CASE format = "brd_landrex" -> ~Readable
      [] format = "bv_mdb" -> TRUE
      [] OTHER -> lines = 0

Fail ==
    /\ phase = "lines" /\ Fails
    /\ phase' = "failed"
    /\ UNCHANGED <<format, section, lines, board, shape, raw>>

Next == ReadLine \/ StartAssembly \/ AssembleMore \/ Finish \/ Fail

Spec == Init /\ [][Next]_vars

-----------------------------------------------------------------------------

\* A Landrex net has a made-up id or a number, all others their key.
NetId == NetName \cup ({"n"} \X Nat) \cup ({""} \X Int)
PinId == (Name \cup {""}) \X (PinName \cup Nat)
NailId == ({"nail"} \X Probe) \cup ({"row"} \X Nat) \cup ({"nail"} \X Probe \X Nat)

PartRecord == [id : Name, bounds : Box]
PinRecord == [id : PinId, part : Name \cup {""}, key : NetName \cup {""},
              net : NetId \cup {""}, at : Place, of : Nat]
NailRecord == [id : NailId, key : NetName \cup {""}, net : NetId \cup {""}]
Net == [id : NetId, pins : Seq(PinId), nails : Seq(NailId)]

TypeOK ==
    /\ format \in Format
    /\ phase \in {"lines", "assembly", "done", "failed"}
    /\ lines \in Nat /\ taken \in Nat
    /\ parts \in Seq(PartRecord)
    /\ pins \in Seq(PinRecord)
    /\ nails \in Seq(NailRecord)
    /\ DOMAIN nets \subseteq NetName /\ nets \in [DOMAIN nets -> Net]
    /\ rows \in [parts : Seq(RawPart), pins : Seq(RawPin), nails : Seq(RawNail)]
    /\ DOMAIN size = 1 .. 2

-----------------------------------------------------------------------------
(* The connections of the board *)

Ids(seq, key) == {seq[i].id : i \in {j \in DOMAIN seq : seq[j].key = key}}

\* A net lists just the pins and the nails that are on it, however often it is met
\* and in whatever section (net_map in every parser): a click on a net lights up
\* what a click on a pin says.
NetsAgree ==
    /\ \A key \in DOMAIN nets :
        /\ {nets[key].pins[i] : i \in DOMAIN nets[key].pins} = Ids(pins, key)
        /\ {nets[key].nails[i] : i \in DOMAIN nets[key].nails} = Ids(nails, key)
    /\ \A i \in DOMAIN pins : pins[i].key \in DOMAIN nets \cup {""}
    /\ \A i \in DOMAIN nails : nails[i].key \in DOMAIN nets \cup {""}

\* The net a pin or a nail names exists and has that id.
Resolves(item) == item.key # "" => item.net = nets[item.key].id

\* "Net this pin belongs to (empty string if unconnected)" (models.py:40): of a
\* board that is done, the net_id of a pin is that of a net.
NetIdsMatch == phase = "done" => \A i \in DOMAIN pins : Resolves(pins[i])

\* Ids made up for nets without a number belong to one net each
\* (brd_landrex.py:368-372).
MadeUpIdsDiffer ==
    format = "brd_landrex" =>
        \A k, l \in DOMAIN nets :
            nets[k].id = nets[l].id => k = l \/ nets[k].id[1] = ""

\* A Landrex pin keeps the id its net had when the pin was taken, and the net may
\* get a number later (brd_landrex.py:373-375, 394-395).  An id that was made up
\* never names another net, then or later: to follow it leads to the pin's own net
\* or nowhere.  Nails come after all pins, and theirs are the ids that nets have.
StaleIdsNameNothing ==
    format = "brd_landrex" =>
        /\ \A i \in DOMAIN pins, k \in DOMAIN nets :
            pins[i].key # "" /\ pins[i].net = nets[k].id
                => k = pins[i].key \/ nets[k].id[1] = ""
        /\ \A i \in DOMAIN nails : Resolves(nails[i])

-----------------------------------------------------------------------------
(* Parts and their pins *)

\* A pin is added to a part of the name it has; only a text .bv file may have pins
\* whose part it lacks, and only a database pins that name none.
PinsHaveParts ==
    \A i \in DOMAIN pins :
        /\ pins[i].of \in DOMAIN parts => parts[pins[i].of].id = pins[i].part
        /\ format \in {"brd2", "bv_mdb"} /\ pins[i].part # "" => pins[i].of \in DOMAIN parts

Boxed(i) == pins[i].of \in DOMAIN parts => Inside(parts[pins[i].of].bounds, pins[i].at)

\* A part's box holds its pins where the parser says it grows with them or is
\* measured from them (bv.py:208-209, brd_landrex.py:413-427).
BoxesHoldPins == format \in {"bv", "brd_landrex"} => \A i \in DOMAIN pins : Boxed(i)

\* The outline of every part holds the pins that were added to it, also when parts
\* share a name; for passives with three pins see PartOutlines.
OutlinesHoldPins ==
    phase = "done" =>
        \A i \in DOMAIN pins : pins[i].of \in DOMAIN parts =>
            \/ Covers(drawn[pins[i].of], pins[i].at)
            \/ drawn[pins[i].of].kind = "two" /\ Len(PositionsOf(pins, pins[i].part)) = 3

\* Pins of a Landrex file are told apart by their ids, even if two parts have one
\* name or share rows (brd_landrex.py:396-397).
PinIdsUnique ==
    format = "brd_landrex" =>
        \A i, j \in DOMAIN pins : pins[i].id = pins[j].id => i = j

\* When the shares of the parts follow one another and end at the last row, every
\* row becomes one pin, in the order of the file (brd_landrex.py:357-359).
RowsBecomePins ==
    LET n == Len(rows.parts) IN
    /\ format = "brd_landrex" /\ phase = "done" /\ n > 0
    /\ \A k \in 2 .. n : rows.parts[k - 1].end <= rows.parts[k].end
    /\ rows.parts[n].end >= Len(rows.pins)
    => /\ Len(pins) = Len(rows.pins)
       /\ \A i \in DOMAIN pins : pins[i].at = rows.pins[i].at
                                 /\ pins[i].key = LandrexNet(rows.pins[i].net)
=============================================================================
