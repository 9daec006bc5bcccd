------------------------------ MODULE MCParsers ------------------------------
(* The parsers on short files with two parts and few nets. *)
EXTENDS Parsers

Letters == [n \in Name |-> IF n = "U1" THEN "U" ELSE "C"]
Capitals == [n \in NetName |-> IF n = "gnd" THEN "GND" ELSE n]
Grid == {0, 20}
Places == {<<0, 0>>, <<20, 20>>}
Lines == [f \in Registry |-> CASE f = "brd_landrex" -> 10 [] f = "bv" -> 6 [] OTHER -> 5]
Rows == [f \in {"corners", "parts", "pins", "nails"} |-> IF f = "nails" THEN 1 ELSE 2]
=============================================================================
