SPECIFICATION Spec
CHECK_DEADLOCK FALSE
CONSTANTS
  Coord <- Grid
  Place <- Places
  Passive = {"C", "R", "L", "D", "F"}
  Name = {"U1", "C1"}
  LetterOf <- Letters
  PinName = {1}
  Probe = {"1"}
  NetName = {"GND", "gnd", "NC"}
  Upper <- Capitals
  PartEnd = {1, 2, 3}
  MaxRows <- Rows
  NetNumber = {0, 7}
  Extension = {"brd", "bv", "bvr", "fz", "asc", "cad", "cst", "txt"}
  MaxLines <- Lines
INVARIANT
  TypeOK
  NetsAgree
  StaleIdsNameNothing
  MadeUpIdsDiffer
  PinsHaveParts
  BoxesHoldPins
  OutlinesHoldPins
  PinIdsUnique
  RowsBecomePins
