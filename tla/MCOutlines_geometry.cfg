SPECIFICATION Spec
CHECK_DEADLOCK FALSE
CONSTANTS
  Coord <- Grid
  Letter = {"C", "L", "U"}
  Passive = {"C", "R", "L", "D", "F"}
  MaxPins <- Pins
INVARIANT
  HullIsConvex
  NoSmallerRectangle
  OutlineHoldsPins
