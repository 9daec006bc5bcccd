SPECIFICATION Spec
CONSTANTS
  h1 = h1
  brd = brd
  bv = bv
  w1 = w1
  w2 = w2
  p1 = p1
  p2 = p2
  None = None
  Hash = {h1}
  Ext = {brd, bv}
  Web = {p1, p2}
  Worker = {w1}
  Parses <- BrdParses
  MaxBoard = 2
  Limit <- AllBounds
SYMMETRY ProcessSymmetry
CHECK_DEADLOCK FALSE
INVARIANTS OneRowPerContent SuccessIsCounted CacheIsOwnParse
