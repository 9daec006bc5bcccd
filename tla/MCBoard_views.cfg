SPECIFICATION Spec
CONSTANTS
  h1 = h1
  brd = brd
  bv = bv
  w1 = w1
  w2 = w2
  p1 = p1
  p2 = p2
  None = None
  Hash = {h1}
  Ext = {brd}
  Web = {p1, p2}
  Worker = {w1, w2}
  Parses <- BrdParses
  MaxBoard = 1
  Limit <- ViewBounds
SYMMETRY ProcessSymmetry
CHECK_DEADLOCK FALSE
INVARIANTS TypeOK ViewsAccounted
