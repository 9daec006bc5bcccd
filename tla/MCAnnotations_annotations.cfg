SPECIFICATION Spec
CHECK_DEADLOCK FALSE
CONSTANTS
  u1 = u1
  u2 = u2
  b1 = b1
  t1 = t1
  t2 = t2
  t3 = t3
  None = None
  User = {u1, u2}
  Board = {b1}
  Web = {t1, t2, t3}
  MaxAsked = 8
SYMMETRY Symmetric
INVARIANT
  TypeOK
  NoOrphans
  GoneForGood
PROPERTY
  PrivatePerUser
  CascadeIsAll
