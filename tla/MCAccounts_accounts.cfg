SPECIFICATION Spec
CHECK_DEADLOCK FALSE
CONSTANTS
  u1 = u1
  e1 = e1
  e2 = e2
  t1 = t1
  t2 = t2
  None = None
  User = {u1}
  Email = {e1, e2}
  Web = {t1, t2}
  MaxAsked = 6
SYMMETRY ThreadSymmetry
INVARIANT
  TypeOK
  LetInAtLogin
  OneTokenPerSession
  RowsAsMeant
  LinkIsSpent
PROPERTY LogoutIsFinal
