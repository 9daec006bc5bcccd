SPECIFICATION FairSpec
CHECK_DEADLOCK FALSE
CONSTANTS
  u1 = u1
  starter = starter
  pro = pro
  s1 = s1
  s2 = s2
  t1 = t1
  t2 = t2
  None = None
  User = {u1}
  Plan = {starter, pro}
  Session = {s1}
  Web = {t1, t2}
  Month = 1
  MaxTime = 1
  MaxTrouble = 2
PROPERTY PaidIsHonoured
