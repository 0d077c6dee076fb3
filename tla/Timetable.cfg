SPECIFICATION Spec
CONSTANTS
  k1 = k1
  k2 = k2
  t1 = t1
  t2 = t2
  t3 = t3
  t4 = t4
  h1 = h1
  h2 = h2
  h3 = h3
  Classes = {k1, k2}
  NoClass = NoClass
  Ids = {t1, t2, t3, t4}
  Handlers = {h1, h2, h3}
  MaxFaults = 1
SYMMETRY Symmetry
INVARIANTS TypeOK NewestCurrent OneCurrent
CHECK_DEADLOCK FALSE
