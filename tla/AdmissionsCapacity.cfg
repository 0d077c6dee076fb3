SPECIFICATION Spec
CONSTANTS
  a1 = a1
  a2 = a2
  c1 = c1
  c2 = c2
  c3 = c3
  d1 = d1
  h1 = h1
  h2 = h2
  w1 = w1
  Apps = {a1, a2}
  Children = {c1, c2, c3}
  Enrolled = {c3}
  NoChild = NoChild
  Divisions = {d1}
  Windows = {1}
  Capacities = {1}
  Slots = {1, 2}
  TicksPerDay = 2
  Handlers = {h1, h2}
  Workers = {w1}
  Loads <- SerialLoads
INVARIANT SlotCapacity
