SPECIFICATION Spec
CONSTANTS
  d1 = d1
  d2 = d2
  y0 = y0
  y1 = y1
  y2 = y2
  h1 = h1
  h2 = h2
  Divisions = {d1, d2}
  Sessions = {y0, y1, y2}
  DefaultSession = y0
  NoSession = NoSession
  Handlers = {h1}
  SqlFiles = {FALSE}
  MaxCrashes = 1
  MaxTroubles = 0
  MaxFaults = 0
INVARIANT StartupSafe
