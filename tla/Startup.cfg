SPECIFICATION FairSpec
CONSTANTS
  d1 = d1
  d2 = d2
  y0 = y0
  y1 = y1
  y2 = y2
  h1 = h1
  h2 = h2
  Divisions = {d1, d2}
  Sessions = {y0, y1, y2}
  DefaultSession = y0
  NoSession = NoSession
  Handlers = {h1, h2}
  SqlFiles = {TRUE, FALSE}
  MaxCrashes = 2
  MaxTroubles = 2
  MaxFaults = 1
INVARIANTS TypeOK AtMostOneActive
PROPERTIES SeedKeepsRows ComesBack
