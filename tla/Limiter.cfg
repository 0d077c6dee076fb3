SPECIFICATION LimiterSpec
CONSTANTS
  k1 = k1
  k2 = k2
  Keys = {k1, k2}
  Requests = 2
  Window = 2
  MaxTime = 7
SYMMETRY LimiterSymmetry
INVARIANTS LimiterTypeOK TwiceTheLimit
PROPERTY AbstractSpec
