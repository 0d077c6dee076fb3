SPECIFICATION Spec
CONSTANTS
  s1 = s1
  s2 = s2
  h1 = h1
  h2 = h2
  w1 = w1
  Students = {s1, s2}
  NoStudent = NoStudent
  Ids = {1, 2}
  Marks = {1, 2}
  Handlers = {h1, h2}
  Workers = {w1}
  Scales <- AllScales
  Loads <- AllLoads
INVARIANTS TypeOK OnlyApprovedMarks RankingConsistent GradedByWholeScale
PROPERTY HandWorkKept
