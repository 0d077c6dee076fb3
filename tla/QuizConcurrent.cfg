SPECIFICATION Spec
CONSTANTS
  s1 = s1
  s2 = s2
  a1 = a1
  a2 = a2
  h1 = h1
  h2 = h2
  w1 = w1
  Students = {s1}
  Attempts = {a1}
  Handlers = {h1, h2}
  Workers = {w1}
  NoStudent = NoStudent
  NoAttempt = NoAttempt
  Answers = {"none", "right", "wrong"}
  QuestionCount = 1
  TabSwitchLimit = 2
  FlagThreshold = 2
  MaxPool = 1
  MaxViolations = 2
  MaxFaults = 1
  MaxCrashes = 1
  MaxLostAcks = 1
SYMMETRY QuizSymmetry
INVARIANTS TypeOK BackupArmed AckedSubmitted LimitEnforced
PROPERTIES FrozenAnswers SubmittedForever
CHECK_DEADLOCK FALSE
