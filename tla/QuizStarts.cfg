SPECIFICATION FairSpec
CONSTANTS
  s1 = s1
  s2 = s2
  a1 = a1
  a2 = a2
  h1 = h1
  h2 = h2
  w1 = w1
  Students = {s1}
  Attempts = {a1, a2}
  Handlers = {h1, h2}
  Workers = {w1}
  NoStudent = NoStudent
  NoAttempt = NoAttempt
  Answers = {"none"}
  QuestionCount = 1
  TabSwitchLimit = 1
  FlagThreshold = 1
  MaxPool = 1
  MaxViolations = 0
  MaxFaults = 1
  MaxCrashes = 0
  MaxLostAcks = 0
PROPERTIES SittingSpec EveryAttemptSubmitted QuizOpens
CHECK_DEADLOCK FALSE
