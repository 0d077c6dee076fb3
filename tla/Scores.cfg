SPECIFICATION Spec
CONSTANTS
  s1 = s1
  s2 = s2
  s3 = s3
  h1 = h1
  h2 = h2
  Students = {s1, s2, s3}
  NoStudent = NoStudent
  Entries = {1, 2, 3}
  Structures = {1, 2}
  Marks = {1, 2}
  Handlers = {h1, h2}
  Loads <- AllLoads
INVARIANTS TypeOK AllScored
PROPERTIES ApprovalOnlyByApprover WorkflowSpec
