SPECIFICATION Spec
CONSTANTS
  s1 = s1
  s2 = s2
  c1 = c1
  c2 = c2
  h1 = h1
  h2 = h2
  n1 = n1
  primary = primary
  secondary = secondary
  Handlers = {h1, h2}
  Students = {s1, s2}
  NoStudent = NoStudent
  Classes = {c1, c2}
  NoClass = NoClass
  Terms = {1}
  FirstTerm = 1
  Divisions = {primary, secondary}
  DivisionOf <- Division
  Roster <- SeedOrder
  FirstClass <- Seeded
  Teachers = {n1}
  MaxHistory = 4
  Days = {1, 2}
  AttendanceRows = {1, 2, 3}
  Structures = {1, 2}
  NoStructure = NoStructure
  Categories = {"tuition", "meals"}
  Amounts = {1, 2}
  MaxPayments = 2
  Loads <- AllLoads
INVARIANTS TypeOK PlacedAsPromoted SummaryExact ReceiptsCover DebtorsReported
PROPERTIES SheetComplete
CHECK_DEADLOCK FALSE
