SPECIFICATION Spec
CONSTANTS
  f1 = f1
  f2 = f2
  p1 = p1
  p2 = p2
  Periods = {p1, p2}
  NoDate = NoDate
  NoRow = NoRow
  Families = {f1, f2}
  Invoices <- BillEach
  Terms <- DueAtOnce
  ByHand = {}
  Amounts = {1}
  LastDay = 6
  ParentDays = {1, 6}
  OfficeDays = {1}
  MayCrash = TRUE
  Mishaps = {"pending search fails", "between searches"}
SYMMETRY Symmetry
CONSTRAINT LongWithOneFamily
INVARIANTS
  LadderIsEarned
PROPERTIES
  ChargesWaitForTheLadder
