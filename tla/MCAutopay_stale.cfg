SPECIFICATION Spec
CONSTANTS
  f1 = f1
  f2 = f2
  p1 = p1
  p2 = p2
  Periods = {p1, p2}
  NoDate = NoDate
  NoRow = NoRow
  Families = {f1, f2}
  Invoices <- BillEach
  Terms <- DueAtOnce
  ByHand = {k1}
  Amounts = {1}
  LastDay = 1
  ParentDays = {1}
  OfficeDays = {1}
  MayCrash = FALSE
  Mishaps = {}
PROPERTIES
  ChargesWhatIsDue
