SPECIFICATION FairSpec
CONSTANTS
  f1 = f1
  f2 = f2
  p1 = p1
  p2 = p2
  Periods = {p1, p2}
  NoDate = NoDate
  NoRow = NoRow
  Families = {f1}
  Invoices <- OneBill
  Terms <- DueAtOnce
  ByHand = {}
  Amounts = {1}
  LastDay = 2
  ParentDays = {1, 2}
  OfficeDays = {1, 2}
  MayCrash = FALSE
  Mishaps = {"between searches"}
PROPERTIES
  PendingRunsSettle
