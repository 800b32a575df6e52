SPECIFICATION Spec
CONSTANTS
  f1 = f1
  f2 = f2
  p1 = p1
  p2 = p2
  Periods = {p1, p2}
  NoDate = NoDate
  NoRow = NoRow
  Families = {f1}
  Invoices <- TwoBills
  Terms <- DueInTurn
  ByHand = {}
  Amounts = {1}
  LastDay = 3
  ParentDays = {1, 2, 3}
  OfficeDays = {1, 2, 3}
  MayCrash = FALSE
  Mishaps = {}
INVARIANTS
  NoRetryTheNextDay
