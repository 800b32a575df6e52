SPECIFICATION FairSpec
CONSTANTS
  f1 = f1
  f2 = f2
  p1 = p1
  p2 = p2
  Periods = {p1, p2}
  NoDate = NoDate
  NoRow = NoRow
  Families = {f1}
  Invoices <- OneBill
  Terms <- DueAtOnce
  ByHand = {k1}
  Amounts = {1}
  LastDay = 3
  ParentDays = {1}
  OfficeDays = {1, 2}
  MayCrash = TRUE
  Mishaps = {"record fails", "scan fails"}
CHECK_DEADLOCK FALSE
INVARIANTS
  TypeOK
  OneUnsettledCharge
  BooksAgreeWithStripe
PROPERTIES
  RunOutcomeIsFinal
  SuccessIsBookedInTheEnd
