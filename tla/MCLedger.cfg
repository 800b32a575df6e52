SPECIFICATION Spec
CONSTANTS
  f1 = f1
  f2 = f2
  p1 = p1
  p2 = p2
  Invoices <- TwoBillsAndOne
  Enrolled <- OnlyTheFirst
  Families = {f1, f2}
  Periods = {p1, p2}
  Keys = {k1, k2}
  Amounts = {1, 3}
  Terms <- SomeTerms
  NoDate = NoDate
  NoRow = NoRow
SYMMETRY Symmetry
INVARIANTS
  TypeOK
  VoidHoldsNoMoney
  NeverOverpaid
  StatusMatchesMoney
  AllocationsAreCovered
  OffersAddUp
  ListedInTheOrderPaid
  AllocationIsTheLoop
PROPERTIES
  ImplementsFamilyAccount
