SPECIFICATION Spec
CONSTANTS
  Families = {f1, f2}
  Accounts = {a1, a2}
  Cards = {c1, c2}
  Calls = {x1, x2}
  Customers = {u1, u2}
  NoRow = NoRow
  Gone = Gone
SYMMETRY Symmetry
INVARIANTS
  TypeOK
  OneDefaultCard
  CardsStayInTheFamily
  StoredFitsWhenSmooth
PROPERTY AutopayKeepsItsCard
