SPECIFICATION Spec
CONSTANTS
  Families = {f1}
  Accounts = {a1, a2}
  Cards = {c1}
  Calls = {x1}
  Customers = {u1}
  NoRow = NoRow
  Gone = Gone
PROPERTY SwitchClears
