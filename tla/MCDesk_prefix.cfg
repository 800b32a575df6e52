SPECIFICATION DeskSpec
CONSTANTS
  ann = ann
  bob = bob
  Users = {u1, u2}
  Sessions = {s1}
  Invites = {i1, i2}
  Resets = {r1}
  Guardians = {g1, g2}
  Calls = {c1, c2}
  Names = {ann, bob}
  Lower <- LowerCase
  MaxReplaced = 1
  Addresses = {localhost, home, far}
  Private = {localhost, home}
  Loopback = localhost
  NoAddress = NoAddress
  Emails = {ann, bob}
  NoEmail = NoEmail
  NoKey = NoKey
  NoIntent = NoIntent
  Families = {u1, u2}
  Students = {i1, i2}
  Plans = {p1}
  Periods = {q1}
  Pins = {c1, c2}
  Prices = {3}
  Discounts <- SomeDiscounts
  Contacts = {n1}
  Keys = {k1, k2, k3}
  Attempts = {a1, a2, a3}
  MaxFailures = 3
  MaxKeys = 2
  Pages = {g1, g2}
  Intents = {t1, t2, t3}
  NoRow = NoRow
  Parts = {"screens"}
SYMMETRY Symmetry
INVARIANTS
  StaysInTheApp
