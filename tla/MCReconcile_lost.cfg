SPECIFICATION FairSpec
CONSTANTS
  Intents = {i1, i2}
  Attributable = {i1, i2}
  Passes = {daily}
  LastSecond = 2
  MishapSets <- LatePayers
  NoRow = NoRow
PROPERTIES
  SucceededIsBooked
