SPECIFICATION FairSpec
CONSTANTS
  Intents = {i1, i2}
  Attributable = {i1}
  Passes = {daily, button}
  LastSecond = 3
  MishapSets <- AllOrSmooth
  NoRow = NoRow
INVARIANTS
  TypeOK
  NothingIsPassedOver
PROPERTIES
  FoundIsBookedOrHeld
  BookedWhenSmooth
