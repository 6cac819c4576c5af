SPECIFICATION TasksSpec
CONSTANTS
  Companions = 1
  MaxOps = 3
  MaxEvents = 2
  Versions = {2, 3}
  Torn = torn
  MaxRestores = 2
  Clicks = {1, 2}
  MaxClicks = 3
  MaxChanges = 1
INVARIANTS OutcomeTellsTruth BaselineKept DisconnectGivesBack RestoreReversible PairMovesTogether TunnelsOwned OfficialKept
PROPERTIES UserTextKept UserValueKept
CHECK_DEADLOCK FALSE
