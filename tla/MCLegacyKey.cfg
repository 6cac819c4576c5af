SPECIFICATION LifeSpec
CONSTANTS
  Urls = {u1}
  FreeUrl = u1
  ApiKeys = {k1, k2}
  NoApiKey = noApiKey
  Nothing = nothing
  Outside = outside
  Kinds = {"plain", "legacy"}
  MaxCommands = 4
  MaxTrouble = 1
PROPERTY ActiveProviderKeepsKey
CHECK_DEADLOCK FALSE
