SPECIFICATION LifeSpec
CONSTANTS
  Urls = {u1, u2}
  FreeUrl = u1
  ApiKeys = {k1, k2}
  NoApiKey = noApiKey
  Nothing = nothing
  Outside = outside
  Kinds = {"plain"}
  MaxCommands = 4
  MaxTrouble = 1
PROPERTY ComesBackByRestore
CHECK_DEADLOCK FALSE
