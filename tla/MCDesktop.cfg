SPECIFICATION DesktopSpec
CONSTANTS
  c0 = c0
  c1 = c1
  c2 = c2
  Missing = missing
  Damaged = damaged
  NoKey = noKey
  Contents <- MCContents
  PreparedOf <- MCPreparedOf
  Template = c0
  k1 = k1
  k2 = k2
  a1 = a1
  a2 = a2
  Keys <- MCKeys
  SidecarOutcomes = {"ok", "failed", "late"}
  ConfigOutcomes = {"ok", "failed", "late"}
  MaxRevision = 3
  Urls = {u1, u2}
  FreeUrl = u1
  ApiKeys <- MCApiKeys
  NoApiKey = noApiKey
  Nothing = nothing
  Outside = outside
  Kinds = {"plain", "managed", "legacy"}
  MaxCommands = 5
  MaxTrouble = 3
INVARIANTS DirtyDraftHasOwnRevision SavedRevisionNamesOneContent StoreHoldsLastKey PurgedKeyGone LearnedOfThisAccount
PROPERTIES SaveSurvivesRestart KeyKeptWhileUsable
SYMMETRY SameKeys
CHECK_DEADLOCK FALSE
