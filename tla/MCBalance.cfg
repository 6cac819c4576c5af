SPECIFICATION AccountSpec
CONSTANTS
  w1 = w1
  w2 = w2
  s1 = s1
  s2 = s2
  Accounts = {1, 2}
  Polled = {2}
  Setups <- MCSetups
  Workers <- MCWorkers
  Sessions <- MCSessions
  SessionCapacity = 1
  TieBand = 2
  LeaseMs = 1
  ReadingTtl = 3
  MaxCooldown = 2
  Deadlines = {3}
  Cooldowns = {1, 4}
  Jumps <- MCJumps
  Resets = {4}
  TriesPerRequest = 2
  MaxLeases = 2
  MaxTurns = 2
  Period = 2
  Horizon = 5
  MaxCount = 5
PROPERTY FreshReadingKept
CHECK_DEADLOCK FALSE
