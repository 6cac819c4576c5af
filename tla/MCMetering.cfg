SPECIFICATION MeteringSpec
CONSTANTS
  g1 = g1
  g2 = g2
  p1 = p1
  p2 = p2
  Gateways <- MCGateways
  Plans <- MCPlans
  LimitOf <- MCLimitOf
  w1 = w1
  w2 = w2
  s1 = s1
  s2 = s2
  Accounts = {1, 2}
  Polled = {2}
  Setups <- MCSetups
  Workers <- MCWorkers
  Sessions = {s1}
  SessionCapacity = 1
  TieBand = 2
  LeaseMs = 1
  ReadingTtl = 3
  MaxCooldown = 2
  Deadlines = {3}
  Cooldowns = {1, 4}
  Jumps <- MCJumps
  Resets = {4}
  TriesPerRequest = 2
  MaxLeases = 2
  MaxTurns = 2
  Period = 2
  Horizon = 5
  MaxCount = 5
  MaxRows = 1
  Amounts = {3}
  Absent = absent
  Corrupt = corrupt
  NoGateway = noGateway
  MaxSettlements = 3
  Callers = {c1, c2, c3, c4}
  Ceilings = {0, 1, 2, 3}
INVARIANTS SettlementsExact UsedIsTheEstimate RollbackFreesNothing GapStopsRouting CounterExact LoadIsVisible RefusalRemembered
PROPERTIES TakesAreAtomic RankKeepsPriorities
SYMMETRY SameActors
CHECK_DEADLOCK FALSE
