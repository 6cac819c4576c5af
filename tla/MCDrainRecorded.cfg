SPECIFICATION Spec
CONSTANTS
  r1 = r1
  r2 = r2
  r3 = r3
  agent1 = agent1
  agent2 = agent2
  t1 = t1
  t2 = t2
  t3 = t3
  u1 = u1
  u2 = u2
  Agents <- MCAgents
  Upstreams <- MCUpstreams
  Requests <- OneRequest
  AgentOf <- OneAgentOf
  Targets <- ThreeTargets
  UpstreamOf <- ThreeUpstreamOf
  Place <- ThreePlace
  Payloads <- AllPayloads
  Causes = {"client", "drain", "deadline"}
  EjectAfter = 2
  GlobalLimit = 1
  AgentLimit = 1
  ProviderLimit = 1
  MaxAttempts = 2
PROPERTIES CancelledMeansClient
CHECK_DEADLOCK FALSE
