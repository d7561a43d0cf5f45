SPECIFICATION FairSpec
CONSTANTS
  chat = chat
  worker = worker
  m1 = m1
  m2 = m2
  t1 = t1
  s1 = s1
  None = None
  Agents <- MCAgents
  Runs <- MCRuns
  AgentOf <- MCAgentOf
  ServiceRuns = {m1, m2}
  Stops = {s1}
  MaxRuns = 2
  AgentBudget = 4
  TenantBudget = 5
  MinEstimate = 1
  Costs = {2}
  Unsafe = {chat}
  MaxTroubles = 2
  MaxEvents = 2
INVARIANTS BusyAgentsWork ReservationsAreOfLiveRuns CapabilitiesDieWithTheRun
PROPERTIES ResultsAreFinal ArmedLatchStartsNothing EverythingIsAnswered
CHECK_DEADLOCK FALSE
