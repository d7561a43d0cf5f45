SPECIFICATION FairSpec
CONSTANTS
  worker = worker
  reviewed = reviewed
  w1 = w1
  w2 = w2
  r1 = r1
  r2 = r2
  None = None
  Agents <- MCAgents
  Jobs <- MCJobs
  AgentOf <- MCAgentOf
  PurposeOf <- MCPurposeOf
  Patient = {reviewed}
  Days <- MCDays
  Revocable = {reviewed}
  Failing <- MCFailing
INVARIANTS NoStuckClaim ConsultationChangesNothing
PROPERTIES TurnsUndoNothing IntegratedWorkIsApproved RunsEnd
CHECK_DEADLOCK FALSE
