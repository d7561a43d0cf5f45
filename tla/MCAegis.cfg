SPECIFICATION MCSpec
CONSTANTS
  Allowlisted = {"ark", "meta"}
  Private = {"meta"}
  Marked = {"vault"}
  SystemReads <- MCSystemReads
  Workspace <- MCWorkspace
  RuleLists <- SomeRules
  r1 = r1
  Runs = {r1}
  NoRun = norun
  Lines <- MCLines
  MaxEvents = 2
  MaxRecords = 4
  MaxCalls = 1
  MaxTroubles = 2
  MaxParts = 2
INVARIANTS LogIsSound RecordsTellTheRun DenyOverrides StoppedForWhatIsScanned
PROPERTY AuditCatchesUp
CHECK_DEADLOCK FALSE
