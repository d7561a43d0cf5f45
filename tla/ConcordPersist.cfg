SPECIFICATION FairSpec
CONSTANTS
  Torn = Torn
  Docs = {d1, d2}
  MaxChanges = 4
  MaxFaults = 2
  MaxRestarts = 2
INVARIANT AckedIsDurable
PROPERTIES FileNeverGoesBack SectionsEnd
CHECK_DEADLOCK FALSE
