SPECIFICATION Spec
CONSTANTS
  a1 = a1  a2 = a2  h1 = h1  h2 = h2  None = None
  Agents = {a1, a2}
  Humans = {h1, h2}
  Owner <- MCOwner
  Orchestrator = h2
  Text <- TwoLines
  Empty <- EmptyText
  Merge3 <- MCMerge3
  OutOfBounds <- NoSections
  Leasers = {a1, a2}
  Revocable = {a1}
  Viewers = {}
  Unreliable = {}
  Rebasers = {}
  Editors = {}
  Resolvers = {}
  MaxVersion = 3
  MaxConflicts = 1
  MaxTtl = 1
  MaxRestarts = 1
PROPERTIES NoLostUpdate ConflictsAreGenuine
CHECK_DEADLOCK FALSE
