SPECIFICATION Spec
CONSTANTS
  a1 = a1  a2 = a2  h1 = h1  h2 = h2  None = None
  Agents = {a1, a2}
  Humans = {h1, h2}
  Owner <- MCOwner
  Orchestrator = h2
  Text <- OneLine
  Empty <- EmptyText
  Merge3 <- MCMerge3
  OutOfBounds <- NoSections
  Leasers = {}
  Revocable = {}
  Viewers = {a1}
  Unreliable = {a1}
  Rebasers = {a2}
  Editors = {h1}
  Resolvers = {h1}
  MaxVersion = 3
  MaxConflicts = 2
  MaxTtl = 1
  MaxRestarts = 0
PROPERTIES ImplementsDocLog DecisionKeepsLaterWork
CHECK_DEADLOCK FALSE
