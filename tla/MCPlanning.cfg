SPECIFICATION PlanningSpec
CONSTANTS
  p1 = p1  p2 = p2
  Plans = {p1, p2}
  Request <- MCRequest
  Replies <- MCReplies
  MaxItems = 3
  Fast = {"rename", "readme"}
  Deep = {"api"}
  Punctuation = {"?"}
  MaxVersion = 2
INVARIANT SplitRepeatsNothing
PROPERTY SeedLosesNothing
CHECK_DEADLOCK FALSE
