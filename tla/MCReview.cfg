SPECIFICATION FairSpec
CONSTANTS
  a1 = a1  a2 = a2  h1 = h1  h2 = h2  None = None
  Agents = {a1, a2}
  Humans = {h1, h2}
  Reviewers = {h1}
  OwnerOf <- MCOwnerOf
  MaxRounds = 2
  MaxPerRun = 2
  MaxRaised = 1
  MaxComments = 2
  MaxEvents = 3
INVARIANT AgentFeedbackStaysVisible
PROPERTIES SettlingIsHuman 
CHECK_DEADLOCK FALSE
