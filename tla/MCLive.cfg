SPECIFICATION FairLive
CONSTANTS
  a1 = a1  a2 = a2  a3 = a3  h1 = h1  h2 = h2
  w1 = w1  w2 = w2  w3 = w3
  Nobody = Nobody  NoAgent = NoAgent  NoBoard = NoBoard
  Agents = {a1, a2}
  Humans = {h1, h2}
  Orchestrator = h2
  Owner <- MCOwner
  Lines = {"turn.completed", "garbage", "reasoning started"}
  RING = 2
  Replayed = 1
  BoardRows = 2
  Rows = 4
  MaxPublished = 2
  MaxTroubles = 2
  MaxSignIns = 2
  MaxAnswers = 2
  Panes = {a1, a2}
  Watchers = {w1, w2, w3}
  WatchedBy <- MCWatchedBy
  MaxWrites = 2
  MaxBreaks = 1
  MaxFetches = 1
  Chats = {a1, a2}
  AtFirst = {{a1}, {a1, a2}}
  MaxSends = 1
  MaxClicks = 2
  MaxOps = 1
  MaxFailures = 1
  InOrder = TRUE
  Workers = {a1, a2, a3}
  Mine = {a1, a2}
  Failing = {a3}
  MaxPresses = 2
  MaxComments = 1
  MaxFails = 1
  MaxBoards = 1
  MaxAsks = 1
INVARIANT RunShownIsSelected
PROPERTIES RowsOfOthersComeLate PageCatchesUp 
CHECK_DEADLOCK FALSE
