SPECIFICATION FairSpec
CONSTANTS
  None = None
  Docs = {d1, d2}
  MaxReads = 2
  MaxTexts = 3
  Seeds = 1
  MaxEvents = 3
INVARIANTS UnsavedIsFlagged
PROPERTIES SavesReplaceWhatWasSeen EditorCatchesUp
