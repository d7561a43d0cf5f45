SPECIFICATION MergeSpec
CONSTANTS
  Line = {"", "a", "b", "## A", "## B"}
  Blank = ""
  Body = {"", "a", "b"}
  A = "## A"
  B = "## B"
  Level <- MCLevel
  MaxLines = 3
INVARIANTS CleanMergeIsBothEdits SectionsDoNotCollide BlameNamesTheWriter
