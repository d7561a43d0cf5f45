SPECIFICATION Spec
CONSTANTS
  h1 = h1  h2 = h2  h3 = h3  a1 = a1  a2 = a2  file = file  other = other
  Humans = {h1, h2, h3}
  Agents = {a1, a2}
  Docs = {file}
  Covers <- MCCovers
  Ttls = {1, 2}
  MaxNow = 1
  MaxWarrants = 3
  MaxGrants = 2
SYMMETRY Symmetry
INVARIANTS SharesAreTrue
CHECK_DEADLOCK FALSE
