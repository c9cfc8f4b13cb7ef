CONSTANTS
  c1 = c1  c2 = c2  c3 = c3  c4 = c4  c5 = c5
  Capability = {c1, c2, c3, c4, c5}
  rank <- MCRank
  base <- MCBase
  hashed <- MCHashed
  digits <- MCDigits
  None = None
SPECIFICATION Spec
CHECK_DEADLOCK FALSE
INVARIANTS
  NamesUnique
  ListedNamesWork

  
