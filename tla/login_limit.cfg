SPECIFICATION FairSpec
CONSTANTS
  k1 = k1
  k2 = k2
  h1 = h1
  h2 = h2
  h3 = h3
  Keys <- MCKeys
  Handlers <- MCHandlers
  Max = 2
  Window = 3
INVARIANTS
  TypeOK
  OverrunBounded
PROPERTIES
  LockoutNotExtended
  LockoutEnds
