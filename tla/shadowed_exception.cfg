SPECIFICATION Spec
CONSTANTS
  t = t
  Terms <- MCTerms
  NoTerm = NoTerm
  Documents <- MCOneDocument
  MaxDepth = 2
  MaxExtractions = 1
INVARIANT LinkedExceptionsListed
CHECK_DEADLOCK FALSE
