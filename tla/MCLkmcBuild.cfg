CONSTANTS
  None = None
  NoKids = NoKids
  ExtOf = ExtOf
  Items <- MCLkmcItems
  Tuples <- MCLkmcTuples
  PropsOf <- MCLkmcPropsOf
  DictIds <- MCLkmcDictIds
  KidsOf <- MCLkmcKidsOf
  Segs <- MCLkmcSegs
  Rank <- MCLkmcRank
  Args <- MCLkmcArgs
  Literals <- MCLkmcLiterals
  MaxBuilds = 1
SPECIFICATION Spec
CHECK_DEADLOCK FALSE
INVARIANTS
  RealTreeBuilt
PROPERTIES
  CallReturns
