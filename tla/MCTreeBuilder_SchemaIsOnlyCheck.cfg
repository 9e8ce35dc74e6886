CONSTANTS
  None = None
  NoKids = NoKids
  t1 = t1
  t2 = t2
  t3 = t3
  rb = rb
  rx = rx
  d1 = d1
  d2 = d2
  d3 = d3
  ExtOf = ExtOf
  Items <- MCItems
  Tuples <- MCTuples
  PropsOf <- MCPropsOf
  DictIds <- MCDictIds
  KidsOf <- MCKidsOf
  Segs <- MCSegs
  Rank <- MCRank
  Args <- MCArgs
  Literals <- MCLiterals
  MaxBuilds = 2
SPECIFICATION Spec

CHECK_DEADLOCK FALSE
INVARIANT
  SchemaIsOnlyCheck
