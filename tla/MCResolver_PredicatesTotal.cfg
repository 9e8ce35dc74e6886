CONSTANTS
  None = None
  NoResult = NoResult
  ExtOf <- MCExtOf
  Nodes <- MCNodes
  Root = "r"
  Children <- MCChildren
  Overrides <- MCOverrides
  Segs <- MCSegs
  MaxDepth = 4
  Flags <- MCFlags
  Envs <- MCEnvs
SPECIFICATION Spec
INVARIANT PredicatesTotal
