CONSTANTS
  None = None
  ExtOf <- MCExtOf
  Nodes <- MCNodes
  Root = "r"
  Children <- MCChildren
  Overrides <- MCOverrides
  Segs <- MCSegs
  MaxDepth = 4
  Flags <- MCFlags
  Envs <- MCEnvs
  Archs <- MCArchs
  Entries = {"cpus"}
  EntryValues = {9}
  MaxMutations = 1
SPECIFICATION CallerSpec
INVARIANT
  TreeObjectsUnchanged
