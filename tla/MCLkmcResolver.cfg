CONSTANTS
  None = None
  NoResult = NoResult
  ExtOf <- MCLkmcExtOf
  Nodes <- LkmcNodes
  Root <- MCLkmcRoot
  Children <- LkmcChildren
  Overrides <- LkmcProps
  Segs <- MCLkmcSegs
  MaxDepth = 7
  Flags <- LkmcFlags
  Envs <- MCLkmcEnvs
  Paths <- MCLkmcPaths
  Paths <- [ResolverSpec] MCLkmcPaths
SPECIFICATION Spec
INVARIANTS
  ArchDirsGated
PROPERTIES
  ResolvesAsSpecified
