SPECIFICATION SpecExit
CONSTANTS
  NoAgent = NoAgent
  Agents = {root, first, second}
  Root = root
  MaxDepth = 2
  Kinds = {message, interrupt}
  MaxRuns = 2
  MaxRestarts = 1
  MaxAsks = 1
  MaxDeclared = 1
SYMMETRY Alike
INVARIANTS
  ParentsSeeTheirChildren DebtsOutliveTheDebtor
PROPERTIES
  OnlyDelegationOpens
CHECK_DEADLOCK FALSE
