SPECIFICATION Spec
CONSTANTS
  LowerOf <- MCLowerOf
  SubdomainOf <- MCSubdomainOf
  SegmentPrefix <- MCSegmentPrefix
  Credential <- MCCredential
  Sessions <- OneSession
  RootOf <- OneRoot
  Descends <- NoPairs
  Ops <- ConsentOps
  Secrets = {"GH_TOKEN"}
  Addrs = {"a"}
  Rules = {"expired"}
  DeskGrants <- ConsentDesk
  PlanPatterns <- None0
  Egress = "proxy"
  PinOffers = TRUE
  CacheTtl = 2
  EgressTtl = 1
  SecretTtl = 2
  PatternTtl = 2
  PatternUses = 1
  PendingTtl = 1
  MaxPending = 1
  DispatchIds = {TRUE}
  PromptDispatch = TRUE
  MaxCalls = 2
  MaxGrants = 3
  MaxTime = 2
INVARIANTS
  BudgetHolds
  RevocationReachesCache
  CacheIsTheApprovals
PROPERTY
  RunsUnderItsGrant
CHECK_DEADLOCK FALSE
