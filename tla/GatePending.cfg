SPECIFICATION Spec
CONSTANTS
  LowerOf <- MCLowerOf
  SubdomainOf <- MCSubdomainOf
  SegmentPrefix <- MCSegmentPrefix
  Credential <- MCCredential
  Sessions <- OneSession
  RootOf <- OneRoot
  Descends <- NoPairs
  Ops <- PendingOps
  Secrets = {}
  Addrs = {"a"}
  Rules = {"expired", "read-only"}
  DeskGrants <- None0
  PlanPatterns <- PlanRows
  Egress = "open"
  PinOffers = FALSE
  CacheTtl = 2
  EgressTtl = 1
  SecretTtl = 2
  PatternTtl = 2
  PatternUses = 1
  PendingTtl = 1
  MaxPending = 1
  DispatchIds = {TRUE}
  PromptDispatch = FALSE
  MaxCalls = 3
  MaxGrants = 1
  MaxTime = 3
INVARIANT PendingIsExact
CHECK_DEADLOCK FALSE
