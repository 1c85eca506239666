SPECIFICATION StoreSpec
CONSTANTS
  Grants = {"session", "secret"}
  Secrets = {"secret"}
  Fps = {"f", "k"}
  Covers <- MCCovers
  Routed = {"k"}
  Torn = Torn
  MaxCalls = 4
  MaxFaults = 2
INVARIANTS
  TargetLoads
  RevocationsSurvive
CHECK_DEADLOCK FALSE
