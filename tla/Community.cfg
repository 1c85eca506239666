SPECIFICATION RunSpec
CONSTANTS
  worker = worker
  human = human
  judge = judge
  Nobody = Nobody
  Workers <- MCWorkers
  Bench <- MCBench
  Humans = {human}
  Charters <- MCCharters
  FenceTrips = 1
  FenceTimeouts = 1
  MaxActs = 2
  MaxPosts = 2
  MaxCases = 1
  MaxPresses = 2
  MaxKills = 1
INVARIANTS
  EndsForItsReason
PROPERTIES
  ReplayIsAPrefix EveryRunEnds
CHECK_DEADLOCK FALSE
