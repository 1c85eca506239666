SPECIFICATION Spec
CONSTANTS
  m1 = m1
  m2 = m2
  Horizon = 3
  CardTerm = 1
  Extension = 1
  MaxCards = 2
  HistoryCap = 2
  FreshRows = 1
  MaxFeed = 4
  MaxPolls = 2
  MaxPresses = 1
  Crew = {m1, m2}
  MaxLaunches = 3
  Torn = Torn
  Absent = Absent
  Inquiries <- MCInquiries
  ScanChunk = 2
  MaxActs = 5
  MaxPages = 3
  LineKinds = {"x", "y"}
  Blank = ""
  MaxLength = 3
  LineCap = 5
  Seed <- MCSeed
  NoFile = NoFile
  NotText = NotText
  FinalCap = 4
  MaxReports = 2
  Rosters <- MCRosters
  RunTags <- MCRunTags
  Dash = "-"
  MaxMembers = 8
  MaxHumans = 1
  Nobody = Nobody
  Tellers = {m1, m2}
  ReadLimit = 3
  ShowLimit = 2
  MaxPosts = 3
  MaxTurns = 4
  MaxDeeds = 1
  CallIds = {1, 2}
  MaxLog = 5
  Slices <- MCSlices
INVARIANTS
  SeatAndPageHold
  CutsAreKept
  ReadingsAreTheRecord
  DeedsAreTheirMembers
PROPERTIES
  WordsAreKept
  MembersKeepTheirKeys
CHECK_DEADLOCK FALSE
