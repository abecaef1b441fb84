SPECIFICATION FairSpec
CONSTANTS
  d1 = d1
  d2 = d2
  d3 = d3
  Names = {"nvme1", "nvme10"}
  Begins <- MCBegins
  Rank <- MCRank
  Drives = {d1, d2, d3}
  Unnamed = {d3}
  Mute = {d2}
  NSIDs = {1, 2}
  Arrays = {3, 4}
  States = {"live", "dead"}
  NumCPU = 1
  InitialHosts <- MCHosts
  MaxRequests = 2
  MaxTroubles = 2
INVARIANTS
  DiscoveredMatchesHost
  StateWasTrue
  NamespacesMatchHost
  MembershipWasTrue
  InfoIsOfOneDrive
  
  RefusalIsItsOwn
PROPERTIES
  EveryRequestAnswered
