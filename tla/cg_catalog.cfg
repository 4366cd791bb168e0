CONSTANTS
  Nodes = {n1}
  Walkers = {w1}
  Hotels <- MCHotels
  Wanted <- MCWanted
  Roomy <- MCRoomy
  Furnished <- MCFurnished
  Destinations <- MCDestinations
  DestinationOf <- MCDestinationOf
  Stamps <- MCStamps
  Batch = 1
  Limit = 1
  MaxFaults = 2
  None = None
SPECIFICATION FairSpec
CHECK_DEADLOCK FALSE
INVARIANTS
  ShownOnce
  SteadyShown
  FetchComplete
PROPERTY
  HotelsArrive
