CONSTANTS
  MaxGen = 2
  MaxStops = 1
  MaxReq = 1
SPECIFICATION FairSpec
PROPERTIES
  SupersededUnwinds
