CONSTANTS
  MaxNetHandles = 2
  HandleSpacing = 1
  SendCap = 1
  MaxSend = 1
  MaxAddresses = 1
  PollSets = {}
  NoSocket = NoSocket
SPECIFICATION NetSpec
INVARIANT
  DisjointTables
CHECK_DEADLOCK FALSE
