CONSTANTS
  MaxChild = 2
  MaxHandles = 1
  PipeCap = 1
  MaxWrite = 2
  Specs <- MCSpecs
  NoChild = NoChild
  Path = {p, q}
  MaxFsHandles = 2
  MaxFiles = 2
  MaxLen = 3
  Chunk = 2
  Texts <- MCTexts
  OpenFlags <- MCOpenFlags
  Seeks <- MCSeeks
  MaxNetHandles = 1
  HandleSpacing = 1
  SendCap = 1
  MaxSend = 2
  MaxAddresses = 2
  PollSets <- MCPollSets
  NoSocket = NoSocket
SPECIFICATION RuntimeSpec
INVARIANTS
  ChildrenAccounted
  OutputIsComplete
  HandlesPartition
  OnlyAskedTimeouts
PROPERTIES
  RefusedOpensNothing
  ReadsLines
  CallsReturn
CHECK_DEADLOCK FALSE
