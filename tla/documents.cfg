SPECIFICATION MCSpec
CONSTANTS
  MaxElements = 8
  EnlargeSize = 4
  Requests <- MCRequests
  MaxTrouble = 1
  MaxTokens = 9
INVARIANTS
  TreeSound
  MemoryOwned
  HonestAnswer
  DescriptionSound
  AcceptsJson
  WrittenAsRead
  TreeOwned
PROPERTIES
  EveryJobEnds
  CallsEnd
