SPECIFICATION MCSpec
CONSTANTS
  Clients = {"c1", "c2"}
  Workers = {"w1", "w2"}
  Accepting = {"w1"}
  Scenarios <- MCScenarios
  MaxTrouble = 1
  EnvSize = 8
  BlockSize = 4
  Names = {"a", "ethaddr"}
  Protected = {"ethaddr"}
  Values = {1, 3}
  Partitions = {"firmware", "rootfs"}
  PartBlocks = 2
  Images <- MCImages
INVARIANTS
  AnsweredOnce
  MemoryOwned
  LocksReturned
  SuccessIsServed
  EnvSound
  FirmwareInPlace
PROPERTIES
  CallsReturn
