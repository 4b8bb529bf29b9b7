SPECIFICATION Spec
CONSTANTS
  Rcs = {r1, r2}
  JobFamilies <- MCJobFamilies
  MaxVer = 2
INVARIANTS
  GivesBackWhatItTook
  SingleInstance
  DaemonAsAsked
  FilesSound
PROPERTIES
  StartsOnFreshFiles
  JobsEnd
CHECK_DEADLOCK FALSE
