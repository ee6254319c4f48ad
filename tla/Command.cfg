SPECIFICATION Spec
CONSTANTS
  Absent = Absent
  Blank = Blank
  Padding = Padding
  Words = Words
  Long = Long
  PaddedFive = PaddedFive
  CommandLines <- MCCommandLines
  Scenarios <- MCScenarios
  Databases <- MCDatabases
  Configs <- MCConfigs
  Profiles <- MCProfiles
INVARIANTS
  TypeOK
  ValidPlusAreUnambiguous
  FillsOnlyEmpty
  ExitZeroMeansImportable
  ReportsAddUp
  RefusedBeforeContact
  SentAsRecorded
  AcceptedStaysAccepted
CHECK_DEADLOCK FALSE
