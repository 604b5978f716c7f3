SPECIFICATION FairSpec
CONSTANTS
  Keys = {1}
  Values = {"a"}
  None = None
  ModuleData <- OneKey
  SandboxData <- OneKey
  QuietKeys = {1}
  Edits <- OneEdit
  Imports <- OneEdit
  AudioFails = TRUE
  VersionKey = 1
  GridKey = 1
  AuKeys = {1}
  Starts = {"sandbox", "load"}
  MaxActions = 1
  CloseWhileBusy = TRUE
  Interrupts = TRUE
PROPERTIES PendingIsConfirmed JobsEnd EndsAreNoticed
