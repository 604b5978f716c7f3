SPECIFICATION Spec
CONSTANTS
  Keys = {1, 2, 3}
  Values = {"a", "b"}
  None = None
  ModuleData <- MCData
  SandboxData <- MCSandbox
  QuietKeys = {2}
  Edits <- MCEdits
  Imports <- MCImports
  AudioFails = FALSE
  VersionKey = 1
  GridKey = 2
  AuKeys = {3}
  Starts = {"load", "sandbox"}
  MaxActions = 2
  CloseWhileBusy = TRUE
  Interrupts = TRUE
INVARIANTS ProcessesAgree SavedFileIsSound QuietIsUsable
PROPERTY ImplementsReplica
