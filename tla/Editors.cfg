CONSTANTS
  None = None
  Near = 1
  MaxActions = 3
  MoreActions = 4
  Kinds <- MCKinds
  Pointers <- MCPointers
  HandleDist = 3
  RemoveDist = 4
  Far = 99
  Slots = {0, 1}
  MaxX = 3
  Rows = {"on"}
  Snap = 2
  Hits = {0, 1}
  MaxEntries = 2
  Freqs = {1, 2}
  Formats = {8, 16}
  ImportLength = 2
  Beginnings <- MCBeginnings
  Unit = 4
  Styles = {0, 1, 2}
  DefaultGrid <- MCDefault
  GridIds = {1, 2}
  Columns = {0, 1}
  GridRows = {0, 3, 6, 8}
  PatternLength = 8
  Areas <- MCAreas
  Lengths = {4, 8}
  Offsets = {0, 1}
  Spacings = {2, 6}
  PartCounts = {2, 3}
  Warps = {TRUE, FALSE}
  Pixels = {0, 5}
  Heights = {1, 4}
  GridBeginnings <- MCGridBeginnings
  ProcTypes <- MCTypes
  Impl <- MCImpl
  ParamUnit = 16
  CurveNear = 2
  Mappings <- MCMappings
  MaxNodes = 6
  Bases = {"Sine", "Saw"}
  PreWarps = {"Shift", "Scale"}
  PostWarps = {"Shift", "Clip"}
  Synths <- MCSynths
  MaxTones = 3
  MaxWarps = 3
  MaxLevels = 3
  ValueLevels = {0, 1, 2}
SPECIFICATION Spec
CHECK_DEADLOCK FALSE
INVARIANTS
  EditedDataIsSound
  ViewsShowData
PROPERTIES
  OthersStayAsTheyAre
