CONSTANTS
  None = None
  MaxActions = 3
  MaxPlayed = 4
  MoreActions = 4
  Width = 2
  UpperKeys = 2
  LowerKeys = 2
  Shared <- MCShared
  HitKeys <- MCHitKeys
  HitsThere = {0, 1, 2}
  Channels = {0, 1}
  TableIds = {0, 1}
  TemplateOctaves = {0, 1, 2}
  Cents = {0}
  MaxCustom = 2
  MaxOctaves = 4
  MaxNotes = 4
  MaxKeys = 3
  KeyboardBeginnings <- MCKeyboardBeginnings
  AllEvents = {"a", "b", "c", "call"}
  DefaultSource = "a"
  DefaultTested = "b"
  PreferredTarget = "call"
  Arguments = {"a", "b", "call"}
  Texts = {"x"}
  Offsets = {0, 1}
  MaxBindings = 3
  MaxRows = 2
  BindingBeginnings <- MCBindingBeginnings
  Names = {"A", "B"}
  Pitches = {0, 1}
  Params = {0, 1}
  NewName = "(n)"
  Default <- MCDefaultTable
  MaxTableNotes = 3
  TableBeginnings <- MCTableBeginnings
  Root = "root"
  Home = "home"
  HomeName = "home"
  Order <- MCOrder
  Hidden = {".h"}
  Modes = {"open", "open_mult", "save"}
  Typed = {"", "a", "c", "home"}
  Disks <- MCDisks
  WrittenKinds = {"kqt", "other"}
  MaxChanges = 2
  Paths <- MCPaths
  NameRank <- MCNameRank
  DirDisks <- MCDirDisks
  Starts <- MCStarts
  Colours = {"c1", "c2"}
  Values = {0, 1}
  DefaultValue <- MCDefaultValue
  Stock <- MCStock
  TypedNames <- MCTypedNames
  DirTexts = {"y"}
  Faults <- MCFaults
  ThemeBeginnings <- MCThemeBeginnings
  MaxStarts = 2
  ValueLevels = {0, 1, 2}
  StreamDevices = {"proc_00", "proc_01"}
  EventTyped = {"a"}
  StreamTyped = {"a", "var02"}
  ArgTypes = {"none", "int"}
  ArgExpressions = {"$", "x"}
  EventMaps <- MCEventMaps
  MaxEvents = 3
  VariableNames = {"a", "b", "c"}
  SongChannels = {0, 1, 2}
  Controls = {0, 1, 2}
  Expressions = {"", "x"}
  Songs <- MCSongs
  MaxVariables = 3
SPECIFICATION Spec
CHECK_DEADLOCK FALSE
INVARIANTS
  FailuresAreKnown
  
  NotesEnd
  DialogsFollowFiles
  SettingsSurvive
PROPERTIES
  DataIsAsMeant
  EditsLeaveOthers
