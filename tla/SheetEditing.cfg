\* Every gesture, in every order, up to MaxActions of them.
CONSTANTS
    None = None
    MaxPattern = 1
    MaxInstance = 1
    MaxColumn = 1
    MaxSystems = 2
    DefaultLength = 2
    Selects <- MCSelects
    Note = "n"
    RestEvent = "r"
    Entered = "a0"
    Arguments = {"a0", "a1"}
    Convert <- MCConvert
    Keys = {k1, k2}
    k1 = k1
    k2 = k2
    ChordMode = TRUE
    MaxActions = 4
    Gestures = {"type", "field", "move", "area", "history", "modes", "length", "album", "play", "click"}
    Beginnings <- MCBeginnings
SYMMETRY SymmetricKeys
SPECIFICATION Spec
CHECK_DEADLOCK FALSE
INVARIANTS
    HistoryIsSound
    HandlersSeeTheSheet
PROPERTIES
    ChangesAreSeen
    CutCanBePasted
