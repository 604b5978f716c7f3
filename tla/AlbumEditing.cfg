\* Every handler of the order list, in every order, up to MaxActions of them.
CONSTANTS
    None = None
    MaxSong = 2
    MaxPattern = 2
    MaxInstance = 1
    DefaultGrid = "g0"
    Grids = {"g0", "g1"}
    Impatient = FALSE
    MaxActions = 5
    Beginnings <- MCBeginnings
SPECIFICATION Spec
CHECK_DEADLOCK FALSE
INVARIANTS
    AlbumIsConsistent
    ListShowsAlbum
PROPERTIES
    ChangesKeepPatterns
