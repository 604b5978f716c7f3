SPECIFICATION Spec
CONSTANTS
    MaxThreads = 3
    NumChannels = 3
    MaxGroups = 2
    Failures = {"buffers", "thread"}
    Retries = FALSE
CHECK_DEADLOCK FALSE
INVARIANTS
    RenderingIsSafe
    NoThreadLeft
PROPERTIES
    CallsReturn
    ImplementsRenderCall
