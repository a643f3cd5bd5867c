SPECIFICATION FairSpec
CONSTANTS
    a = a
    b = b
    Holders = {a, b}
    NoHolder = NoHolder
    Canvas = Canvas
    SceneRef = TRUE
    RemovalsOverlap = FALSE
    Guard <- SceneGuard
    ContextMutex = "data"
    Lookups = {"transition", "enum_sources"}
INVARIANTS TypeOK Counted DestroyedOnce NoUseAfterFree ControlOutlives
PROPERTY Reclaimed
CHECK_DEADLOCK FALSE
