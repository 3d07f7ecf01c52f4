SPECIFICATION Spec
CONSTANTS
    Shows <- FrameShows
    TakesOf <- FrameTakes
    Dark = {"faded"}
    Calibrate <- SharedFit
    Geometries = {"near", "far"}
    Recipes = {"rgbi", "rgb"}
    Infrared = {"rgbi"}
    None = None
    Altered = Altered
    NoPlan = NoPlan
    Selections = {{1}, {1, 2}}
    Overrides = {{}, {1, 2}}
    NFrames = 2
    MaxInterrupts = 1
    MaxTampers = 1
INVARIANTS
    TypeOK
    PlanReadable
    PlanIsTrue
PROPERTIES
    KeepsPlanContract
    RollCompletes
