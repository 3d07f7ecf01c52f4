SPECIFICATION Spec
CONSTANTS
    Films <- TheFilms
    Readings <- TheReadings
    Feeds <- TheFeeds
    Distance <- BitsApart
    Blank = 0
    Pitch = 150
    SlotCapacity = 40
    Height = 1900
    Page <- ThePage
    Acted = {1, 5}
    Offsets = {0, 3}
    Ports = {p1, p2}
    None = None
    MaxPreviews = 2
    MaxJobs = 1
    MaxDisturbances = 1
ACTION_CONSTRAINT Followed
SYMMETRY PortSymmetry
CHECK_DEADLOCK FALSE
INVARIANT BindingHolds
