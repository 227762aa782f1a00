CONSTANTS
    s1 = s1
    s2 = s2
    p1 = p1
    p2 = p2
    p3 = p3
    Slugs = {s1, s2}
    Bodies = {a, b}
    NoBody = NoBody
    NoFile = NoFile
    Broken = Broken
    Editors = {e}
    Paths = {p1, p2, p3}
    SlugOf <- MCSlugOf
    MaxEdits = 2
    MaxPushes = 2
    MaxFaults = 1
SPECIFICATION Spec
INVARIANT OwnPagesAreKnown
PROPERTIES StrangersAreAsked SyncCatchesUp
CHECK_DEADLOCK FALSE
