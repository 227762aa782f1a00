CONSTANTS
    s1 = s1
    s2 = s2
    p1 = p1
    p2 = p2
    p3 = p3
    Slugs = {s1, s2}
    Bodies = {a, b}
    NoBody = NoBody
    NoFile = NoFile
    Broken = Broken
    Editors = {e}
    Paths = {p1, p3}
    SlugOf <- MCSlugOf
    MaxEdits = 1
    MaxPushes = 1
    MaxFaults = 0
SPECIFICATION SafeSpec
PROPERTY PersonsPagesAreKept
CHECK_DEADLOCK FALSE
