\* No build and no fault: two image deploys are enough.
SPECIFICATION Spec
CONSTANTS
    AppEnv = {e1}
    Build = {b1}
    Pinned = {p1, p2}
    Bare = {d1}
    Written = {d1}
    NoImage = NoImage
    NoName = NoName
    MaxChanges = 2
    MaxFaults = 0
PROPERTIES
    RendersIdempotently
