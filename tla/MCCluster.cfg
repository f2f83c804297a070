SPECIFICATION FairSpec
CONSTANTS
    AppEnv = {e1}
    Build = {b1}
    Pinned = {p1, p2}
    Bare = {d1}
    Written = {p2, d1}
    NoImage = NoImage
    NoName = NoName
    MaxChanges = 1
    MaxFaults = 1
INVARIANTS
    TypeOK
    OnlyPinnedRuns
    ImagesAreReleased
    TokenOutlivesClone
PROPERTIES
    PhasesGoForward
    PinnedImageRuns
    TokensGo
