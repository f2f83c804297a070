\* The pod writes its digest the way DigestFromRegistryHeader returns it.
SPECIFICATION FairSpec
CONSTANTS
    AppEnv = {e1}
    Build = {b1}
    Pinned = {p1}
    Bare = {d1}
    Written = {d1}
    NoImage = NoImage
    NoName = NoName
    MaxChanges = 1
    MaxFaults = 0
PROPERTIES
    BackfillRollsOut
