\* Two clients, one deployment, up to four revisions of two images.
SPECIFICATION Spec
SYMMETRY ClientsAndImages
CONSTANTS
    c1 = c1
    c2 = c2
    i1 = i1
    i2 = i2
    Deployment = {1}
    Client = {c1, c2}
    Image = {i1, i2}
    NoImage = NoImage
    MaxRevision = 4
INVARIANTS
    OnlyApprovedIsSent
PROPERTIES
    KeepsLog
