\* One client, one deployment: a failed apply is not tried again.
SPECIFICATION FairSpec
CONSTANTS
    c1 = c1
    c2 = c2
    i1 = i1
    i2 = i2
    Deployment = {1}
    Client = {c1}
    Image = {i1}
    NoImage = NoImage
    MaxRevision = 1
PROPERTIES
    DeployConverges
