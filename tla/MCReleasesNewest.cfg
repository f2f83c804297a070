\* One client, two deployments whose ids sort against the order they are made
\* in: a rollback takes the wrong one.
SPECIFICATION Spec
CONSTANTS
    c1 = c1
    c2 = c2
    i1 = i1
    i2 = i2
    Deployment = {1, 2}
    Client = {c1}
    Image = {i1}
    NoImage = NoImage
    MaxRevision = 2
PROPERTIES
    RollsBackNewest
