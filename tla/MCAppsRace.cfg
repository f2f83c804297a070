SPECIFICATION MakingSpec
CONSTANTS
    App = {a1, a2, a3}
    Name = {n1, n2, n3}
    Child = {child}
    Task = {c1}
    Free = Free
    MaxApps = 1
    MaxChildren = 1
SYMMETRY Symmetry
PROPERTIES
    RaceIsDue
