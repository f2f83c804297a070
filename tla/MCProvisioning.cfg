SPECIFICATION ProvisioningSpec
CONSTANTS
    Stage = {production, staging}
    Pw = {p1, p2, p3}
    Target = Target
    Absent = Absent
SYMMETRY Symmetry
CHECK_DEADLOCK FALSE
INVARIANTS
    ReadyBindingsAreInjected
