SPECIFICATION Spec
CONSTANTS
    Email = {e1, e2}
    Password = {p1, p2}
    Token = {t1, t2}
    Ip = {ip1}
    BadIp = BadIp
    Call = {c1, c2}
    Limit = 2
    Random = Random
SYMMETRY Symmetry
INVARIANTS
    ResetIsSingleUse
