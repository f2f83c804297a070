SPECIFICATION PartSpec
CONSTANTS
    Email = {e1, e2}
    Password = {p1, p2}
    Token = {t1, t2}
    Ip = {ip1}
    BadIp = BadIp
    Call = {c1, c2}
    Limit = 2
    Random = Random
    User = {u1, u2}
    Person = {u1}
    Admin = u2
    Org = {t1, t2}
    ApiToken = {k1}
    Client = {c1, c2}
    Nil = Nil
    Owner = {e1, e2}
    State = {t1, t2}
    Worker = {c1, c2}
    None = None
    App = {e1, e2, a3}
    Name = {p1, p2, n3}
    Child = {child}
    Task = {c1, c2}
    Free = Free
    MaxApps = 1
    MaxChildren = 1
    Kind = {mongodb}
    Host = {custom, generated}
    Default = {generated}
    Secret = {secret}
    Value = {p1, p2}
    Job = {c1, c2}
    Void = Void
    MaxSets = 2
    Deployer = {c1, c2}
    Retention = 2
    MaxTime = 4
    Request = {c1, c2}
    Capacity = 2
    Unit = 2
    Rate = 1
    Slots = 1
    LastInstant = 3
    NoInstant = NoInstant
    Cell = {e1, e2, a3}
    Fallback = {e1, e2}
    Tenant = {t1, t2}
    NoCell = NoCell
    Delivery = {t1, t2}
    Pull = {pr}
    Serving = {c1, c2}
    Ttl = 1
    EndOfTime = 3
    Blank = Blank
    Stage = {e1, e2}
    Pw = {k1, p1, p2}
    Target = Target
    Absent = Absent
    Dir = {e1, e2, a3}
    Shared = {a3}
    Root = Root
    Traits = {{}, {"package.json", "entry", "next", "EXPOSE"}, {"go.mod", "*.go"},
              {"pyproject.toml", "scripts"}, {"pyproject.toml", "scripts", "fastapi"}}
    Mention = {"dependency"}
    Unset = Unset
    Tenants = {t1, t2}
    Extra = {h1}
    NoLabel = NoLabel
    Top = 3
    StepCount = 3
    Usage = 600
    Unasked = Unasked
SYMMETRY Symmetry
INVARIANTS
    TypesOK
    SessionsAreProven
    SignupsAreBounded
    TokenOwnersAreMembers
    
    StateBindsOnce
    QuotaIsNearlyKept
    OneBinding
    VerifiedIsProven
    LiveIsNewest
    ServesWhatWasVerified
    PurgeComesLast
    BudgetsAreKept
    InjectedIsCurrent
    AnalyzedIsDeployable
    TenantsAreSeparate
    RollbackTargetIsRight
    ReportsAreRight
    FiguresAreRight
    RequestsAreAnswered
PROPERTIES
    ConsumedIsDead
    OnlyResetsChangePasswords
    RolesAreGranted
    RoutesAreStable
    DeliveriesActOnce
