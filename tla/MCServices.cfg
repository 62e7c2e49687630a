SPECIFICATION Spec
CONSTANTS
    Users = {1, 2, 3}
    Founders = {1, 2}
    Roles = {"admin", "member"}
    Projects = {p1}
    Ghost = ghost
    Googles = {g1}
    Handlers = {h1}
    MaxServed = 3
    Null = null
    People = {ann, bob}
    Me = ann
    Areas = {p1}
    Names = {n1}
    Rows = {r1, r2}
    Referrers = {"task", "subtask"}
    Workers = {w1}
    MaxAsked = 2
    MaxTasks = 1
    Nobody = nobody
    Codes = {c1, c2, c3}
    Hands = {h1, h2}
    Marks = {m1, m2}
    Depts = {d1}
    Items = {t1}
    MaxRequests = 2
    MaxPlacings = 3
    None = none
    Folk = {ann, bob, cal}
    TenantAdmins = {cal}
    ReadOnlys = {}
    Leads = {bob}
    Viewer = ann
    ViewIds = {v1, v2}
    Configs = {f1, f2}
    Desks = {k1}
    MaxViewCalls = 3
    NoView = noview
    Ends = {t1, t2, t3}
    Typists = {w1}
    MaxRelCalls = 3
    NoEnd = noend
    Seen = {t1, t2, t3}
    Tabs = {b1, b2}
    Limit = 2
    MaxSights = 4
    Pieces = {s1, s2, s3}
    Clerks = {k1, k2}
    Parents = {a1, a2}
    MaxPieceCalls = 3
    MaxSwitches = 1
INVARIANTS
    TypeOK
    SomeActiveAdmin
    ListedSurvive
    OwnChangesShow
    OrdersDistinct
    FlagTrail
    SubtasksInOrder
PROPERTIES
    ReturnsAsLeft
    ViewsChangeByRight
    TrimsTheOldest
CHECK_DEADLOCK FALSE
