SPECIFICATION Spec
CONSTANTS
    pa = pa
    pb = pb
    j1 = j1
    j2 = j2
    k1 = k1
    r1 = r1
    a1 = a1
    a2 = a2
    b1 = b1
    b2 = b2
    f1 = f1
    f2 = f2
    g1 = g1
    n1 = n1
    n2 = n2
    nn = nn
    u1 = u1
    u2 = u2
    Sites = {pa, pb}
    Jobs = {j1, j2}
    Pieces = {k1}
    Remarks = {r1}
    Staff = {a1, a2, b1, b2}
    Badges = {f1, f2, g1}
    Titles = {n1, n2, nn}
    Nameless = nn
    Patrons = {u1, u2}
    Actor = u1
    StageLabel <- Labels
    InitialStage <- First
    MoveSeeds <- MoveSeedsMC
    MaxTouches = 1
    MaxAsks = 2
    Blank = blank
    Refused = refused
    c1 = c1
    c2 = c2
    c3 = c3
    todo = todo
    shut = shut
    red = red
    ana = ana
    bob = bob
    none = none
    Cards = {c1, c2, c3}
    Facets = {"status", "flag", "assignee"}
    FromMaster = {"status"}
    TriState = {"status", "flag"}
    Options <- OptionsMC
    Carries <- CarriesMC
    Finished = {shut}
    DayOf <- DayMC
    Spans = {{1}}
    MaxPicks = 3
    Unset = unset
    num = num
    content = content
    description = description
    Cols = {num,content,description}
    DefaultColumnOrder <- OrderMC
    DefaultHidden = {description}
    Widths = {20,2000}
    MinWidth = 48
    MaxWidth = 1000
    Sifts = {s1}
    s1 = s1
    Never = never
    Views = {1,2,3}
    Published <- PublishedMC
    MaxActs = 3
    Nil = nil
    Seqs = {1, 2}
    MaxClicks = 3
    MaxNews = 1
    Null = null
    Tickets = {1, 2}
    Lanes = {la, lb, lz}
    la = la
    lb = lb
    lz = lz
    ClosedLanes = {lz}
    Persons = {pp}
    pp = pp
    Plans <- PlansMC
    Dependencies <- DependenciesMC
    FirstRows <- FirstRowsMC
    Today = 9
    MaxGestures = 3
    MaxOutside = 1
    Nobody = nobody
INVARIANTS
    TypeOK
    RefersHome
    NeverBoth
    LinkShowsTheSame
    LinksLeaveMine
    FirstVisitOpens
    ChartsShowTheStore
PROPERTIES
    PanelStaysOpen
    LossesWereShown
CHECK_DEADLOCK FALSE
