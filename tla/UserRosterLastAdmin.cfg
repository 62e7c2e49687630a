SPECIFICATION RosterSpec
CONSTANTS
    Users = {1, 2}
    Founders = {1, 2}
    Roles = {"admin", "member"}
    Projects = {p1}
    Ghost = ghost
    Googles = {}
    Handlers = {h1, h2}
    MaxServed = 2
    Null = null
INVARIANTS
    SomeActiveAdmin
CHECK_DEADLOCK FALSE
