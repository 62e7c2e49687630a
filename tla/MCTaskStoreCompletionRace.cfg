SPECIFICATION Spec
CONSTANTS
    Null = Null
    p1 = p1
    p2 = p2
    t1 = t1
    t2 = t2
    s1 = s1
    s2 = s2
    open = open
    doing = doing
    closed = closed
    Projects = {p1, p2}
    Tasks = {t1, t2}
    Subtasks = {s1, s2}
    Statuses = {open, closed}
    Handlers = {h1, h2}
    Ops <- UpdateAndSubCreate
    Seeds <- SeedsParent
    Seqs <- Numbers
    MaxRequests = 2
SYMMETRY HandlerSymmetry
INVARIANTS
    TerminalParentAllDone
