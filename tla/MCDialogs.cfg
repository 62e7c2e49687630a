SPECIFICATION Spec
CONSTANTS
    Sheets = {1, 2}
    Scalars = {"description"}
    Texts = {"x", "y"}
    TagCodes = {"g1"}
    Urls = {"u1", "u2"}
    LinkNames = {"a"}
    MaxLinks = 2
    MaxSaves = 1
    MaxOthers = 1
    MaxSecs = 2
    MaxTurns = 1
    MaxStarts = 1
    Absent = absent
    Plans = {p1, p2}
    Words = {"x", "y"}
    Empty = ""
    Steps = {s1, s2}
    Chips = {c1}
    MaxStrokes = 6
    MaxReforms = 1
    Away = away
    Batch = {t1, t2}
    Stages = {todo, done}
    Terminal = {done}
    Assignees = {ann, none}
    NoAssignee = none
    LabelCodes = {l1, l2}
    MaxPresses = 6
    MaxIntrusions = 1
    Undefined = undef
    ann = ann
    annlee = annlee
    Accounts = {ann, annlee}
    Me = ann
    Places = {p1, p2}
    Kinds = {"task_created", "assigned", "status_changed", "mentioned"}
    Alike <- AlikeMC
    Limit = 1
    MaxChanges = 2
    MaxDoings = 3
    Nobody = nobody
INVARIANTS
    TypeOK
    OwnEditsInHistory
    DraftIsWhatWasTyped
    ToldOnce
    BellIsRight
PROPERTIES
    EntryExplainsEdit
    BulkAsConfirmed
CHECK_DEADLOCK FALSE
