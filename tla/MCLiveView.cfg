SPECIFICATION LiveSpec
CONSTANTS
    Tasks = {a, b}
    MaxWrites = 2
    Null = Null
INVARIANTS ListCurrent CommentsOfOpenTask
PROPERTY ListCatchesUp
