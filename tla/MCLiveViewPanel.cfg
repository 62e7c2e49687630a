SPECIFICATION Spec
CONSTANTS
    Tasks = {a, b}
    MaxWrites = 2
    Null = Null
INVARIANT CommentsCurrent
