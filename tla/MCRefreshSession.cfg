SPECIFICATION Spec
CONSTANTS
    Null = Null
    Tabs = {a, b}
    Grace = 2
    TTL = 3
    Delay = 1
    MaxTime = 4
    MaxTokens = 3
SYMMETRY TabSymmetry
INVARIANTS
    NoFalseAlarm
    AtRestUsable
