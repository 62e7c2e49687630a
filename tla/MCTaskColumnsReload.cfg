SPECIFICATION ColumnsSpec
CONSTANTS
    num = num
    content = content
    description = description
    Cols = {num,content,description}
    DefaultColumnOrder <- OrderMC
    DefaultHidden = {description}
    Widths = {20,2000}
    MinWidth = 48
    MaxWidth = 1000
    Sifts = {s1}
    s1 = s1
    Never = never
    Views = {1,2,3}
    Published <- PublishedMC
    MaxActs = 4
    Nil = nil
INVARIANTS
    ViewSurvivesReload
CHECK_DEADLOCK FALSE
