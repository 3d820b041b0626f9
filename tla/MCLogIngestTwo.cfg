SPECIFICATION Spec
CONSTANTS
    s1 = s1
    s2 = s2
    r1 = r1
    r2 = r2
    Sources = {s1, s2}
    Runs = {r1, r2}
    RunOf <- MCRunOf
    Blank = {}
    MaxLines = 1
    MaxGen = 0
    Cutoffs = {0, 2}
    NoUpdate = NoUpdate
    NoSource = NoSource
PROPERTIES
    LinesStayIndexed
