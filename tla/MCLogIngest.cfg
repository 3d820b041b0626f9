SPECIFICATION Spec
CONSTANTS
    s1 = s1
    s2 = s2
    r1 = r1
    r2 = r2
    Sources = {s1}
    Runs = {r1}
    RunOf <- MCRunOf
    Blank <- MCBlank
    MaxLines = 2
    MaxGen = 1
    Cutoffs = {0}
    NoUpdate = NoUpdate
    NoSource = NoSource
INVARIANTS
    NoDuplicateLines
    
    SeqFollowsFile
