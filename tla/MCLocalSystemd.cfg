SPECIFICATION Spec
CONSTANTS
    Units = {api, job}
    Pgids = {g1, g2, g3}
    Callers = {c1, c2}
    RemainAfterExit = {job}
    Exclusive = TRUE
    NoUnit = NoUnit
    NoPgid = NoPgid
SYMMETRY PgidSymmetry
INVARIANTS
    UnitsAreRestorable
    OneHolder
    LiveShimIsHeld
    
