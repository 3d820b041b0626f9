SPECIFICATION Spec
CONSTANTS
    Units = {api, job}
    Pgids = {g1}
    Callers = {c1}
    RemainAfterExit = {job}
    Exclusive = TRUE
    NoUnit = NoUnit
    NoPgid = NoPgid
SYMMETRY PgidSymmetry
INVARIANTS
    NoOrphanService
