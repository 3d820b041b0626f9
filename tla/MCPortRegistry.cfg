SPECIFICATION Spec
CONSTANTS
    Ports = {p1, p2}
    h1 = h1
    h2 = h2
    d1 = d1
    d2 = d2
    e1 = e1
    a1 = a1
    a2 = a2
    b1 = b1
    Homes <- MCHomes
    Pids <- MCPids
    Owners <- MCOwners
    OwnerHome <- MCOwnerHome
    PidHome <- MCPidHome
    NoEntry = NoEntry
SYMMETRY PortSymmetry
INVARIANTS
    HeldExclusively
    HeldIsReserved
    NoOrphanReservation
PROPERTIES
    EntryIsStable
