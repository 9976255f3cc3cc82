CONSTANTS
    m1 = m1
    m2 = m2
    c1 = c1
    p1 = p1
    j1 = j1
    j2 = j2
    Managers = {m1, m2}
    Chiefs = {c1}
    Payments = {p1}
    MaxFlight = 2
    MaxPages = 1
    MaxOps = 3
    a = a
    c = c
    w = w
    Employees = {a, c, w}
    Teams <- Some
    Leaders = {c}
    Mailless = {w}
    Author = a
    Recipient = c
    Ids = {j1, j2}
    Budgets <- Requests
SPECIFICATION MCSpec
SYMMETRY Symmetric
CHECK_DEADLOCK FALSE
INVARIANTS
    DealSound
    
PROPERTIES
    DealKept
    EndsTold
