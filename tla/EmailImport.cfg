CONSTANTS
    p1 = p1
    p2 = p2
    Procs = {p1, p2}
    MaxMail = 2
    Mailboxes <- MCTicketText
    Batch = 2
    QueueSize = 1
    InqSize = 1
    MaxManual = 1
    MaxSends = 2
    MaxOps = 1
    k = k
    o1 = o1
    o2 = o2
    o3 = o3
    o4 = o4
    None = None
    Keeper = k
    Clients = {p1, p2}
    Objects = {o1, o2, o3, o4}
    MaxFailures = 2
SPECIFICATION MCSpec
SYMMETRY Symmetric
CHECK_DEADLOCK FALSE
INVARIANTS
    Passed
    RowsSound
    Exclusive
PROPERTIES
    Locking
