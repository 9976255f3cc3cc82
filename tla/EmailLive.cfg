CONSTANTS
    p1 = p1
    p2 = p2
    Procs = {p1}
    MaxMail = 2
    Mailboxes <- MCLast
    Batch = 2
    QueueSize = 1
    InqSize = 1
    MaxManual = 1
    MaxSends = 0
    MaxOps = 1
    k = k
    o1 = o1
    o2 = o2
    o3 = o3
    o4 = o4
    None = None
    Keeper = k
    Clients = {p2}
    Objects = {o1}
    MaxFailures = 0
SPECIFICATION LiveSpec
CHECK_DEADLOCK FALSE
PROPERTIES
    Imported
    Requested
