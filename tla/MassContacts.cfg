CONSTANTS
    r1 = r1
    r2 = r2
    r3 = r3
    a1 = a1
    a2 = a2
    a3 = a3
    u1 = u1
    u2 = u2
    c1 = c1
    c2 = c2
    c3 = c3
    OwnerAtStart <- MCOwner
    ManagerOf <- MCManager
    Recipients = {r1, r2}
    Accounts = {a1, a2, a3}
    AccountsAtStart = {a1, a2}
    MainAtStart = {a2}
    Users = {u1, u2}
    Contacts = {c1, c2}
    EmailsPerDay = 0
    MaxDay = 1
    MaxOps = 3
SPECIFICATION Spec
SYMMETRY Symmetric
CHECK_DEADLOCK FALSE
INVARIANTS
    QueueSound
    DailyLimit
PROPERTIES
    StaysOut
