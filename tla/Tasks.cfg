CONSTANTS
    u1 = u1
    a = a
    b = b
    u2 = u2
    h1 = h1
    boss = boss
    s1 = s1
    s2 = s2
    s3 = s3
    Resp = {u1, u2}
    Helpers = {}
    Owner = boss
    Subs = {s1, s2}
    MaxFlight = 2
    MaxPages = 1
    MaxOps = 4
    Owners = {u1, u2}
    Teams = {a, b}
    MaxCompanies = 3
    MaxContacts = 3
    MaxEdits = 3
SPECIFICATION MCSpec
SYMMETRY Symmetric
CHECK_DEADLOCK FALSE
INVARIANTS
    TypeOK
    LastOneCloses
    NoneActive
    CompaniesSound
PROPERTIES
    MergeKeeps
