CONSTANTS
    d1 = d1
    d2 = d2
    s1 = s1
    r1 = r1
    r2 = r2
    c1 = c1
    c2 = c2
    Stages = 3
    Sources = {s1}
    Reasons = {r1, r2}
    Countries = {c1, c2}
    Year = 4
    Lengths <- TwoThree
    Departments = {d1, d2}
    Forward <- Summer
    Back <- Winter
    LastMonth = 11
    MaxStops = 1
    u1 = u1
    u2 = u2
    f1 = f1
    f2 = f2
    Users = {u1, u2}
    Holder = u1
    Texts = {"", "a"}
    Paths = {f1, f2}
    Alike <- Names
    DealFiles = {f1}
    Inbox <- Came
    MaxTokens = 1
    MaxMails = 3
    MaxFiles = 5
    MaxClicks = 3
    MaxFailures = 1
SPECIFICATION MCSpec
CHECK_DEADLOCK FALSE
INVARIANTS
    FiguresAgree
    OutboxSound
PROPERTIES
    Snapshotted
    OutboxKept
