CONSTANTS
    u1 = u1
    u2 = u2
    d1 = d1
    d2 = d2
    d3 = d3
    Users = {u1, u2}
    Depts = {d1, d2, d3}
    Home <- MCHome
    Forms = {f1}
    Lists <- MCLists
    Owned <- MCOwned
    Addable <- MCAddable
    Adding <- MCAdding
    f1 = f1
    Movable = {u1}
    MaxOps = 3
    MaxFailures = 1
SPECIFICATION Spec
CHECK_DEADLOCK FALSE
INVARIANTS
    TransfersSound
    StagesFit
