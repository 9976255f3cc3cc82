CONSTANTS
    r1 = r1
    r2 = r2
    u1 = u1
    u2 = u2
    c1 = c1
    c2 = c2
    Reqs = {r1}
    Companies = {c1}
    Users = {u1, u2}
    MaxId = 4
    MaxOps = 3
SPECIFICATION Spec
SYMMETRY Symmetric
CHECK_DEADLOCK FALSE

    
PROPERTIES
    NoNewDouble
    NothingVanishes
