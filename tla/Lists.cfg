CONSTANTS
    m1 = m1
    m2 = m2
    so = so
    ch = ch
    d1 = d1
    d2 = d2
    c1 = c1
    t1 = t1
    x1 = x1
    Staff = {m1, m2, so, ch}
    Depts = {d1, d2}
    Groups <- MCGroups
    Member <- MCMember
    Rows0 <- MCRows
    Cities = {c1}
    Tags = {t1}
    Products = {x1}
    Sold <- MCSold
    MaxSaves = 1
    MaxPages = 2
    u1 = u1
    u2 = u2
    usd = usd
    eur = eur
    Clerks = {u1, u2}
    Currencies = {usd, eur}
    Marked <- AtFirst
    Quoted <- Listed
    MaxDay = 3
    MaxPayments = 2
    MaxRates = 3
    MaxPosts = 2
    MaxFailures = 1
SPECIFICATION MCSpec
CHECK_DEADLOCK FALSE
INVARIANTS
    ListsRight
PROPERTIES
    RatesKept
    Loaded
