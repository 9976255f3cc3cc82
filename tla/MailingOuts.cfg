CONSTANTS
    m1 = m1
    m2 = m2
    m3 = m3
    m4 = m4
    r1 = r1
    r2 = r2
    a1 = a1
    a2 = a2
    u1 = u1
    Recipients = {r1}
    Accounts = {a1}
    Users = {u1}
    MailingOwner <- MCMailingOwner
    AccountOwner <- MCAccountOwner
    MainAccounts = {}
    Mailings = {m1, m2, m3, m4}
    Initial = {m1, m2}
    MaxOps = 3
SPECIFICATION Spec
SYMMETRY NewIds
CONSTRAINT Undisturbed
CHECK_DEADLOCK FALSE
INVARIANTS
    TypeOK
    NothingLost
    AtMostOnce
PROPERTIES
    Delivered
    ExcludeWorks
