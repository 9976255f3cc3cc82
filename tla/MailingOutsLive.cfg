CONSTANTS
    m1 = m1
    m2 = m2
    m3 = m3
    m4 = m4
    r1 = r1
    r2 = r2
    a1 = a1
    a2 = a2
    u1 = u1
    Recipients <- MCRecipients
    Accounts <- MCAccounts
    Users = {u1}
    MailingOwner <- MCMailingOwner
    AccountOwner <- MCAccountOwner
    MainAccounts <- MCMain
    Mailings = {m1, m2}
    Initial = {m1}
    MaxOps = 2
SPECIFICATION FairSpec
CHECK_DEADLOCK FALSE
INVARIANTS
    RecordCannotRaise
PROPERTIES
    Drains
